-------------------------- MODULE UnitOrdersProofs --------------------------
(***************************************************************************)
(* Proofs about UnitOrders: for any units, products, upgrades, prices and  *)
(* limits what is owed is what is queued, each upgrade is ordered once,    *)
(* limits are kept, the upgrade manager never throws and the faction has   *)
(* no debts.                                                               *)
(*                                                                         *)
(* The invariant is a predicate Good of the queues, the purse, the         *)
(* completed upgrades, the sites and the stock, so that it can be stated   *)
(* of what one operation of a queue leaves to the next: Left is the set of *)
(* the queues and purses of a unit that satisfy it, every operation leads  *)
(* from Left to Left, and so does a loop, by the lemmas of Induction.      *)
(***************************************************************************)
EXTENDS UnitOrders, Induction, FunctionTheorems, FiniteSetTheorems, SequenceTheorems, TLAPS

(* What is proved about the upgrade manager of the purse.                  *)
MP == INSTANCE UpgradeManagerProofs WITH manager <- purse.manager

-----------------------------------------------------------------------------
(* Counting orders *)

(* The places of an order in one queue.                                    *)
Here(order, q) == {i \in DOMAIN q : q[i].order = order}

(* The command queues of all units.                                        *)
Queues == [Unit -> Seq(Command)]

(* A queue holds an order finitely often.                                  *)
LEMMA HereFinite ==
  ASSUME NEW order, NEW q \in Seq(Command)
  PROVE  /\ IsFiniteSet(Here(order, q))
         /\ Cardinality(Here(order, q)) \in Nat
         /\ Here(order, q) \subseteq 1 .. Len(q)
<1>1. Here(order, q) \subseteq 1 .. Len(q) /\ Len(q) \in Nat
  BY DEF Here
<1>2. IsFiniteSet(1 .. Len(q))
  BY <1>1, FS_Interval
<1>3. IsFiniteSet(Here(order, q))
  BY <1>1, <1>2, FS_Subset
<1> QED  BY <1>1, <1>3, FS_CardinalityType

(* The places of an order with one unit, and with the others.              *)
Mine(u, order, q) == {<<u, i>> : i \in Here(order, q)}

(* A unit's places are as many as the indices in its queue.                *)
LEMMA MineFinite ==
  ASSUME NEW u, NEW order, NEW q \in Seq(Command)
  PROVE  /\ IsFiniteSet(Mine(u, order, q))
         /\ Cardinality(Mine(u, order, q)) = Cardinality(Here(order, q))
<1> DEFINE H == Here(order, q)
           f == [i \in H |-> <<u, i>>]
<1>1. f \in Bijection(H, Mine(u, order, q))
  <2>1. f \in [H -> Mine(u, order, q)]
    BY DEF Mine
  <2>2. \A i, j \in H : f[i] = f[j] => i = j
    OBVIOUS
  <2>3. \A x \in Mine(u, order, q) : \E i \in H : f[i] = x
    BY DEF Mine
  <2> HIDE DEF f, H
  <2> QED  BY <2>1, <2>2, <2>3, Fun_IsBij
<1> HIDE DEF f
<1>2. ExistsBijection(H, Mine(u, order, q))
  BY <1>1 DEF ExistsBijection
<1> QED  BY <1>2, HereFinite, FS_Bijection

(* The places of an order are those of one unit and those of the others.   *)
LEMMA PlacesSplit ==
  ASSUME NEW order, NEW qs, NEW u \in Unit
  PROVE  Places(order, qs) = Mine(u, order, qs[u])
                               \cup (UNION {Mine(v, order, qs[v]) : v \in Unit \ {u}})
<1>1. Places(order, qs) = UNION {Mine(v, order, qs[v]) : v \in Unit}
  BY DEF Places, Mine, Here
<1> QED  BY <1>1

(* Faction::getCountForMaxUnitCount counts a finite number of commands.    *)
LEMMA PlacesFinite ==
  ASSUME NEW order, NEW qs \in Queues
  PROVE  IsFiniteSet(Places(order, qs)) /\ Count(order, qs) \in Nat
<1> DEFINE fam == {Mine(v, order, qs[v]) : v \in Unit}
           f == [v \in Unit |-> Mine(v, order, qs[v])]
<1>1. Places(order, qs) = UNION fam
  BY DEF Places, Mine, Here
<1>2. \A T \in fam : IsFiniteSet(T)
  BY MineFinite DEF Queues
<1>3. IsFiniteSet(fam)
  <2>1. f \in Surjection(Unit, fam)
    BY Fun_IsSurj
  <2> HIDE DEF f, fam
  <2> QED  BY <2>1, FS_Surjection, UnitAssumption
<1> HIDE DEF fam
<1>4. IsFiniteSet(Places(order, qs))
  BY <1>1, <1>2, <1>3, FS_UNION
<1> QED  BY <1>4, FS_CardinalityType DEF Count

(* Changing one queue changes the count by what changes there.             *)
LEMMA CountChange ==
  ASSUME NEW order, NEW qs \in Queues, NEW u \in Unit, NEW q \in Seq(Command)
  PROVE  Count(order, [qs EXCEPT ![u] = q]) =
           Count(order, qs) - Cardinality(Here(order, qs[u])) + Cardinality(Here(order, q))
<1> DEFINE new == [qs EXCEPT ![u] = q]
           rest == UNION {Mine(v, order, qs[v]) : v \in Unit \ {u}}
           a == Mine(u, order, qs[u])
           b == Mine(u, order, q)
<1>1. new \in Queues /\ new[u] = q /\ \A v \in Unit \ {u} : new[v] = qs[v]
  BY DEF Queues
<1>2. {Mine(v, order, new[v]) : v \in Unit \ {u}} = {Mine(v, order, qs[v]) : v \in Unit \ {u}}
  BY <1>1
<1>3. Places(order, qs) = a \cup rest /\ Places(order, new) = b \cup rest
  <2> HIDE DEF new
  <2> QED  BY <1>1, <1>2, PlacesSplit
<1>4. a \cap rest = {} /\ b \cap rest = {}
  BY DEF Mine
<1>5. /\ IsFiniteSet(a) /\ Cardinality(a) = Cardinality(Here(order, qs[u]))
      /\ IsFiniteSet(b) /\ Cardinality(b) = Cardinality(Here(order, q))
  BY MineFinite DEF Queues
<1>6. IsFiniteSet(rest)
  <2> HIDE DEF rest, a
  <2> QED  BY <1>3, PlacesFinite, FS_Subset
<1> HIDE DEF new, rest, a, b
<1>7. /\ Cardinality(a \cup rest) = Cardinality(a) + Cardinality(rest)
      /\ Cardinality(b \cup rest) = Cardinality(b) + Cardinality(rest)
  <2>1. /\ Cardinality(a \cup rest) = Cardinality(a) + Cardinality(rest) - Cardinality(a \cap rest)
        /\ Cardinality(b \cup rest) = Cardinality(b) + Cardinality(rest) - Cardinality(b \cap rest)
    BY <1>5, <1>6, FS_Union
  <2>2. Cardinality(a \cap rest) = 0 /\ Cardinality(b \cap rest) = 0
    BY <1>4, FS_EmptySet
  <2>3. Cardinality(a) \in Nat /\ Cardinality(b) \in Nat /\ Cardinality(rest) \in Nat
    BY <1>5, <1>6, FS_CardinalityType
  <2> QED  BY <2>1, <2>2, <2>3
<1>8. Cardinality(a) \in Nat /\ Cardinality(b) \in Nat /\ Cardinality(rest) \in Nat
  BY <1>5, <1>6, FS_CardinalityType
<1>9. Count(order, new) = Cardinality(b \cup rest) /\ Count(order, qs) = Cardinality(a \cup rest)
  BY <1>3 DEF Count
<1> QED  BY <1>5, <1>7, <1>8, <1>9 DEF new

(* A queue without its i-th command.                                       *)
Without(q, i, r) ==
  /\ r \in Seq(Command) /\ Len(r) = Len(q) - 1
  /\ \A j \in 1 .. Len(r) : r[j] = IF j < i THEN q[j] ELSE q[j + 1]

(* Unit::deleteQueuedCommand and the loops that erase take out one         *)
(* command.                                                                *)
LEMMA RemovedIsWithout ==
  ASSUME NEW q \in Seq(Command), NEW i \in DOMAIN q
  PROVE  Without(q, i, RemoveAt(q, i))
<1>1. MP!RemoveAt(q, i) = RemoveAt(q, i)
  BY DEF MP!RemoveAt, RemoveAt
<1>2. i \in 1 .. Len(q)
  OBVIOUS
<1>3. /\ MP!RemoveAt(q, i) \in Seq(Command) /\ Len(MP!RemoveAt(q, i)) = Len(q) - 1
      /\ \A j \in 1 .. Len(q) - 1 :
           MP!RemoveAt(q, i)[j] = IF j < i THEN q[j] ELSE q[j + 1]
  BY <1>2, MP!Erased
<1> QED  BY <1>1, <1>3 DEF Without

(* Unit::finishCommand takes out the first command.                        *)
LEMMA TailIsWithout ==
  ASSUME NEW q \in Seq(Command), q # << >>
  PROVE  Without(q, 1, Tail(q))
BY DEF Without

(* An order is counted once less when a command that has it leaves.        *)
LEMMA HereWithout ==
  ASSUME NEW order, NEW q \in Seq(Command), NEW i \in DOMAIN q, NEW r, Without(q, i, r)
  PROVE  Cardinality(Here(order, r)) =
           Cardinality(Here(order, q)) - (IF q[i].order = order THEN 1 ELSE 0)
<1> DEFINE A == Here(order, r)
           B == Here(order, q) \ {i}
           f == [j \in A |-> IF j < i THEN j ELSE j + 1]
           L == Len(q)
<1>1. /\ L \in Nat /\ i \in 1 .. L /\ DOMAIN q = 1 .. L /\ DOMAIN r = 1 .. L - 1
      /\ \A j \in 1 .. L - 1 : r[j] = IF j < i THEN q[j] ELSE q[j + 1]
      /\ r \in Seq(Command)
  BY DEF Without
<1> HIDE DEF L
<1>2. f \in [A -> B]
  BY <1>1 DEF Here
<1>3. \A j, k \in A : f[j] = f[k] => j = k
  BY <1>1 DEF Here
<1>4. ASSUME NEW k \in B PROVE \E j \in A : f[j] = k
  <2>1. k \in 1 .. L /\ k # i /\ q[k].order = order
    BY <1>1 DEF Here
  <2>2. CASE k < i
    <3>1. k \in A
      BY <1>1, <2>1, <2>2 DEF Here
    <3> QED  BY <2>2, <3>1
  <2>3. CASE k > i
    <3>1. k - 1 \in A /\ ~(k - 1 < i)
      BY <1>1, <2>1, <2>3 DEF Here
    <3>2. f[k - 1] = k
      BY <2>1, <3>1
    <3> QED  BY <3>1, <3>2
  <2> QED  BY <1>1, <2>1, <2>2, <2>3
<1>5. f \in Bijection(A, B)
  <2> HIDE DEF f, A, B
  <2> QED  BY <1>2, <1>3, <1>4, Fun_IsBij
<1>6. IsFiniteSet(A) /\ IsFiniteSet(Here(order, q))
  BY <1>1, HereFinite
<1>7. Cardinality(B) = Cardinality(A)
  <2> HIDE DEF f, A, B
  <2> QED  BY <1>5, <1>6, FS_Bijection DEF ExistsBijection
<1>8. i \in Here(order, q) <=> q[i].order = order
  BY <1>1 DEF Here
<1> HIDE DEF A
<1>9. Cardinality(B) = IF i \in Here(order, q) THEN Cardinality(Here(order, q)) - 1
                       ELSE Cardinality(Here(order, q))
  BY <1>6, FS_RemoveElement
<1>10. Cardinality(Here(order, q)) \in Nat
  BY HereFinite
<1> HIDE DEF B
<1> QED  BY <1>7, <1>8, <1>9, <1>10 DEF A

(* An order is counted once more when a command that has it is added.      *)
LEMMA HereAppend ==
  ASSUME NEW order, NEW q \in Seq(Command), NEW c \in Command
  PROVE  Cardinality(Here(order, Append(q, c))) =
           Cardinality(Here(order, q)) + (IF c.order = order THEN 1 ELSE 0)
<1> DEFINE L == Len(q)
           a == Append(q, c)
<1>1. /\ L \in Nat /\ DOMAIN q = 1 .. L /\ DOMAIN a = 1 .. L + 1
      /\ \A i \in 1 .. L : a[i] = q[i]
      /\ a[L + 1] = c
  OBVIOUS
<1> HIDE DEF L, a
<1>2. Here(order, a) = IF c.order = order THEN Here(order, q) \cup {L + 1} ELSE Here(order, q)
  BY <1>1 DEF Here
<1>3. L + 1 \notin Here(order, q)
  BY <1>1 DEF Here
<1>4. IsFiniteSet(Here(order, q)) /\ Cardinality(Here(order, q)) \in Nat
  BY HereFinite
<1>5. Cardinality(Here(order, q) \cup {L + 1}) = Cardinality(Here(order, q)) + 1
  BY <1>3, <1>4, FS_AddElement
<1> QED  BY <1>2, <1>4, <1>5 DEF a

-----------------------------------------------------------------------------
(* The purse *)

USE OrderAssumption, PriceAssumption, AmountAssumption, NoneAssumption

(* The fields of the purse that are not the upgrade manager have their     *)
(* types: above all, the resources are never negative.                     *)
IsPurse(f) ==
  /\ f = [resources |-> f.resources, manager |-> f.manager, owed |-> f.owed]
  /\ f.resources \in 0 .. Store
  /\ f.owed \in [PaidOrder -> Int]

(* The kinds of orders.                                                    *)
LEMMA Kinds ==
  ASSUME NEW o \in Order
  PROVE  /\ o = [kind |-> o.kind, of |-> o.of]
         /\ o.kind \in {"stop", "move", "produce", "build", "upgrade"}
         /\ o.kind \in {"stop", "move"} => o.of = None
         /\ o.kind \in {"produce", "build"} => o.of \in Product
         /\ o.kind = "upgrade" => o.of \in Upgrade
         /\ o \in PaidOrder <=> o.kind \in {"produce", "upgrade"}
         /\ o.kind \notin {"stop", "move"} => o.of # None /\ Cost[o.of] \in Nat
BY DEF Order, PaidOrder, Paid

(* The order for an upgrade.                                               *)
Upgrading(t) == [kind |-> "upgrade", of |-> t]

(* Every upgrade has its own order, which has a price.                     *)
LEMMA UpgradingFacts ==
  /\ \A t \in Upgrade : Upgrading(t) \in PaidOrder
  /\ \A t, s : Upgrading(t) = Upgrading(s) => t = s
  /\ \A o \in Order : o.kind = "upgrade" <=> o = Upgrading(o.of)
  /\ \A t : Upgrading(t).kind = "upgrade" /\ Upgrading(t).of = t
BY DEF Order, PaidOrder, Paid, Upgrading

(* The history of an order changes for that order only.                    *)
LEMMA OweFacts ==
  ASSUME NEW f, IsPurse(f), NEW o \in Order, NEW n \in Int
  PROVE  /\ IsPurse(Owe(f, o, n))
         /\ Owe(f, o, n).resources = f.resources
         /\ Owe(f, o, n).manager = f.manager
         /\ \A p \in PaidOrder : Owe(f, o, n).owed[p] = f.owed[p] + (IF p = o THEN n ELSE 0)
<1>1. f.owed \in [PaidOrder -> Int] /\ (o \in PaidOrder <=> o.kind \in Paid)
  BY DEF IsPurse, PaidOrder
<1>2. CASE o.kind \in Paid
  <2> DEFINE w == [f.owed EXCEPT ![o] = @ + n]
             g == Owe(f, o, n)
  <2>1. w \in [PaidOrder -> Int] /\ \A p \in PaidOrder : w[p] = f.owed[p] + (IF p = o THEN n ELSE 0)
    BY <1>1, <1>2
  <2>2. g = [f EXCEPT !.owed = w]
    BY <1>2 DEF Owe
  <2> HIDE DEF w, g
  <2>3. g = [resources |-> f.resources, manager |-> f.manager, owed |-> w]
    BY <2>2 DEF IsPurse
  <2>4. g.resources = f.resources /\ g.manager = f.manager /\ g.owed = w
    BY <2>3
  <2>5. IsPurse(g)
    BY <2>1, <2>3, <2>4 DEF IsPurse
  <2> QED  BY <2>1, <2>4, <2>5 DEF g
<1>3. CASE o.kind \notin Paid
  BY <1>1, <1>3 DEF Owe
<1> QED  BY <1>2, <1>3

(* Faction::incResourceAmount leaves the resources between 0 and the       *)
(* store, if they do not become negative.                                  *)
LEMMA IncFacts ==
  ASSUME NEW f, IsPurse(f), NEW amount \in Int, f.resources + amount >= 0
  PROVE  /\ IsPurse(IncResourceAmount(f, amount))
         /\ IncResourceAmount(f, amount).manager = f.manager
         /\ IncResourceAmount(f, amount).owed = f.owed
<1> DEFINE g == IncResourceAmount(f, amount)
           n == IF f.resources + amount > Store THEN Store ELSE f.resources + amount
<1>1. n \in 0 .. Store
  BY DEF IsPurse
<1>2. g = [f EXCEPT !.resources = n]
  BY DEF IncResourceAmount
<1> HIDE DEF g, n
<1>3. g = [resources |-> n, manager |-> f.manager, owed |-> f.owed]
  BY <1>2 DEF IsPurse
<1>4. g.resources = n /\ g.manager = f.manager /\ g.owed = f.owed
  BY <1>3
<1>5. IsPurse(g)
  BY <1>1, <1>3, <1>4 DEF IsPurse
<1> QED  BY <1>4, <1>5 DEF g

(* Putting another manager into the purse.                                 *)
LEMMA ManagerFacts ==
  ASSUME NEW f, IsPurse(f), NEW m
  PROVE  /\ IsPurse([f EXCEPT !.manager = m])
         /\ [f EXCEPT !.manager = m].resources = f.resources
         /\ [f EXCEPT !.manager = m].manager = m
         /\ [f EXCEPT !.manager = m].owed = f.owed
<1> DEFINE g == [f EXCEPT !.manager = m]
<1>1. g = [resources |-> f.resources, manager |-> m, owed |-> f.owed]
  BY DEF IsPurse
<1> HIDE DEF g
<1>2. g.resources = f.resources /\ g.manager = m /\ g.owed = f.owed
  BY <1>1
<1>3. IsPurse(g)
  BY <1>1, <1>2 DEF IsPurse
<1> QED  BY <1>2, <1>3 DEF g

(* An order that is given is owed, and its upgrade is started.             *)
LEMMA ApplyFacts ==
  ASSUME NEW f, IsPurse(f), NEW o \in Order, o.of # None => Cost[o.of] <= f.resources
  PROVE  /\ IsPurse(ApplyCommand(f, o))
         /\ \A p \in PaidOrder :
              ApplyCommand(f, o).owed[p] = f.owed[p] + (IF p = o THEN 1 ELSE 0)
         /\ ApplyCommand(f, o).manager =
              IF o.kind = "upgrade" THEN MP!StartUpgrade(f.manager, o.of) ELSE f.manager
<1>1. CASE o.kind \in {"stop", "move"}
  <2>1. ApplyCommand(f, o) = f /\ o \notin PaidOrder
    BY <1>1, Kinds DEF ApplyCommand
  <2> QED  BY <1>1, <2>1 DEF IsPurse
<1>2. CASE o.kind \notin {"stop", "move"}
  <2> DEFINE paid == IncResourceAmount(f, -Cost[o.of])
             charged == Charge(f, o)
             a == ApplyCommand(f, o)
  <2>1. f.resources \in Nat /\ Cost[o.of] \in Nat /\ Cost[o.of] <= f.resources
    BY <1>2, Kinds DEF IsPurse
  <2>2. IsPurse(paid) /\ paid.manager = f.manager /\ paid.owed = f.owed
    BY <2>1, IncFacts
  <2>3. charged = Owe(paid, o, 1)
    BY DEF Charge
  <2> HIDE DEF paid
  <2>4. /\ IsPurse(charged) /\ charged.manager = f.manager
        /\ \A p \in PaidOrder : charged.owed[p] = f.owed[p] + (IF p = o THEN 1 ELSE 0)
    BY <2>2, <2>3, OweFacts
  <2>5. a = IF o.kind = "upgrade"
            THEN [charged EXCEPT !.manager = M!StartUpgrade(charged.manager, o.of)]
            ELSE charged
    BY <1>2 DEF ApplyCommand
  <2> HIDE DEF charged, a
  <2>6. CASE o.kind = "upgrade"
    <3>1. M!StartUpgrade(charged.manager, o.of) = MP!StartUpgrade(f.manager, o.of)
      BY <2>4 DEF M!StartUpgrade, MP!StartUpgrade
    <3>2. a = [charged EXCEPT !.manager = MP!StartUpgrade(f.manager, o.of)]
      BY <2>5, <2>6, <3>1
    <3>3. /\ IsPurse(a) /\ a.owed = charged.owed
          /\ a.manager = MP!StartUpgrade(f.manager, o.of)
      BY <2>4, <3>2, ManagerFacts
    <3> QED  BY <2>4, <2>6, <3>3 DEF a
  <2>7. CASE o.kind # "upgrade"
    BY <2>4, <2>5, <2>7 DEF a
  <2> QED  BY <2>6, <2>7
<1> QED  BY <1>1, <1>2

(* An order that is undone is owed no more, and its upgrade is cancelled.  *)
LEMMA UndoFacts ==
  ASSUME NEW f, IsPurse(f), NEW sk, NEW cmd \in Command
  PROVE  /\ IsPurse(UndoCommand(f, sk, cmd))
         /\ \A p \in PaidOrder :
              UndoCommand(f, sk, cmd).owed[p] = f.owed[p] - (IF p = cmd.order THEN 1 ELSE 0)
         /\ UndoCommand(f, sk, cmd).manager =
              IF cmd.order.kind = "upgrade" THEN MP!CancelUpgrade(f.manager, cmd.order.of)
              ELSE f.manager
<1> DEFINE o == cmd.order
           back == IF \/ o.kind \in Paid
                      \/ o.kind = "build" /\ sk \notin {"build", "die"}
                   THEN Return(f, o) ELSE f
           a == UndoCommand(f, sk, cmd)
<1>1. o \in Order
  BY DEF Command
<1>2. /\ IsPurse(back) /\ back.manager = f.manager
      /\ \A p \in PaidOrder : back.owed[p] = f.owed[p] - (IF p = o THEN 1 ELSE 0)
  <2> HIDE DEF o
  <2>1. CASE \/ o.kind \in Paid
             \/ o.kind = "build" /\ sk \notin {"build", "die"}
    <3> DEFINE paid == IncResourceAmount(f, Cost[o.of])
    <3>1. f.resources \in Nat /\ Cost[o.of] \in Nat
      BY <1>1, <2>1, Kinds DEF IsPurse, Paid
    <3>2. IsPurse(paid) /\ paid.manager = f.manager /\ paid.owed = f.owed
      BY <3>1, IncFacts
    <3>3. back = Owe(paid, o, -1)
      BY <2>1 DEF Return
    <3> HIDE DEF paid, back
    <3> QED  BY <1>1, <3>2, <3>3, OweFacts DEF IsPurse
  <2>2. CASE ~(\/ o.kind \in Paid
               \/ o.kind = "build" /\ sk \notin {"build", "die"})
    <3>1. back = f /\ o \notin PaidOrder
      BY <2>2 DEF PaidOrder
    <3> HIDE DEF back
    <3> QED  BY <3>1 DEF IsPurse
  <2> QED  BY <2>1, <2>2
<1>3. a = IF o.kind = "upgrade" THEN [back EXCEPT !.manager = M!CancelUpgrade(back.manager, o.of)]
          ELSE back
  BY DEF UndoCommand
<1> HIDE DEF back, a, o
<1>4. CASE o.kind = "upgrade"
  <2>1. M!CancelUpgrade(back.manager, o.of) = MP!CancelUpgrade(f.manager, o.of)
    BY <1>2 DEF M!CancelUpgrade, MP!CancelUpgrade, M!Moved, MP!Moved, MP!RemoveAt, M!RemoveAt
  <2>2. a = [back EXCEPT !.manager = MP!CancelUpgrade(f.manager, o.of)]
    BY <1>3, <1>4, <2>1
  <2>3. /\ IsPurse(a) /\ a.owed = back.owed
        /\ a.manager = MP!CancelUpgrade(f.manager, o.of)
    BY <1>2, <2>2, ManagerFacts
  <2> QED  BY <1>2, <1>4, <2>3 DEF a, o
<1>5. CASE o.kind # "upgrade"
  BY <1>2, <1>3, <1>5 DEF a, o
<1> QED  BY <1>4, <1>5

-----------------------------------------------------------------------------
(* The invariant of the queues qs, the purse f, the completed upgrades d,  *)
(* the sites tg and the stock st                                           *)

(* There are at most two upgrade types.                                    *)
Two == \E a, b : Upgrade \subseteq {a, b}

(* What is owed is what is queued, and an upgrade is under way while it is *)
(* queued.                                                                 *)
Books(qs, f, d) ==
  /\ IsPurse(f)
  /\ MP!Sound(f.manager, d)
  /\ Two => MP!Right(f.manager, d)
  /\ \A o \in PaidOrder : f.owed[o] = Count(o, qs)
  /\ \A t \in Upgrade :
       Count(Upgrading(t), qs) = IF t \in DOMAIN f.manager.lookup \ d THEN 1 ELSE 0

(* A unit has orders that its type can have, and a building that the first *)
(* one has begun is the one at its target.                                 *)
Tidy(qs, tg) ==
  /\ qs \in Queues
  /\ \A u \in Unit : \A i \in DOMAIN qs[u] :
       /\ qs[u][i].order \in Can[u]
       /\ qs[u][i].begun => i = 1 /\ tg[u].state # "none" /\ tg[u].of = qs[u][i].order.of

(* What Faction::getCountForMaxUnitCount says in the queues qs and the     *)
(* stock st.                                                               *)
Due(p, qs, st) ==
  st[p] + Count([kind |-> "produce", of |-> p], qs) + Count([kind |-> "build", of |-> p], qs)

(* Of a product that no unit builds, the units and the orders together     *)
(* stay within the limit.                                                  *)
Limited(qs, st) ==
  \A p \in Product \ Built : MaxUnitCount[p] > 0 => Due(p, qs, st) <= MaxUnitCount[p]

(* The three together.                                                     *)
Good(qs, f, d, tg, st) == Books(qs, f, d) /\ Tidy(qs, tg) /\ Limited(qs, st)

-----------------------------------------------------------------------------
(* Leaving a queue *)

(* The counts without the i-th command of a unit.                          *)
LEMMA CountWithout ==
  ASSUME NEW o, NEW qs \in Queues, NEW u \in Unit, NEW i \in DOMAIN qs[u],
         NEW r, Without(qs[u], i, r)
  PROVE  /\ Count(o, [qs EXCEPT ![u] = r]) =
              Count(o, qs) - (IF qs[u][i].order = o THEN 1 ELSE 0)
         /\ Count(o, [qs EXCEPT ![u] = r]) \in Nat /\ Count(o, qs) \in Nat
<1>1. qs[u] \in Seq(Command) /\ r \in Seq(Command)
  BY DEF Queues, Without
<1>2. [qs EXCEPT ![u] = r] \in Queues
  BY <1>1 DEF Queues
<1>3. Count(o, [qs EXCEPT ![u] = r]) =
        Count(o, qs) - Cardinality(Here(o, qs[u])) + Cardinality(Here(o, r))
  BY <1>1, CountChange
<1>4. Cardinality(Here(o, r)) =
        Cardinality(Here(o, qs[u])) - (IF qs[u][i].order = o THEN 1 ELSE 0)
  BY <1>1, HereWithout
<1>5. Cardinality(Here(o, qs[u])) \in Nat
  BY <1>1, HereFinite
<1>6. Count(o, qs) \in Nat /\ Count(o, [qs EXCEPT ![u] = r]) \in Nat
  BY <1>2, PlacesFinite
<1> QED  BY <1>3, <1>4, <1>5, <1>6

(* A queue that loses a command stays tidy and within the limits.          *)
LEMMA TidyWithout ==
  ASSUME NEW qs, NEW tg, NEW st, Tidy(qs, tg), NEW u \in Unit, NEW i \in DOMAIN qs[u],
         NEW r, Without(qs[u], i, r)
  PROVE  Tidy([qs EXCEPT ![u] = r], tg)
<1> DEFINE new == [qs EXCEPT ![u] = r]
           L == Len(qs[u])
<1>1. qs \in Queues /\ qs[u] \in Seq(Command) /\ r \in Seq(Command)
  BY DEF Tidy, Queues, Without
<1>2. new \in Queues /\ new[u] = r /\ \A v \in Unit : v # u => new[v] = qs[v]
  BY <1>1 DEF Queues
<1>3. /\ L \in Nat /\ DOMAIN qs[u] = 1 .. L /\ DOMAIN r = 1 .. L - 1 /\ i \in 1 .. L
      /\ \A j \in 1 .. L - 1 : r[j] = IF j < i THEN qs[u][j] ELSE qs[u][j + 1]
  BY <1>1 DEF Without
<1> HIDE DEF L, new
<1>4. ASSUME NEW j \in 1 .. L - 1
      PROVE  /\ r[j].order \in Can[u]
             /\ r[j].begun => j = 1 /\ tg[u].state # "none" /\ tg[u].of = r[j].order.of
  <2>1. CASE j < i
    <3>1. j \in DOMAIN qs[u] /\ r[j] = qs[u][j]
      BY <1>3, <2>1
    <3> QED  BY <3>1 DEF Tidy
  <2>2. CASE ~(j < i)
    <3>1. j + 1 \in 1 .. L /\ r[j] = qs[u][j + 1] /\ j + 1 # 1
      BY <1>3, <2>2
    <3> QED  BY <1>3, <3>1 DEF Tidy
  <2> QED  BY <2>1, <2>2
<1>5. ASSUME NEW v \in Unit, NEW j \in DOMAIN new[v]
      PROVE  /\ new[v][j].order \in Can[v]
             /\ new[v][j].begun => /\ j = 1 /\ tg[v].state # "none"
                                   /\ tg[v].of = new[v][j].order.of
  <2>1. CASE v = u
    BY <1>2, <1>3, <1>4, <2>1
  <2>2. CASE v # u
    BY <1>2, <2>2 DEF Tidy
  <2> QED  BY <2>1, <2>2
<1> QED  BY <1>2, <1>5 DEF Tidy, new

(* Of a product whose order leaves, one less is due.                       *)
LEMMA LimitedWithout ==
  ASSUME NEW qs \in Queues, NEW st \in [Product -> Nat], Limited(qs, st),
         NEW u \in Unit, NEW i \in DOMAIN qs[u], NEW r, Without(qs[u], i, r)
  PROVE  /\ Limited([qs EXCEPT ![u] = r], st)
         /\ \A p \in Product :
              qs[u][i].order.kind = "produce" /\ qs[u][i].order.of = p =>
                Due(p, [qs EXCEPT ![u] = r], st) + 1 <= Due(p, qs, st)
<1> DEFINE new == [qs EXCEPT ![u] = r]
<1>1. \A o : /\ Count(o, new) = Count(o, qs) - (IF qs[u][i].order = o THEN 1 ELSE 0)
             /\ Count(o, new) \in Nat /\ Count(o, qs) \in Nat
  <2> TAKE o
  <2> QED  BY CountWithout
<1> HIDE DEF new
<1>2. ASSUME NEW p \in Product
      PROVE  /\ Due(p, new, st) \in Nat /\ Due(p, qs, st) \in Nat
             /\ Due(p, new, st) <= Due(p, qs, st)
             /\ qs[u][i].order = [kind |-> "produce", of |-> p] =>
                  Due(p, new, st) + 1 <= Due(p, qs, st)
  <2>1. st[p] \in Nat
    OBVIOUS
  <2> DEFINE a == [kind |-> "produce", of |-> p]
             b == [kind |-> "build", of |-> p]
  <2>2. a # b
    OBVIOUS
  <2> HIDE DEF a, b
  <2> QED  BY <1>1, <2>1, <2>2 DEF Due, a, b
<1>3. Limited(new, st)
  <2> SUFFICES ASSUME NEW p \in Product \ Built, MaxUnitCount[p] > 0
               PROVE  Due(p, new, st) <= MaxUnitCount[p]
    BY DEF Limited
  <2>1. Due(p, qs, st) <= MaxUnitCount[p] /\ MaxUnitCount[p] \in Nat
    BY DEF Limited
  <2>2. /\ Due(p, new, st) \in Nat /\ Due(p, qs, st) \in Nat
        /\ Due(p, new, st) <= Due(p, qs, st)
    BY <1>2
  <2> QED  BY <2>1, <2>2
<1>4. qs[u][i].order \in Order
  <2>1. qs[u][i] \in Command
    BY DEF Queues
  <2> QED  BY <2>1 DEF Command
<1>5. ASSUME NEW p \in Product, qs[u][i].order.kind = "produce", qs[u][i].order.of = p
      PROVE  qs[u][i].order = [kind |-> "produce", of |-> p]
  BY <1>4, <1>5, Kinds
<1> QED  BY <1>2, <1>3, <1>5 DEF new

(* The purse g and the completed upgrades e after an order has left: it is *)
(* owed no more, and its upgrade is not under way any more.                *)
Settled(f, d, g, e, order) ==
  /\ IsPurse(g)
  /\ MP!Sound(g.manager, e)
  /\ Two => MP!Right(g.manager, e)
  /\ \A o \in PaidOrder : g.owed[o] = f.owed[o] - (IF o = order THEN 1 ELSE 0)
  /\ \A t \in Upgrade : t \in DOMAIN g.manager.lookup \ e <=>
       t \in DOMAIN f.manager.lookup \ d /\ order # Upgrading(t)

(* Whatever settles an order, the books are kept when it leaves its queue. *)
LEMMA BooksWithout ==
  ASSUME NEW qs \in Queues, NEW f, NEW d, Books(qs, f, d), NEW u \in Unit, NEW i \in DOMAIN qs[u],
         NEW r, Without(qs[u], i, r), NEW g, NEW e, Settled(f, d, g, e, qs[u][i].order)
  PROVE  Books([qs EXCEPT ![u] = r], g, e)
<1> DEFINE new == [qs EXCEPT ![u] = r]
<1>1. \A o : /\ Count(o, new) = Count(o, qs) - (IF qs[u][i].order = o THEN 1 ELSE 0)
             /\ Count(o, new) \in Nat /\ Count(o, qs) \in Nat
  <2> TAKE o
  <2> QED  BY CountWithout
<1> HIDE DEF new
<1>2. ASSUME NEW o \in PaidOrder PROVE g.owed[o] = Count(o, new)
  BY <1>1 DEF Books, Settled
<1>3. ASSUME NEW t \in Upgrade
      PROVE  Count(Upgrading(t), new) = IF t \in DOMAIN g.manager.lookup \ e THEN 1 ELSE 0
  <2>1. Count(Upgrading(t), qs) = IF t \in DOMAIN f.manager.lookup \ d THEN 1 ELSE 0
    BY DEF Books
  <2>2. /\ Count(Upgrading(t), new) \in Nat
        /\ Count(Upgrading(t), new) =
             Count(Upgrading(t), qs) - (IF qs[u][i].order = Upgrading(t) THEN 1 ELSE 0)
    BY <1>1
  <2>3. CASE qs[u][i].order = Upgrading(t)
    BY <2>1, <2>2, <2>3 DEF Settled
  <2>4. CASE qs[u][i].order # Upgrading(t)
    BY <2>1, <2>2, <2>4 DEF Settled
  <2> QED  BY <2>3, <2>4
<1> QED  BY <1>2, <1>3 DEF Books, Settled, new

(* A queued upgrade is under way.                                          *)
LEMMA QueuedUnderway ==
  ASSUME NEW qs \in Queues, NEW f, NEW d, Books(qs, f, d), NEW u \in Unit, NEW i \in DOMAIN qs[u],
         qs[u][i].order.kind = "upgrade"
  PROVE  /\ qs[u][i].order.of \in Upgrade
         /\ qs[u][i].order = Upgrading(qs[u][i].order.of)
         /\ qs[u][i].order.of \in DOMAIN f.manager.lookup
         /\ qs[u][i].order.of \notin d
<1> DEFINE o == qs[u][i].order
           t == o.of
<1>1. o \in Order /\ qs[u] \in Seq(Command)
  <2>1. qs[u][i] \in Command /\ qs[u] \in Seq(Command)
    BY DEF Queues
  <2> QED  BY <2>1 DEF Command
<1> HIDE DEF o
<1>2. t \in Upgrade /\ o = Upgrading(t)
  BY <1>1, Kinds, UpgradingFacts DEF o
<1>3. Count(o, qs) # 0
  <2>1. <<u, i>> \in Places(o, qs)
    BY DEF Places, o
  <2>2. IsFiniteSet(Places(o, qs))
    BY PlacesFinite
  <2> QED  BY <2>1, <2>2, FS_EmptySet DEF Count
<1> HIDE DEF t
<1>4. t \in DOMAIN f.manager.lookup \ d
  BY <1>2, <1>3 DEF Books
<1> QED  BY <1>2, <1>4 DEF o, t

(* Unit::undoCommand and the deletion of any command.                      *)
LEMMA EraseGood ==
  ASSUME NEW qs, NEW f, NEW d, NEW tg, NEW st \in [Product -> Nat], Good(qs, f, d, tg, st),
         NEW u \in Unit, NEW i \in DOMAIN qs[u], NEW sk
  PROVE  LET r == Erase(qs[u], f, i, sk)
         IN  r.q \in Seq(Command) /\ Good([qs EXCEPT ![u] = r.q], r.f, d, tg, st)
<1> DEFINE q == RemoveAt(qs[u], i)
           g == UndoCommand(f, sk, qs[u][i])
           o == qs[u][i].order
<1>1. qs \in Queues /\ qs[u] \in Seq(Command) /\ qs[u][i] \in Command
  BY DEF Good, Tidy, Queues
<1>2. Without(qs[u], i, q)
  BY <1>1, RemovedIsWithout
<1>3. /\ IsPurse(g)
      /\ \A p \in PaidOrder : g.owed[p] = f.owed[p] - (IF p = o THEN 1 ELSE 0)
      /\ g.manager = IF o.kind = "upgrade" THEN MP!CancelUpgrade(f.manager, o.of) ELSE f.manager
  BY <1>1, UndoFacts DEF Good, Books
<1>4. MP!Sound(f.manager, d) /\ Books(qs, f, d)
  BY DEF Good, Books
<1> HIDE DEF g, o, q
<1>5. /\ MP!Sound(g.manager, d)
      /\ \A t \in Upgrade : t \in DOMAIN g.manager.lookup \ d <=>
           t \in DOMAIN f.manager.lookup \ d /\ o # Upgrading(t)
  <2>1. CASE o.kind = "upgrade"
    <3>1. o.of \in Upgrade /\ o = Upgrading(o.of) /\ o.of \in DOMAIN f.manager.lookup /\ o.of \notin d
      BY <1>1, <1>4, <2>1, QueuedUnderway DEF o
    <3>2. /\ MP!Sound(g.manager, d)
          /\ DOMAIN g.manager.lookup = DOMAIN f.manager.lookup \ {o.of}
      BY <1>3, <1>4, <2>1, <3>1, MP!CancelSound
    <3> QED  BY <3>1, <3>2, UpgradingFacts
  <2>2. CASE o.kind # "upgrade"
    BY <1>3, <1>4, <2>2, UpgradingFacts
  <2> QED  BY <2>1, <2>2
<1>6. ASSUME Two PROVE MP!Right(g.manager, d)
  <2>1. MP!Right(f.manager, d)
    BY <1>4, <1>6 DEF Books
  <2>2. CASE o.kind = "upgrade"
    <3>1. o.of \in DOMAIN f.manager.lookup
      BY <1>1, <1>4, <2>2, QueuedUnderway DEF o
    <3>2. PICK a, b : Upgrade \subseteq {a, b}
      BY <1>6 DEF Two
    <3>3. MP!Right(MP!CancelUpgrade(f.manager, o.of), d)
      BY <1>4, <2>1, <3>1, <3>2, MP!CancelRight
    <3> QED  BY <1>3, <2>2, <3>3
  <2>3. CASE o.kind # "upgrade"
    BY <1>3, <2>1, <2>3
  <2> QED  BY <2>2, <2>3
<1>7. Books([qs EXCEPT ![u] = q], g, d)
  <2>1. Settled(f, d, g, d, o)
    BY <1>3, <1>5, <1>6 DEF Settled
  <2>2. Settled(f, d, g, d, qs[u][i].order)
    BY <2>1 DEF o
  <2> QED  BY <1>1, <1>2, <1>4, <2>2, BooksWithout
<1>8. Tidy([qs EXCEPT ![u] = q], tg) /\ Limited([qs EXCEPT ![u] = q], st)
  BY <1>1, <1>2, TidyWithout, LimitedWithout DEF Good
<1>9. q \in Seq(Command)
  BY <1>2 DEF Without
<1>10. Erase(qs[u], f, i, sk) = [q |-> q, f |-> g]
  BY DEF Erase, q, g
<1> QED  BY <1>7, <1>8, <1>9, <1>10 DEF Good

-----------------------------------------------------------------------------
(* What an operation on the queue of u may leave                           *)

(* The purses.                                                             *)
Purse ==
  [resources : 0 .. Store,
   manager : [upgrades : Seq(MP!Entry), lookup : UNION {[D -> Nat] : D \in SUBSET Upgrade}],
   owed : [PaidOrder -> Int]]

(* The queues and purses of u that keep the invariant.                     *)
Left(qs, u, d, tg, st) ==
  {r \in [q : Seq(Command), f : Purse] : Good([qs EXCEPT ![u] = r.q], r.f, d, tg, st)}

(* A purse that the invariant holds for is a purse.                        *)
LEMMA GoodPurse ==
  ASSUME NEW qs, NEW f, NEW d, NEW tg, NEW st, Good(qs, f, d, tg, st)
  PROVE  f \in Purse /\ qs \in Queues
<1>1. IsPurse(f) /\ MP!Sound(f.manager, d) /\ qs \in Queues
  BY DEF Good, Books, Tidy
<1> DEFINE m == f.manager
           look == m.lookup
<1>2. /\ m = [upgrades |-> m.upgrades, lookup |-> look]
      /\ m.upgrades \in Seq(MP!Entry)
      /\ look \in [DOMAIN look -> Nat] /\ DOMAIN look \subseteq Upgrade
  BY <1>1 DEF MP!Sound
<1>3. look \in UNION {[D -> Nat] : D \in SUBSET Upgrade}
  <2> HIDE DEF look
  <2> QED  BY <1>2
<1>4. m \in [upgrades : Seq(MP!Entry), lookup : UNION {[D -> Nat] : D \in SUBSET Upgrade}]
  <2> HIDE DEF m
  <2> QED  BY <1>2, <1>3
<1> HIDE DEF look, m
<1>5. f = [resources |-> f.resources, manager |-> m, owed |-> f.owed]
  BY <1>1 DEF IsPurse, m
<1>6. f \in Purse
  BY <1>1, <1>4, <1>5 DEF IsPurse, Purse
<1> QED  BY <1>1, <1>6

(* A queue and a purse that keep the invariant are among them.             *)
LEMMA LeftIs ==
  ASSUME NEW qs, NEW u \in Unit, NEW d, NEW tg, NEW st, NEW q \in Seq(Command), NEW f,
         Good([qs EXCEPT ![u] = q], f, d, tg, st)
  PROVE  [q |-> q, f |-> f] \in Left(qs, u, d, tg, st)
BY GoodPurse DEF Left

(* Erasing any command.                                                    *)
LEMMA EraseLeft ==
  ASSUME NEW qs \in Queues, NEW u \in Unit, NEW d, NEW tg, NEW st \in [Product -> Nat],
         NEW r \in Left(qs, u, d, tg, st), NEW i \in DOMAIN r.q, NEW sk
  PROVE  Erase(r.q, r.f, i, sk) \in Left(qs, u, d, tg, st)
<1> DEFINE cur == [qs EXCEPT ![u] = r.q]
           e == Erase(r.q, r.f, i, sk)
<1>1. r.q \in Seq(Command) /\ Good(cur, r.f, d, tg, st)
  BY DEF Left
<1>2. cur[u] = r.q /\ \A q : [cur EXCEPT ![u] = q] = [qs EXCEPT ![u] = q]
  BY <1>1 DEF Queues
<1> HIDE DEF cur
<1>3. e.q \in Seq(Command) /\ Good([cur EXCEPT ![u] = e.q], e.f, d, tg, st)
  BY <1>1, <1>2, EraseGood
<1>4. e = [q |-> e.q, f |-> e.f]
  BY DEF Erase
<1> HIDE DEF e
<1>5. Good([qs EXCEPT ![u] = e.q], e.f, d, tg, st)
  BY <1>3, <1>2
<1>6. [q |-> e.q, f |-> e.f] \in Left(qs, u, d, tg, st)
  BY <1>3, <1>5, LeftIs
<1> QED  BY <1>4, <1>6 DEF e

(* Unit::cancelCommand.                                                    *)
LEMMA CancelLeft ==
  ASSUME NEW qs \in Queues, NEW u \in Unit, NEW d, NEW tg, NEW st \in [Product -> Nat],
         NEW r \in Left(qs, u, d, tg, st), NEW sk
  PROVE  CancelCommand(r.q, r.f, sk) \in Left(qs, u, d, tg, st)
<1>1. r = [q |-> r.q, f |-> r.f] /\ r.q \in Seq(Command)
  BY DEF Left
<1>2. CASE r.q = << >>
  BY <1>1, <1>2 DEF CancelCommand
<1>3. CASE r.q # << >>
  <2>1. Len(r.q) \in DOMAIN r.q
    BY <1>1, <1>3
  <2> QED  BY <1>3, <2>1, EraseLeft DEF CancelCommand
<1> QED  BY <1>2, <1>3

(* Unit::clearCommands: the loop is at a good queue after any number of    *)
(* commands.                                                               *)
LEMMA ClearLeft ==
  ASSUME NEW qs \in Queues, NEW u \in Unit, NEW d, NEW tg, NEW st \in [Product -> Nat],
         NEW r \in Left(qs, u, d, tg, st), NEW sk
  PROVE  ClearCommands(r.q, r.f, sk) \in Left(qs, u, d, tg, st)
<1> DEFINE S == Left(qs, u, d, tg, st)
           N == Len(r.q)
           base == [q |-> r.q, f |-> r.f]
           step == [s \in S |-> CancelCommand(s.q, s.f, sk)]
           Is(h) == h = [n \in 0 .. N |-> IF n = 0 THEN base
                                          ELSE CancelCommand(h[n - 1].q, h[n - 1].f, sk)]
           g == CHOOSE h : Is(h)
<1>1. r.q \in Seq(Command) /\ base \in S
  BY DEF Left
<1>2. N \in Nat
  BY <1>1
<1>3. step \in [S -> S]
  <2> HIDE DEF S
  <2> SUFFICES ASSUME NEW s \in S PROVE CancelCommand(s.q, s.f, sk) \in S
    OBVIOUS
  <2> QED  BY CancelLeft DEF S
<1> HIDE DEF S, N, base, g
<1>4. PICK h \in [0 .. N -> S] : Repeats(h, N, base, step)
  <2> HIDE DEF step, Is
  <2> QED  BY <1>1, <1>2, <1>3, Iterates
<1>5. Is(h)
  <2>1. \A n \in 0 .. N : n # 0 => step[h[n - 1]] = CancelCommand(h[n - 1].q, h[n - 1].f, sk)
    <3> TAKE n \in 0 .. N
    <3> HAVE n # 0
    <3>1. h[n - 1] \in S
      BY <1>2
    <3> QED  BY <3>1
  <2>2. \A n \in 0 .. N : h[n] = IF n = 0 THEN base ELSE CancelCommand(h[n - 1].q, h[n - 1].f, sk)
    <3> HIDE DEF step
    <3> QED  BY <1>4, <2>1 DEF Repeats
  <2>3. h = [n \in 0 .. N |-> h[n]]
    BY <1>4
  <2> HIDE DEF step
  <2> QED  BY <2>2, <2>3
<1>6. Is(g)
  <2> HIDE DEF Is
  <2> QED  BY <1>5 DEF g
<1>7. g[0] = base
  BY <1>2, <1>6
<1>8. ASSUME NEW n \in 1 .. N, g[n - 1] \in S PROVE g[n] \in S
  <2>1. n \in 0 .. N /\ n # 0
    BY <1>2
  <2>2. g[n] = CancelCommand(g[n - 1].q, g[n - 1].f, sk)
    BY <1>6, <2>1
  <2>3. CancelCommand(g[n - 1].q, g[n - 1].f, sk) \in S
    <3> DEFINE s == g[n - 1]
    <3>1. s \in S
      BY <1>8
    <3> HIDE DEF s
    <3>2. CancelCommand(s.q, s.f, sk) \in S
      BY <3>1, CancelLeft DEF S
    <3> QED  BY <3>2 DEF s
  <2> QED  BY <2>2, <2>3
<1>9. \A n \in 0 .. N : g[n] \in S
  <2> HIDE DEF Is
  <2> QED  BY <1>1, <1>2, <1>7, <1>8, IteratesIn
<1>10. g[N] \in S
  BY <1>2, <1>9
<1>11. ClearCommands(r.q, r.f, sk) = g[N]
  BY DEF ClearCommands, g, N, base
<1> QED  BY <1>10, <1>11 DEF S

(* The loop of Unit::giveCommand over the commands of lower priority.      *)
LEMMA EraseLowerLeft ==
  ASSUME NEW qs \in Queues, NEW u \in Unit, NEW d, NEW tg, NEW st \in [Product -> Nat],
         NEW x \in [left : Left(qs, u, d, tg, st), at : Nat \ {0}], NEW sk, NEW order
  PROVE  EraseLower(x.left.q, x.left.f, x.at, sk, order)
           \in [left : Left(qs, u, d, tg, st), at : Nat \ {0}]
<1> DEFINE S == Left(qs, u, d, tg, st)
           r == x.left
           a == x.at
<1>1. r \in S /\ a \in Nat \ {0}
  OBVIOUS
<1> HIDE DEF r, a
<1>2. r = [q |-> r.q, f |-> r.f] /\ r.q \in Seq(Command)
  BY <1>1 DEF Left
<1>3. CASE a <= Len(r.q) /\ Priority(r.q[a].order) < Priority(order)
  <2>1. a \in DOMAIN r.q
    BY <1>1, <1>2, <1>3
  <2>2. Erase(r.q, r.f, a, sk) \in S
    BY <1>1, <2>1, EraseLeft
  <2>3. EraseLower(r.q, r.f, a, sk, order) = [left |-> Erase(r.q, r.f, a, sk), at |-> a]
    BY <1>3 DEF EraseLower
  <2> QED  BY <1>1, <2>2, <2>3 DEF r, a
<1>4. CASE ~(a <= Len(r.q) /\ Priority(r.q[a].order) < Priority(order))
  <2>1. EraseLower(r.q, r.f, a, sk, order) = [left |-> [q |-> r.q, f |-> r.f], at |-> a + 1]
    BY <1>4 DEF EraseLower
  <2>2. [q |-> r.q, f |-> r.f] \in S /\ a + 1 \in Nat \ {0}
    BY <1>1, <1>2
  <2> QED  BY <2>1, <2>2 DEF r, a
<1> QED  BY <1>3, <1>4

(* That loop is at a good queue after any number of commands.              *)
LEMMA DeleteLowerLeft ==
  ASSUME NEW qs \in Queues, NEW u \in Unit, NEW d, NEW tg, NEW st \in [Product -> Nat],
         NEW r \in Left(qs, u, d, tg, st), NEW sk, NEW order
  PROVE  DeleteLower(r.q, r.f, sk, order) \in Left(qs, u, d, tg, st)
<1> DEFINE S == [left : Left(qs, u, d, tg, st), at : Nat \ {0}]
           N == Len(r.q)
           base == [left |-> [q |-> r.q, f |-> r.f], at |-> 1]
           next(s) == EraseLower(s.left.q, s.left.f, s.at, sk, order)
           step == [s \in S |-> next(s)]
           Is(h) == h = [n \in 0 .. N |->
                           IF n = 0 THEN base
                           ELSE EraseLower(h[n - 1].left.q, h[n - 1].left.f, h[n - 1].at, sk, order)]
           g == CHOOSE h : Is(h)
<1>1. r.q \in Seq(Command) /\ base \in S
  <2>1. r.q \in Seq(Command) /\ r = [q |-> r.q, f |-> r.f]
    BY DEF Left
  <2>2. base = [left |-> r, at |-> 1]
    BY <2>1
  <2> QED  BY <2>1, <2>2
<1>2. N \in Nat
  BY <1>1
<1> HIDE DEF N, base, g
<1>3. \A s \in S : next(s) \in S
  BY EraseLowerLeft
<1>4. step \in [S -> S]
  <2> HIDE DEF S, next
  <2> QED  BY <1>3
<1> HIDE DEF S
<1>5. PICK h \in [0 .. N -> S] : Repeats(h, N, base, step)
  <2> HIDE DEF step, Is, next
  <2> QED  BY <1>1, <1>2, <1>4, Iterates
<1>6. Is(h)
  <2>1. \A n \in 0 .. N : n # 0 => step[h[n - 1]] = next(h[n - 1])
    <3> TAKE n \in 0 .. N
    <3> HAVE n # 0
    <3>1. h[n - 1] \in S
      BY <1>2
    <3> HIDE DEF next
    <3> QED  BY <3>1
  <2>2. \A n \in 0 .. N : h[n] = IF n = 0 THEN base ELSE next(h[n - 1])
    <3> HIDE DEF step, next
    <3> QED  BY <1>5, <2>1 DEF Repeats
  <2>3. h = [n \in 0 .. N |-> h[n]]
    BY <1>5
  <2> HIDE DEF step
  <2> QED  BY <2>2, <2>3
<1>7. Is(g)
  <2> HIDE DEF Is
  <2> QED  BY <1>6 DEF g
<1>8. g[0] = base
  BY <1>2, <1>7
<1>9. ASSUME NEW n \in 1 .. N, g[n - 1] \in S PROVE g[n] \in S
  <2>1. n \in 0 .. N /\ n # 0
    BY <1>2
  <2>2. g[n] = next(g[n - 1])
    BY <1>7, <2>1
  <2> HIDE DEF next
  <2> QED  BY <1>3, <1>9, <2>2
<1>10. \A n \in 0 .. N : g[n] \in S
  <2> HIDE DEF Is, next, step
  <2> QED  BY <1>1, <1>2, <1>8, <1>9, IteratesIn
<1>11. g[N] \in S
  BY <1>2, <1>10
<1>12. DeleteLower(r.q, r.f, sk, order) = g[N].left
  BY DEF DeleteLower, g, N, base
<1> QED  BY <1>11, <1>12 DEF S

(* Making room for a new command, whatever that removes.                   *)
LEMMA MakeRoomLeft ==
  ASSUME NEW qs \in Queues, NEW u \in Unit, NEW d, NEW tg, NEW st \in [Product -> Nat],
         NEW r \in Left(qs, u, d, tg, st), NEW sk, NEW order, NEW tryQueue
  PROVE  MakeRoom(r.q, r.f, sk, order, tryQueue) \in Left(qs, u, d, tg, st)
<1> DEFINE S == Left(qs, u, d, tg, st)
           k == IF order.kind \in Paid /\ tryQueue THEN [q |-> r.q, f |-> r.f]
                ELSE DeleteLower(r.q, r.f, sk, order)
<1>1. r = [q |-> r.q, f |-> r.f]
  BY DEF Left
<1>2. k \in S
  BY <1>1, DeleteLowerLeft
<1>3. CASE ~Queuable(order, tryQueue)
  BY <1>3, ClearLeft DEF MakeRoom
<1>4. CASE Queuable(order, tryQueue)
  <2>1. MakeRoom(r.q, r.f, sk, order, tryQueue) =
          IF k.q # << >> /\ ~Appendable(Last(k.q).order) THEN CancelCommand(k.q, k.f, sk) ELSE k
    BY <1>4 DEF MakeRoom
  <2> HIDE DEF k
  <2>2. CancelCommand(k.q, k.f, sk) \in S
    BY <1>2, CancelLeft
  <2> QED  BY <1>2, <2>1, <2>2
<1> QED  BY <1>3, <1>4

-----------------------------------------------------------------------------
(* Adding an order *)

(* What Unit::checkCommand has found out of an order that is added.        *)
Allowed(f, o, qs, st) ==
  /\ o.of # None => Cost[o.of] <= f.resources
  /\ o.kind \in {"produce", "build"} /\ MaxUnitCount[o.of] > 0 =>
       Due(o.of, qs, st) < MaxUnitCount[o.of]
  /\ o.kind = "upgrade" => o.of \notin DOMAIN f.manager.lookup

(* The counts with one command more.                                       *)
LEMMA CountAppend ==
  ASSUME NEW o, NEW qs \in Queues, NEW u \in Unit, NEW c \in Command
  PROVE  /\ [qs EXCEPT ![u] = Append(qs[u], c)] \in Queues
         /\ Count(o, [qs EXCEPT ![u] = Append(qs[u], c)]) =
              Count(o, qs) + (IF c.order = o THEN 1 ELSE 0)
         /\ Count(o, qs) \in Nat
<1>1. qs[u] \in Seq(Command) /\ Append(qs[u], c) \in Seq(Command)
  BY DEF Queues
<1>2. [qs EXCEPT ![u] = Append(qs[u], c)] \in Queues
  BY <1>1 DEF Queues
<1> DEFINE a == Append(qs[u], c)
<1>3. Cardinality(Here(o, a)) = Cardinality(Here(o, qs[u])) + (IF c.order = o THEN 1 ELSE 0)
  BY <1>1, HereAppend
<1> HIDE DEF a
<1>4. Count(o, [qs EXCEPT ![u] = a]) =
        Count(o, qs) - Cardinality(Here(o, qs[u])) + Cardinality(Here(o, a))
  BY <1>1, CountChange DEF a
<1>5. Cardinality(Here(o, qs[u])) \in Nat /\ Count(o, qs) \in Nat
  BY <1>1, HereFinite, PlacesFinite
<1>6. Count(o, [qs EXCEPT ![u] = a]) = Count(o, qs) + (IF c.order = o THEN 1 ELSE 0)
  BY <1>3, <1>4, <1>5
<1> QED  BY <1>2, <1>5, <1>6 DEF a

(* A new command has begun nothing.                                        *)
LEMMA TidyAppend ==
  ASSUME NEW qs, NEW tg, Tidy(qs, tg), NEW u \in Unit, NEW c \in Command,
         c.order \in Can[u], ~c.begun
  PROVE  Tidy([qs EXCEPT ![u] = Append(qs[u], c)], tg)
<1> DEFINE a == Append(qs[u], c)
           new == [qs EXCEPT ![u] = a]
           L == Len(qs[u])
<1>1. qs \in Queues /\ qs[u] \in Seq(Command)
  BY DEF Tidy, Queues
<1>2. /\ L \in Nat /\ DOMAIN qs[u] = 1 .. L /\ DOMAIN a = 1 .. L + 1 /\ a \in Seq(Command)
      /\ \A j \in 1 .. L : a[j] = qs[u][j]
      /\ a[L + 1] = c
  BY <1>1
<1> HIDE DEF L, a
<1>3. new \in Queues /\ new[u] = a /\ \A v \in Unit : v # u => new[v] = qs[v]
  BY <1>1, <1>2 DEF Queues
<1> HIDE DEF new
<1>4. ASSUME NEW v \in Unit, NEW j \in DOMAIN new[v]
      PROVE  /\ new[v][j].order \in Can[v]
             /\ new[v][j].begun => /\ j = 1 /\ tg[v].state # "none"
                                   /\ tg[v].of = new[v][j].order.of
  <2>1. CASE v # u
    BY <1>3, <2>1 DEF Tidy
  <2>2. CASE v = u /\ j = L + 1
    BY <1>2, <1>3, <2>2
  <2>3. CASE v = u /\ j # L + 1
    <3>1. j \in DOMAIN qs[v] /\ new[v][j] = qs[v][j]
      BY <1>2, <1>3, <2>3
    <3> QED  BY <3>1 DEF Tidy
  <2> QED  BY <2>1, <2>2, <2>3
<1> QED  BY <1>3, <1>4 DEF Tidy, new, a

(* A new order stays within the limit that was checked for it.             *)
LEMMA LimitedAppend ==
  ASSUME NEW qs \in Queues, NEW st \in [Product -> Nat], Limited(qs, st), NEW u \in Unit,
         NEW c \in Command, NEW f, Allowed(f, c.order, qs, st)
  PROVE  Limited([qs EXCEPT ![u] = Append(qs[u], c)], st)
<1> DEFINE new == [qs EXCEPT ![u] = Append(qs[u], c)]
           o == c.order
<1>1. \A x : /\ Count(x, new) = Count(x, qs) + (IF o = x THEN 1 ELSE 0)
             /\ Count(x, qs) \in Nat
  <2> TAKE x
  <2> QED  BY CountAppend
<1> HIDE DEF new
<1> SUFFICES ASSUME NEW p \in Product \ Built, MaxUnitCount[p] > 0
             PROVE  Due(p, new, st) <= MaxUnitCount[p]
  BY DEF Limited, new
<1> DEFINE a == [kind |-> "produce", of |-> p]
           b == [kind |-> "build", of |-> p]
<1>2. /\ a # b
      /\ o = a \/ o = b => o.kind \in {"produce", "build"} /\ o.of = p
  OBVIOUS
<1>3. Due(p, qs, st) = st[p] + Count(a, qs) + Count(b, qs)
  BY DEF Due
<1>4. Due(p, new, st) = st[p] + Count(a, new) + Count(b, new)
  BY DEF Due
<1> HIDE DEF a, b
<1>5. Due(p, qs, st) <= MaxUnitCount[p] /\ MaxUnitCount[p] \in Nat /\ st[p] \in Nat
  BY DEF Limited
<1>6. o = a \/ o = b => Due(p, qs, st) < MaxUnitCount[p]
  BY <1>2 DEF Allowed
<1> HIDE DEF o
<1>7. /\ Count(a, qs) \in Nat /\ Count(a, new) = Count(a, qs) + (IF o = a THEN 1 ELSE 0)
      /\ Count(b, qs) \in Nat /\ Count(b, new) = Count(b, qs) + (IF o = b THEN 1 ELSE 0)
  BY <1>1
<1>8. CASE o = a
  BY <1>2, <1>3, <1>4, <1>5, <1>6, <1>7, <1>8
<1>9. CASE o = b
  BY <1>2, <1>3, <1>4, <1>5, <1>6, <1>7, <1>9
<1>10. CASE o # a /\ o # b
  BY <1>3, <1>4, <1>5, <1>7, <1>10
<1> QED  BY <1>8, <1>9, <1>10

(* A new order is owed, and its upgrade is under way.                      *)
LEMMA BooksAppend ==
  ASSUME NEW qs \in Queues, NEW f, NEW d, NEW st, Books(qs, f, d), NEW u \in Unit,
         NEW c \in Command, Allowed(f, c.order, qs, st)
  PROVE  Books([qs EXCEPT ![u] = Append(qs[u], c)], ApplyCommand(f, c.order), d)
<1> DEFINE new == [qs EXCEPT ![u] = Append(qs[u], c)]
           o == c.order
           g == ApplyCommand(f, o)
<1>1. \A x : /\ Count(x, new) = Count(x, qs) + (IF o = x THEN 1 ELSE 0)
             /\ Count(x, qs) \in Nat
  <2> TAKE x
  <2> QED  BY CountAppend
<1> HIDE DEF new
<1>2. o \in Order /\ IsPurse(f) /\ MP!Sound(f.manager, d)
  BY DEF Command, Books
<1>3. /\ IsPurse(g)
      /\ \A p \in PaidOrder : g.owed[p] = f.owed[p] + (IF p = o THEN 1 ELSE 0)
      /\ g.manager = IF o.kind = "upgrade" THEN MP!StartUpgrade(f.manager, o.of) ELSE f.manager
  BY <1>2, ApplyFacts DEF Allowed
<1>4. o.kind = "upgrade" => /\ o.of \in Upgrade /\ o.of \notin DOMAIN f.manager.lookup
                            /\ o = Upgrading(o.of) /\ o.of \notin d
  BY <1>2, Kinds, UpgradingFacts DEF Allowed, MP!Sound
<1> HIDE DEF o, g
<1>5. ASSUME NEW p \in PaidOrder PROVE g.owed[p] = Count(p, new)
  BY <1>1, <1>3 DEF Books
<1>6. /\ MP!Sound(g.manager, d)
      /\ \A t \in Upgrade : t \in DOMAIN g.manager.lookup \ d <=>
           t \in DOMAIN f.manager.lookup \ d \/ o = Upgrading(t)
  <2>1. CASE o.kind = "upgrade"
    <3>1. /\ MP!Sound(g.manager, d)
          /\ DOMAIN g.manager.lookup = DOMAIN f.manager.lookup \cup {o.of}
      BY <1>2, <1>3, <1>4, <2>1, MP!StartSound
    <3> QED  BY <1>4, <2>1, <3>1, UpgradingFacts
  <2>2. CASE o.kind # "upgrade"
    BY <1>2, <1>3, <2>2, UpgradingFacts
  <2> QED  BY <2>1, <2>2
<1>7. ASSUME Two PROVE MP!Right(g.manager, d)
  <2>1. MP!Right(f.manager, d)
    BY <1>7 DEF Books
  <2>2. CASE o.kind = "upgrade"
    <3>1. MP!Right(MP!StartUpgrade(f.manager, o.of), d)
      BY <1>2, <1>4, <2>1, <2>2, MP!StartRight
    <3> QED  BY <1>3, <2>2, <3>1
  <2>3. CASE o.kind # "upgrade"
    BY <1>3, <2>1, <2>3
  <2> QED  BY <2>2, <2>3
<1>8. ASSUME NEW t \in Upgrade
      PROVE  Count(Upgrading(t), new) = IF t \in DOMAIN g.manager.lookup \ d THEN 1 ELSE 0
  <2>1. /\ Count(Upgrading(t), new) = Count(Upgrading(t), qs) + (IF o = Upgrading(t) THEN 1 ELSE 0)
        /\ Count(Upgrading(t), qs) \in Nat
    BY <1>1
  <2>2. Count(Upgrading(t), qs) = IF t \in DOMAIN f.manager.lookup \ d THEN 1 ELSE 0
    BY DEF Books
  <2>3. CASE o = Upgrading(t)
    <3>1. t \notin DOMAIN f.manager.lookup
      BY <1>4, <2>3, UpgradingFacts
    <3> QED  BY <1>6, <2>1, <2>2, <2>3, <3>1
  <2>4. CASE o # Upgrading(t)
    BY <1>6, <2>1, <2>2, <2>4
  <2> QED  BY <2>3, <2>4
<1> QED  BY <1>3, <1>5, <1>6, <1>8, <1>7 DEF Books, new, o, g

(* The new command at the end of the queue.                                *)
LEMMA AppendLeft ==
  ASSUME NEW qs \in Queues, NEW u \in Unit, NEW d, NEW tg, NEW st \in [Product -> Nat],
         NEW r \in Left(qs, u, d, tg, st), NEW o \in Can[u],
         Allowed(r.f, o, [qs EXCEPT ![u] = r.q], st)
  PROVE  [q |-> Append(r.q, [order |-> o, begun |-> FALSE]), f |-> ApplyCommand(r.f, o)]
           \in Left(qs, u, d, tg, st)
<1> DEFINE cur == [qs EXCEPT ![u] = r.q]
           c == [order |-> o, begun |-> FALSE]
           a == Append(r.q, c)
           g == ApplyCommand(r.f, o)
<1>1. r.q \in Seq(Command) /\ Good(cur, r.f, d, tg, st)
  BY DEF Left
<1>2. cur \in Queues /\ cur[u] = r.q /\ \A q : [cur EXCEPT ![u] = q] = [qs EXCEPT ![u] = q]
  BY <1>1 DEF Queues
<1>3. c \in Command /\ c.order = o /\ ~c.begun
  BY DEF Command
<1> HIDE DEF cur, c
<1>4. a \in Seq(Command)
  BY <1>1, <1>3
<1>5. Books([cur EXCEPT ![u] = Append(cur[u], c)], ApplyCommand(r.f, c.order), d)
  BY <1>1, <1>2, <1>3, BooksAppend DEF Good, cur
<1>6. Tidy([cur EXCEPT ![u] = Append(cur[u], c)], tg)
  BY <1>1, <1>3, TidyAppend DEF Good
<1>7. Limited([cur EXCEPT ![u] = Append(cur[u], c)], st)
  BY <1>1, <1>2, <1>3, LimitedAppend DEF Good, cur
<1>8. Good([qs EXCEPT ![u] = a], g, d, tg, st)
  BY <1>2, <1>3, <1>5, <1>6, <1>7 DEF Good
<1> HIDE DEF a, g
<1>9. [q |-> a, f |-> g] \in Left(qs, u, d, tg, st)
  BY <1>4, <1>8, LeftIs
<1> QED  BY <1>9 DEF a, g, c

-----------------------------------------------------------------------------
(* Unit::giveCommand                                                       *)

(* Unit::checkCommand lets pass what is allowed.                           *)
LEMMA CheckedIsAllowed ==
  ASSUME NEW u \in Unit, NEW f, NEW o \in Order, NEW queues, CheckCommand(u, f, o, queues)
  PROVE  Allowed(f, o, queues, stock)
<1>1. o.of # None => ReqsOk(f, o.of, queues) /\ Cost[o.of] <= f.resources
  BY DEF CheckCommand
<1>2. o.kind = "upgrade" => o.of \notin DOMAIN f.manager.lookup
  BY DEF CheckCommand, M!IsUpgradingOrUpgraded
<1>3. ASSUME o.kind \in {"produce", "build"}, MaxUnitCount[o.of] > 0
      PROVE  Due(o.of, queues, stock) < MaxUnitCount[o.of]
  <2>1. o.of \in Product /\ o.of # None
    BY <1>3, Kinds
  <2>2. CountForMaxUnitCount(o.of, queues) < MaxUnitCount[o.of]
    BY <1>1, <1>3, <2>1 DEF ReqsOk
  <2> QED  BY <2>2 DEF CountForMaxUnitCount, Due
<1> QED  BY <1>1, <1>2, <1>3 DEF Allowed

(* The queue and the purse that Unit::giveCommand leaves, whether the new  *)
(* command is accepted or not.                                             *)
LEMMA GiveToLeft ==
  ASSUME NEW d, NEW tg, stock \in [Product -> Nat], Good(commands, purse, d, tg, stock),
         NEW u \in Unit, NEW sk, NEW order \in Can[u], NEW tryQueue
  PROVE  GiveTo(u, commands[u], purse, sk, order, tryQueue) \in Left(commands, u, d, tg, stock)
<1> DEFINE S == Left(commands, u, d, tg, stock)
           r == MakeRoom(commands[u], purse, sk, order, tryQueue)
           start == [q |-> commands[u], f |-> purse]
           new == [q |-> Append(r.q, [order |-> order, begun |-> FALSE]),
                   f |-> ApplyCommand(r.f, order)]
           queues == [commands EXCEPT ![u] = r.q]
<1>1. commands \in Queues
  BY GoodPurse
<1>2. [commands EXCEPT ![u] = commands[u]] = commands /\ commands[u] \in Seq(Command)
  BY <1>1 DEF Queues
<1>3. start \in S
  BY <1>2, LeftIs
<1>4. r \in S
  <2>1. start.q = commands[u] /\ start.f = purse
    OBVIOUS
  <2> HIDE DEF start
  <2>2. MakeRoom(start.q, start.f, sk, order, tryQueue) \in S
    BY <1>1, <1>3, MakeRoomLeft
  <2> QED  BY <2>1, <2>2
<1>5. order \in Order
  BY OrderAssumption
<1>6. GiveTo(u, commands[u], purse, sk, order, tryQueue) =
        IF CheckCommand(u, r.f, order, queues) THEN new ELSE r
  BY DEF GiveTo
<1>7. ASSUME CheckCommand(u, r.f, order, queues) PROVE new \in S
  <2> HIDE DEF r
  <2>1. Allowed(r.f, order, queues, stock)
    BY <1>5, <1>7, CheckedIsAllowed
  <2> QED  BY <1>1, <1>4, <2>1, AppendLeft
<1> HIDE DEF S, r, new, queues
<1> QED  BY <1>4, <1>6, <1>7 DEF S

-----------------------------------------------------------------------------
(* The stock and the sites                                                 *)

(* Fewer units of what no unit builds.                                     *)
LEMMA LimitedStock ==
  ASSUME NEW qs \in Queues, NEW st \in [Product -> Nat], NEW new \in [Product -> Nat],
         Limited(qs, st), \A p \in Product \ Built : new[p] <= st[p]
  PROVE  Limited(qs, new)
<1> SUFFICES ASSUME NEW p \in Product \ Built, MaxUnitCount[p] > 0
             PROVE  Due(p, qs, new) <= MaxUnitCount[p]
  BY DEF Limited
<1> DEFINE a == Count([kind |-> "produce", of |-> p], qs)
           b == Count([kind |-> "build", of |-> p], qs)
<1>1. a \in Nat /\ b \in Nat
  BY PlacesFinite
<1>2. Due(p, qs, st) = st[p] + a + b /\ Due(p, qs, new) = new[p] + a + b
  BY DEF Due
<1> HIDE DEF a, b
<1>3. Due(p, qs, st) <= MaxUnitCount[p]
  BY DEF Limited
<1>4. new[p] <= st[p] /\ new[p] \in Nat /\ st[p] \in Nat /\ MaxUnitCount[p] \in Nat
  OBVIOUS
<1> QED  BY <1>1, <1>2, <1>3, <1>4

(* A site that changes its state, but is not forgotten.                    *)
LEMMA TidyTarget ==
  ASSUME NEW qs, NEW tg, Tidy(qs, tg), NEW new,
         \A u \in Unit : new[u].of = tg[u].of /\ (tg[u].state # "none" => new[u].state # "none")
  PROVE  Tidy(qs, new)
BY DEF Tidy

(* A building of type p that stands.                                       *)
Standing(p) == [of |-> p, state |-> "built"]

(* A site is of a product that some unit builds, and the buildings that    *)
(* stand are in the stock.                                                 *)
Sites(tg, st) ==
  /\ tg \in [Unit -> Building]
  /\ st \in [Product -> Nat]
  /\ \A u \in Unit : tg[u].state # "none" => tg[u].of \in Built
  /\ \A p \in Product : Cardinality({u \in Unit : tg[u] = Standing(p)}) <= st[p]

(* The site of u becomes s, and the stock changes by as much.              *)
LEMMA SitesChange ==
  ASSUME NEW tg, NEW st, Sites(tg, st), NEW u \in Unit, NEW s \in Building,
         s.state # "none" => s.of \in Built,
         NEW new \in [Product -> Nat],
         \A p \in Product : st[p] + (IF s = Standing(p) THEN 1 ELSE 0)
                              <= new[p] + (IF tg[u] = Standing(p) THEN 1 ELSE 0)
  PROVE  Sites([tg EXCEPT ![u] = s], new)
<1> DEFINE now == [tg EXCEPT ![u] = s]
<1>1. /\ now \in [Unit -> Building] /\ now[u] = s
      /\ \A v \in Unit : v # u => now[v] = tg[v]
  BY DEF Sites
<1> HIDE DEF now
<1>2. ASSUME NEW p \in Product
      PROVE  Cardinality({v \in Unit : now[v] = Standing(p)}) <= new[p]
  <2> DEFINE A == {v \in Unit : tg[v] = Standing(p)}
             B == {v \in Unit : now[v] = Standing(p)}
             C == {v \in Unit \ {u} : tg[v] = Standing(p)}
  <2>1. IsFiniteSet(C) /\ u \notin C
    BY UnitAssumption, FS_Subset
  <2>2. /\ A = IF tg[u] = Standing(p) THEN C \cup {u} ELSE C
        /\ B = IF s = Standing(p) THEN C \cup {u} ELSE C
    BY <1>1
  <2>3. Cardinality(A) <= st[p] /\ st[p] \in Nat /\ new[p] \in Nat
    BY DEF Sites
  <2> HIDE DEF A, B, C
  <2>4. Cardinality(C \cup {u}) = Cardinality(C) + 1 /\ Cardinality(C) \in Nat
    BY <2>1, FS_AddElement, FS_CardinalityType
  <2>5. /\ Cardinality(A) = Cardinality(C) + (IF tg[u] = Standing(p) THEN 1 ELSE 0)
        /\ Cardinality(B) = Cardinality(C) + (IF s = Standing(p) THEN 1 ELSE 0)
    BY <2>2, <2>4
  <2>6. Cardinality(B) <= new[p]
    BY <2>3, <2>4, <2>5
  <2> QED  BY <2>6 DEF B
<1>3. \A v \in Unit : now[v].state # "none" => now[v].of \in Built
  BY <1>1 DEF Sites
<1> QED  BY <1>1, <1>2, <1>3 DEF Sites, now

(* More units in the stock than buildings.                                 *)
LEMMA SitesStock ==
  ASSUME NEW tg, NEW st, Sites(tg, st), NEW new \in [Product -> Nat],
         \A p \in Product :
           new[p] < st[p] => Cardinality({u \in Unit : tg[u] = Standing(p)}) <= new[p]
  PROVE  Sites(tg, new)
<1>1. ASSUME NEW p \in Product
      PROVE  Cardinality({u \in Unit : tg[u] = Standing(p)}) <= new[p]
  <2> DEFINE c == Cardinality({u \in Unit : tg[u] = Standing(p)})
  <2>1. c \in Nat
    BY UnitAssumption, FS_Subset, FS_CardinalityType
  <2>2. c <= st[p] /\ st[p] \in Nat /\ new[p] \in Nat /\ (new[p] < st[p] => c <= new[p])
    BY DEF Sites
  <2> HIDE DEF c
  <2>3. c <= new[p]
    BY <2>1, <2>2
  <2> QED  BY <2>3 DEF c
<1> QED  BY <1>1 DEF Sites

-----------------------------------------------------------------------------
(* What the first command of a unit leaves                                 *)

(* The first command leaves, and its order is settled with the purse g.    *)
LEMMA TailLeft ==
  ASSUME NEW qs, NEW f, NEW d, NEW tg, NEW st, Good(qs, f, d, tg, st), st \in [Product -> Nat],
         NEW u \in Unit, qs[u] # << >>, NEW g, NEW e, Settled(f, d, g, e, Head(qs[u]).order),
         NEW new \in [Product -> Nat], Limited([qs EXCEPT ![u] = Tail(qs[u])], new)
  PROVE  [q |-> Tail(qs[u]), f |-> g] \in Left(qs, u, e, tg, new)
<1> DEFINE t == Tail(qs[u])
<1>1. qs \in Queues /\ qs[u] \in Seq(Command)
  BY DEF Good, Tidy, Queues
<1>2. Without(qs[u], 1, t) /\ 1 \in DOMAIN qs[u] /\ Head(qs[u]) = qs[u][1] /\ t \in Seq(Command)
  BY <1>1, TailIsWithout
<1> HIDE DEF t
<1>3. Books([qs EXCEPT ![u] = t], g, e)
  BY <1>1, <1>2, BooksWithout DEF Good
<1>4. Tidy([qs EXCEPT ![u] = t], tg)
  BY <1>2, TidyWithout DEF Good
<1>5. Good([qs EXCEPT ![u] = t], g, e, tg, new)
  BY <1>3, <1>4 DEF Good, t
<1>6. [q |-> t, f |-> g] \in Left(qs, u, e, tg, new)
  BY <1>2, <1>5, LeftIs
<1> QED  BY <1>6 DEF t

(* What the invariant says of the first command.                           *)
LEMMA TailLimited ==
  ASSUME NEW qs, NEW f, NEW d, NEW tg, NEW st \in [Product -> Nat], Good(qs, f, d, tg, st),
         NEW u \in Unit, qs[u] # << >>
  PROVE  /\ Limited([qs EXCEPT ![u] = Tail(qs[u])], st)
         /\ [qs EXCEPT ![u] = Tail(qs[u])] \in Queues
         /\ Head(qs[u]) \in Command
         /\ Head(qs[u]).order \in Order /\ Head(qs[u]).order \in Can[u]
         /\ Head(qs[u]).begun =>
              tg[u].state # "none" /\ tg[u].of = Head(qs[u]).order.of
         /\ \A p \in Product :
              Head(qs[u]).order.kind = "produce" /\ Head(qs[u]).order.of = p =>
                Due(p, [qs EXCEPT ![u] = Tail(qs[u])], st) + 1 <= Due(p, qs, st)
<1> DEFINE t == Tail(qs[u])
           h == Head(qs[u])
<1>1. qs \in Queues /\ qs[u] \in Seq(Command) /\ Limited(qs, st)
  BY DEF Good, Tidy, Queues
<1>2. Without(qs[u], 1, t) /\ 1 \in DOMAIN qs[u] /\ h = qs[u][1] /\ t \in Seq(Command)
  BY <1>1, TailIsWithout
<1> HIDE DEF t, h
<1>3. h \in Command /\ h.order \in Order
  <2>1. h \in Command
    BY <1>1, <1>2
  <2> QED  BY <2>1 DEF Command
<1>4. h.order \in Can[u] /\ (h.begun => tg[u].state # "none" /\ tg[u].of = h.order.of)
  BY <1>2 DEF Good, Tidy
<1>5. [qs EXCEPT ![u] = t] \in Queues
  BY <1>1, <1>2 DEF Queues
<1>6. /\ Limited([qs EXCEPT ![u] = t], st)
      /\ \A p \in Product :
           h.order.kind = "produce" /\ h.order.of = p =>
             Due(p, [qs EXCEPT ![u] = t], st) + 1 <= Due(p, qs, st)
  BY <1>1, <1>2, LimitedWithout
<1> QED  BY <1>3, <1>4, <1>5, <1>6 DEF t, h

(* An order without a price is dropped, or is a building's that is done.   *)
LEMMA DropLeft ==
  ASSUME NEW qs, NEW f, NEW d, NEW tg, NEW st \in [Product -> Nat], Good(qs, f, d, tg, st),
         NEW u \in Unit, qs[u] # << >>, Head(qs[u]).order.kind \notin Paid
  PROVE  [q |-> Tail(qs[u]), f |-> f] \in Left(qs, u, d, tg, st)
<1> DEFINE o == Head(qs[u]).order
<1>1. o \in Order /\ Limited([qs EXCEPT ![u] = Tail(qs[u])], st)
  BY TailLimited
<1>2. o \notin PaidOrder /\ \A t : o # Upgrading(t)
  BY UpgradingFacts DEF PaidOrder, Paid
<1> HIDE DEF o
<1>3. Settled(f, d, f, d, o)
  <2>1. IsPurse(f) /\ MP!Sound(f.manager, d) /\ (Two => MP!Right(f.manager, d))
    BY DEF Good, Books
  <2>2. \A p \in PaidOrder : f.owed[p] = f.owed[p] - (IF p = o THEN 1 ELSE 0)
    BY <1>2, <2>1 DEF IsPurse
  <2> QED  BY <1>2, <2>1, <2>2 DEF Settled
<1> QED  BY <1>1, <1>3, TailLeft DEF o

(* A unit is produced, and appears if there is a place for it.             *)
LEMMA DeliverLeft ==
  ASSUME NEW qs, NEW f, NEW d, NEW tg, NEW st \in [Product -> Nat], Good(qs, f, d, tg, st),
         NEW u \in Unit, qs[u] # << >>, Head(qs[u]).order.kind = "produce", NEW n \in {0, 1}
  PROVE  /\ Head(qs[u]).order.of \in Product
         /\ [q |-> Tail(qs[u]), f |-> Deliver(f, Head(qs[u]).order)]
              \in Left(qs, u, d, tg, [st EXCEPT ![Head(qs[u]).order.of] = @ + n])
<1> DEFINE o == Head(qs[u]).order
           p == o.of
           new == [st EXCEPT ![p] = @ + n]
           g == Deliver(f, o)
           queues == [qs EXCEPT ![u] = Tail(qs[u])]
<1>1. /\ o \in Order /\ queues \in Queues
      /\ Limited(queues, st)
      /\ \A x \in Product : o.kind = "produce" /\ o.of = x =>
           Due(x, queues, st) + 1 <= Due(x, qs, st)
  BY TailLimited
<1>2. p \in Product
  BY <1>1, Kinds
<1>3. new \in [Product -> Nat] /\ \A x \in Product : new[x] = st[x] + (IF x = p THEN n ELSE 0)
  BY <1>2
<1>4. Limited(queues, new)
  <2> HIDE DEF queues, new
  <2> SUFFICES ASSUME NEW x \in Product \ Built, MaxUnitCount[x] > 0
               PROVE  Due(x, queues, new) <= MaxUnitCount[x]
    BY DEF Limited
  <2> DEFINE a == Count([kind |-> "produce", of |-> x], queues)
             b == Count([kind |-> "build", of |-> x], queues)
             c == Due(x, qs, st)
  <2>1. a \in Nat /\ b \in Nat
    BY <1>1, PlacesFinite
  <2>2. Due(x, queues, st) = st[x] + a + b /\ Due(x, queues, new) = new[x] + a + b
    BY DEF Due
  <2>3. c \in Nat
    <3>1. Count([kind |-> "produce", of |-> x], qs) \in Nat
          /\ Count([kind |-> "build", of |-> x], qs) \in Nat
      BY PlacesFinite DEF Good, Tidy
    <3>2. st[x] \in Nat
      OBVIOUS
    <3> QED  BY <3>1, <3>2 DEF Due
  <2>4. /\ c <= MaxUnitCount[x] /\ Due(x, queues, st) <= MaxUnitCount[x]
        /\ MaxUnitCount[x] \in Nat /\ st[x] \in Nat
    BY <1>1 DEF Good, Limited
  <2>5. x = p => Due(x, queues, st) + 1 <= c
    BY <1>1
  <2>6. new[x] = st[x] + (IF x = p THEN n ELSE 0)
    BY <1>3
  <2> HIDE DEF a, b, c, p
  <2> QED  BY <2>1, <2>2, <2>3, <2>4, <2>5, <2>6
<1>5. Settled(f, d, g, d, o)
  <2>1. /\ IsPurse(f) /\ MP!Sound(f.manager, d) /\ (Two => MP!Right(f.manager, d))
        /\ \A t : o # Upgrading(t)
    BY UpgradingFacts DEF Good, Books
  <2> HIDE DEF o
  <2>2. /\ IsPurse(g) /\ g.manager = f.manager
        /\ \A x \in PaidOrder : g.owed[x] = f.owed[x] + (IF x = o THEN -1 ELSE 0)
    BY <1>1, <2>1, OweFacts DEF Deliver
  <2> HIDE DEF g
  <2>3. \A x \in PaidOrder : g.owed[x] = f.owed[x] - (IF x = o THEN 1 ELSE 0)
    BY <2>1, <2>2 DEF IsPurse
  <2> QED  BY <2>1, <2>2, <2>3 DEF Settled
<1> HIDE DEF new, g
<1>6. [q |-> Tail(qs[u]), f |-> g] \in Left(qs, u, d, tg, new)
  BY <1>3, <1>4, <1>5, TailLeft
<1> QED  BY <1>2, <1>6 DEF new, g

(* An upgrade is completed.                                                *)
LEMMA FinishLeft ==
  ASSUME NEW qs, NEW f, NEW d, NEW tg, NEW st \in [Product -> Nat], Good(qs, f, d, tg, st),
         NEW u \in Unit, qs[u] # << >>, Head(qs[u]).order.kind = "upgrade"
  PROVE  [q |-> Tail(qs[u]),
          f |-> [Deliver(f, Head(qs[u]).order)
                   EXCEPT !.manager = M!FinishUpgrade(@, Head(qs[u]).order.of)]]
           \in Left(qs, u, d \cup {Head(qs[u]).order.of}, tg, st)
<1> DEFINE o == Head(qs[u]).order
           t == o.of
           w == Deliver(f, o)
           g == [w EXCEPT !.manager = M!FinishUpgrade(@, t)]
<1>1. o \in Order /\ Limited([qs EXCEPT ![u] = Tail(qs[u])], st)
  BY TailLimited
<1>2. IsPurse(f) /\ MP!Sound(f.manager, d)
  BY DEF Good, Books
<1>3. /\ t \in Upgrade /\ o = Upgrading(t)
      /\ t \in DOMAIN f.manager.lookup /\ t \notin d
  <2>1. qs \in Queues /\ qs[u] \in Seq(Command) /\ Books(qs, f, d)
    BY DEF Good, Tidy, Queues
  <2>2. 1 \in DOMAIN qs[u] /\ Head(qs[u]) = qs[u][1]
    BY <2>1
  <2> QED  BY <2>1, <2>2, QueuedUnderway
<1> HIDE DEF o
<1>4. /\ IsPurse(w) /\ w.manager = f.manager
      /\ \A x \in PaidOrder : w.owed[x] = f.owed[x] + (IF x = o THEN -1 ELSE 0)
  BY <1>1, <1>2, OweFacts DEF Deliver
<1> HIDE DEF w, t
<1>5. M!FinishUpgrade(w.manager, t) = MP!FinishUpgrade(f.manager, t)
  BY <1>4 DEF M!FinishUpgrade, MP!FinishUpgrade
<1>6. g = [w EXCEPT !.manager = MP!FinishUpgrade(f.manager, t)]
  BY <1>5
<1> HIDE DEF g
<1>7. IsPurse(g) /\ g.owed = w.owed /\ g.manager = MP!FinishUpgrade(f.manager, t)
  BY <1>4, <1>6, ManagerFacts
<1>8. /\ MP!Sound(g.manager, d \cup {t})
      /\ DOMAIN g.manager.lookup = DOMAIN f.manager.lookup
  <2>1. /\ MP!Sound(MP!FinishUpgrade(f.manager, t), d \cup {t})
        /\ DOMAIN MP!FinishUpgrade(f.manager, t).lookup = DOMAIN f.manager.lookup
    BY <1>2, <1>3, MP!FinishSound
  <2> QED  BY <1>7, <2>1
<1>9. ASSUME Two PROVE MP!Right(g.manager, d \cup {t})
  <2>1. MP!Right(f.manager, d)
    BY <1>9 DEF Good, Books
  <2>2. MP!Right(MP!FinishUpgrade(f.manager, t), d \cup {t})
    BY <1>2, <1>3, <2>1, MP!FinishRight
  <2> QED  BY <1>7, <2>2
<1>10. Settled(f, d, g, d \cup {t}, o)
  <2>1. \A x \in PaidOrder : g.owed[x] = f.owed[x] - (IF x = o THEN 1 ELSE 0)
    BY <1>2, <1>4, <1>7 DEF IsPurse
  <2>2. \A s \in Upgrade : s \in DOMAIN g.manager.lookup \ (d \cup {t}) <=>
          s \in DOMAIN f.manager.lookup \ d /\ o # Upgrading(s)
    BY <1>3, <1>8, UpgradingFacts
  <2> QED  BY <1>7, <1>8, <1>9, <2>1, <2>2 DEF Settled
<1>11. [q |-> Tail(qs[u]), f |-> g] \in Left(qs, u, d \cup {t}, tg, st)
  BY <1>1, <1>10, TailLeft DEF o
<1> QED  BY <1>11 DEF g, w, t, o

(* Changes of the sites and of the stock that do not concern a queue.      *)
LEMMA GoodElsewhere ==
  ASSUME NEW qs, NEW f, NEW d, NEW tg, NEW st \in [Product -> Nat], Good(qs, f, d, tg, st),
         NEW now, NEW new \in [Product -> Nat],
         \A u \in Unit : now[u].of = tg[u].of /\ (tg[u].state # "none" => now[u].state # "none"),
         \A p \in Product \ Built : new[p] <= st[p]
  PROVE  Good(qs, f, d, now, new)
<1>1. qs \in Queues /\ Tidy(qs, tg) /\ Limited(qs, st) /\ Books(qs, f, d)
  BY DEF Good, Tidy
<1>2. Tidy(qs, now)
  BY <1>1, TidyTarget
<1>3. Limited(qs, new)
  BY <1>1, LimitedStock
<1> QED  BY <1>1, <1>2, <1>3 DEF Good

(* A builder starts its building.                                          *)
LEMMA BegunLeft ==
  ASSUME NEW qs, NEW f, NEW d, NEW tg \in [Unit -> Building], NEW st \in [Product -> Nat],
         Good(qs, f, d, tg, st), NEW u \in Unit, qs[u] # << >>, NEW s \in Building,
         s.of = Head(qs[u]).order.of, s.state # "none"
  PROVE  [q |-> [qs[u] EXCEPT ![1].begun = TRUE], f |-> f]
           \in Left(qs, u, d, [tg EXCEPT ![u] = s], st)
<1> DEFINE h == Head(qs[u])
           q == [qs[u] EXCEPT ![1].begun = TRUE]
           c == [order |-> h.order, begun |-> TRUE]
           new == [qs EXCEPT ![u] = q]
           now == [tg EXCEPT ![u] = s]
           L == Len(qs[u])
<1>1. qs \in Queues /\ qs[u] \in Seq(Command) /\ h = qs[u][1] /\ h \in Command
  <2>1. qs \in Queues /\ qs[u] \in Seq(Command)
    BY DEF Good, Tidy, Queues
  <2> QED  BY <2>1
<1>2. L \in Nat /\ 1 \in 1 .. L /\ DOMAIN qs[u] = 1 .. L
  BY <1>1
<1>3. c \in Command /\ c.order = h.order
  BY <1>1 DEF Command
<1>4. q = [qs[u] EXCEPT ![1] = c]
  <2>1. h = [order |-> h.order, begun |-> h.begun]
    BY <1>1 DEF Command
  <2> HIDE DEF h
  <2>2. \A r, x : r = [order |-> r.order, begun |-> r.begun] =>
          [r EXCEPT !.begun = x] = [order |-> r.order, begun |-> x]
    OBVIOUS
  <2>3. [h EXCEPT !.begun = TRUE] = c
    BY <2>1, <2>2
  <2> HIDE DEF c
  <2> QED  BY <1>1, <2>3
<1> HIDE DEF q, c, h, L
<1>5. /\ q \in Seq(Command) /\ Len(q) = L /\ DOMAIN q = 1 .. L
      /\ \A j \in 1 .. L : q[j] = IF j = 1 THEN c ELSE qs[u][j]
  <2>1. /\ q \in Seq(Command) /\ Len(q) = Len(qs[u])
        /\ \A j \in 1 .. Len(qs[u]) : q[j] = IF j = 1 THEN c ELSE qs[u][j]
    BY <1>1, <1>2, <1>3, <1>4, ExceptSeq DEF L
  <2> QED  BY <2>1 DEF L
<1>6. \A j \in 1 .. L : q[j].order = qs[u][j].order
  BY <1>1, <1>3, <1>5
<1>7. \A o : Here(o, q) = Here(o, qs[u])
  BY <1>2, <1>5, <1>6 DEF Here
<1>8. \A o : Count(o, new) = Count(o, qs)
  <2> TAKE o
  <2>1. Count(o, new) = Count(o, qs) - Cardinality(Here(o, qs[u])) + Cardinality(Here(o, q))
    <3>1. qs \in Queues /\ q \in Seq(Command)
      BY <1>1, <1>5
    <3> QED  BY <3>1, CountChange
  <2>2. Count(o, qs) \in Nat
    BY <1>1, PlacesFinite
  <2>3. Cardinality(Here(o, qs[u])) \in Nat
    BY <1>1, HereFinite
  <2> QED  BY <1>7, <2>1, <2>2, <2>3
<1>9. /\ new \in Queues /\ new[u] = q /\ \A v \in Unit : v # u => new[v] = qs[v]
      /\ now[u] = s /\ \A v \in Unit : v # u => now[v] = tg[v]
  BY <1>1, <1>5 DEF Queues
<1> HIDE DEF new, now
<1>10. Books(new, f, d)
  BY <1>8 DEF Good, Books
<1>11. Limited(new, st)
  BY <1>8 DEF Good, Limited, Due
<1>12. Tidy(new, now)
  <2>1. ASSUME NEW v \in Unit, NEW j \in DOMAIN new[v]
        PROVE  /\ new[v][j].order \in Can[v]
               /\ new[v][j].begun => /\ j = 1 /\ now[v].state # "none"
                                     /\ now[v].of = new[v][j].order.of
    <3>1. CASE v # u
      BY <1>9, <3>1 DEF Good, Tidy
    <3>2. CASE v = u
      <4>1. j \in DOMAIN qs[u] /\ new[v][j] = q[j] /\ j \in 1 .. L
        BY <1>2, <1>5, <1>9, <3>2
      <4>2. qs[u][j].order \in Can[u] /\ (qs[u][j].begun => j = 1)
        BY <4>1 DEF Good, Tidy
      <4>3. CASE j = 1
        BY <1>1, <1>3, <1>5, <1>9, <3>2, <4>1, <4>2, <4>3 DEF h
      <4>4. CASE j # 1
        BY <1>5, <3>2, <4>1, <4>2, <4>4
      <4> QED  BY <4>3, <4>4
    <3> QED  BY <3>1, <3>2
  <2> QED  BY <1>9, <2>1 DEF Tidy
<1>13. Good([qs EXCEPT ![u] = q], f, d, now, st)
  BY <1>10, <1>11, <1>12 DEF Good, new
<1>14. [q |-> q, f |-> f] \in Left(qs, u, d, now, st)
  BY <1>5, <1>13, LeftIs
<1> QED  BY <1>14 DEF q, now

-----------------------------------------------------------------------------
(* The inductive invariant                                                 *)

(* What every reachable state satisfies.                                   *)
Inv ==
  /\ Good(commands, purse, done, target, stock)
  /\ Sites(target, stock)
  /\ skill \in [Unit -> Skill]
  /\ progress2 \in [Unit -> 0 .. ProductionTime]
  /\ alive \in [Unit -> BOOLEAN]

(* Nothing is queued, owed or built at the start.                          *)
LEMMA InvInit == Init => Inv
<1> SUFFICES ASSUME Init PROVE Inv
  OBVIOUS
<1>1. \A o : Count(o, commands) = 0
  <2> TAKE o
  <2>1. Places(o, commands) = {}
    BY DEF Init, Places
  <2> QED  BY <2>1, FS_EmptySet DEF Count
<1>2. /\ purse.resources = StartAmount /\ purse.manager = M!Empty
      /\ purse.owed = [order \in PaidOrder |-> 0]
      /\ purse = [resources |-> purse.resources, manager |-> purse.manager, owed |-> purse.owed]
  BY DEF Init
<1>3. IsPurse(purse)
  BY <1>2 DEF IsPurse
<1>4. M!Empty = MP!Empty /\ done = {}
  BY DEF M!Empty, MP!Empty, Init
<1>5. MP!Sound(purse.manager, done)
  BY <1>2, <1>4, MP!EmptySound
<1>6. DOMAIN purse.manager.lookup = {}
  BY <1>2, <1>4 DEF MP!Empty
<1>7. Books(commands, purse, done)
  BY <1>1, <1>2, <1>3, <1>5, <1>6 DEF Books, MP!Right
<1>8. Tidy(commands, target)
  <2>1. commands \in Queues
    BY DEF Init, Queues
  <2>2. \A u \in Unit : DOMAIN commands[u] = {}
    BY DEF Init
  <2> QED  BY <2>1, <2>2 DEF Tidy
<1>9. stock \in [Product -> Nat] /\ \A p \in Product : stock[p] = 0
  BY DEF Init
<1>10. Limited(commands, stock)
  <2> SUFFICES ASSUME NEW p \in Product, MaxUnitCount[p] > 0
               PROVE  Due(p, commands, stock) <= MaxUnitCount[p]
    BY DEF Limited
  <2>1. Due(p, commands, stock) = 0
    BY <1>1, <1>9 DEF Due
  <2> QED  BY <2>1
<1>11. Sites(target, stock)
  <2>1. target \in [Unit -> Building] /\ \A u \in Unit : target[u].state = "none"
    BY DEF Init, Building
  <2>2. ASSUME NEW p \in Product
        PROVE  Cardinality({u \in Unit : target[u] = Standing(p)}) = 0
    <3>1. {u \in Unit : target[u] = Standing(p)} = {}
      BY <2>1 DEF Standing
    <3> QED  BY <3>1, FS_EmptySet
  <2> QED  BY <1>9, <2>1, <2>2 DEF Sites
<1>12. /\ skill \in [Unit -> Skill] /\ progress2 \in [Unit -> 0 .. ProductionTime]
       /\ alive \in [Unit -> BOOLEAN]
  BY DEF Init, Skill
<1> QED  BY <1>7, <1>8, <1>10, <1>11, <1>12 DEF Inv, Good

(* The end of the update of a unit: a dead one loses its commands, one     *)
(* without commands stops.                                                 *)
LEMMA EndGood ==
  ASSUME commands \in Queues, skill \in [Unit -> Skill],
         progress2 \in [Unit -> 0 .. ProductionTime],
         NEW u \in Unit, NEW d, NEW tg, NEW st \in [Product -> Nat], NEW q, NEW f,
         [q |-> q, f |-> f] \in Left(commands, u, d, tg, st),
         NEW sk \in Skill, NEW pr \in 0 .. ProductionTime, End(u, q, f, sk, pr)
  PROVE  /\ Good(commands', purse', d, tg, st)
         /\ skill' \in [Unit -> Skill]
         /\ progress2' \in [Unit -> 0 .. ProductionTime]
<1> DEFINE S == Left(commands, u, d, tg, st)
           c == [order |-> StopOrder, begun |-> FALSE]
           killed == ClearCommands(q, f, sk)
           r == [q |-> q, f |-> f]
           stopped == [q |-> Append(r.q, c), f |-> ApplyCommand(r.f, StopOrder)]
<1>1. r \in S /\ r.q = q /\ r.f = f
  OBVIOUS
<1>2. killed \in S
  <2> HIDE DEF r
  <2>1. ClearCommands(r.q, r.f, sk) \in S
    BY <1>1, ClearLeft
  <2> QED  BY <1>1, <2>1
<1>3. ASSUME StopOrder \in Can[u] PROVE stopped \in S
  <2>1. Allowed(r.f, StopOrder, [commands EXCEPT ![u] = r.q], st)
    BY DEF Allowed, StopOrder
  <2> HIDE DEF r, c
  <2> QED  BY <1>1, <1>3, <2>1, AppendLeft DEF c
<1>4. ASSUME q = << >> PROVE stopped.q = <<c>> /\ stopped.f = f
  <2>1. Append(<< >>, c) = <<c>>
    OBVIOUS
  <2>2. ApplyCommand(f, StopOrder) = f
    BY DEF ApplyCommand, StopOrder
  <2> QED  BY <1>1, <1>4, <2>1, <2>2
<1> HIDE DEF c, stopped, killed, S, r
<1>5. \E x \in S : commands' = [commands EXCEPT ![u] = x.q] /\ purse' = x.f
  <2>1. CASE ~alive[u]
    BY <1>2, <2>1 DEF End, killed
  <2>2. CASE alive[u] /\ q = << >> /\ StopOrder \in Can[u]
    BY <1>3, <1>4, <2>2 DEF End, c
  <2>3. CASE alive[u] /\ q = << >> /\ StopOrder \notin Can[u]
    BY <1>1, <2>3 DEF End
  <2>4. CASE alive[u] /\ q # << >>
    BY <1>1, <2>4 DEF End
  <2> QED  BY <2>1, <2>2, <2>3, <2>4
<1>6. Good(commands', purse', d, tg, st)
  BY <1>5 DEF S, Left
<1>7. skill' \in [Unit -> Skill] /\ progress2' \in [Unit -> 0 .. ProductionTime]
  <2>1. "stop" \in Skill /\ "die" \in Skill /\ 0 \in 0 .. ProductionTime
    BY PriceAssumption DEF Skill
  <2> QED  BY <2>1 DEF End
<1> QED  BY <1>6, <1>7

(* An update of a unit that leaves a good queue and purse, with the sites  *)
(* in order, keeps the invariant.                                          *)
LEMMA Updated ==
  ASSUME Inv, NEW u \in Unit, NEW q, NEW f,
         [q |-> q, f |-> f] \in Left(commands, u, done', target', stock'),
         Sites(target', stock'), NEW sk \in Skill, NEW pr \in 0 .. ProductionTime,
         End(u, q, f, sk, pr), alive' = alive
  PROVE  Inv'
<1>1. /\ commands \in Queues /\ skill \in [Unit -> Skill]
      /\ progress2 \in [Unit -> 0 .. ProductionTime]
  BY DEF Inv, Good, Tidy
<1> DEFINE d == done'
           tg == target'
           st == stock'
<1>2. st \in [Product -> Nat]
  BY DEF Sites
<1>3. [q |-> q, f |-> f] \in Left(commands, u, d, tg, st)
  OBVIOUS
<1> HIDE DEF d, tg, st
<1>4. /\ Good(commands', purse', d, tg, st)
      /\ skill' \in [Unit -> Skill]
      /\ progress2' \in [Unit -> 0 .. ProductionTime]
  BY <1>1, <1>2, <1>3, EndGood
<1>5. Good(commands', purse', done', target', stock')
  BY <1>4 DEF d, tg, st
<1>6. alive' \in [Unit -> BOOLEAN]
  BY DEF Inv
<1> QED  BY <1>4, <1>5, <1>6 DEF Inv

(* What the invariant says of the queue of a unit.                         *)
LEMMA Now ==
  ASSUME Inv, NEW u \in Unit
  PROVE  /\ commands \in Queues /\ commands[u] \in Seq(Command)
         /\ [commands EXCEPT ![u] = commands[u]] = commands
         /\ stock \in [Product -> Nat] /\ target \in [Unit -> Building]
         /\ [q |-> commands[u], f |-> purse] \in Left(commands, u, done, target, stock)
         /\ skill[u] \in Skill /\ progress2[u] \in 0 .. ProductionTime
         /\ "stop" \in Skill /\ "move" \in Skill /\ "build" \in Skill /\ "produce" \in Skill
         /\ "upgrade" \in Skill /\ 0 \in 0 .. ProductionTime
<1>1. /\ commands \in Queues /\ commands[u] \in Seq(Command)
      /\ [commands EXCEPT ![u] = commands[u]] = commands
  BY DEF Inv, Good, Tidy, Queues
<1>2. [q |-> commands[u], f |-> purse] \in Left(commands, u, done, target, stock)
  BY <1>1, LeftIs DEF Inv
<1>3. stock \in [Product -> Nat] /\ target \in [Unit -> Building]
  BY DEF Inv, Sites
<1>4. skill[u] \in Skill /\ progress2[u] \in 0 .. ProductionTime
  BY DEF Inv
<1>5. /\ "stop" \in Skill /\ "move" \in Skill /\ "build" \in Skill /\ "produce" \in Skill
      /\ "upgrade" \in Skill /\ 0 \in 0 .. ProductionTime
  BY DEF Skill
<1> QED  BY <1>1, <1>2, <1>3, <1>4, <1>5

(* The last command is taken back.                                         *)
LEMMA CancelNow ==
  ASSUME Inv, NEW u \in Unit, NEW sk
  PROVE  LET r == CancelCommand(commands[u], purse, sk)
         IN  r = [q |-> r.q, f |-> r.f] /\ r \in Left(commands, u, done, target, stock)
<1> DEFINE r == [q |-> commands[u], f |-> purse]
           S == Left(commands, u, done, target, stock)
           c == CancelCommand(commands[u], purse, sk)
<1>1. r \in S /\ r.q = commands[u] /\ r.f = purse
  BY Now
<1> HIDE DEF r
<1>2. CancelCommand(r.q, r.f, sk) \in S
  BY <1>1, CancelLeft, Now
<1> HIDE DEF c
<1>3. c \in S
  BY <1>1, <1>2 DEF c
<1>4. c = [q |-> c.q, f |-> c.f]
  BY <1>3 DEF Left
<1> QED  BY <1>3, <1>4 DEF c

(* An order from the command list.                                         *)
LEMMA GiveCommandInv ==
  ASSUME Inv, NEW u \in Unit, NEW order \in Can[u], NEW tryQueue \in BOOLEAN,
         GiveCommand(u, order, tryQueue)
  PROVE  Inv'
<1> DEFINE r == GiveTo(u, commands[u], purse, skill[u], order, tryQueue)
<1>1. /\ commands' = [commands EXCEPT ![u] = r.q] /\ purse' = r.f
      /\ UNCHANGED <<skill, progress2, alive, target, stock, done>>
  BY DEF GiveCommand
<1>2. r \in Left(commands, u, done, target, stock)
  BY GiveToLeft DEF Inv, Sites
<1> HIDE DEF r
<1>3. Good(commands', purse', done, target, stock)
  BY <1>1, <1>2 DEF Left
<1> QED  BY <1>1, <1>3 DEF Inv

(* A cancellation from the command list.                                   *)
LEMMA CancelOrderInv ==
  ASSUME Inv, NEW u \in Unit, CancelOrder(u)
  PROVE  Inv'
<1> DEFINE r == CancelCommand(commands[u], purse, skill[u])
<1>1. /\ commands' = [commands EXCEPT ![u] = r.q] /\ purse' = r.f
      /\ UNCHANGED <<skill, progress2, alive, target, stock, done>>
  BY DEF CancelOrder
<1>2. r \in Left(commands, u, done, target, stock)
  BY CancelNow
<1> HIDE DEF r
<1>3. Good(commands', purse', done, target, stock)
  BY <1>1, <1>2 DEF Left
<1> QED  BY <1>1, <1>3 DEF Inv

(* A unit that stands, and may run away.                                   *)
LEMMA UpdateStopInv ==
  ASSUME Inv, NEW u \in Unit, UpdateStop(u), alive' = alive
  PROVE  Inv'
<1>1. UNCHANGED <<target, stock, done>> /\ Sites(target', stock')
  BY DEF UpdateStop, Inv
<1>2. CASE End(u, commands[u], purse, "stop", 0)
  BY <1>1, <1>2, Now, Updated
<1>3. CASE /\ MoveOrder \in Can[u]
           /\ LET r == GiveTo(u, commands[u], purse, "stop", MoveOrder, FALSE)
              IN  End(u, r.q, r.f, "stop", 0)
  <2> DEFINE r == GiveTo(u, commands[u], purse, "stop", MoveOrder, FALSE)
  <2>1. r \in Left(commands, u, done', target', stock')
    BY <1>1, <1>3, GiveToLeft DEF Inv, Sites
  <2>2. End(u, r.q, r.f, "stop", 0)
    BY <1>3
  <2> HIDE DEF r
  <2>3. r = [q |-> r.q, f |-> r.f]
    BY <2>1 DEF Left
  <2> QED  BY <1>1, <2>1, <2>2, <2>3, Now, Updated
<1> QED  BY <1>2, <1>3 DEF UpdateStop

(* A unit on its way.                                                      *)
LEMMA UpdateMoveInv ==
  ASSUME Inv, NEW u \in Unit, commands[u] # << >>, Head(commands[u]).order.kind = "move",
         UpdateMove(u), alive' = alive
  PROVE  Inv'
<1>1. UNCHANGED <<target, stock, done>> /\ Sites(target', stock')
  BY DEF UpdateMove, Inv
<1>2. [q |-> Tail(commands[u]), f |-> purse] \in Left(commands, u, done', target', stock')
  BY <1>1, DropLeft DEF Inv, Sites, Paid
<1>3. CASE End(u, commands[u], purse, "move", 0)
  BY <1>1, <1>3, Now, Updated
<1>4. CASE End(u, commands[u], purse, "stop", 0)
  BY <1>1, <1>4, Now, Updated
<1>5. CASE End(u, Tail(commands[u]), purse, "stop", 0)
  BY <1>1, <1>2, <1>5, Now, Updated
<1>6. CASE End(u, Tail(commands[u]), purse, skill[u], progress2[u])
  BY <1>1, <1>2, <1>6, Now, Updated
<1> QED  BY <1>3, <1>4, <1>5, <1>6 DEF UpdateMove

(* A unit in the middle of a production.                                   *)
LEMMA ProducesInv ==
  ASSUME Inv, NEW u \in Unit, NEW sk \in Skill, Produces(u, sk), alive' = alive
  PROVE  Inv'
<1> DEFINE pr == IF skill[u] = sk THEN progress2[u] + 1 ELSE 0
<1>1. UNCHANGED <<target, stock, done>> /\ Sites(target', stock')
  BY DEF Produces, Inv
<1>2. pr \in 0 .. ProductionTime
  <2>1. progress2[u] \in 0 .. ProductionTime /\ ProductionTime \in Nat
    BY Now
  <2>2. ~(skill[u] = sk /\ progress2[u] + 1 > ProductionTime)
    BY DEF Produces, Ready
  <2> QED  BY <2>1, <2>2
<1>3. End(u, commands[u], purse, sk, pr)
  BY DEF Produces
<1> HIDE DEF pr
<1> QED  BY <1>1, <1>2, <1>3, Now, Updated

(* A unit that produces another.                                           *)
LEMMA UpdateProduceInv ==
  ASSUME Inv, NEW u \in Unit, commands[u] # << >>, Head(commands[u]).order.kind = "produce",
         UpdateProduce(u), alive' = alive
  PROVE  Inv'
<1>1. CASE Produces(u, "produce")
  BY <1>1, ProducesInv, Now
<1>2. CASE ~Produces(u, "produce")
  <2> DEFINE order == Head(commands[u]).order
             f == Deliver(purse, order)
  <2>1. PICK n \in {0, 1} :
          /\ End(u, Tail(commands[u]), f, "stop", 0)
          /\ stock' = [stock EXCEPT ![order.of] = @ + n]
          /\ UNCHANGED <<target, done>>
    BY <1>2 DEF UpdateProduce
  <2>2. /\ order.of \in Product
        /\ [q |-> Tail(commands[u]), f |-> f] \in Left(commands, u, done', target', stock')
    BY <2>1, DeliverLeft DEF Inv, Sites
  <2> HIDE DEF order, f
  <2>3. /\ stock' \in [Product -> Nat]
        /\ \A p \in Product : ~(stock'[p] < stock[p])
    <3>1. stock \in [Product -> Nat] /\ n \in Nat
      BY DEF Inv, Sites
    <3>2. stock' = [stock EXCEPT ![order.of] = stock[order.of] + n]
      BY <2>1
    <3> QED  BY <2>2, <3>1, <3>2
  <2>4. Sites(target', stock')
    BY <2>1, <2>3, SitesStock DEF Inv
  <2> QED  BY <2>1, <2>2, <2>4, Now, Updated
<1> QED  BY <1>1, <1>2

(* A unit that works on an upgrade.                                        *)
LEMMA UpdateUpgradeInv ==
  ASSUME Inv, NEW u \in Unit, commands[u] # << >>, Head(commands[u]).order.kind = "upgrade",
         UpdateUpgrade(u), alive' = alive
  PROVE  Inv'
<1>1. CASE Produces(u, "upgrade")
  BY <1>1, ProducesInv, Now
<1>2. CASE ~Produces(u, "upgrade")
  <2> DEFINE order == Head(commands[u]).order
             f == [Deliver(purse, order) EXCEPT !.manager = M!FinishUpgrade(@, order.of)]
  <2>1. /\ End(u, Tail(commands[u]), f, "stop", 0)
        /\ done' = done \cup {order.of}
        /\ UNCHANGED <<target, stock>>
    BY <1>2 DEF UpdateUpgrade
  <2>2. [q |-> Tail(commands[u]), f |-> f] \in Left(commands, u, done', target', stock')
    BY <2>1, FinishLeft DEF Inv, Sites
  <2> HIDE DEF order, f
  <2>3. Sites(target', stock')
    BY <2>1 DEF Inv
  <2> QED  BY <2>1, <2>2, <2>3, Now, Updated
<1> QED  BY <1>1, <1>2

(* A builder that walks to the place, starts its building or gives up.     *)
LEMMA ApproachSiteInv ==
  ASSUME Inv, NEW u \in Unit, commands[u] # << >>, Head(commands[u]).order.kind = "build",
         ApproachSite(u), done' = done, alive' = alive
  PROVE  Inv'
<1> DEFINE q == commands[u]
           o == Head(q).order
           c == CancelCommand(q, purse, skill[u])
           b == [q EXCEPT ![1].begun = TRUE]
           s == [of |-> o.of, state |-> "being"]
<1>1. stock' = stock
  BY DEF ApproachSite
<1>2. c = [q |-> c.q, f |-> c.f] /\ c \in Left(commands, u, done, target, stock)
  BY CancelNow
<1>3. o \in Order /\ o \in Can[u] /\ o.of \in Product /\ o.of \in Built
  <2>1. o \in Order /\ o \in Can[u]
    BY TailLimited DEF Inv, Sites
  <2>2. o = [kind |-> "build", of |-> o.of] /\ o.of \in Product
    BY <2>1, Kinds
  <2> QED  BY <2>1, <2>2 DEF Built
<1>4. ASSUME UNCHANGED target PROVE Sites(target', stock')
  BY <1>1, <1>4 DEF Inv
<1>5. CASE End(u, q, purse, "move", 0) /\ UNCHANGED target
  BY <1>1, <1>4, <1>5, Now, Updated
<1>6. CASE /\ End(u, b, purse, "build", 0)
           /\ target' = [target EXCEPT ![u] = s]
  <2>1. s \in Building /\ s.of = o.of /\ s.state # "none" /\ \A p : s # Standing(p)
    BY <1>3 DEF Building, Standing
  <2>2. [q |-> b, f |-> purse] \in Left(commands, u, done', target', stock')
    BY <1>1, <1>6, <2>1, BegunLeft DEF Inv, Sites
  <2> HIDE DEF s, b
  <2>3. Sites(target', stock')
    <3>1. stock \in [Product -> Nat]
      BY Now
    <3>2. \A p \in Product : stock[p] + (IF s = Standing(p) THEN 1 ELSE 0)
                               <= stock[p] + (IF target[u] = Standing(p) THEN 1 ELSE 0)
      BY <2>1, <3>1
    <3>3. s.of \in Built
      BY <1>3, <2>1
    <3>4. Sites([target EXCEPT ![u] = s], stock)
      BY <2>1, <3>1, <3>2, <3>3, SitesChange DEF Inv
    <3> QED  BY <1>1, <1>6, <3>4
  <2> QED  BY <1>6, <2>2, <2>3, Now, Updated
<1> HIDE DEF c
<1>7. CASE End(u, c.q, c.f, "stop", 0) /\ UNCHANGED target
  BY <1>1, <1>2, <1>4, <1>7, Now, Updated
<1>8. CASE End(u, c.q, c.f, skill[u], progress2[u]) /\ UNCHANGED target
  BY <1>1, <1>2, <1>4, <1>8, Now, Updated
<1>9. CASE End(u, q, purse, skill[u], progress2[u]) /\ UNCHANGED target
  BY <1>1, <1>4, <1>9, Now, Updated
<1> QED  BY <1>5, <1>6, <1>7, <1>8, <1>9 DEF ApproachSite, c

(* A building that is under way is completed: u's site, and the stock.     *)
LEMMA Completed ==
  ASSUME Inv, NEW u \in Unit, target[u].state = "being",
         target' = [target EXCEPT ![u].state = "built"],
         stock' = [stock EXCEPT ![target[u].of] = @ + 1]
  PROVE  /\ Sites(target', stock')
         /\ stock' \in [Product -> Nat]
         /\ \A v \in Unit : /\ target'[v].of = target[v].of
                            /\ target[v].state # "none" => target'[v].state # "none"
         /\ \A p \in Product \ Built : stock'[p] <= stock[p]
<1> DEFINE p == target[u].of
           s == [of |-> p, state |-> "built"]
           new == [stock EXCEPT ![p] = @ + 1]
<1>1. /\ target \in [Unit -> Building] /\ stock \in [Product -> Nat]
      /\ p \in Built /\ p \in Product
  BY DEF Inv, Sites, Built
<1>2. target[u] = [of |-> p, state |-> "being"]
  BY <1>1 DEF Building
<1>3. s \in Building /\ s = Standing(p) /\ \A x \in Product : s = Standing(x) => x = p
  BY <1>1 DEF Building, Standing
<1>4. new \in [Product -> Nat] /\ \A x \in Product : new[x] = stock[x] + (IF x = p THEN 1 ELSE 0)
  BY <1>1
<1>5. target' = [target EXCEPT ![u] = s]
  <2>1. [target[u] EXCEPT !.state = "built"] = s
    BY <1>2
  <2> HIDE DEF s
  <2> QED  BY <2>1, <1>1
<1>6. \A x \in Product : target[u] # Standing(x)
  BY <1>2 DEF Standing
<1>7. stock' = new
  OBVIOUS
<1>8. s.of = p /\ s.state = "built"
  OBVIOUS
<1> HIDE DEF p, s, new
<1>9. Sites([target EXCEPT ![u] = s], new)
  <2>1. \A x \in Product : stock[x] + (IF s = Standing(x) THEN 1 ELSE 0)
                             <= new[x] + (IF target[u] = Standing(x) THEN 1 ELSE 0)
    BY <1>1, <1>3, <1>4, <1>6
  <2>2. Sites(target, stock) /\ new \in [Product -> Nat] /\ s \in Building /\ s.of \in Built
    BY <1>1, <1>3, <1>4, <1>8 DEF Inv
  <2> QED  BY <2>1, <2>2, SitesChange
<1>10. \A v \in Unit : /\ target'[v].of = target[v].of
                       /\ target[v].state # "none" => target'[v].state # "none"
  BY <1>1, <1>2, <1>5, <1>8
<1>11. \A x \in Product \ Built : new[x] <= stock[x]
  BY <1>1, <1>4
<1> QED  BY <1>4, <1>5, <1>7, <1>9, <1>10, <1>11

(* A builder at work: it goes on, leaves, or completes the building.       *)
LEMMA WorkOnSiteInv ==
  ASSUME Inv, NEW u \in Unit, commands[u] # << >>, Head(commands[u]).order.kind = "build",
         WorkOnSite(u), done' = done, alive' = alive
  PROVE  Inv'
<1> DEFINE q == commands[u]
           o == Head(q).order
           t == [q |-> Tail(q), f |-> purse]
<1>1. t \in Left(commands, u, done, target, stock)
  BY DropLeft DEF Inv, Sites, Paid
<1>2. ASSUME UNCHANGED <<target, stock>> PROVE Sites(target', stock')
  BY <1>2 DEF Inv
<1>3. CASE End(u, q, purse, "stop", 0) /\ UNCHANGED <<target, stock>>
  BY <1>2, <1>3, Now, Updated
<1>4. CASE End(u, Tail(q), purse, "stop", 0) /\ UNCHANGED <<target, stock>>
  BY <1>1, <1>2, <1>4, Now, Updated
<1>5. CASE End(u, q, purse, skill[u], progress2[u]) /\ UNCHANGED <<target, stock>>
  BY <1>2, <1>5, Now, Updated
<1>6. CASE /\ Head(q).begun /\ target[u].state = "being"
           /\ End(u, Tail(q), purse, "stop", 0)
           /\ target' = [target EXCEPT ![u].state = "built"]
           /\ stock' = [stock EXCEPT ![o.of] = @ + 1]
  <2>1. target[u].of = o.of
    <3>1. stock \in [Product -> Nat] /\ Good(commands, purse, done, target, stock)
      BY DEF Inv, Sites
    <3>2. /\ 1 \in DOMAIN q /\ Head(q) = q[1]
          /\ q[1].begun => target[u].of = q[1].order.of
      <4>1. 1 \in DOMAIN q /\ Head(q) = q[1]
        <5>1. q \in Seq(Command)
          BY Now
        <5> QED  BY <5>1
      <4> QED  BY <3>1, <4>1 DEF Good, Tidy
    <3> QED  BY <1>6, <3>2
  <2>2. /\ Sites(target', stock') /\ stock' \in [Product -> Nat]
        /\ \A v \in Unit : /\ target'[v].of = target[v].of
                           /\ target[v].state # "none" => target'[v].state # "none"
        /\ \A p \in Product \ Built : stock'[p] <= stock[p]
    BY <1>6, <2>1, Completed
  <2> HIDE DEF t
  <2>3. Good([commands EXCEPT ![u] = t.q], t.f, done, target, stock)
    BY <1>1 DEF Left
  <2>4. Good([commands EXCEPT ![u] = t.q], t.f, done, target', stock')
    <3>1. stock \in [Product -> Nat]
      BY Now
    <3> QED  BY <2>2, <2>3, <3>1, GoodElsewhere
  <2>5. t.q \in Seq(Command) /\ t = [q |-> t.q, f |-> t.f]
    BY <1>1 DEF Left
  <2>6. t \in Left(commands, u, done', target', stock')
    BY <2>4, <2>5, LeftIs
  <2> QED  BY <1>6, <2>2, <2>6, Now, Updated DEF t
<1> QED  BY <1>3, <1>4, <1>5, <1>6 DEF WorkOnSite

(* The update of a unit, whatever its first command.                       *)
LEMMA UpdateUnitInv ==
  ASSUME Inv, NEW u \in Unit, UpdateUnit(u)
  PROVE  Inv'
<1>1. alive' = alive
  BY DEF UpdateUnit
<1>2. CASE commands[u] # << >> /\ UpdateCommand(u)
  <2> DEFINE kind == Head(commands[u]).order.kind
  <2>1. CASE kind = "stop" /\ UpdateStop(u)
    BY <1>1, <2>1, UpdateStopInv
  <2>2. CASE kind = "move" /\ UpdateMove(u)
    BY <1>1, <1>2, <2>2, UpdateMoveInv
  <2>3. CASE kind = "build" /\ UpdateBuild(u)
    BY <1>1, <1>2, <2>3, ApproachSiteInv, WorkOnSiteInv DEF UpdateBuild
  <2>4. CASE kind = "produce" /\ UpdateProduce(u)
    BY <1>1, <1>2, <2>4, UpdateProduceInv
  <2>5. CASE kind = "upgrade" /\ UpdateUpgrade(u)
    BY <1>1, <1>2, <2>5, UpdateUpgradeInv
  <2> QED  BY <1>2, <2>1, <2>2, <2>3, <2>4, <2>5 DEF UpdateCommand
<1>3. CASE /\ commands[u] = << >>
           /\ End(u, << >>, purse, skill[u], progress2[u])
           /\ UNCHANGED <<target, stock, done>>
  <2>1. Sites(target', stock')
    BY <1>3 DEF Inv
  <2> QED  BY <1>1, <1>3, <2>1, Now, Updated
<1> QED  BY <1>2, <1>3 DEF UpdateUnit

(* A dead unit loses its commands.                                         *)
LEMMA KillInv ==
  ASSUME Inv, NEW u \in Unit, Kill(u)
  PROVE  Inv'
<1>1. /\ End(u, commands[u], purse, skill[u], progress2[u])
      /\ UNCHANGED <<alive, target, stock, done>>
  BY DEF Kill
<1>2. Sites(target', stock')
  BY <1>1 DEF Inv
<1> QED  BY <1>1, <1>2, Now, Updated

(* A unit dies.                                                            *)
LEMMA HitInv ==
  ASSUME Inv, NEW u \in Unit, Hit(u)
  PROVE  Inv'
<1>1. /\ UNCHANGED <<commands, skill, progress2, target, purse, stock, done>>
      /\ alive' \in [Unit -> BOOLEAN]
  BY DEF Hit, Inv
<1> QED  BY <1>1 DEF Inv

(* A load is delivered.                                                    *)
LEMMA HarvestInv ==
  ASSUME Inv, Harvest
  PROVE  Inv'
<1>1. /\ purse' = IncResourceAmount(purse, 1)
      /\ UNCHANGED <<commands, skill, progress2, alive, target, stock, done>>
  BY DEF Harvest
<1>2. IsPurse(purse) /\ Books(commands, purse, done)
  BY DEF Inv, Good, Books
<1>3. purse.resources + 1 >= 0
  BY <1>2 DEF IsPurse
<1>4. IsPurse(purse') /\ purse'.manager = purse.manager /\ purse'.owed = purse.owed
  BY <1>1, <1>2, <1>3, IncFacts
<1>5. Books(commands, purse', done)
  BY <1>2, <1>4 DEF Books
<1> QED  BY <1>1, <1>5 DEF Inv, Good

(* Another worker completes the building.                                  *)
LEMMA RepairedInv ==
  ASSUME Inv, NEW u \in Unit, Repaired(u)
  PROVE  Inv'
<1>1. /\ Sites(target', stock') /\ stock' \in [Product -> Nat]
      /\ \A v \in Unit : /\ target'[v].of = target[v].of
                         /\ target[v].state # "none" => target'[v].state # "none"
      /\ \A p \in Product \ Built : stock'[p] <= stock[p]
  BY Completed DEF Repaired
<1>2. stock \in [Product -> Nat] /\ Good(commands, purse, done, target, stock)
  BY DEF Inv, Sites
<1>3. Good(commands, purse, done, target', stock')
  BY <1>1, <1>2, GoodElsewhere
<1>4. UNCHANGED <<commands, skill, progress2, alive, purse, done>>
  BY DEF Repaired
<1> QED  BY <1>1, <1>3, <1>4 DEF Inv

(* A building is destroyed: if it stood, it was in the stock.              *)
LEMMA DestroyedInv ==
  ASSUME Inv, NEW u \in Unit, Destroyed(u)
  PROVE  Inv'
<1> DEFINE p == target[u].of
           s == [of |-> p, state |-> "gone"]
           was == target[u].state
<1>1. /\ target \in [Unit -> Building] /\ stock \in [Product -> Nat]
      /\ was \in {"being", "built"} /\ p \in Built /\ p \in Product
      /\ target[u] = [of |-> p, state |-> was]
      /\ target[u] \in Building
  BY DEF Inv, Sites, Built, Destroyed, Building
<1>2. s \in Building /\ \A x \in Product : s # Standing(x)
  BY <1>1 DEF Building, Standing
<1>3. target' = [target EXCEPT ![u] = s]
  <2>1. [target[u] EXCEPT !.state = "gone"] = s
    BY <1>1
  <2>2. target' = [target EXCEPT ![u].state = "gone"]
    BY DEF Destroyed
  <2> HIDE DEF s
  <2> QED  BY <1>1, <2>1, <2>2
<1>4. target[u] = Standing(p) <=> was = "built"
  BY <1>1 DEF Standing
<1>5. \A x \in Product : target[u] = Standing(x) => x = p
  BY <1>1 DEF Standing
<1>6. stock' = IF was = "built" THEN [stock EXCEPT ![p] = @ - 1] ELSE stock
  BY DEF Destroyed
<1>7. s.of = p /\ s.state = "gone"
  OBVIOUS
<1> HIDE DEF p, s, was
<1>8. was = "built" => stock[p] >= 1
  <2> SUFFICES ASSUME was = "built" PROVE stock[p] >= 1
    OBVIOUS
  <2> DEFINE A == {v \in Unit : target[v] = Standing(p)}
  <2>1. u \in A /\ IsFiniteSet(A) /\ Cardinality(A) <= stock[p]
    BY <1>1, <1>4, UnitAssumption, FS_Subset DEF Inv, Sites
  <2> HIDE DEF A
  <2>2. Cardinality(A) \in Nat /\ Cardinality(A) # 0
    BY <2>1, FS_CardinalityType, FS_EmptySet
  <2> QED  BY <1>1, <2>1, <2>2
<1>9. /\ stock' \in [Product -> Nat]
      /\ \A x \in Product :
           stock'[x] = stock[x] - (IF was = "built" /\ x = p THEN 1 ELSE 0)
  BY <1>1, <1>6, <1>8
<1>10. Sites(target', stock')
  <2>1. \A x \in Product : stock[x] + (IF s = Standing(x) THEN 1 ELSE 0)
                             <= stock'[x] + (IF target[u] = Standing(x) THEN 1 ELSE 0)
    BY <1>1, <1>2, <1>4, <1>5, <1>9
  <2> QED  BY <1>1, <1>2, <1>3, <1>7, <1>9, <2>1, SitesChange DEF Inv
<1>11. \A v \in Unit : /\ target'[v].of = target[v].of
                       /\ target[v].state # "none" => target'[v].state # "none"
  BY <1>1, <1>3, <1>7
<1>12. \A x \in Product \ Built : stock'[x] <= stock[x]
  BY <1>1, <1>9
<1>13. Good(commands, purse, done, target', stock')
  BY <1>1, <1>9, <1>11, <1>12, GoodElsewhere DEF Inv
<1>14. UNCHANGED <<commands, skill, progress2, alive, purse, done>>
  BY DEF Destroyed
<1> QED  BY <1>10, <1>13, <1>14 DEF Inv

(* A unit that is no building dies.                                        *)
LEMMA LostInv ==
  ASSUME Inv, NEW p \in Product, Lost(p)
  PROVE  Inv'
<1> DEFINE c == Cardinality({u \in Unit : target[u] = Standing(p)})
<1>1. /\ stock[p] > c /\ stock' = [stock EXCEPT ![p] = @ - 1]
      /\ UNCHANGED <<commands, skill, progress2, alive, target, purse, done>>
  BY DEF Lost, Standing
<1>2. stock \in [Product -> Nat] /\ c \in Nat
  BY UnitAssumption, FS_Subset, FS_CardinalityType DEF Inv, Sites
<1>3. \A x \in Product : x = p => Cardinality({u \in Unit : target[u] = Standing(x)}) = c
  OBVIOUS
<1> HIDE DEF c
<1>4. /\ stock' \in [Product -> Nat]
      /\ \A x \in Product : stock'[x] = stock[x] - (IF x = p THEN 1 ELSE 0)
  BY <1>1, <1>2
<1>5. Sites(target, stock')
  <2>1. \A x \in Product :
          stock'[x] < stock[x] => Cardinality({u \in Unit : target[u] = Standing(x)}) <= stock'[x]
    <3> TAKE x \in Product
    <3> HAVE stock'[x] < stock[x]
    <3>1. x = p /\ stock'[p] = stock[p] - 1 /\ stock[p] \in Nat
      BY <1>2, <1>4
    <3> QED  BY <1>1, <1>2, <1>3, <3>1
  <2> QED  BY <1>4, <2>1, SitesStock DEF Inv
<1>6. Good(commands, purse, done, target, stock')
  <2>1. \A x \in Product \ Built : stock'[x] <= stock[x]
    BY <1>2, <1>4
  <2> QED  BY <1>2, <1>4, <2>1, GoodElsewhere DEF Inv
<1> QED  BY <1>1, <1>5, <1>6 DEF Inv

(* Every step keeps the invariant.                                         *)
LEMMA InvNext == Inv /\ [Next]_vars => Inv'
<1> SUFFICES ASSUME Inv, [Next]_vars PROVE Inv'
  OBVIOUS
<1>1. ASSUME NEW u \in Unit, NEW order \in Can[u], NEW tryQueue \in BOOLEAN,
             GiveCommand(u, order, tryQueue)
      PROVE  Inv'
  BY <1>1, GiveCommandInv
<1>2. ASSUME NEW u \in Unit, CancelOrder(u) PROVE Inv'
  BY <1>2, CancelOrderInv
<1>3. ASSUME NEW u \in Unit, UpdateUnit(u) PROVE Inv'
  BY <1>3, UpdateUnitInv
<1>4. ASSUME NEW u \in Unit, Kill(u) PROVE Inv'
  BY <1>4, KillInv
<1>5. ASSUME NEW u \in Unit, Hit(u) PROVE Inv'
  BY <1>5, HitInv
<1>6. ASSUME NEW u \in Unit, Destroyed(u) PROVE Inv'
  BY <1>6, DestroyedInv
<1>7. ASSUME NEW u \in Unit, Repaired(u) PROVE Inv'
  BY <1>7, RepairedInv
<1>8. CASE Harvest
  BY <1>8, HarvestInv
<1>9. ASSUME NEW p \in Product, Lost(p) PROVE Inv'
  BY <1>9, LostInv
<1>10. CASE UNCHANGED vars
  BY <1>10 DEF vars, Inv
<1> QED  BY <1>1, <1>2, <1>3, <1>4, <1>5, <1>6, <1>7, <1>8, <1>9, <1>10 DEF Next

(* The invariant holds in every reachable state, for any units, products,  *)
(* upgrades, prices and limits.                                            *)
THEOREM Invariant == Spec => []Inv
<1> QED  BY InvInit, InvNext, PTL DEF Spec

-----------------------------------------------------------------------------
(* What the runs check                                                     *)

(* The faction never has debts, and every variable has its type:           *)
(* Unit::giveCommand checks a price in the state in which the order is     *)
(* then charged.                                                           *)
THEOREM TypeCorrect == Spec => []TypeOK
<1>1. Inv => TypeOK
  <2> SUFFICES ASSUME Inv PROVE TypeOK
    OBVIOUS
  <2>1. commands \in [Unit -> Seq(Command)]
    BY DEF Inv, Good, Tidy, Queues
  <2>2. purse.resources \in 0 .. Store /\ purse.owed \in [PaidOrder -> Int]
    BY DEF Inv, Good, Books, IsPurse
  <2>3. M!TypeOK
    <3>1. MP!Sound(purse.manager, done)
      BY DEF Inv, Good, Books
    <3> QED  BY <3>1 DEF MP!Sound, M!TypeOK, MP!Entry, M!Entry
  <2> QED  BY <2>1, <2>2, <2>3 DEF Inv, Sites, TypeOK
<1> QED  BY Invariant, <1>1, PTL

(* Every order to produce a unit or an upgrade that was charged is queued  *)
(* exactly as often as it was neither delivered nor returned.              *)
THEOREM EveryPriceSettled == Spec => []ProductionLedger
<1>1. Inv => ProductionLedger
  BY DEF Inv, Good, Books, ProductionLedger
<1> QED  BY Invariant, <1>1, PTL

(* A product that no unit builds never exceeds the limit that              *)
(* Faction::reqsOk checked when it was ordered.                            *)
THEOREM LimitsKept == Spec => []WithinLimit
<1>1. Inv => WithinLimit
  <2> SUFFICES ASSUME Inv, NEW p \in Product \ Built, MaxUnitCount[p] > 0
               PROVE  stock[p] <= MaxUnitCount[p]
    BY DEF WithinLimit
  <2> DEFINE a == Count([kind |-> "produce", of |-> p], commands)
             b == Count([kind |-> "build", of |-> p], commands)
  <2>1. a \in Nat /\ b \in Nat
    BY PlacesFinite DEF Inv, Good, Tidy
  <2>2. stock[p] + a + b <= MaxUnitCount[p]
    BY DEF Inv, Good, Limited, Due
  <2>3. stock[p] \in Nat /\ MaxUnitCount[p] \in Nat
    BY DEF Inv, Sites
  <2> HIDE DEF a, b
  <2> QED  BY <2>1, <2>2, <2>3
<1> QED  BY Invariant, <1>1, PTL

(* An upgrade is under way exactly while one unit has the one order for    *)
(* it.                                                                     *)
THEOREM UpgradesOrderedOnce == Spec => []UpgradeOrdered
<1>1. Inv => UpgradeOrdered
  BY DEF Inv, Good, Books, UpgradeOrdered, Upgrading, M!Pending
<1> QED  BY Invariant, <1>1, PTL

(* UpgradeManager::cancelUpgrade and finishUpgrade never throw, whatever   *)
(* is ordered, cancelled, completed or killed.                             *)
THEOREM ManagerNeverThrows == Spec => []NoThrow
<1>1. Inv => NoThrow
  <2> SUFFICES ASSUME Inv PROVE NoThrow
    OBVIOUS
  <2>1. MP!Sound(purse.manager, done)
    BY DEF Inv, Good, Books
  <2>2. \A S : M!Cardinality(S) = MP!Cardinality(S)
    BY DEF M!Cardinality, MP!Cardinality
  <2> QED  BY <2>1, <2>2 DEF MP!Sound, NoThrow, M!NoThrow
<1> QED  BY Invariant, <1>1, PTL

(* With at most two upgrade types a faction has an upgrade exactly when    *)
(* one of its units completed it.                                          *)
THEOREM UpgradesAsDone ==
  ASSUME NEW a, NEW b, Upgrade \subseteq {a, b}
  PROVE  Spec => []UpgradedAsDone
<1>1. Inv => UpgradedAsDone
  <2> SUFFICES ASSUME Inv PROVE UpgradedAsDone
    OBVIOUS
  <2>1. MP!Sound(purse.manager, done) /\ MP!Right(purse.manager, done)
    BY DEF Inv, Good, Books, Two
  <2> QED  BY <2>1 DEF MP!Sound, MP!Right, UpgradedAsDone, M!UpgradedAsDone, M!IsUpgraded
<1> QED  BY Invariant, <1>1, PTL
=============================================================================
