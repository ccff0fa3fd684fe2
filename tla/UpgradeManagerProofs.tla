------------------------ MODULE UpgradeManagerProofs ------------------------
(***************************************************************************)
(* Proofs about UpgradeManager, for any set of upgrade types: the map and  *)
(* the vector stay in step as far as cancelUpgrade and finishUpgrade need  *)
(* it, although an entry may stand for another upgrade; and with two types *)
(* every entry is the right one.  The lemmas are about the operations as   *)
(* functions of a manager m and of the upgrades d that are completed, so   *)
(* that UnitOrdersProofs can use them for steps that call several.         *)
(***************************************************************************)
EXTENDS UpgradeManager, FiniteSetTheorems, SequenceTheorems, TLAPS

(* A vector without its i-th element.                                      *)
LEMMA Erased ==
  ASSUME NEW S, NEW s \in Seq(S), NEW i \in 1 .. Len(s)
  PROVE  /\ RemoveAt(s, i) \in Seq(S)
         /\ Len(RemoveAt(s, i)) = Len(s) - 1
         /\ \A j \in 1 .. Len(s) - 1 :
              RemoveAt(s, i)[j] = IF j < i THEN s[j] ELSE s[j + 1]
<1> DEFINE a == SubSeq(s, 1, i - 1)
           b == SubSeq(s, i + 1, Len(s))
<1>1. a \in Seq(S) /\ Len(a) = i - 1 /\ \A j \in 1 .. i - 1 : a[j] = s[j]
  BY SubSeqProperties
<1>2. /\ b \in Seq(S)
      /\ Len(b) = Len(s) - i
      /\ \A j \in 1 .. Len(s) - i : b[j] = s[i + j]
  <2>1. CASE i = Len(s)
    BY <2>1, SubSeqProperties
  <2>2. CASE i < Len(s)
    BY <2>2, SubSeqProperties
  <2> QED  BY <2>1, <2>2
<1>3. RemoveAt(s, i) = a \o b
  BY DEF RemoveAt
<1> HIDE DEF a, b
<1>4. a \o b \in Seq(S) /\ Len(a \o b) = Len(s) - 1
  <2>1. a \o b \in Seq(S) /\ Len(a \o b) = Len(a) + Len(b)
    BY <1>1, <1>2, ConcatProperties
  <2>2. Len(s) \in Nat /\ i \in Nat
    BY LenProperties
  <2> QED  BY <1>1, <1>2, <2>1, <2>2
<1>5. ASSUME NEW j \in 1 .. Len(s) - 1
      PROVE  (a \o b)[j] = IF j < i THEN s[j] ELSE s[j + 1]
  <2>1. CASE j < i
    BY <2>1, <1>1, <1>2, ConcatProperties
  <2>2. CASE j >= i
    <3>1. (a \o b)[j] = b[j - (i - 1)]
      BY <2>2, <1>1, <1>2, ConcatProperties
    <3>2. b[j - (i - 1)] = s[j + 1]
      BY <2>2, <1>2
    <3> QED  BY <2>2, <3>1, <3>2
  <2>3. j < i \/ j >= i
    BY LenProperties
  <2> QED  BY <2>1, <2>2, <2>3
<1> QED  BY <1>3, <1>4, <1>5

-----------------------------------------------------------------------------
(* The invariant.  The number of entries is what keeps cancelUpgrade from  *)
(* giving a place before the first one: such a place would need an empty   *)
(* vector and a type left in the map.                                      *)

Sound(m, d) ==
  /\ m = [upgrades |-> m.upgrades, lookup |-> m.lookup]
  /\ m.upgrades \in Seq(Entry)
  /\ m.lookup \in [DOMAIN m.lookup -> Nat]
  /\ DOMAIN m.lookup \subseteq Upgrade
  /\ IsFiniteSet(DOMAIN m.lookup)
  /\ \A t \in DOMAIN m.lookup : m.lookup[t] \in 1 .. Len(m.upgrades)
  /\ Cardinality(DOMAIN m.lookup) = Len(m.upgrades)
  /\ d \subseteq DOMAIN m.lookup

Inv == Sound(manager, done)

(* Of a sound manager the two invariants that are checked hold.            *)
LEMMA SoundMeans == Inv <=> TypeOK /\ NoThrow /\ IsFiniteSet(DOMAIN manager.lookup)
BY DEF Inv, Sound, TypeOK, NoThrow

(* At the start there is nothing.                                          *)
LEMMA EmptySound == Sound(Empty, {})
<1>1. /\ Empty = [upgrades |-> << >>, lookup |-> [t \in {} |-> 0]]
      /\ Empty.upgrades = << >> /\ Empty.lookup = [t \in {} |-> 0]
  BY DEF Empty
<1>2. DOMAIN Empty.lookup = {}
  BY <1>1
<1> QED  BY <1>1, <1>2, FS_EmptySet DEF Sound

(* A new upgrade gets the last place.                                      *)
LEMMA StartSound ==
  ASSUME NEW m, NEW d, Sound(m, d), NEW t \in Upgrade, t \notin DOMAIN m.lookup
  PROVE  /\ Sound(StartUpgrade(m, t), d)
         /\ DOMAIN StartUpgrade(m, t).lookup = DOMAIN m.lookup \cup {t}
<1> DEFINE ups == Append(m.upgrades, [type |-> t, upgraded |-> FALSE])
           dom == DOMAIN m.lookup \cup {t}
           look == [s \in dom |-> IF s = t THEN Len(ups) ELSE m.lookup[s]]
<1> DEFINE new == StartUpgrade(m, t)
<1>1. new = [upgrades |-> ups, lookup |-> look]
  BY DEF StartUpgrade
<1>3. ups \in Seq(Entry) /\ Len(ups) = Len(m.upgrades) + 1
  BY DEF Sound, Entry
<1>4. IsFiniteSet(dom) /\ Cardinality(dom) = Len(ups)
  BY <1>3, FS_AddElement DEF Sound
<1>5. \A s \in dom : look[s] \in 1 .. Len(ups)
  BY <1>3 DEF Sound
<1>6. dom \subseteq Upgrade /\ d \subseteq dom
  BY DEF Sound
<1>7. DOMAIN look = dom /\ look \in [dom -> Nat]
  <2>1. \A s \in dom : look[s] \in Nat
    <3> HIDE DEF look, dom, ups
    <3> QED  BY <1>5
  <2> HIDE DEF dom
  <2>2. DOMAIN look = dom /\ look = [s \in dom |-> look[s]]
    OBVIOUS
  <2> HIDE DEF look
  <2> QED  BY <2>1, <2>2
<1> HIDE DEF ups, look, new
<1>8. new.upgrades = ups /\ new.lookup = look
  BY <1>1
<1>9. DOMAIN new.lookup = dom
  BY <1>7, <1>8
<1>10. Sound(new, d)
  <2> HIDE DEF dom
  <2> QED  BY <1>1, <1>3, <1>4, <1>5, <1>6, <1>7, <1>8, <1>9 DEF Sound
<1> QED  BY <1>9, <1>10 DEF new

(* What cancelUpgrade leaves: no type but the cancelled one goes.          *)
LEMMA CancelFacts ==
  ASSUME NEW m, NEW d, Sound(m, d), NEW t \in DOMAIN m.lookup
  PROVE  LET ups == RemoveAt(m.upgrades, m.lookup[t])
             dom == DOMAIN m.lookup \ {t}
         IN  /\ CancelUpgrade(m, t) =
                  [upgrades |-> ups,
                   lookup |-> [s \in dom |-> Moved(m.lookup[s], Len(ups))]]
             /\ ups \in Seq(Entry)
             /\ Len(ups) = Len(m.upgrades) - 1
             /\ IsFiniteSet(dom)
             /\ Cardinality(dom) = Len(ups)
             /\ \A s \in dom : Moved(m.lookup[s], Len(ups)) \in 1 .. Len(ups)
<1> DEFINE ups == RemoveAt(m.upgrades, m.lookup[t])
           dom == DOMAIN m.lookup \ {t}
           kept == {s \in dom : Moved(m.lookup[s], Len(ups)) > 0}
<1>1. m.lookup[t] \in 1 .. Len(m.upgrades)
  BY DEF Sound
<1>2. ups \in Seq(Entry) /\ Len(ups) = Len(m.upgrades) - 1
  BY <1>1, Erased DEF Sound
<1>3. IsFiniteSet(dom) /\ Cardinality(dom) = Len(ups)
  BY <1>1, <1>2, FS_RemoveElement DEF Sound
<1>4. \A s \in dom : Moved(m.lookup[s], Len(ups)) \in 1 .. Len(ups)
  <2> SUFFICES ASSUME NEW s \in dom
               PROVE  Moved(m.lookup[s], Len(ups)) \in 1 .. Len(ups)
    OBVIOUS
  <2>1. Cardinality(dom) # 0
    <3> HIDE DEF dom
    <3> QED  BY <1>3, FS_EmptySet
  <2>2. Len(ups) \in Nat /\ Len(ups) >= 1
    BY <2>1, <1>2, <1>3
  <2>3. m.lookup[s] \in 1 .. Len(ups) + 1
    BY <1>2, <2>2 DEF Sound
  <2> QED  BY <2>2, <2>3 DEF Moved
<1>5. kept = dom
  BY <1>2, <1>4
<1>6. CancelUpgrade(m, t) = [upgrades |-> ups,
                             lookup |-> [s \in kept |-> Moved(m.lookup[s], Len(ups))]]
  BY DEF CancelUpgrade
<1> QED  BY <1>2, <1>3, <1>4, <1>5, <1>6

(* The cancelled upgrade leaves the vector and the map.                    *)
LEMMA CancelSound ==
  ASSUME NEW m, NEW d, Sound(m, d), NEW t \in DOMAIN m.lookup, t \notin d
  PROVE  /\ Sound(CancelUpgrade(m, t), d)
         /\ DOMAIN CancelUpgrade(m, t).lookup = DOMAIN m.lookup \ {t}
<1> DEFINE ups == RemoveAt(m.upgrades, m.lookup[t])
           dom == DOMAIN m.lookup \ {t}
           look == [s \in dom |-> Moved(m.lookup[s], Len(ups))]
           new == CancelUpgrade(m, t)
<1>1. new = [upgrades |-> ups, lookup |-> look]
  BY CancelFacts
<1>2. ups \in Seq(Entry) /\ IsFiniteSet(dom) /\ Cardinality(dom) = Len(ups)
  BY CancelFacts
<1>3. \A s \in dom : look[s] \in 1 .. Len(ups)
  BY CancelFacts
<1>4. dom \subseteq Upgrade /\ d \subseteq dom
  BY DEF Sound
<1>5. DOMAIN look = dom /\ look \in [dom -> Nat]
  <2>1. \A s \in dom : look[s] \in Nat
    <3> HIDE DEF look, dom, ups
    <3> QED  BY <1>3
  <2> HIDE DEF dom
  <2>2. DOMAIN look = dom /\ look = [s \in dom |-> look[s]]
    OBVIOUS
  <2> HIDE DEF look
  <2> QED  BY <2>1, <2>2
<1> HIDE DEF ups, look, new
<1>6. new.upgrades = ups /\ new.lookup = look
  BY <1>1
<1>7. DOMAIN new.lookup = dom
  BY <1>5, <1>6
<1>8. Sound(new, d)
  <2> HIDE DEF dom
  <2> QED  BY <1>1, <1>2, <1>3, <1>4, <1>5, <1>6, <1>7 DEF Sound
<1> QED  BY <1>7, <1>8 DEF new

(* What finishUpgrade leaves: one entry is marked.                         *)
LEMMA FinishFacts ==
  ASSUME NEW m, NEW d, Sound(m, d), NEW t \in DOMAIN m.lookup
  PROVE  LET new == FinishUpgrade(m, t)
         IN  /\ new = [upgrades |-> new.upgrades, lookup |-> m.lookup]
             /\ new.lookup = m.lookup
             /\ new.upgrades \in Seq(Entry)
             /\ Len(new.upgrades) = Len(m.upgrades)
             /\ \A i \in 1 .. Len(m.upgrades) :
                  /\ new.upgrades[i].type = m.upgrades[i].type
                  /\ new.upgrades[i].upgraded
                       <=> i = m.lookup[t] \/ m.upgrades[i].upgraded
<1> DEFINE place == m.lookup[t]
           old == m.upgrades
           finished == [type |-> old[place].type, upgraded |-> TRUE]
           ups == [old EXCEPT ![place] = finished]
           new == FinishUpgrade(m, t)
<1>1. place \in 1 .. Len(old)
  BY DEF Sound
<1>2. old \in Seq(Entry) /\ m = [upgrades |-> old, lookup |-> m.lookup]
  BY DEF Sound
<1>3. \A i \in 1 .. Len(old) : old[i] \in Entry
  BY <1>2, ElementOfSeq
<1>4. finished \in Entry
  BY <1>1, <1>3 DEF Entry
<1>5. new = [upgrades |-> ups, lookup |-> m.lookup]
  <2>1. new = [m EXCEPT !.upgrades = ups]
    BY DEF FinishUpgrade
  <2>2. \A r, u : r = [upgrades |-> r.upgrades, lookup |-> r.lookup] =>
          [r EXCEPT !.upgrades = u] = [upgrades |-> u, lookup |-> r.lookup]
    OBVIOUS
  <2> HIDE DEF ups, new
  <2> QED  BY <1>2, <2>1, <2>2
<1>6. /\ ups \in Seq(Entry)
      /\ Len(ups) = Len(old)
      /\ \A i \in 1 .. Len(old) : ups[i] = IF i = place THEN finished ELSE old[i]
  <2> HIDE DEF finished
  <2> QED  BY <1>1, <1>2, <1>4, ExceptSeq
<1>7. ASSUME NEW i \in 1 .. Len(old)
      PROVE  /\ ups[i].type = old[i].type
             /\ ups[i].upgraded <=> i = place \/ old[i].upgraded
  <2> HIDE DEF ups
  <2>1. CASE i = place
    BY <1>6, <2>1
  <2>2. CASE i # place
    BY <1>6, <2>2
  <2> QED  BY <2>1, <2>2
<1> HIDE DEF ups, new
<1>8. new.upgrades = ups /\ new.lookup = m.lookup
  BY <1>5
<1> QED  BY <1>5, <1>6, <1>7, <1>8 DEF new

(* A finished upgrade keeps its place.                                     *)
LEMMA FinishSound ==
  ASSUME NEW m, NEW d, Sound(m, d), NEW t \in DOMAIN m.lookup
  PROVE  /\ Sound(FinishUpgrade(m, t), d \cup {t})
         /\ DOMAIN FinishUpgrade(m, t).lookup = DOMAIN m.lookup
<1> DEFINE new == FinishUpgrade(m, t)
<1>1. /\ new = [upgrades |-> new.upgrades, lookup |-> m.lookup]
      /\ new.lookup = m.lookup
      /\ new.upgrades \in Seq(Entry)
      /\ Len(new.upgrades) = Len(m.upgrades)
  BY FinishFacts
<1> HIDE DEF new
<1>2. Sound(new, d \cup {t}) /\ DOMAIN new.lookup = DOMAIN m.lookup
  BY <1>1 DEF Sound
<1> QED  BY <1>2 DEF new

(* The invariant holds, whatever the order of the calls.                   *)
THEOREM Invariant == Spec => []Inv
<1>1. Init => Inv
  BY EmptySound DEF Init, Inv
<1>2. Inv /\ [Next]_vars => Inv'
  <2> SUFFICES ASSUME Inv, [Next]_vars PROVE Inv'
    OBVIOUS
  <2>1. ASSUME NEW t \in Upgrade, Start(t) PROVE Inv'
    BY <2>1, StartSound DEF Inv, Start, IsUpgradingOrUpgraded
  <2>2. ASSUME NEW t \in Upgrade, Cancel(t) PROVE Inv'
    BY <2>2, CancelSound DEF Inv, Cancel, Pending
  <2>3. ASSUME NEW t \in Upgrade, Finish(t) PROVE Inv'
    BY <2>3, FinishSound DEF Inv, Finish, Pending
  <2>4. CASE UNCHANGED vars
    BY <2>4 DEF vars, Inv
  <2> QED  BY <2>1, <2>2, <2>3, <2>4 DEF Next
<1> QED  BY <1>1, <1>2, PTL DEF Spec

(* The vector and the map keep their types.                                *)
THEOREM TypeCorrect == Spec => []TypeOK
<1> QED  BY Invariant, SoundMeans, PTL

(* cancelUpgrade and finishUpgrade never end the game with an exception,   *)
(* for any number of upgrade types and any order of the calls.             *)
THEOREM NeverThrows == Spec => []NoThrow
<1> QED  BY Invariant, SoundMeans, PTL

-----------------------------------------------------------------------------
(* With at most two upgrade types no entry lies between others, and every  *)
(* place in the map is the place of its own upgrade.  With a third the     *)
(* place of another may go stale when the first of three is cancelled.     *)

Right(m, d) ==
  \A t \in DOMAIN m.lookup :
    /\ m.upgrades[m.lookup[t]].type = t
    /\ m.upgrades[m.lookup[t]].upgraded <=> t \in d

(* The last place is that of the new upgrade.                              *)
LEMMA StartRight ==
  ASSUME NEW m, NEW d, Sound(m, d), Right(m, d), NEW t \in Upgrade, t \notin DOMAIN m.lookup
  PROVE  Right(StartUpgrade(m, t), d)
<1> DEFINE new == StartUpgrade(m, t)
           ups == Append(m.upgrades, [type |-> t, upgraded |-> FALSE])
<1>1. /\ new.upgrades = ups
      /\ new.lookup = [s \in DOMAIN m.lookup \cup {t} |->
                         IF s = t THEN Len(new.upgrades) ELSE m.lookup[s]]
  BY DEF StartUpgrade
<1>2. m.upgrades \in Seq(Entry) /\ t \notin d
  BY DEF Sound
<1>3. /\ Len(ups) = Len(m.upgrades) + 1
      /\ ups[Len(ups)] = [type |-> t, upgraded |-> FALSE]
      /\ \A i \in 1 .. Len(m.upgrades) : ups[i] = m.upgrades[i]
  BY <1>2
<1> HIDE DEF new, ups
<1>6. ASSUME NEW s \in DOMAIN new.lookup
      PROVE  /\ new.upgrades[new.lookup[s]].type = s
             /\ new.upgrades[new.lookup[s]].upgraded <=> s \in d
  <2>1. CASE s = t
    <3>1. new.lookup[s] = Len(ups)
      BY <1>1, <2>1
    <3> QED  BY <1>1, <1>2, <1>3, <2>1, <3>1
  <2>2. CASE s # t
    <3>1. s \in DOMAIN m.lookup /\ new.lookup[s] = m.lookup[s]
      BY <1>1, <2>2
    <3>2. m.lookup[s] \in 1 .. Len(m.upgrades)
      BY <3>1 DEF Sound
    <3>3. new.upgrades[new.lookup[s]] = m.upgrades[m.lookup[s]]
      BY <1>1, <1>3, <3>1, <3>2
    <3> QED  BY <3>1, <3>3 DEF Right
  <2> QED  BY <2>1, <2>2
<1> QED  BY <1>6 DEF Right, new

(* The other of two entries keeps its place, or moves from the second to   *)
(* the first.                                                              *)
LEMMA CancelRight ==
  ASSUME NEW a, NEW b, Upgrade \subseteq {a, b},
         NEW m, NEW d, Sound(m, d), Right(m, d), NEW t \in DOMAIN m.lookup
  PROVE  Right(CancelUpgrade(m, t), d)
<1> DEFINE ups == RemoveAt(m.upgrades, m.lookup[t])
           dom == DOMAIN m.lookup \ {t}
           look == [s \in dom |-> Moved(m.lookup[s], Len(ups))]
           new == CancelUpgrade(m, t)
<1>1. new = [upgrades |-> ups, lookup |-> look]
  BY CancelFacts
<1>2. DOMAIN m.lookup \subseteq Upgrade
  BY DEF Sound
<1>3. m.upgrades \in Seq(Entry) /\ m.lookup[t] \in 1 .. Len(m.upgrades)
  BY DEF Sound
<1>4. Len(ups) = Len(m.upgrades) - 1 /\ Cardinality(dom) = Len(ups)
  BY CancelFacts
<1>5. ASSUME NEW s \in dom
      PROVE  ups[look[s]] = m.upgrades[m.lookup[s]]
  <2>1. dom = {s}
    BY <1>2
  <2>2. Len(ups) = 1 /\ Len(m.upgrades) = 2
    <3>1. Cardinality(dom) = 1
      BY <2>1, FS_Singleton
    <3>2. Len(m.upgrades) \in Nat
      BY <1>3
    <3> HIDE DEF ups, dom
    <3> QED  BY <1>4, <3>1, <3>2
  <2>3. look[s] = 1
    <3>1. look[s] \in 1 .. Len(ups)
      BY CancelFacts
    <3> HIDE DEF look, ups
    <3> QED  BY <2>2, <3>1
  <2>4. m.lookup[s] \in 1 .. 2 /\ m.lookup[t] \in 1 .. 2
    BY <2>2 DEF Sound
  <2>5. m.lookup[s] # m.lookup[t]
    BY DEF Right
  <2>6. ups[1] = IF 1 < m.lookup[t] THEN m.upgrades[1] ELSE m.upgrades[2]
    <3>1. \A j \in 1 .. Len(m.upgrades) - 1 :
            ups[j] = IF j < m.lookup[t] THEN m.upgrades[j] ELSE m.upgrades[j + 1]
      BY <1>3, Erased
    <3>2. 1 \in 1 .. Len(m.upgrades) - 1
      BY <2>2
    <3> HIDE DEF ups
    <3> QED  BY <3>1, <3>2
  <2> HIDE DEF ups, look
  <2>7. CASE m.lookup[t] = 1
    BY <2>3, <2>4, <2>5, <2>6, <2>7
  <2>8. CASE m.lookup[t] = 2
    BY <2>3, <2>4, <2>5, <2>6, <2>8
  <2> QED  BY <2>4, <2>7, <2>8
<1>6. DOMAIN look = dom
  OBVIOUS
<1> HIDE DEF ups, look, new
<1>7. new.upgrades = ups /\ new.lookup = look
  BY <1>1
<1>8. Right(new, d)
  BY <1>5, <1>6, <1>7 DEF Right
<1> QED  BY <1>8 DEF new

(* The entry that is marked is that of the finished upgrade.               *)
LEMMA FinishRight ==
  ASSUME NEW m, NEW d, Sound(m, d), Right(m, d), NEW t \in DOMAIN m.lookup
  PROVE  Right(FinishUpgrade(m, t), d \cup {t})
<1> DEFINE new == FinishUpgrade(m, t)
<1>1. /\ new.lookup = m.lookup
      /\ \A i \in 1 .. Len(m.upgrades) :
           /\ new.upgrades[i].type = m.upgrades[i].type
           /\ new.upgrades[i].upgraded <=> i = m.lookup[t] \/ m.upgrades[i].upgraded
  BY FinishFacts
<1> HIDE DEF new
<1>3. ASSUME NEW s \in DOMAIN m.lookup
      PROVE  /\ new.upgrades[m.lookup[s]].type = s
             /\ new.upgrades[m.lookup[s]].upgraded <=> s \in d \cup {t}
  <2> DEFINE p == m.lookup[s]
             old == m.upgrades[p]
  <2>1. p \in 1 .. Len(m.upgrades)
    BY DEF Sound
  <2>2. /\ new.upgrades[p].type = old.type
        /\ new.upgrades[p].upgraded <=> (p = m.lookup[t] \/ old.upgraded)
    BY <1>1, <2>1
  <2>3. old.type = s /\ (old.upgraded <=> s \in d)
    BY DEF Right
  <2>4. p = m.lookup[t] <=> s = t
    BY <2>3 DEF Right
  <2> HIDE DEF old, p
  <2>5. (p = m.lookup[t] \/ old.upgraded) <=> s \in d \cup {t}
    BY <2>3, <2>4
  <2>6. new.upgrades[p].type = s
    BY <2>2, <2>3
  <2>7. new.upgrades[p].upgraded <=> s \in d \cup {t}
    BY <2>2, <2>5
  <2> QED  BY <2>6, <2>7 DEF p
<1> QED  BY <1>1, <1>3 DEF Right, new

(* A faction of at most two upgrades has an upgrade exactly when a unit    *)
(* completed it, whatever was started and cancelled before.                *)
THEOREM TwoUpgrades ==
  ASSUME NEW a, NEW b, Upgrade \subseteq {a, b}
  PROVE  Spec => []UpgradedAsDone
<1>1. Init => Right(manager, done)
  BY DEF Init, Empty, Right
<1>2. Inv /\ Right(manager, done) /\ [Next]_vars => Right(manager, done)'
  <2> SUFFICES ASSUME Inv, Right(manager, done), [Next]_vars PROVE Right(manager', done')
    OBVIOUS
  <2>1. ASSUME NEW t \in Upgrade, Start(t) PROVE Right(manager', done')
    BY <2>1, StartRight DEF Inv, Start, IsUpgradingOrUpgraded
  <2>2. ASSUME NEW t \in Upgrade, Cancel(t) PROVE Right(manager', done')
    BY <2>2, CancelRight DEF Inv, Cancel, Pending
  <2>3. ASSUME NEW t \in Upgrade, Finish(t) PROVE Right(manager', done')
    BY <2>3, FinishRight DEF Inv, Finish, Pending
  <2>4. CASE UNCHANGED vars
    BY <2>4 DEF vars
  <2> QED  BY <2>1, <2>2, <2>3, <2>4 DEF Next
<1>3. Inv /\ Right(manager, done) => UpgradedAsDone
  BY DEF Inv, Sound, Right, UpgradedAsDone, IsUpgraded
<1> QED  BY Invariant, <1>1, <1>2, <1>3, PTL DEF Spec
=============================================================================
