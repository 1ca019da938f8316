--------------------------- MODULE KnobStoreProofs ---------------------------
(***************************************************************************)
(* The knob database for every set of names, patterns and values, every    *)
(* match relation, and every size of the table and of the ring; and that   *)
(* it implements the map of module KnobMap.                                *)
(***************************************************************************)
EXTENDS KnobStore, Extrema, SequenceTheorems

(* The operators of the model.                                             *)

\* The positions of the knobs that match a name are positions of the list.
LEMMA HitsArePositions ==
  ASSUME list \in Seq(KnobSet), NEW n
  PROVE  Hits(n) \subseteq 1 .. Len(list) /\ Len(list) \in Nat
BY DEF Hits

\* sknobs_get_next stops at the first match after the iterator's knob.
LEMMA NextHitProperties ==
  ASSUME list \in Seq(KnobSet), NEW it, it.knob \in Int
  PROVE  /\ NextHit(it) \in 0 .. Len(list)
         /\ NextHit(it) = 0 => \A k \in Hits(it.name) : k <= it.knob
         /\ NextHit(it) # 0 =>
              /\ NextHit(it) \in Hits(it.name)
              /\ NextHit(it) > it.knob
              /\ \A k \in Hits(it.name) : k > it.knob => NextHit(it) <= k
<1> DEFINE after == {k \in Hits(it.name) : k > it.knob}
<1>0. Hits(it.name) \subseteq 1 .. Len(list) /\ Len(list) \in Nat
  BY HitsArePositions
<1>1. after \in SUBSET Nat /\ after \subseteq 1 .. Len(list)
  BY <1>0
<1>2. NextHit(it) = IF after = {} THEN 0 ELSE Min(after)
  BY DEF NextHit
<1>3. CASE after = {}
  BY <1>0, <1>2, <1>3
<1>4. CASE after # {}
  <2>1. Min(after) \in after /\ \A k \in after : Min(after) <= k
    BY <1>1, <1>4, MinOfNaturals
  <2>2. NextHit(it) = Min(after)
    BY <1>2, <1>4
  <2>3. NextHit(it) \in Hits(it.name) /\ NextHit(it) > it.knob
    BY <2>1, <2>2
  <2>4. \A k \in Hits(it.name) : k > it.knob => NextHit(it) <= k
    BY <2>1, <2>2
  <2>5. NextHit(it) \in 1 .. Len(list)
    BY <1>0, <2>3
  <2> QED
    BY <1>0, <2>3, <2>4, <2>5
<1> QED
  BY <1>3, <1>4

\* sknobs_find_last returns a match if there is one.
LEMMA FindLastProperties ==
  ASSUME list \in Seq(KnobSet), NEW n
  PROVE  /\ FindLast(Opened(n)) \in 0 .. Len(list)
         /\ FindLast(Opened(n)) = 0 => Hits(n) = {}
         /\ FindLast(Opened(n)) # 0 =>
              /\ FindLast(Opened(n)) \in Hits(n)
              /\ \A k \in Hits(n) : k <= FindLast(Opened(n))
<1> DEFINE after == {k \in Hits(n) : k > 0}
<1>0. Hits(n) \subseteq 1 .. Len(list) /\ Len(list) \in Nat
  BY HitsArePositions
<1>1. after = Hits(n)
  BY <1>0
<1>2. FindLast(Opened(n)) = IF after = {} THEN 0 ELSE Max(after)
  BY DEF FindLast, Opened
<1>3. CASE after = {}
  BY <1>0, <1>1, <1>2, <1>3
<1>4. CASE after # {}
  <2>1. Max(after) \in after /\ \A k \in after : k <= Max(after)
    BY <1>0, <1>1, <1>4, MaxOfPositions
  <2> QED
    BY <1>0, <1>1, <1>2, <1>4, <2>1
<1> QED
  BY <1>3, <1>4

\* The list a change leaves: what it holds stays where it is, under its pattern.
Extends(new) ==
  /\ new \in Seq(KnobSet)
  /\ Len(new) >= Len(list)
  /\ \A k \in 1 .. Len(list) : new[k].pattern = list[k].pattern

LEMMA AddedExtends ==
  ASSUME list \in Seq(KnobSet), NEW p \in Patterns, NEW v \in Values \cup {NULL}
  PROVE  Extends(Added(p, v)) /\ Len(Added(p, v)) <= Len(list) + 1
<1> DEFINE e == [pattern |-> p, value |-> v]
<1>1. e \in KnobSet
  BY DEF KnobSet
<1>2. /\ Append(list, e) \in Seq(KnobSet)
      /\ Len(Append(list, e)) = Len(list) + 1
      /\ \A k \in 1 .. Len(list) : Append(list, e)[k] = list[k]
      /\ Len(list) \in Nat
  BY <1>1
<1> HIDE DEF e
<1>3. Added(p, v) = IF p \in Uncompilable THEN list ELSE Append(list, e)
  BY DEF Added, e
<1> QED
  BY <1>2, <1>3 DEF Extends

LEMMA AssignedExtends ==
  ASSUME list \in Seq(KnobSet), NEW n \in Names, NEW v \in Values
  PROVE  Extends(Assigned(n, v))
<1> DEFINE k == FindLast(Opened(n))
<1>1. k \in 0 .. Len(list) /\ Len(list) \in Nat
  BY FindLastProperties
<1>2. CASE k = 0
  <2>1. Assigned(n, v) = Added(n, v)
    BY <1>2 DEF Assigned
  <2>2. n \in Patterns
    BY NamesAssumption
  <2> QED
    BY <2>1, <2>2, AddedExtends
<1>3. CASE k # 0
  <2> DEFINE e == [list[k] EXCEPT !.value = v]
  <2>1. k \in 1 .. Len(list)
    BY <1>1, <1>3
  <2>2. list[k] \in KnobSet
    BY <2>1
  <2>3. e \in KnobSet /\ e.pattern = list[k].pattern
    BY <2>2 DEF KnobSet
  <2>4. Assigned(n, v) = [list EXCEPT ![k] = e]
    BY <1>3 DEF Assigned
  <2> HIDE DEF e, k
  <2>5. /\ [list EXCEPT ![k] = e] \in Seq(KnobSet)
        /\ Len([list EXCEPT ![k] = e]) = Len(list)
        /\ \A i \in 1 .. Len(list) :
             [list EXCEPT ![k] = e][i] = IF i = k THEN e ELSE list[i]
    BY <2>1, <2>3, ExceptSeq
  <2> QED
    BY <2>3, <2>4, <2>5, <1>1 DEF Extends
<1> QED
  BY <1>2, <1>3

\* The value a lookup finds is the value of a knob.
LEMMA FoundType ==
  ASSUME list \in Seq(KnobSet), NEW n
  PROVE  Found(n) \in Values \cup {NULL, Unset}
<1> DEFINE k == FindLast(Opened(n))
<1>1. k \in 0 .. Len(list) /\ Len(list) \in Nat
  BY FindLastProperties
<1>2. CASE k = 0
  BY <1>2 DEF Found
<1>3. CASE k # 0
  <2>1. list[k] \in KnobSet
    BY <1>1, <1>3
  <2> QED
    BY <1>3, <2>1 DEF Found, KnobSet
<1> QED
  BY <1>2, <1>3

\* sknobs_get_dynamic_value returns a number.
LEMMA DynamicType ==
  ASSUME list \in Seq(KnobSet), NEW n, NEW d \in Numbers
  PROVE  Dynamic(n, d) \subseteq Numbers
BY FoundType, ValuesAssumption DEF Dynamic

\* The ring index stays inside the ring.
LEMMA NextSlot ==
  ASSUME cur \in Slots
  PROVE  /\ (cur + 1) % MaxIterators = IF cur + 1 = MaxIterators THEN 0 ELSE cur + 1
         /\ (cur + 1) % MaxIterators \in Slots
BY SizeAssumption DEF Slots
-----------------------------------------------------------------------------
(* The type invariant.                                                     *)

\* What a lookup, or the opening of an iterator, does to the ring.
LEMMA TakeSlotType ==
  ASSUME TypeOK, NEW it \in Iterators, TakeSlot(it)
  PROVE  iters' \in [Slots -> Iterators] /\ cur' \in Slots
BY NextSlot DEF TypeOK, TakeSlot

LEMMA OlderType ==
  ASSUME NEW h \in HandleSet
  PROVE  NoIterator \in HandleSet /\ Older(h) \in HandleSet
<1>1. NoIterator \in HandleSet
  BY SizeAssumption, NamesAssumption DEF NoIterator, HandleSet, Slots
<1>2. CASE h.open /\ h.age + 1 < Reach
  <2>1. h.age + 1 \in 0 .. Reach
    BY <1>2, SizeAssumption DEF HandleSet
  <2>2. [h EXCEPT !.age = h.age + 1] \in HandleSet
    BY <2>1 DEF HandleSet
  <2>3. Older(h) = [h EXCEPT !.age = h.age + 1]
    BY <1>2 DEF Older
  <2> QED
    BY <1>1, <2>2, <2>3
<1>3. CASE ~(h.open /\ h.age + 1 < Reach)
  BY <1>1, <1>3 DEF Older
<1> QED
  BY <1>1, <1>2, <1>3

LEMMA LookupType ==
  ASSUME TypeOK, NEW n \in Names, Lookup(n)
  PROVE  /\ iters' \in [Slots -> Iterators] /\ cur' \in Slots
         /\ handle' \in [Handles -> HandleSet]
<1>1. [name |-> n, knob |-> 0] \in Iterators
  BY SizeAssumption DEF Iterators
<1>2. iters' \in [Slots -> Iterators] /\ cur' \in Slots
  BY <1>1, TakeSlotType DEF Lookup
<1>3. \A h \in Handles : Older(handle[h]) \in HandleSet
  BY OlderType DEF TypeOK
<1> QED
  BY <1>2, <1>3 DEF Lookup

\* Saving a value makes its chain longer by one entry at the head.
LEMMA SaveType ==
  ASSUME TypeOK, NEW n \in Names, NEW x \in Numbers, Save(n, x)
  PROVE  /\ saved' \in [0 .. Buckets - 1 -> Seq([name : Names, value : Numbers])]
         /\ \A b \in 0 .. Buckets - 1 : b # Hash[n] => saved'[b] = saved[b]
         /\ LET old == saved[Hash[n]]
                new == saved'[Hash[n]]
            IN  /\ Len(new) = Len(old) + 1
                /\ new[1] = [name |-> n, value |-> x]
                /\ \A i \in 1 .. Len(old) : new[i + 1] = old[i]
<1> DEFINE e == [name |-> n, value |-> x]
           E == [name : Names, value : Numbers]
           old == saved[Hash[n]]
<1>1. Hash[n] \in 0 .. Buckets - 1
  BY SizeAssumption
<1>2. e \in E
  OBVIOUS
<1>6. saved \in [0 .. Buckets - 1 -> Seq(E)]
  BY DEF TypeOK
<1> HIDE DEF e, E
<1>3. old \in Seq(E) /\ Len(old) \in Nat
  BY <1>1, <1>6
<1>3a. <<e>> \in Seq(E) /\ Len(<<e>>) = 1 /\ <<e>>[1] = e
  BY <1>2
<1>4. /\ <<e>> \o old \in Seq(E)
      /\ Len(<<e>> \o old) = 1 + Len(old)
      /\ \A i \in 1 .. 1 + Len(old) :
           (<<e>> \o old)[i] = IF i <= 1 THEN <<e>>[i] ELSE old[i - 1]
  BY <1>3a, <1>3, ConcatProperties
<1>5. saved' = [saved EXCEPT ![Hash[n]] = <<e>> \o old]
  BY DEF Save, e
<1>7. saved' \in [0 .. Buckets - 1 -> Seq(E)] /\ saved'[Hash[n]] = <<e>> \o old
  BY <1>1, <1>4, <1>5, <1>6
<1>8. \A b \in 0 .. Buckets - 1 : b # Hash[n] => saved'[b] = saved[b]
  BY <1>1, <1>5, <1>6
<1>9. /\ saved'[Hash[n]][1] = e
      /\ \A i \in 1 .. Len(old) : saved'[Hash[n]][i + 1] = old[i]
  BY <1>3a, <1>3, <1>4, <1>7
<1>10. Len(saved'[Hash[n]]) = Len(old) + 1
  BY <1>3, <1>4, <1>7
<1>11. saved'[Hash[n]][1] = [name |-> n, value |-> x]
  BY <1>9 DEF e
<1>12. saved' \in [0 .. Buckets - 1 -> Seq([name : Names, value : Numbers])]
  BY <1>7 DEF E
<1> QED
  BY <1>8, <1>9, <1>10, <1>11, <1>12

\* A step of an iterator leaves a knob of the list or none.
LEMMA IteratorNextType ==
  ASSUME TypeOK, NEW h \in Handles, IteratorNext(h)
  PROVE  TypeOK'
<1> DEFINE s == handle[h].slot
           k == NextHit(iters[s])
<1>1. s \in Slots /\ handle[h] \in HandleSet
  BY DEF TypeOK, HandleSet
<1>2. iters[s] \in Iterators /\ iters[s].knob \in Int
  BY <1>1, SizeAssumption DEF TypeOK, Iterators, Freed
<1>3. k \in 0 .. Len(list) /\ Len(list) \in Nat
  BY <1>2, NextHitProperties DEF TypeOK
<1>4. k \in 0 .. MaxKnobs /\ {k} \ {0} \subseteq 1 .. MaxKnobs
  BY <1>3, SizeAssumption DEF TypeOK
<1> HIDE DEF k
<1>5. [iters[s] EXCEPT !.knob = k] \in Iterators
  BY <1>2, <1>4 DEF Iterators
<1>6. iters' \in [Slots -> Iterators]
  BY <1>1, <1>5 DEF IteratorNext, TypeOK, k
<1> DEFINE seen == (IF handle[h].at = 0 THEN {} ELSE handle[h].seen) \cup ({k} \ {0})
<1>7. [handle[h] EXCEPT !.at = k, !.seen = seen] \in HandleSet
  <2>1. seen \in SUBSET (1 .. MaxKnobs)
    BY <1>1, <1>4 DEF HandleSet
  <2> QED
    BY <1>1, <1>4, <2>1 DEF HandleSet
<1>8. handle' = [handle EXCEPT ![h] = [handle[h] EXCEPT !.at = k, !.seen = seen]]
  BY DEF IteratorNext, TypeOK, k
<1>9. handle' \in [Handles -> HandleSet]
  BY <1>7, <1>8 DEF TypeOK
<1> QED
  BY <1>6, <1>9 DEF IteratorNext, TypeOK

LEMMA InitType == Init => TypeOK
<1> SUFFICES ASSUME Init PROVE TypeOK
  OBVIOUS
<1>1. NoIterator \in HandleSet
  BY SizeAssumption, NamesAssumption DEF NoIterator, HandleSet, Slots
<1>2. PICK used \in 0 .. 2 * MaxIterators :
        /\ cur = used % MaxIterators
        /\ iters = [s \in Slots |->
             [name |-> IF s >= used THEN NULL
                       ELSE IF s = 0 /\ used <= MaxIterators THEN SeedName
                       ELSE PathName,
              knob |-> 0]]
  BY DEF Init
<1>3. cur \in Slots
  BY <1>2, SizeAssumption DEF Slots
<1>4. iters \in [Slots -> Iterators]
  BY <1>2, SizeAssumption, NamesAssumption DEF Iterators
<1> QED
  BY <1>1, <1>3, <1>4, SizeAssumption DEF Init, TypeOK

LEMMA NextType == TypeOK /\ [Next]_vars => TypeOK'
<1> SUFFICES ASSUME TypeOK, [Next]_vars PROVE TypeOK'
  OBVIOUS
<1>0. /\ list \in Seq(KnobSet) /\ Len(list) \in Nat /\ Len(list) <= MaxKnobs
      /\ MaxKnobs \in Nat /\ {FilesName, PathName} \subseteq Names
  BY NamesAssumption, SizeAssumption DEF TypeOK
<1>1. ASSUME NEW p \in Patterns, NEW v \in Values \cup {NULL}, Add(p, v)
      PROVE  TypeOK'
  <2>1. list' \in Seq(KnobSet) /\ Len(list') <= MaxKnobs
    BY <1>0, <1>1, AddedExtends DEF Add, Extends
  <2> QED
    BY <1>1, <2>1 DEF Add, TypeOK
<1>2. ASSUME NEW n \in Names, NEW v \in Values, SetString(n, v)
      PROVE  TypeOK'
  <2>1. list' \in Seq(KnobSet) /\ Len(list') <= MaxKnobs
    BY <1>0, <1>2, AssignedExtends DEF SetString, Extends
  <2> QED
    BY <1>2, <2>1, LookupType DEF SetString, TypeOK
<1>3. ASSUME NEW n \in Names, NEW x \in Numbers, SetValue(n, x)
      PROVE  TypeOK'
  <2>1. Decimal[x] \in Values
    BY ValuesAssumption
  <2>2. list' \in Seq(KnobSet) /\ Len(list') <= MaxKnobs
    BY <1>0, <1>3, <2>1, AssignedExtends DEF SetValue, Extends
  <2> QED
    BY <1>3, <2>2, LookupType DEF SetValue, TypeOK
<1>4. ASSUME NEW n \in Names, NEW d \in Values \cup {NULL}, GetString(n, d)
      PROVE  TypeOK'
  BY <1>4, LookupType DEF GetString, TypeOK
<1>5. ASSUME NEW n \in Names, Exists(n)
      PROVE  TypeOK'
  BY <1>5, LookupType DEF Exists, TypeOK
<1>6. ASSUME NEW n \in Names, NEW d \in Numbers, GetDynamicValue(n, d)
      PROVE  TypeOK'
  BY <1>6, LookupType DEF GetDynamicValue, TypeOK
<1>7. ASSUME NEW n \in Names, GetSavedValue(n)
      PROVE  TypeOK'
  BY <1>7 DEF GetSavedValue, TypeOK
<1>8. ASSUME NEW n \in Names, NEW d \in Numbers, GetFirstValue(n, d)
      PROVE  TypeOK'
  <2>1. PICK x \in Dynamic(n, d) : Save(n, x)
    BY <1>8 DEF GetFirstValue
  <2>2. x \in Numbers
    BY <1>0, <2>1, DynamicType
  <2> QED
    BY <1>8, <2>1, <2>2, SaveType, LookupType DEF GetFirstValue, TypeOK
<1>9. ASSUME Dump
      PROVE  TypeOK'
  BY <1>0, <1>9, LookupType DEF Dump, TypeOK
<1>10. ASSUME NEW h \in Handles, NEW n \in Names, Iterate(h, n)
       PROVE  TypeOK'
  <2>1. Opened(n) \in Iterators
    BY SizeAssumption DEF Opened, Iterators
  <2>2. iters' \in [Slots -> Iterators] /\ cur' \in Slots
    BY <1>10, <2>1, TakeSlotType DEF Iterate
  <2>3. [open |-> TRUE, slot |-> cur, name |-> n, at |-> 0, age |-> 0, seen |-> {}]
          \in HandleSet
    BY SizeAssumption DEF TypeOK, HandleSet
  <2>4. \A g \in Handles : Older(handle[g]) \in HandleSet
    BY OlderType DEF TypeOK
  <2>5. handle' \in [Handles -> HandleSet]
    BY <1>10, <2>3, <2>4 DEF Iterate
  <2> QED
    BY <1>10, <2>2, <2>5 DEF Iterate, TypeOK
<1>11. ASSUME NEW h \in Handles, IteratorNext(h)
       PROVE  TypeOK'
  BY <1>11, IteratorNextType
<1>12. ASSUME NEW h \in Handles, NEW asNumber \in BOOLEAN, IteratorGet(h, asNumber)
       PROVE  TypeOK'
  BY <1>12 DEF IteratorGet, TypeOK
<1>13. ASSUME Close
       PROVE  TypeOK'
  <2>1. \A s \in Slots : [iters[s] EXCEPT !.knob = IF @ = 0 THEN 0 ELSE Freed] \in Iterators
    BY SizeAssumption DEF TypeOK, Iterators
  <2>2. NoIterator \in HandleSet
    BY SizeAssumption, NamesAssumption DEF NoIterator, HandleSet, Slots
  <2> QED
    BY <1>0, <1>13, <2>1, <2>2 DEF Close, TypeOK
<1>14. ASSUME FindFile
       PROVE  TypeOK'
  BY <1>0, <1>14, LookupType DEF FindFile, TypeOK
<1>15. CASE UNCHANGED vars
  BY <1>15 DEF vars, TypeOK
<1> QED
  BY <1>1, <1>2, <1>3, <1>4, <1>5, <1>6, <1>7, <1>8, <1>9, <1>10, <1>11, <1>12,
     <1>13, <1>14, <1>15 DEF Next

\* Lists, chains, slots and the client's handles keep their shape: in particular
\* the ring index never leaves the ring and no slot points past the list.
THEOREM StoreTypeCorrect == Spec => []TypeOK
BY InitType, NextType, PTL DEF Spec
-----------------------------------------------------------------------------
(* The ring of iterators, for clients that give up an iterator once Reach  *)
(* younger ones exist, Reach at most the size of the ring.                 *)

\* Behind cur, in the order they were handed out, lie the iterators in use.
SlotAge ==
  \A h \in Handles : handle[h].open =>
    /\ handle[h].age < Reach
    /\ handle[h].slot + handle[h].age + 1 \in {cur, cur + MaxIterators}

AgesDiffer ==
  \A g, h \in Handles :
    handle[g].open /\ handle[h].open /\ g # h => handle[g].age # handle[h].age

\* What a walk has seen is what lies up to the knob it stands on.
WalkOK ==
  \A h \in Handles : handle[h].open /\ handle[h].at # 0 =>
    /\ handle[h].at \in Hits(handle[h].name)
    /\ handle[h].seen = {k \in Hits(handle[h].name) : k <= handle[h].at}

Ring == SlotAge /\ AgesDiffer /\ IteratorPrivate /\ WalkOK /\ NeverPastEnd

\* A longer list keeps the matches a walk has passed.
LEMMA HitsKept ==
  ASSUME list \in Seq(KnobSet), Extends(list')
  PROVE  \A n : \A k \in 1 .. Len(list) : k \in Hits(n)' <=> k \in Hits(n)
<1>1. Len(list) \in Nat /\ Len(list') \in Nat /\ Len(list') >= Len(list)
  BY DEF Extends
<1> SUFFICES ASSUME NEW n, NEW k \in 1 .. Len(list)
             PROVE  k \in Hits(n)' <=> k \in Hits(n)
  OBVIOUS
<1>2. k \in 1 .. Len(list')
  BY <1>1
<1>3. list'[k].pattern = list[k].pattern
  BY DEF Extends
<1> QED
  BY <1>2, <1>3, Zenon DEF Hits

LEMMA WalkKept ==
  ASSUME TypeOK, WalkOK, Extends(list'),
         \A h \in Handles : handle'[h].open =>
           /\ handle[h].open
           /\ handle'[h].name = handle[h].name
           /\ handle'[h].at = handle[h].at
           /\ handle'[h].seen = handle[h].seen
  PROVE  WalkOK'
<1> SUFFICES ASSUME NEW h \in Handles, handle'[h].open, handle'[h].at # 0
             PROVE  /\ handle'[h].at \in Hits(handle[h].name)'
                    /\ handle'[h].seen = {k \in Hits(handle[h].name)' : k <= handle'[h].at}
  BY DEF WalkOK
<1> DEFINE n == handle[h].name
           at == handle[h].at
<1>1. handle'[h].at = at /\ handle'[h].seen = handle[h].seen
  OBVIOUS
<1>2. at \in Hits(n) /\ handle[h].seen = {k \in Hits(n) : k <= at}
  BY <1>1 DEF WalkOK
<1>3. list \in Seq(KnobSet) /\ Len(list) \in Nat /\ at \in 1 .. Len(list)
  BY <1>2 DEF TypeOK, Hits
<1>4. \A k \in 1 .. Len(list) : k \in Hits(n)' <=> k \in Hits(n)
  BY <1>3, HitsKept
<1>5. Hits(n) \subseteq 1 .. Len(list) /\ Hits(n)' \subseteq Nat \ {0}
  BY DEF Hits
<1> HIDE DEF n, at
<1>6. \A k : k \in Hits(n)' /\ k <= at <=> k \in Hits(n) /\ k <= at
  BY <1>3, <1>4, <1>5
<1> QED
  BY <1>1, <1>2, <1>3, <1>4, <1>6 DEF n, at

\* Handing out a slot leaves alone the iterators that stay in use.
LEMMA SlotsKept ==
  ASSUME TypeOK, SlotAge, Reach <= MaxIterators, NEW it, TakeSlot(it),
         NEW h \in Handles, handle[h].open, handle[h].age + 1 < Reach
  PROVE  /\ iters'[handle[h].slot] = iters[handle[h].slot]
         /\ handle[h].slot + handle[h].age + 2 \in {cur', cur' + MaxIterators}
<1>1. handle[h] \in HandleSet /\ handle[h].slot \in Slots /\ handle[h].age \in Nat
  BY DEF TypeOK, HandleSet
<1>2. cur \in Slots /\ MaxIterators \in Nat /\ Reach \in Nat
  BY SizeAssumption DEF TypeOK
<1>3. handle[h].slot # cur
  BY <1>1, <1>2 DEF SlotAge, Slots
<1>4. cur' = IF cur + 1 = MaxIterators THEN 0 ELSE cur + 1
  BY <1>2, NextSlot DEF TakeSlot
<1>5. handle[h].slot + handle[h].age + 2 \in {cur', cur' + MaxIterators}
  BY <1>1, <1>2, <1>4 DEF SlotAge, Slots
<1> QED
  BY <1>1, <1>3, <1>5 DEF TakeSlot, TypeOK

LEMMA OlderHandles ==
  ASSUME NEW r \in HandleSet, Older(r).open
  PROVE  /\ r.open
         /\ r.age \in Nat /\ r.age + 1 < Reach
         /\ Older(r).slot = r.slot
         /\ Older(r).name = r.name
         /\ Older(r).at = r.at
         /\ Older(r).seen = r.seen
         /\ Older(r).age = r.age + 1
<1>1. r.open /\ r.age + 1 < Reach
  BY DEF Older, NoIterator
<1>2. Older(r) = [r EXCEPT !.age = r.age + 1]
  BY <1>1 DEF Older
<1> QED
  BY <1>1, <1>2 DEF HandleSet

\* A lookup, with or without a write, keeps the ring in order.
LEMMA LookupKeepsRing ==
  ASSUME TypeOK, Ring, Reach <= MaxIterators, NEW n, Lookup(n), Extends(list'),
         UNCHANGED status
  PROVE  Ring'
<1>1. \A h \in Handles : handle'[h] = Older(handle[h])
  BY DEF Lookup
<1>2. ASSUME NEW h \in Handles, handle'[h].open
      PROVE  /\ handle[h].open
             /\ handle[h].age \in Nat /\ handle[h].age + 1 < Reach
             /\ handle'[h].slot = handle[h].slot
             /\ handle'[h].name = handle[h].name
             /\ handle'[h].at = handle[h].at
             /\ handle'[h].seen = handle[h].seen
             /\ handle'[h].age = handle[h].age + 1
  <2>1. handle[h] \in HandleSet /\ Older(handle[h]).open
    BY <1>1, <1>2 DEF TypeOK
  <2> QED
    BY <1>1, <2>1, OlderHandles
<1>3. ASSUME NEW h \in Handles, handle'[h].open
      PROVE  /\ iters'[handle[h].slot] = iters[handle[h].slot]
             /\ handle[h].slot + handle[h].age + 2 \in {cur', cur' + MaxIterators}
  BY <1>2, <1>3, SlotsKept DEF Ring, Lookup
<1>4. SlotAge'
  <2>1. ASSUME NEW h \in Handles, handle'[h].open
        PROVE  /\ handle'[h].age < Reach
               /\ handle'[h].slot + handle'[h].age + 1 \in {cur', cur' + MaxIterators}
    <3>1. handle[h].slot \in Int
      BY DEF TypeOK, HandleSet, Slots
    <3>2. handle'[h].slot + handle'[h].age + 1 = handle[h].slot + handle[h].age + 2
      BY <2>1, <3>1, <1>2
    <3> QED
      BY <2>1, <3>2, <1>2, <1>3
  <2> QED
    BY <2>1 DEF SlotAge
<1>5. AgesDiffer'
  BY <1>2 DEF Ring, AgesDiffer
<1>6. IteratorPrivate'
  <2>1. ASSUME NEW h \in Handles, handle'[h].open
        PROVE  iters'[handle'[h].slot] = [name |-> handle'[h].name, knob |-> handle'[h].at]
    <3>1. handle[h].age < MaxIterators
      BY <2>1, <1>2, SizeAssumption
    <3> QED
      BY <2>1, <3>1, <1>2, <1>3 DEF Ring, IteratorPrivate
  <2> QED
    BY <2>1 DEF IteratorPrivate
<1>7. WalkOK'
  BY <1>2, WalkKept DEF Ring
<1> QED
  BY <1>4, <1>5, <1>6, <1>7 DEF Ring, NeverPastEnd

LEMMA IterateKeepsRing ==
  ASSUME TypeOK, Ring, Reach <= MaxIterators,
         NEW h \in Handles, NEW n \in Names, Iterate(h, n)
  PROVE  Ring'
<1> DEFINE new == [open |-> TRUE, slot |-> cur, name |-> n, at |-> 0, age |-> 0, seen |-> {}]
<1>1. /\ handle'[h] = new
      /\ \A g \in Handles \ {h} : handle'[g] = Older(handle[g])
      /\ TakeSlot(Opened(n))
      /\ UNCHANGED <<list, status>>
  BY DEF Iterate
<1>2. ASSUME NEW g \in Handles \ {h}, handle'[g].open
      PROVE  /\ handle[g].open
             /\ handle[g].age \in Nat /\ handle[g].age + 1 < Reach
             /\ handle'[g].slot = handle[g].slot
             /\ handle'[g].name = handle[g].name
             /\ handle'[g].at = handle[g].at
             /\ handle'[g].seen = handle[g].seen
             /\ handle'[g].age = handle[g].age + 1
             /\ handle[g].slot \in Int
  <2>1. handle[g] \in HandleSet /\ Older(handle[g]).open
    BY <1>1, <1>2 DEF TypeOK
  <2>2. handle[g].slot \in Int
    BY <2>1 DEF HandleSet, Slots
  <2> QED
    BY <1>1, <2>1, <2>2, OlderHandles
<1>3. ASSUME NEW g \in Handles \ {h}, handle'[g].open
      PROVE  /\ iters'[handle[g].slot] = iters[handle[g].slot]
             /\ handle[g].slot + handle[g].age + 2 \in {cur', cur' + MaxIterators}
  BY <1>1, <1>2, <1>3, SlotsKept DEF Ring
<1>4. /\ handle'[h].slot = cur /\ handle'[h].age = 0 /\ handle'[h].at = 0
      /\ handle'[h].name = n
  BY <1>1
<1>5. SlotAge'
  <2>1. ASSUME NEW g \in Handles, handle'[g].open
        PROVE  /\ handle'[g].age < Reach
               /\ handle'[g].slot + handle'[g].age + 1 \in {cur', cur' + MaxIterators}
    <3>1. CASE g = h
      <4>1. cur \in Slots /\ cur' = IF cur + 1 = MaxIterators THEN 0 ELSE cur + 1
        BY <1>1, NextSlot DEF TypeOK, TakeSlot
      <4> QED
        BY <1>4, <3>1, <4>1, SizeAssumption DEF Slots
    <3>2. CASE g # h
      <4>1. handle'[g].slot + handle'[g].age + 1 = handle[g].slot + handle[g].age + 2
        BY <2>1, <3>2, <1>2
      <4> QED
        BY <2>1, <3>2, <4>1, <1>2, <1>3
    <3> QED
      BY <3>1, <3>2
  <2> QED
    BY <2>1 DEF SlotAge
<1>6. AgesDiffer'
  <2>1. ASSUME NEW g \in Handles, NEW f \in Handles, handle'[g].open, handle'[f].open, g # f
        PROVE  handle'[g].age # handle'[f].age
    <3>1. CASE g = h
      BY <2>1, <3>1, <1>2, <1>4
    <3>2. CASE f = h
      BY <2>1, <3>2, <1>2, <1>4
    <3>3. CASE g # h /\ f # h
      BY <2>1, <3>3, <1>2 DEF Ring, AgesDiffer
    <3> QED
      BY <3>1, <3>2, <3>3
  <2> QED
    BY <2>1 DEF AgesDiffer
<1>7. IteratorPrivate'
  <2>1. ASSUME NEW g \in Handles, handle'[g].open
        PROVE  iters'[handle'[g].slot] = [name |-> handle'[g].name, knob |-> handle'[g].at]
    <3>1. CASE g = h
      BY <1>1, <1>4, <3>1 DEF TakeSlot, Opened, TypeOK
    <3>2. CASE g # h
      <4>1. handle[g].age < MaxIterators
        BY <2>1, <3>2, <1>2, SizeAssumption
      <4> QED
        BY <2>1, <3>2, <4>1, <1>2, <1>3 DEF Ring, IteratorPrivate
    <3> QED
      BY <3>1, <3>2
  <2> QED
    BY <2>1 DEF IteratorPrivate
<1>8. WalkOK'
  <2>1. \A m : Hits(m)' = Hits(m)
    BY <1>1 DEF Hits
  <2> QED
    BY <2>1, <1>2, <1>4 DEF Ring, WalkOK
<1> QED
  BY <1>1, <1>5, <1>6, <1>7, <1>8 DEF Ring, NeverPastEnd

\* A step of a walk sees the next match, or at the end has seen them all.
LEMMA WalkStep ==
  ASSUME TypeOK, Ring, Reach <= MaxIterators, NEW h \in Handles, IteratorNext(h)
  PROVE  LET n == handle[h].name
             r == handle'[h]
         IN  /\ r.at # 0 => r.at \in Hits(n) /\ r.seen = {k \in Hits(n) : k <= r.at}
             /\ r.at = 0 => r.seen = Hits(n)
             /\ iters' = [iters EXCEPT ![handle[h].slot] = [name |-> n, knob |-> r.at]]
             /\ r.open = handle[h].open /\ r.slot = handle[h].slot
             /\ r.name = n /\ r.age = handle[h].age
<1> DEFINE n == handle[h].name
           s == handle[h].slot
           at == handle[h].at
           k == NextHit(iters[s])
           seen == (IF at = 0 THEN {} ELSE handle[h].seen) \cup ({k} \ {0})
<1>1. handle[h] \in HandleSet /\ handle[h].open /\ at \in Nat /\ s \in Slots
  BY DEF TypeOK, HandleSet, IteratorNext
<1>2. handle[h].age < MaxIterators
  BY <1>1, SizeAssumption DEF Ring, SlotAge, HandleSet
<1>3. iters[s] = [name |-> n, knob |-> at]
  BY <1>1, <1>2 DEF Ring, IteratorPrivate
<1>4. handle'[h] = [handle[h] EXCEPT !.at = k, !.seen = seen]
  BY DEF IteratorNext, TypeOK
<1>5. handle'[h].at = k /\ handle'[h].seen = seen
  BY <1>1, <1>4 DEF HandleSet
<1>6. /\ handle'[h].open = handle[h].open /\ handle'[h].slot = s
      /\ handle'[h].name = n /\ handle'[h].age = handle[h].age
  BY <1>1, <1>4 DEF HandleSet
<1>7. iters' = [iters EXCEPT ![s] = [name |-> n, knob |-> k]]
  <2>1. iters' = [iters EXCEPT ![s] = [iters[s] EXCEPT !.knob = k]]
    BY DEF IteratorNext
  <2> HIDE DEF n, s, at, k
  <2>2. [iters[s] EXCEPT !.knob = k] = [name |-> n, knob |-> k]
    BY <1>3
  <2> QED
    BY <2>1, <2>2
<1>8. iters[s].name = n /\ iters[s].knob = at /\ at \in Int
  BY <1>1, <1>3
<1>9. /\ k \in Nat
      /\ k = 0 => \A i \in Hits(n) : i <= at
      /\ k # 0 => k \in Hits(n) /\ k > at /\ \A i \in Hits(n) : i > at => k <= i
  BY <1>8, NextHitProperties DEF TypeOK
<1>10. /\ Hits(n) \subseteq Nat \ {0}
       /\ at # 0 => handle[h].seen = {i \in Hits(n) : i <= at}
  BY <1>1, HitsArePositions DEF TypeOK, Ring, WalkOK
<1> HIDE DEF n, s, at, k
<1>11. k # 0 => seen = {i \in Hits(n) : i <= k}
  <2>1. CASE at = 0
    BY <1>9, <1>10, <2>1
  <2>2. CASE at # 0
    BY <1>1, <1>9, <1>10, <2>2
  <2> QED
    BY <2>1, <2>2
<1>12. k = 0 => seen = Hits(n)
  <2>1. CASE at = 0
    BY <1>9, <1>10, <2>1
  <2>2. CASE at # 0
    BY <1>1, <1>9, <1>10, <2>2
  <2> QED
    BY <2>1, <2>2
<1> QED
  BY <1>5, <1>6, <1>7, <1>9, <1>11, <1>12 DEF n, s, k

\* Two iterators of different ages, both younger than the ring, are in two slots.
LEMMA DistinctSlots ==
  ASSUME NEW c \in Slots, NEW s \in Slots, NEW t \in Slots, NEW x \in Nat, NEW y \in Nat,
         x < MaxIterators, y < MaxIterators, x # y,
         s + x + 1 \in {c, c + MaxIterators}, t + y + 1 \in {c, c + MaxIterators}
  PROVE  s # t
BY SizeAssumption DEF Slots

LEMMA IteratorNextKeepsRing ==
  ASSUME TypeOK, Ring, Reach <= MaxIterators, NEW h \in Handles, IteratorNext(h)
  PROVE  Ring'
<1> DEFINE r == handle'[h]
<1>1. /\ r.at # 0 => /\ r.at \in Hits(handle[h].name)
                     /\ r.seen = {k \in Hits(handle[h].name) : k <= r.at}
      /\ iters' = [iters EXCEPT ![handle[h].slot] = [name |-> handle[h].name, knob |-> r.at]]
      /\ r.open = handle[h].open /\ r.slot = handle[h].slot
      /\ r.name = handle[h].name /\ r.age = handle[h].age
  BY WalkStep
<1>2. /\ \A g \in Handles \ {h} : handle'[g] = handle[g]
      /\ UNCHANGED <<list, cur, status>>
      /\ handle[h].open
  BY DEF IteratorNext, TypeOK
<1>3. SlotAge'
  BY <1>1, <1>2 DEF Ring, SlotAge
<1>4. AgesDiffer'
  BY <1>1, <1>2 DEF Ring, AgesDiffer
<1>5. IteratorPrivate'
  <2>1. ASSUME NEW g \in Handles, handle'[g].open, handle'[g].age < MaxIterators
        PROVE  iters'[handle'[g].slot] = [name |-> handle'[g].name, knob |-> handle'[g].at]
    <3>1. handle[h].slot \in Slots
      BY DEF TypeOK, HandleSet
    <3>2. CASE g = h
      BY <1>1, <3>1, <3>2 DEF TypeOK
    <3>3. CASE g # h
      <4>1. handle'[g] = handle[g] /\ handle[g].open
        BY <1>2, <2>1, <3>3
      <4>2. handle[g].age \in Nat /\ handle[h].age \in Nat /\ handle[g].slot \in Slots
        BY DEF TypeOK, HandleSet
      <4>3. handle[g].age # handle[h].age
        BY <1>2, <3>3, <4>1 DEF Ring, AgesDiffer
      <4>4. handle[g].age < MaxIterators /\ handle[h].age < MaxIterators
        BY <1>2, <4>1, <4>2, SizeAssumption DEF Ring, SlotAge
      <4>5. /\ handle[g].slot + handle[g].age + 1 \in {cur, cur + MaxIterators}
            /\ handle[h].slot + handle[h].age + 1 \in {cur, cur + MaxIterators}
        BY <1>2, <4>1 DEF Ring, SlotAge
      <4>6. handle[g].slot # handle[h].slot
        BY <3>1, <4>2, <4>3, <4>4, <4>5, DistinctSlots DEF TypeOK
      <4>7. iters'[handle[g].slot] = iters[handle[g].slot]
        BY <1>1, <4>2, <4>6 DEF TypeOK
      <4> QED
        BY <4>1, <4>4, <4>7 DEF Ring, IteratorPrivate
    <3> QED
      BY <3>2, <3>3
  <2> QED
    BY <2>1 DEF IteratorPrivate
<1>6. WalkOK'
  <2>1. \A m : Hits(m)' = Hits(m)
    BY <1>2 DEF Hits
  <2> QED
    BY <1>1, <1>2, <2>1 DEF Ring, WalkOK
<1> QED
  BY <1>2, <1>3, <1>4, <1>5, <1>6 DEF Ring, NeverPastEnd

\* An iterator in use never meets the assertion on its knob.
LEMMA IteratorGetKeepsRing ==
  ASSUME TypeOK, Ring, Reach <= MaxIterators,
         NEW h \in Handles, NEW asNumber \in BOOLEAN, IteratorGet(h, asNumber)
  PROVE  Ring'
<1>1. handle[h] \in HandleSet /\ handle[h].open /\ handle[h].at # 0
  BY DEF TypeOK, IteratorGet
<1>2. handle[h].age < MaxIterators
  BY <1>1, SizeAssumption DEF Ring, SlotAge, HandleSet
<1>3. iters[handle[h].slot].knob # 0
  <2>1. iters[handle[h].slot] = [name |-> handle[h].name, knob |-> handle[h].at]
    BY <1>1, <1>2 DEF Ring, IteratorPrivate
  <2> QED
    BY <1>1, <2>1
<1>4. UNCHANGED <<list, iters, cur, handle>> /\ (status' = status \/ status' = "no_value")
  BY <1>3 DEF IteratorGet
<1> QED
  BY <1>4 DEF Ring, SlotAge, AgesDiffer, IteratorPrivate, WalkOK, NeverPastEnd, Hits

LEMMA NextKeepsRing ==
  ASSUME TypeOK, Ring, Reach <= MaxIterators, [Next]_vars
  PROVE  Ring'
<1>0. list \in Seq(KnobSet) /\ Extends(list)
  BY DEF TypeOK, Extends
<1>1. ASSUME NEW p \in Patterns, NEW v \in Values \cup {NULL}, Add(p, v)
      PROVE  Ring'
  <2>1. Extends(list') /\ UNCHANGED <<iters, cur, handle, status>>
    BY <1>0, <1>1, AddedExtends DEF Add
  <2>2. WalkOK'
    BY <2>1, WalkKept DEF Ring
  <2> QED
    BY <2>1, <2>2 DEF Ring, SlotAge, AgesDiffer, IteratorPrivate, NeverPastEnd
<1>2. ASSUME NEW n \in Names, NEW v \in Values, SetString(n, v)
      PROVE  Ring'
  <2>1. Extends(list')
    BY <1>0, <1>2, AssignedExtends DEF SetString
  <2> QED
    BY <1>2, <2>1, LookupKeepsRing DEF SetString
<1>3. ASSUME NEW n \in Names, NEW x \in Numbers, SetValue(n, x)
      PROVE  Ring'
  <2>1. Extends(list')
    BY <1>0, <1>3, AssignedExtends, ValuesAssumption DEF SetValue
  <2> QED
    BY <1>3, <2>1, LookupKeepsRing DEF SetValue
<1>4. ASSUME NEW n, Lookup(n), UNCHANGED <<list, status>>
      PROVE  Ring'
  BY <1>0, <1>4, LookupKeepsRing DEF Extends
<1>5. ASSUME NEW n \in Names, GetSavedValue(n)
      PROVE  Ring'
  BY <1>5 DEF GetSavedValue, Ring, SlotAge, AgesDiffer, IteratorPrivate, WalkOK,
     NeverPastEnd, Hits
<1>6. ASSUME Close
      PROVE  Ring'
  BY <1>6 DEF Close, NoIterator, Ring, SlotAge, AgesDiffer, IteratorPrivate, WalkOK,
     NeverPastEnd
<1>7. CASE UNCHANGED vars
  BY <1>7 DEF vars, Ring, SlotAge, AgesDiffer, IteratorPrivate, WalkOK, NeverPastEnd, Hits
<1>8. ASSUME NEW n \in Names, NEW d, GetString(n, d) PROVE Ring'
  BY <1>4, <1>8 DEF GetString
<1>9. ASSUME NEW n \in Names, Exists(n) PROVE Ring'
  BY <1>4, <1>9 DEF Exists
<1>10. ASSUME NEW n \in Names, NEW d, GetDynamicValue(n, d) PROVE Ring'
  BY <1>4, <1>10 DEF GetDynamicValue
<1>11. ASSUME NEW n \in Names, NEW d, GetFirstValue(n, d) PROVE Ring'
  BY <1>4, <1>11 DEF GetFirstValue
<1>12. ASSUME Dump PROVE Ring'
  BY <1>4, <1>12 DEF Dump
<1>13. ASSUME FindFile PROVE Ring'
  BY <1>4, <1>13 DEF FindFile
<1> QED
  BY <1>1, <1>2, <1>3, <1>5, <1>6, <1>7, <1>8, <1>9, <1>10, <1>11, <1>12, <1>13,
     IterateKeepsRing, IteratorNextKeepsRing, IteratorGetKeepsRing DEF Next

LEMMA InitRing == Init => Ring
BY DEF Init, NoIterator, Ring, SlotAge, AgesDiffer, IteratorPrivate, WalkOK, NeverPastEnd

LEMMA RingInvariance ==
  ASSUME Reach <= MaxIterators
  PROVE  Spec => [](TypeOK /\ Ring)
<1>1. Init => TypeOK /\ Ring
  BY InitType, InitRing
<1>2. TypeOK /\ Ring /\ [Next]_vars => TypeOK' /\ Ring'
  BY NextType, NextKeepsRing
<1> QED
  BY <1>1, <1>2, PTL DEF Spec

\* A slot belongs to the iterator it was handed to until the ring has gone round:
\* no lookup, write or other iterator changes the name or the knob in it.
THEOREM IteratorsArePrivate ==
  ASSUME Reach <= MaxIterators
  PROVE  Spec => []IteratorPrivate
BY RingInvariance, PTL DEF Ring

\* The knobs a client is given all match the name it asked for.
THEOREM IteratorsYieldTheirName ==
  ASSUME Reach <= MaxIterators
  PROVE  Spec => []YieldsItsName
<1>1. Ring => YieldsItsName
  BY DEF Ring, WalkOK, YieldsItsName
<1> QED
  BY <1>1, RingInvariance, PTL

\* assert(knob) never fails for a client that asks after next has answered 1.
THEOREM IteratorsNeverPastEnd ==
  ASSUME Reach <= MaxIterators
  PROVE  Spec => []NeverPastEnd
BY RingInvariance, PTL DEF Ring

\* A walk that ends has visited every match.
THEOREM WalksAreComplete ==
  ASSUME Reach <= MaxIterators
  PROVE  Spec => WalkIsComplete
<1>1. TypeOK /\ Ring /\ [Next]_vars =>
        [\A h \in Handles : IteratorNext(h) /\ handle'[h].at = 0 =>
           handle'[h].seen = Hits(handle[h].name)]_vars
  BY WalkStep
<1> QED
  BY <1>1, RingInvariance, PTL DEF Spec, WalkIsComplete
-----------------------------------------------------------------------------
(* The table of pinned values.                                             *)

Entries == [name : Names, value : Numbers]

\* What the search finds in a chain.
LEMMA ChainValueProperties ==
  ASSUME NEW chain \in Seq(Entries), NEW n
  PROVE  LET same == {i \in DOMAIN chain : chain[i].name = n}
         IN  /\ same \in SUBSET Nat
             /\ same = {} <=> ChainValue(chain, n) = Unset
             /\ same # {} =>
                  /\ Min(same) \in same /\ \A i \in same : Min(same) <= i
                  /\ ChainValue(chain, n) = chain[Min(same)].value
<1> DEFINE same == {i \in DOMAIN chain : chain[i].name = n}
<1>1. DOMAIN chain = 1 .. Len(chain) /\ Len(chain) \in Nat
  OBVIOUS
<1>2. \A i \in DOMAIN chain : chain[i].value \in Numbers
  <2>1. \A i \in DOMAIN chain : chain[i] \in Entries
    BY <1>1, ElementOfSeq
  <2>2. \A e \in Entries : e.value \in Numbers
    BY DEF Entries
  <2> QED
    BY <2>1, <2>2
<1>3. same \in SUBSET Nat /\ same \subseteq DOMAIN chain
  BY <1>1
<1>4. ChainValue(chain, n) = IF same = {} THEN Unset ELSE chain[Min(same)].value
  BY DEF ChainValue
<1>5. CASE same = {}
  BY <1>4, <1>5
<1>6. CASE same # {}
  <2>1. Min(same) \in same /\ \A i \in same : Min(same) <= i
    BY <1>3, <1>6, MinOfNaturals
  <2>2. chain[Min(same)].value \in Numbers
    BY <1>2, <1>3, <2>1
  <2>3. ChainValue(chain, n) = chain[Min(same)].value
    BY <1>4, <1>6
  <2> QED
    BY <1>3, <1>6, <2>1, <2>2, <2>3, NamesAssumption
<1> QED
  BY <1>3, <1>5, <1>6

\* A chain with a new head, entry by entry.
LEMMA ConsProperties ==
  ASSUME NEW chain \in Seq(Entries), NEW e \in Entries
  PROVE  /\ <<e>> \o chain \in Seq(Entries)
         /\ DOMAIN (<<e>> \o chain) = 1 .. Len(chain) + 1
         /\ DOMAIN chain = 1 .. Len(chain) /\ Len(chain) \in Nat
         /\ (<<e>> \o chain)[1] = e
         /\ \A i \in 1 .. Len(chain) : (<<e>> \o chain)[i + 1] = chain[i]
<1>1. <<e>> \in Seq(Entries) /\ Len(<<e>>) = 1 /\ <<e>>[1] = e
  OBVIOUS
<1>2. /\ <<e>> \o chain \in Seq(Entries)
      /\ Len(<<e>> \o chain) = 1 + Len(chain)
      /\ \A i \in 1 .. 1 + Len(chain) :
           (<<e>> \o chain)[i] = IF i <= 1 THEN <<e>>[i] ELSE chain[i - 1]
  BY <1>1, ConcatProperties
<1> QED
  BY <1>1, <1>2

\* A new head hides no other name, and adds no value to one that has none.
LEMMA ConsKeepsValue ==
  ASSUME NEW chain \in Seq(Entries), NEW e \in Entries, NEW n, e.name # n
  PROVE  ChainValue(<<e>> \o chain, n) = ChainValue(chain, n)
<1> DEFINE new == <<e>> \o chain
           P == {i \in DOMAIN chain : chain[i].name = n}
           Q == {i \in DOMAIN new : new[i].name = n}
<1>1. /\ new \in Seq(Entries)
      /\ DOMAIN new = 1 .. Len(chain) + 1
      /\ DOMAIN chain = 1 .. Len(chain) /\ Len(chain) \in Nat
      /\ new[1] = e
      /\ \A i \in 1 .. Len(chain) : new[i + 1] = chain[i]
  BY ConsProperties
<1>2. /\ P \in SUBSET Nat
      /\ P = {} <=> ChainValue(chain, n) = Unset
      /\ P # {} => /\ Min(P) \in P /\ \A i \in P : Min(P) <= i
                   /\ ChainValue(chain, n) = chain[Min(P)].value
  BY ChainValueProperties
<1>3. /\ Q \in SUBSET Nat
      /\ Q = {} <=> ChainValue(new, n) = Unset
      /\ Q # {} => /\ Min(Q) \in Q /\ \A i \in Q : Min(Q) <= i
                   /\ ChainValue(new, n) = new[Min(Q)].value
  BY <1>1, ChainValueProperties
<1> HIDE DEF new
<1>4. \A i \in P : i + 1 \in Q /\ new[i + 1] = chain[i]
  BY <1>1
<1>5. \A k \in Q : k - 1 \in P
  BY <1>1
<1> HIDE DEF P, Q
<1>6. CASE P = {}
  BY <1>2, <1>3, <1>5, <1>6 DEF new
<1>7. CASE P # {}
  <2>1. Min(P) + 1 \in Q /\ Min(Q) - 1 \in P /\ Min(P) \in Nat /\ Min(Q) \in Nat
    BY <1>2, <1>3, <1>4, <1>5, <1>7
  <2>2. Min(Q) <= Min(P) + 1 /\ Min(P) <= Min(Q) - 1
    BY <1>2, <1>3, <1>7, <2>1
  <2>3. Min(Q) = Min(P) + 1
    BY <2>1, <2>2
  <2>4. Min(P) \in P /\ new[Min(P) + 1] = chain[Min(P)]
    BY <1>2, <1>4, <1>7
  <2> QED
    BY <1>2, <1>3, <1>7, <2>1, <2>3, <2>4 DEF new
<1> QED
  BY <1>6, <1>7

\* What saving a value leaves in the table.
LEMMA SaveEffect ==
  ASSUME TypeOK, NEW m \in Names, NEW x \in Numbers, Save(m, x), NEW b \in 0 .. Buckets - 1
  PROVE  LET e == [name |-> m, value |-> x]
         IN  /\ e \in Entries /\ saved[b] \in Seq(Entries)
             /\ saved'[b] = IF b = Hash[m] THEN <<e>> \o saved[b] ELSE saved[b]
<1>1. Hash[m] \in 0 .. Buckets - 1
  BY SizeAssumption
<1> QED
  BY <1>1 DEF TypeOK, Save, Entries

LEMMA NextKeepsTable ==
  ASSUME TypeOK, SavedTableOK, [Next]_vars
  PROVE  SavedTableOK'
<1>1. CASE UNCHANGED saved
  BY <1>1 DEF SavedTableOK
<1>2. CASE Close
  BY <1>2 DEF Close, SavedTableOK
<1>3. ASSUME NEW n \in Names, NEW d \in Numbers, GetFirstValue(n, d)
      PROVE  SavedTableOK'
  <2>1. PICK x \in Numbers : Save(n, x)
    BY <1>3, DynamicType DEF GetFirstValue, TypeOK
  <2> DEFINE e == [name |-> n, value |-> x]
  <2>2. SUFFICES ASSUME NEW b \in 0 .. Buckets - 1, NEW i \in DOMAIN saved'[b]
                 PROVE  /\ Hash[saved'[b][i].name] = b
                        /\ \A j \in DOMAIN saved'[b] :
                             saved'[b][i].name = saved'[b][j].name => i = j
    BY DEF SavedTableOK
  <2>3. /\ e \in Entries /\ saved[b] \in Seq(Entries)
        /\ saved'[b] = IF b = Hash[n] THEN <<e>> \o saved[b] ELSE saved[b]
    BY <2>1, SaveEffect
  <2>4. CASE b # Hash[n]
    BY <2>3, <2>4 DEF SavedTableOK
  <2>5. CASE b = Hash[n]
    <3> DEFINE old == saved[b]
               new == saved'[b]
    <3>1. /\ DOMAIN new = 1 .. Len(old) + 1
          /\ DOMAIN old = 1 .. Len(old) /\ Len(old) \in Nat
          /\ new[1] = e
          /\ \A k \in 1 .. Len(old) : new[k + 1] = old[k]
      BY <2>3, <2>5, ConsProperties
    <3>2. \A k \in 1 .. Len(old) : old[k].name # n
      <4>1. ChainValue(old, n) = Unset
        BY <1>3, <2>5 DEF GetFirstValue, SavedValue
      <4> QED
        BY <2>3, <3>1, <4>1, ChainValueProperties
    <3>3. e.name = n
      OBVIOUS
    <3>4. \A k \in DOMAIN new : k = 1 \/ (k - 1 \in 1 .. Len(old) /\ new[k] = old[k - 1])
      BY <3>1
    <3>5. \A k \in 1 .. Len(old) :
            /\ Hash[old[k].name] = b
            /\ \A l \in 1 .. Len(old) : old[k].name = old[l].name => k = l
      BY <3>1 DEF SavedTableOK
    <3> HIDE DEF old, new, e
    <3>6. Hash[new[i].name] = b
      BY <2>5, <3>1, <3>3, <3>4, <3>5 DEF new
    <3>7. ASSUME NEW j \in DOMAIN new, new[i].name = new[j].name
          PROVE  i = j
      <4>1. i \in DOMAIN new /\ i \in Nat /\ j \in Nat
        BY <3>1, <3>7 DEF new
      <4>2. CASE i = 1 \/ j = 1
        BY <3>1, <3>2, <3>3, <3>4, <3>7, <4>1, <4>2
      <4>3. CASE i # 1 /\ j # 1
        <5>1. /\ i - 1 \in 1 .. Len(old) /\ new[i] = old[i - 1]
              /\ j - 1 \in 1 .. Len(old) /\ new[j] = old[j - 1]
          BY <3>4, <3>7, <4>1, <4>3
        <5>2. i - 1 = j - 1
          BY <3>5, <3>7, <5>1
        <5> QED
          BY <4>1, <5>2
      <4> QED
        BY <4>2, <4>3
    <3> QED
      BY <3>6, <3>7 DEF new
  <2> QED
    BY <2>4, <2>5
<1>4. \/ UNCHANGED saved
      \/ Close
      \/ \E n \in Names, d \in Numbers : GetFirstValue(n, d)
  BY DEF Next, vars, Add, SetString, SetValue, GetString, Exists, GetDynamicValue,
     GetSavedValue, Dump, FindFile, Iterate, IteratorNext, IteratorGet
<1> QED
  BY <1>1, <1>2, <1>3, <1>4

\* A pinned value is where get_value looks for it, and it is the only one.
THEOREM SavedTableCorrect == Spec => []SavedTableOK
<1>1. Init => SavedTableOK
  BY DEF Init, SavedTableOK
<1>2. TypeOK /\ SavedTableOK /\ [Next]_vars => SavedTableOK'
  BY NextKeepsTable
<1> QED
  BY <1>1, <1>2, StoreTypeCorrect, PTL DEF Spec

\* Nothing but sknobs_close changes the answer of get_value for a name.
LEMMA NextKeepsValues ==
  ASSUME TypeOK, [Next]_vars, NEW n \in Names, SavedValue(n) # Unset
  PROVE  SavedValue(n)' = SavedValue(n) \/ Close
<1>1. CASE UNCHANGED saved
  BY <1>1 DEF SavedValue
<1>2. ASSUME NEW m \in Names, NEW d \in Numbers, GetFirstValue(m, d)
      PROVE  SavedValue(n)' = SavedValue(n)
  <2>1. PICK x \in Numbers : Save(m, x)
    BY <1>2, DynamicType DEF GetFirstValue, TypeOK
  <2>2. n # m
    BY <1>2 DEF GetFirstValue
  <2> DEFINE e == [name |-> m, value |-> x]
             b == Hash[n]
  <2>3. b \in 0 .. Buckets - 1
    BY SizeAssumption
  <2>4. /\ e \in Entries /\ saved[b] \in Seq(Entries)
        /\ saved'[b] = IF b = Hash[m] THEN <<e>> \o saved[b] ELSE saved[b]
    BY <2>1, <2>3, SaveEffect
  <2>5. e.name # n
    BY <2>2
  <2>6. SavedValue(n) = ChainValue(saved[b], n) /\ SavedValue(n)' = ChainValue(saved'[b], n)
    BY DEF SavedValue
  <2> HIDE DEF e, b
  <2> QED
    BY <2>4, <2>5, <2>6, ConsKeepsValue
<1>3. \/ UNCHANGED saved
      \/ Close
      \/ \E m \in Names, d \in Numbers : GetFirstValue(m, d)
  BY DEF Next, vars, Add, SetString, SetValue, GetString, Exists, GetDynamicValue,
     GetSavedValue, Dump, FindFile, Iterate, IteratorNext, IteratorGet
<1> QED
  BY <1>1, <1>2, <1>3

\* get_value answers the same number for a name until the database is closed.
THEOREM ValuesArePinned == Spec => PinnedUntilClose
<1>1. TypeOK /\ [Next]_vars =>
        [\A n \in Names :
           SavedValue(n) # Unset => SavedValue(n)' = SavedValue(n) \/ Close]_vars
  BY NextKeepsValues
<1> QED
  BY <1>1, StoreTypeCorrect, PTL DEF Spec, PinnedUntilClose
-----------------------------------------------------------------------------
(* The map: a name has the value of the last knob that matches it, so a     *)
(* knob added, a value written and a number pinned each change the map at   *)
(* the names they should and nowhere else.                                  *)

(* The value a list gives to a name.                                       *)

Matching(l, n) == {k \in 1 .. Len(l) : <<l[k].pattern, n>> \in Match}

ValueOf(l, n) ==
  IF Matching(l, n) = {} THEN Unset ELSE l[Max(Matching(l, n))].value

LEMMA MatchingProperties ==
  ASSUME NEW l \in Seq(KnobSet), NEW n
  PROVE  /\ Len(l) \in Nat /\ Matching(l, n) \subseteq 1 .. Len(l)
         /\ Matching(l, n) # {} =>
              /\ Max(Matching(l, n)) \in Matching(l, n)
              /\ \A k \in Matching(l, n) : k <= Max(Matching(l, n))
<1>1. Len(l) \in Nat /\ Matching(l, n) \subseteq 1 .. Len(l)
  BY DEF Matching
<1>2. ASSUME Matching(l, n) # {}
      PROVE  /\ Max(Matching(l, n)) \in Matching(l, n)
             /\ \A k \in Matching(l, n) : k <= Max(Matching(l, n))
  BY <1>1, <1>2, MaxOfPositions
<1> QED
  BY <1>1, <1>2

\* The last match decides.
LEMMA LastDecides ==
  ASSUME NEW l \in Seq(KnobSet), NEW n, NEW k \in Matching(l, n),
         \A j \in Matching(l, n) : j <= k
  PROVE  Max(Matching(l, n)) = k /\ ValueOf(l, n) = l[k].value
<1>1. /\ Max(Matching(l, n)) \in Matching(l, n)
      /\ k <= Max(Matching(l, n)) /\ Matching(l, n) \subseteq Nat
  BY MatchingProperties
<1>2. Max(Matching(l, n)) = k
  BY <1>1
<1> QED
  BY <1>2 DEF ValueOf

\* A lookup finds that value, before a step and after it.
LEMMA FoundIsValue ==
  ASSUME list \in Seq(KnobSet), list' \in Seq(KnobSet), NEW n
  PROVE  /\ Found(n) = ValueOf(list, n)
         /\ Found(n)' = ValueOf(list', n)
         /\ FindLast(Opened(n)) =
              IF Matching(list, n) = {} THEN 0 ELSE Max(Matching(list, n))
<1> DEFINE last(l) == IF Matching(l, n) = {} THEN 0 ELSE Max(Matching(l, n))
<1>1. ASSUME NEW l \in Seq(KnobSet)
      PROVE  /\ {k \in Matching(l, n) : k > 0} = Matching(l, n)
             /\ ValueOf(l, n) = IF last(l) = 0 THEN Unset ELSE l[last(l)].value
  <2>1. /\ Matching(l, n) \subseteq 1 .. Len(l)
        /\ Matching(l, n) # {} => Max(Matching(l, n)) \in Matching(l, n)
    BY MatchingProperties
  <2> QED
    BY <2>1 DEF ValueOf
<1>2. Hits(n) = Matching(list, n) /\ Hits(n)' = Matching(list', n)
  BY DEF Hits, Matching
<1>3. FindLast(Opened(n)) = last(list)
  BY <1>1, <1>2 DEF FindLast, Opened
<1>4. FindLast(Opened(n))' = last(list')
  BY <1>1, <1>2 DEF FindLast, Opened
<1> HIDE DEF last
<1>5. Found(n) = ValueOf(list, n)
  BY <1>1, <1>3 DEF Found, last
<1>6. Found(n)' = ValueOf(list', n)
  BY <1>1, <1>4 DEF Found, last
<1> QED
  BY <1>3, <1>5, <1>6 DEF last

\* A knob at the end gives its value to the names it matches and to no other.
LEMMA AppendedValue ==
  ASSUME NEW l \in Seq(KnobSet), NEW e \in KnobSet, NEW n
  PROVE  ValueOf(Append(l, e), n) =
           IF <<e.pattern, n>> \in Match THEN e.value ELSE ValueOf(l, n)
<1> DEFINE new == Append(l, e)
<1>1. /\ new \in Seq(KnobSet) /\ Len(l) \in Nat /\ Len(new) = Len(l) + 1
      /\ \A k \in 1 .. Len(l) : new[k] = l[k]
      /\ new[Len(l) + 1] = e
  OBVIOUS
<1> HIDE DEF new
<1>2. \A k \in 1 .. Len(new) : k \in 1 .. Len(l) \/ k = Len(l) + 1
  BY <1>1
<1>3. CASE <<e.pattern, n>> \in Match
  <2>1. Len(l) + 1 \in Matching(new, n) /\ \A j \in Matching(new, n) : j <= Len(l) + 1
    BY <1>1, <1>3 DEF Matching
  <2>2. ValueOf(new, n) = new[Len(l) + 1].value
    BY <1>1, <2>1, LastDecides
  <2> QED
    BY <1>1, <1>3, <2>2 DEF new
<1>4. CASE <<e.pattern, n>> \notin Match
  <2>0. /\ \A k \in 1 .. Len(l) : k \in 1 .. Len(new) /\ new[k].pattern = l[k].pattern
        /\ <<new[Len(l) + 1].pattern, n>> \notin Match
    BY <1>1, <1>4
  <2>1. Matching(new, n) = Matching(l, n)
    BY <1>2, <2>0 DEF Matching
  <2>2. CASE Matching(l, n) = {}
    BY <1>4, <2>1, <2>2 DEF ValueOf, new
  <2>3. CASE Matching(l, n) # {}
    <3>1. Max(Matching(l, n)) \in 1 .. Len(l)
      BY <2>3, MatchingProperties
    <3>2. new[Max(Matching(l, n))] = l[Max(Matching(l, n))]
      BY <1>1, <3>1
    <3> QED
      BY <1>4, <2>1, <2>3, <3>2 DEF ValueOf, new
  <2> QED
    BY <2>2, <2>3
<1> QED
  BY <1>3, <1>4

\* A knob rewritten gives its new value to the names it was the last to match.
LEMMA RewrittenValue ==
  ASSUME NEW l \in Seq(KnobSet), NEW k \in 1 .. Len(l), NEW v \in Values, NEW n
  PROVE  ValueOf([l EXCEPT ![k].value = v], n) =
           IF Matching(l, n) # {} /\ Max(Matching(l, n)) = k THEN v ELSE ValueOf(l, n)
<1> DEFINE e == [l[k] EXCEPT !.value = v]
           new == [l EXCEPT ![k] = e]
<1>1. l[k] \in KnobSet
  OBVIOUS
<1>2. e \in KnobSet /\ e.pattern = l[k].pattern /\ e.value = v
  BY <1>1 DEF KnobSet
<1> HIDE DEF e
<1>3. /\ new \in Seq(KnobSet) /\ Len(new) = Len(l)
      /\ \A i \in 1 .. Len(l) : new[i] = IF i = k THEN e ELSE l[i]
  BY <1>2, ExceptSeq
<1>4. [l EXCEPT ![k].value = v] = new
  BY DEF e
<1> HIDE DEF new
<1>5. \A i \in 1 .. Len(l) : new[i].pattern = l[i].pattern
  BY <1>2, <1>3
<1>6. Matching(new, n) = Matching(l, n)
  BY <1>3, <1>5 DEF Matching
<1>7. CASE Matching(l, n) = {}
  BY <1>4, <1>6, <1>7 DEF ValueOf
<1>8. CASE Matching(l, n) # {}
  <2> DEFINE m == Max(Matching(l, n))
  <2>1. m \in 1 .. Len(l)
    BY <1>8, MatchingProperties
  <2>2. ValueOf(new, n) = new[m].value /\ ValueOf(l, n) = l[m].value
    BY <1>6, <1>8 DEF ValueOf
  <2> HIDE DEF m
  <2>3. new[m].value = IF m = k THEN v ELSE l[m].value
    BY <1>2, <1>3, <2>1
  <2> QED
    BY <1>4, <1>8, <2>2, <2>3 DEF m
<1> QED
  BY <1>7, <1>8
-----------------------------------------------------------------------------
(* What the writes do to the map.                                          *)

\* sknobs_add gives its value to a set of names.
LEMMA AddGives ==
  ASSUME TypeOK, TypeOK', NEW p \in Patterns, NEW v \in Values \cup {NULL},
         list' = Added(p, v)
  PROVE  \E S \in SUBSET Names :
           /\ p \in PlainNames => p \in S
           /\ \A m \in Names : Found(m)' = IF m \in S THEN v ELSE Found(m)
<1>0. list \in Seq(KnobSet) /\ list' \in Seq(KnobSet)
  BY DEF TypeOK
<1>1. CASE p \in Uncompilable
  <2>1. \A m \in Names : Found(m)' = Found(m)
    BY <1>0, <1>1, FoundIsValue DEF Added
  <2>2. p \notin PlainNames
    BY <1>1 DEF PlainNames
  <2> WITNESS {} \in SUBSET Names
  <2> QED
    BY <2>1, <2>2
<1>2. CASE p \notin Uncompilable
  <2> DEFINE e == [pattern |-> p, value |-> v]
             S == {m \in Names : <<p, m>> \in Match}
  <2>1. e \in KnobSet /\ e.pattern = p /\ e.value = v
    BY DEF KnobSet
  <2>2. list' = Append(list, e)
    BY <1>2 DEF Added
  <2> HIDE DEF e
  <2>3. \A m \in Names : Found(m)' = IF <<p, m>> \in Match THEN v ELSE Found(m)
    BY <1>0, <2>1, <2>2, FoundIsValue, AppendedValue
  <2>4. p \in PlainNames => p \in S
    BY DEF PlainNames
  <2>5. ASSUME NEW m \in Names
        PROVE  Found(m)' = IF m \in S THEN v ELSE Found(m)
    BY <2>3
  <2>6. S \in SUBSET Names
    OBVIOUS
  <2> HIDE DEF S
  <2> QED
    BY <2>4, <2>5, <2>6
<1> QED
  BY <1>1, <1>2

\* sknobs_set_string and sknobs_set_value give theirs to the names that shared the
\* knob with the one written.
LEMMA AssignGives ==
  ASSUME TypeOK, TypeOK', NEW n \in Names, NEW v \in Values, list' = Assigned(n, v)
  PROVE  \E S \in SUBSET Names :
           /\ n \in PlainNames => n \in S
           /\ Found(n) # Unset => n \in S /\ \A m \in S : Found(m) = Found(n)
           /\ \A m \in Names : Found(m)' = IF m \in S THEN v ELSE Found(m)
<1> DEFINE k == FindLast(Opened(n))
<1>0. /\ list \in Seq(KnobSet) /\ list' \in Seq(KnobSet)
      /\ k \in 0 .. Len(list) /\ Len(list) \in Nat
  BY FindLastProperties DEF TypeOK
<1>1. CASE k = 0
  <2>1. Found(n) = Unset
    BY <1>1 DEF Found
  <2>2. list' = Added(n, v) /\ n \in Patterns
    BY <1>1, NamesAssumption DEF Assigned
  <2> QED
    BY <2>1, <2>2, AddGives
<1>2. CASE k # 0
  <2> DEFINE last(m) == Matching(list, m) # {} /\ Max(Matching(list, m)) = k
             S == {m \in Names : last(m)}
  <2>1. list' = [list EXCEPT ![k].value = v]
    BY <1>2 DEF Assigned
  <2>2. k \in 1 .. Len(list)
    BY <1>0, <1>2
  <2>3. last(n)
    BY <1>0, <1>2, FoundIsValue
  <2>4. \A m \in Names : last(m) => Found(m) = list[k].value
    BY <1>0, FoundIsValue DEF ValueOf
  <2> HIDE DEF k
  <2>5. \A m \in Names :
          ValueOf([list EXCEPT ![k].value = v], m) = IF last(m) THEN v ELSE ValueOf(list, m)
    BY <1>0, <2>2, RewrittenValue
  <2>6. \A m \in Names : Found(m)' = IF last(m) THEN v ELSE Found(m)
    BY <1>0, <2>1, <2>5, FoundIsValue
  <2> HIDE DEF last
  <2>7. /\ n \in S /\ \A m \in S : Found(m) = Found(n)
        /\ \A m \in Names : Found(m)' = IF m \in S THEN v ELSE Found(m)
    BY <2>3, <2>4, <2>6
  <2> QED
    BY <2>7
<1> QED
  BY <1>1, <1>2

\* A list that stays gives every name the value it had.
LEMMA SameList ==
  ASSUME list' = list, NEW n
  PROVE  Found(n)' = Found(n)
BY DEF Found, FindLast, Opened, Hits

\* A table that stays keeps every name its number.
LEMMA SameTable ==
  ASSUME saved' = saved, NEW n
  PROVE  SavedValue(n)' = SavedValue(n)
BY DEF SavedValue

\* Saving a number pins it for its name and leaves every other name alone.
LEMMA SavePins ==
  ASSUME TypeOK, NEW n \in Names, NEW x \in Numbers, Save(n, x), NEW m \in Names
  PROVE  SavedValue(m)' = IF m = n THEN x ELSE SavedValue(m)
<1> DEFINE e == [name |-> n, value |-> x]
           b == Hash[m]
<1>1. b \in 0 .. Buckets - 1
  BY SizeAssumption
<1>2. /\ e \in Entries /\ saved[b] \in Seq(Entries)
      /\ saved'[b] = IF b = Hash[n] THEN <<e>> \o saved[b] ELSE saved[b]
  BY <1>1, SaveEffect
<1>3. SavedValue(m) = ChainValue(saved[b], m) /\ SavedValue(m)' = ChainValue(saved'[b], m)
  BY DEF SavedValue
<1>4. e.name = n /\ e.value = x
  OBVIOUS
<1> HIDE DEF e
<1>5. CASE m # n
  BY <1>2, <1>3, <1>4, <1>5, ConsKeepsValue
<1>6. CASE m = n
  <2> DEFINE new == <<e>> \o saved[b]
             same == {i \in DOMAIN new : new[i].name = n}
  <2>1. /\ new \in Seq(Entries) /\ DOMAIN new = 1 .. Len(saved[b]) + 1
        /\ Len(saved[b]) \in Nat /\ new[1] = e
    BY <1>2, ConsProperties
  <2> HIDE DEF new
  <2>2. 1 \in same /\ \A i \in same : 1 <= i
    BY <1>4, <2>1
  <2>3. /\ Min(same) \in same /\ \A i \in same : Min(same) <= i
        /\ ChainValue(new, n) = new[Min(same)].value
    BY <2>1, <2>2, ChainValueProperties
  <2>4. Min(same) = 1
    <3>1. Min(same) \in Nat /\ Min(same) <= 1 /\ 1 <= Min(same)
      BY <2>1, <2>2, <2>3
    <3> QED
      BY <3>1
  <2>5. ChainValue(new, n) = x
    BY <1>4, <2>1, <2>3, <2>4
  <2> QED
    BY <1>2, <1>3, <1>6, <2>5 DEF new
<1> QED
  BY <1>5, <1>6
-----------------------------------------------------------------------------
(* Refinement.                                                             *)

\* Every call that leaves list and table alone leaves the map alone.
LEMMA MapUnchanged ==
  /\ list' = list => \A m \in Names : Found(m)' = Found(m)
  /\ list' = list => UNCHANGED [n \in Names |-> Found(n)]
  /\ saved' = saved => UNCHANGED [n \in Names |-> SavedValue(n)]
BY SameList, SameTable

LEMMA InitMap == Init => Map!Init
<1> SUFFICES ASSUME Init PROVE Map!Init
  OBVIOUS
<1>1. TypeOK
  BY InitType
<1>2. \A n \in Names : Found(n) \in Values \cup {NULL, Unset}
  BY <1>1, FoundType DEF TypeOK
<1>3. \A n \in Names : SavedValue(n) = Unset
  <2> TAKE n \in Names
  <2>1. saved[Hash[n]] = <<>>
    BY SizeAssumption DEF Init
  <2>2. ChainValue(<<>>, n) = Unset
    BY DEF ChainValue
  <2> QED
    BY <2>1, <2>2 DEF SavedValue
<1> QED
  BY <1>2, <1>3 DEF Map!Init, Map!Answer, Init, Answer

\* One step of the database is one step of the map.
LEMMA StepMaps ==
  ASSUME TypeOK, TypeOK', [Next]_vars
  PROVE  [Map!Next]_(Map!vars)
<1> USE DEF Answer, Map!Answer
<1>1. ASSUME NEW p \in Patterns, NEW v \in Values \cup {NULL}, Add(p, v)
      PROVE  Map!Add
  <2>1. PICK S \in SUBSET Names :
          \A m \in Names : Found(m)' = IF m \in S THEN v ELSE Found(m)
    BY <1>1, AddGives DEF Add
  <2>2. [n \in Names |-> Found(n)]' = Map!Bound(S, v)
    BY <2>1 DEF Map!Bound
  <2>3. UNCHANGED [n \in Names |-> SavedValue(n)] /\ reply'.call = "add"
    BY <1>1, MapUnchanged DEF Add
  <2> QED
    BY <2>2, <2>3 DEF Map!Add
<1>2. ASSUME NEW n \in Names, NEW v \in Values, TypeOK, TypeOK', list' = Assigned(n, v),
             saved' = saved
      PROVE  Map!Set(n, v)
  <2>1. PICK S \in SUBSET Names :
          /\ Found(n) # Unset => n \in S /\ \A m \in S : Found(m) = Found(n)
          /\ \A m \in Names : Found(m)' = IF m \in S THEN v ELSE Found(m)
    BY <1>2, AssignGives
  <2>2. [m \in Names |-> Found(m)]' = Map!Bound(S, v)
    BY <2>1 DEF Map!Bound
  <2>3. UNCHANGED [m \in Names |-> SavedValue(m)]
    BY <1>2, MapUnchanged
  <2> QED
    BY <2>1, <2>2, <2>3 DEF Map!Set
<1>3. ASSUME NEW n \in Names, NEW v \in Values, SetString(n, v)
      PROVE  Map!SetString(n, v)
  BY <1>2, <1>3 DEF SetString, Map!SetString
<1>4. ASSUME NEW n \in Names, NEW x \in Numbers, SetValue(n, x)
      PROVE  Map!SetValue(n, x)
  <2>1. Decimal[x] \in Values
    BY ValuesAssumption
  <2> QED
    BY <1>2, <1>4, <2>1 DEF SetValue, Map!SetValue
<1>5. ASSUME NEW n \in Names, NEW d \in Values \cup {NULL}, GetString(n, d)
      PROVE  Map!GetString(n, d)
  BY <1>5, MapUnchanged DEF GetString, Map!GetString
<1>6. ASSUME NEW n \in Names, Exists(n)
      PROVE  Map!Exists(n)
  <2>1. NextHit(Opened(n)) = 0 <=> Found(n) = Unset
    <3>1. list \in Seq(KnobSet) /\ Opened(n).knob = 0 /\ Opened(n).name = n
      BY DEF TypeOK, Opened
    <3>2. NextHit(Opened(n)) = 0 <=> Hits(n) = {}
      <4>1. Hits(n) \subseteq 1 .. Len(list) /\ Len(list) \in Nat
        BY <3>1, HitsArePositions
      <4>2. /\ NextHit(Opened(n)) = 0 => \A k \in Hits(n) : k <= 0
            /\ NextHit(Opened(n)) # 0 => NextHit(Opened(n)) \in Hits(n)
        BY <3>1, NextHitProperties
      <4> QED
        BY <4>1, <4>2
    <3>3. FindLast(Opened(n)) = 0 <=> Hits(n) = {}
      BY <3>1, FindLastProperties, HitsArePositions
    <3>4. FindLast(Opened(n)) # 0 => list[FindLast(Opened(n))].value \in Values \cup {NULL}
      <4>1. FindLast(Opened(n)) \in 0 .. Len(list) /\ Len(list) \in Nat
        BY <3>1, FindLastProperties
      <4>2. \A k \in 1 .. Len(list) : list[k] \in KnobSet
        BY <3>1
      <4> QED
        BY <4>1, <4>2 DEF KnobSet
    <3> QED
      BY <3>2, <3>3, <3>4, NamesAssumption DEF Found
  <2> QED
    BY <1>6, <2>1, MapUnchanged DEF Exists, Map!Exists
<1>7. \A n \in Names, d \in Numbers : Map!Number(n, d) = Dynamic(n, d)
  BY DEF Map!Number, Dynamic
<1>8. ASSUME NEW n \in Names, NEW d \in Numbers, GetDynamicValue(n, d)
      PROVE  Map!GetDynamicValue(n, d)
  BY <1>7, <1>8, MapUnchanged DEF GetDynamicValue, Map!GetDynamicValue
<1>9. ASSUME NEW n \in Names, GetSavedValue(n)
      PROVE  \E d \in Numbers : Map!GetValue(n, d)
  <2>1. UNCHANGED [m \in Names |-> Found(m)] /\ UNCHANGED [m \in Names |-> SavedValue(m)]
    BY <1>9, MapUnchanged DEF GetSavedValue
  <2>2. SavedValue(n) \in Numbers
    <3>1. Hash[n] \in 0 .. Buckets - 1 /\ SavedValue(n) # Unset
      BY <1>9, SizeAssumption DEF GetSavedValue
    <3>2. saved[Hash[n]] \in Seq(Entries)
      BY <3>1 DEF TypeOK, Entries
    <3>3. \E i \in DOMAIN saved[Hash[n]] : SavedValue(n) = saved[Hash[n]][i].value
      BY <3>1, <3>2, ChainValueProperties DEF SavedValue
    <3>4. \A i \in DOMAIN saved[Hash[n]] : saved[Hash[n]][i] \in Entries
      BY <3>2
    <3> QED
      BY <3>3, <3>4 DEF Entries
  <2>3. Map!GetValue(n, SavedValue(n))
    BY <1>9, <2>1 DEF GetSavedValue, Map!GetValue
  <2> QED
    BY <2>2, <2>3
<1>10. ASSUME NEW n \in Names, NEW d \in Numbers, GetFirstValue(n, d)
       PROVE  Map!GetValue(n, d)
  <2>1. PICK x \in Dynamic(n, d) : Save(n, x) /\ reply' = Answer("get_value", n, x)
    BY <1>10 DEF GetFirstValue
  <2>2. x \in Numbers
    BY <2>1, DynamicType DEF TypeOK
  <2>3. \A m \in Names : SavedValue(m)' = IF m = n THEN x ELSE SavedValue(m)
    BY <2>1, <2>2, SavePins
  <2>4. [m \in Names |-> SavedValue(m)]' = [[m \in Names |-> SavedValue(m)] EXCEPT ![n] = x]
    BY <2>3
  <2>5. SavedValue(n) = Unset /\ UNCHANGED [m \in Names |-> Found(m)]
    BY <1>10, MapUnchanged DEF GetFirstValue
  <2> QED
    BY <1>7, <2>1, <2>4, <2>5 DEF Map!GetValue
<1>11. ASSUME \/ Dump \/ FindFile
              \/ \E h \in Handles, n \in Names : Iterate(h, n)
              \/ \E h \in Handles : IteratorNext(h)
              \/ \E h \in Handles, asNumber \in BOOLEAN : IteratorGet(h, asNumber)
       PROVE  Map!Browse
  <2>1. CASE Dump \/ FindFile
    BY <2>1, MapUnchanged DEF Dump, FindFile, Map!Browse, Map!BrowseCalls
  <2>2. CASE \E h \in Handles, n \in Names : Iterate(h, n)
    BY <2>2, MapUnchanged DEF Iterate, Map!Browse, Map!BrowseCalls
  <2>3. CASE \E h \in Handles : IteratorNext(h)
    BY <2>3, MapUnchanged DEF IteratorNext, Map!Browse, Map!BrowseCalls
  <2>4. ASSUME NEW h \in Handles, NEW asNumber \in BOOLEAN, IteratorGet(h, asNumber)
        PROVE  Map!Browse
    <3>1. list' = list /\ saved' = saved
      BY <2>4 DEF IteratorGet
    <3>2. reply'.call = "iterator_get"
      BY <2>4 DEF IteratorGet
    <3> QED
      BY <3>1, <3>2, MapUnchanged DEF Map!Browse, Map!BrowseCalls
  <2> QED
    BY <1>11, <2>1, <2>2, <2>3, <2>4
<1>12. ASSUME Close
       PROVE  Map!Close
  <2>1. \A n \in Names : Found(n)' = Unset
    BY <1>12 DEF Close, Found, FindLast, Opened, Hits
  <2>2. \A n \in Names : SavedValue(n)' = Unset
    <3> TAKE n \in Names
    <3>1. saved'[Hash[n]] = <<>>
      BY <1>12, SizeAssumption DEF Close
    <3>2. ChainValue(<<>>, n) = Unset
      BY DEF ChainValue
    <3> QED
      BY <3>1, <3>2 DEF SavedValue
  <2> QED
    BY <1>12, <2>1, <2>2 DEF Close, Map!Close
<1>13. ASSUME UNCHANGED vars
       PROVE  UNCHANGED Map!vars
  BY <1>13, MapUnchanged DEF vars, Map!vars
<1>14. CASE Next
  <2>1. CASE \E p \in Patterns, v \in Values \cup {NULL} : Add(p, v)
    BY <1>1, <2>1 DEF Map!Next
  <2>2. CASE \E n \in Names, v \in Values : SetString(n, v)
    BY <1>3, <2>2 DEF Map!Next
  <2>3. CASE \E n \in Names, x \in Numbers : SetValue(n, x)
    BY <1>4, <2>3 DEF Map!Next
  <2>4. CASE \E n \in Names, d \in Values \cup {NULL} : GetString(n, d)
    BY <1>5, <2>4 DEF Map!Next
  <2>5. CASE \E n \in Names : Exists(n)
    BY <1>6, <2>5 DEF Map!Next
  <2>6. CASE \E n \in Names, d \in Numbers : GetDynamicValue(n, d)
    BY <1>8, <2>6 DEF Map!Next
  <2>7. CASE \E n \in Names : GetSavedValue(n)
    BY <1>9, <2>7 DEF Map!Next
  <2>8. CASE \E n \in Names, d \in Numbers : GetFirstValue(n, d)
    BY <1>10, <2>8 DEF Map!Next
  <2>9. CASE Close
    BY <1>12, <2>9 DEF Map!Next
  <2> QED
    BY <1>11, <1>14, <2>1, <2>2, <2>3, <2>4, <2>5, <2>6, <2>7, <2>8, <2>9
       DEF Next, Map!Next
<1> QED
  BY <1>13, <1>14

\* A client sees a map: whatever the patterns, the chains and the iterators do, each
\* call answers and changes names as the map would.
THEOREM StoreImplementsMap == Spec => ImplementsMap
<1>1. Init => Map!Init
  BY InitMap
<1>2. TypeOK /\ TypeOK' /\ [Next]_vars => [Map!Next]_(Map!vars)
  BY StepMaps
<1> QED
  BY <1>1, <1>2, StoreTypeCorrect, PTL DEF Spec, ImplementsMap, Map!Spec

\* The only calls that report a write are the two writes.
LEMMA WritesReported ==
  ASSUME Next
  PROVE  \/ \E n \in Names, v \in Values : SetString(n, v)
         \/ \E n \in Names, x \in Numbers : SetValue(n, x)
         \/ reply'.call \notin {"set_string", "set_value"}
<1> USE DEF Answer
<1>1. ASSUME NEW h \in Handles, NEW asNumber \in BOOLEAN, IteratorGet(h, asNumber)
      PROVE  reply'.call = "iterator_get"
  BY <1>1 DEF IteratorGet
<1>2. ASSUME NEW n \in Names, NEW d \in Numbers, GetFirstValue(n, d)
      PROVE  reply'.call = "get_value"
  BY <1>2 DEF GetFirstValue
<1>3. ASSUME NEW n \in Names, NEW d \in Numbers, GetDynamicValue(n, d)
      PROVE  reply'.call = "get_dynamic_value"
  BY <1>3 DEF GetDynamicValue
<1>4. ASSUME NEW h \in Handles, IteratorNext(h)
      PROVE  reply'.call = "iterator_next"
  BY <1>4 DEF IteratorNext
<1>5. ASSUME NEW p \in Patterns, NEW v \in Values \cup {NULL}, Add(p, v)
      PROVE  reply'.call = "add"
  BY <1>5 DEF Add
<1>6. ASSUME NEW n \in Names, NEW d \in Values \cup {NULL}, GetString(n, d)
      PROVE  reply'.call = "get_string"
  BY <1>6 DEF GetString
<1>7. ASSUME NEW n \in Names, Exists(n) \/ GetSavedValue(n)
      PROVE  reply'.call \in {"exists", "get_value"}
  BY <1>7 DEF Exists, GetSavedValue
<1>8. ASSUME NEW h \in Handles, NEW n \in Names, Iterate(h, n)
      PROVE  reply'.call = "iterate"
  BY <1>8 DEF Iterate
<1>9. ASSUME Dump \/ FindFile \/ Close
      PROVE  reply'.call \in {"dump", "find_file", "close"}
  BY <1>9 DEF Dump, FindFile, Close
<1> QED
  BY <1>1, <1>2, <1>3, <1>4, <1>5, <1>6, <1>7, <1>8, <1>9 DEF Next

\* What is written under a name that matches itself is what the next lookup of the
\* name finds.
THEOREM WritesAreRead == Spec => PlainNamesReadTheirWrites
<1>1. TypeOK /\ TypeOK' /\ [Next]_vars => [\A n \in PlainNames : ReadYourWrites(n)]_vars
  <2> SUFFICES ASSUME TypeOK, TypeOK', Next, NEW n \in PlainNames
               PROVE  ReadYourWrites(n)
    OBVIOUS
  <2>0. n \in Names
    BY DEF PlainNames
  <2>1. ASSUME NEW v \in Values, list' = Assigned(n, v)
        PROVE  Found(n)' = v
    BY <2>0, <2>1, AssignGives
  <2>2. ASSUME reply'.call = "set_string", reply'.name = n
        PROVE  Found(n)' = reply'.result
    <3>0. ASSUME NEW m \in Names, NEW x \in Numbers, SetValue(m, x)
          PROVE  FALSE
      BY <2>2, <3>0 DEF SetValue, Answer
    <3>1. PICK m \in Names, v \in Values : SetString(m, v)
      BY <2>2, <3>0, WritesReported
    <3>2. m = n /\ reply'.result = v
      BY <2>2, <3>1 DEF SetString, Answer
    <3> QED
      BY <2>1, <3>1, <3>2 DEF SetString
  <2>3. ASSUME reply'.call = "set_value", reply'.name = n
        PROVE  Found(n)' = Decimal[reply'.result]
    <3>0. ASSUME NEW m \in Names, NEW v \in Values, SetString(m, v)
          PROVE  FALSE
      BY <2>3, <3>0 DEF SetString, Answer
    <3>1. PICK m \in Names, x \in Numbers : SetValue(m, x)
      BY <2>3, <3>0, WritesReported
    <3>2. m = n /\ reply'.result = x /\ Decimal[x] \in Values
      BY <2>3, <3>1, ValuesAssumption DEF SetValue, Answer
    <3> QED
      BY <2>1, <3>1, <3>2 DEF SetValue
  <2> QED
    BY <2>2, <2>3 DEF ReadYourWrites
<1> QED
  BY <1>1, StoreTypeCorrect, PTL DEF Spec, PlainNamesReadTheirWrites
=============================================================================
