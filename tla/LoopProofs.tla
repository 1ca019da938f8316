------------------------------ MODULE LoopProofs ------------------------------
(***************************************************************************)
(* Two loops that stop where nothing in them says they must: the choice of *)
(* an element by weight, which never looks at the number of elements, and  *)
(* a client's walk, whose slot of the ring its own lookups may take away.  *)
(***************************************************************************)
EXTENDS Evaluate, IteratorLoop, Extrema, FiniteSetTheorems

\* The summing loop has computed Prefix(1), ..., Prefix(Len(sums)).
SumsOK ==
  /\ Len(sums) <= Len(expr)
  /\ total = Prefix(Len(sums))
  /\ \A k \in 1 .. Len(sums) : sums[k] = Plus(Prefix(k - 1), expr[k].weight)

\* The selection loop recomputes the same sums, and stops at the latest when it
\* meets total, which the draw is below.
LoopOK ==
  /\ pc \in {"split", "sum"} => a = 0 /\ j = 0
  /\ pc \in {"pick", "chosen", "done"} => Len(sums) = Len(expr) /\ expr # <<>>
  /\ pc = "sum" => expr # <<>>
  /\ pc = "pick" =>
       /\ w < total /\ total # 1
       /\ j <= Len(expr) /\ a = Prefix(j)
       /\ j # 0 => Prefix(j - 1) <= w
  /\ pc \in {"chosen", "done"} => j \in 1 .. Len(expr)

IInv == TypeOK /\ SumsOK /\ LoopOK /\ PickStaysInList /\ DrawnInShare /\ ResultInRange

\* Sums and differences of words are words.
LEMMA WordArithmetic ==
  ASSUME NEW x \in Word, NEW y \in Word
  PROVE  Plus(x, y) \in Word /\ Minus(x, y) \in Word
BY WordAssumption DEF Word, Plus, Minus

\* The number drawn from a range is inside it, and a word in any case.
LEMMA RangeArithmetic ==
  ASSUME NEW e \in Element, e.high # NoBound, ~Whole(e), Width(e) # 0,
         NEW x \in Draw(Width(e))
  PROVE  /\ Plus(e.low, x) \in Word
         /\ e.low <= e.high => e.low <= Plus(e.low, x) /\ Plus(e.low, x) <= e.high
<1>1. e.low \in Word /\ e.high \in Word
  BY DEF Element
<1>2. 1 \in Word
  BY WordAssumption DEF Word
<1>3. Width(e) \in Word
  BY <1>1, <1>2, WordArithmetic DEF Width
<1>4. x \in Word /\ x < Width(e)
  <2> DEFINE n == Width(e)
  <2>1. x \in 0 .. n - 1
    BY DEF Draw
  <2> HIDE DEF n
  <2> QED
    BY <1>3, <2>1, WordAssumption DEF Word, n
<1>5. e.low <= e.high => Width(e) = e.high - e.low + 1
  BY <1>1, WordAssumption DEF Width, Plus, Minus, Word, Whole
<1>6. Plus(e.low, x) \in Word
  BY <1>1, <1>4, WordArithmetic
<1>7. ASSUME e.low <= e.high
      PROVE  e.low <= Plus(e.low, x) /\ Plus(e.low, x) <= e.high
  <2>1. x <= e.high - e.low
    BY <1>1, <1>4, <1>5, <1>7, WordAssumption DEF Word
  <2> QED
    BY <1>1, <1>4, <2>1, WordAssumption DEF Plus, Word
<1> QED
  BY <1>6, <1>7

\* Elements of an expression have words for weights.
LEMMA ExprElements ==
  ASSUME expr \in Exprs
  PROVE  /\ expr \in Seq(Element)
         /\ Len(expr) \in Nat
         /\ \A k \in 1 .. Len(expr) : expr[k] \in Element /\ expr[k].weight \in Word
<1>1. expr \in Seq(Element)
  BY WordAssumption
<1>2. \A k \in 1 .. Len(expr) : expr[k] \in Element
  BY <1>1
<1> QED
  BY <1>1, <1>2 DEF Element

LEMMA InitIInv == Init => IInv
BY WordAssumption
DEF Init, IInv, TypeOK, SumsOK, LoopOK, PickStaysInList, DrawnInShare,
    ResultInRange, Word, Prefix, Steps, Faults

LEMMA NextIInv == IInv /\ [Next]_vars => IInv'
<1> SUFFICES ASSUME IInv, [Next]_vars PROVE IInv'
  OBVIOUS
<1> USE DEF IInv
<1>e. expr \in Seq(Element) /\ Len(expr) \in Nat
      /\ \A k \in 1 .. Len(expr) : expr[k] \in Element /\ expr[k].weight \in Word
  BY ExprElements DEF TypeOK
<1>0. 0 \in Word /\ Len(sums) \in Nat /\ \A k \in 1 .. Len(sums) : sums[k] \in Word
  BY WordAssumption DEF TypeOK, Word
<1>1. CASE Split
  BY <1>1, <1>e DEF Split, TypeOK, SumsOK, LoopOK, PickStaysInList, DrawnInShare,
     ResultInRange, Prefix, Steps, Faults
<1>2. CASE Sum
  <2> DEFINE t == Plus(total, expr[Len(sums) + 1].weight)
  <2>1. Len(sums) + 1 \in 1 .. Len(expr)
    BY <1>2, <1>e, <1>0 DEF Sum
  <2>2. t \in Word
    BY <2>1, <1>e, WordArithmetic DEF TypeOK
  <2>3. /\ sums' \in Seq(Word) /\ Len(sums') = Len(sums) + 1
        /\ \A k \in 1 .. Len(sums) : sums'[k] = sums[k]
        /\ sums'[Len(sums) + 1] = t /\ total' = t
    BY <1>2, <2>2 DEF Sum, TypeOK
  <2>4. \A k \in 0 .. Len(sums) : Prefix(k)' = Prefix(k)
    BY <2>3, <1>0 DEF Prefix
  <2>5. SumsOK'
    <3>1. Len(sums') <= Len(expr') /\ expr' = expr
      BY <1>2, <2>1, <2>3 DEF Sum
    <3>2. total' = Prefix(Len(sums))'
      BY <2>3, <1>0 DEF Prefix
    <3>3. ASSUME NEW k \in 1 .. Len(sums')
          PROVE  sums'[k] = Plus(Prefix(k - 1)', expr'[k].weight)
      <4>1. CASE k \in 1 .. Len(sums)
        BY <4>1, <3>1, <2>3, <2>4, <1>0 DEF SumsOK
      <4>2. CASE k = Len(sums) + 1
        BY <4>2, <3>1, <2>3, <2>4, <1>0 DEF SumsOK
      <4> QED
        BY <4>1, <4>2, <2>3, <1>0
    <3> QED
      BY <3>1, <3>2, <3>3 DEF SumsOK
  <2>6. TypeOK'
    BY <1>2, <2>2, <2>3 DEF Sum, TypeOK
  <2> QED
    BY <1>2, <2>5, <2>6 DEF Sum, LoopOK, PickStaysInList, DrawnInShare, ResultInRange
<1>3. CASE OnlyOne
  BY <1>3, <1>e DEF OnlyOne, Summed, TypeOK, SumsOK, LoopOK, PickStaysInList,
     DrawnInShare, ResultInRange, Prefix, Steps
<1>4. CASE DrawWeight
  <2>1. w' \in Word /\ (pc' = "pick" => w' < total)
    BY <1>4, WordAssumption DEF DrawWeight, Draw, TypeOK, Word
  <2> QED
    BY <1>4, <2>1, <1>e DEF DrawWeight, Summed, TypeOK, SumsOK, LoopOK, PickStaysInList,
       DrawnInShare, ResultInRange, Prefix, Steps, Faults
<1>5. CASE Pick
  <2>1. j < Len(expr)
    \* at j = Len(expr) the running sum is total, which w is below
    BY <1>5, <1>e DEF Pick, More, TypeOK, SumsOK, LoopOK, Word
  <2>2. j + 1 \in 1 .. Len(sums)
    BY <2>1, <1>5, <1>e DEF Pick, TypeOK, LoopOK
  <2>3. a' = Prefix(j + 1) /\ pc' = "pick" /\ j' = j + 1
    BY <2>1, <2>2, <1>5, <1>e DEF Pick, TypeOK, SumsOK, LoopOK, Prefix
  <2>4. a' \in Word
    BY <2>2, <2>3, <1>0 DEF Prefix
  <2>5. Prefix(j) <= w
    BY <1>5 DEF Pick, More, LoopOK
  <2> QED
    BY <1>5, <2>1, <2>2, <2>3, <2>4, <2>5, <1>e DEF Pick, TypeOK, SumsOK, LoopOK,
       PickStaysInList, DrawnInShare, ResultInRange, Prefix
<1>6. CASE Picked
  <2>1. j # 0 /\ w < Prefix(j)
    BY <1>6 DEF Picked, More, TypeOK, LoopOK, Prefix, Word
  <2> QED
    BY <1>6, <2>1, <1>e DEF Picked, TypeOK, SumsOK, LoopOK, PickStaysInList,
       DrawnInShare, ResultInRange, Prefix, Steps
<1>7. CASE ReturnName
  BY <1>7 DEF ReturnName, TypeOK, SumsOK, LoopOK, PickStaysInList, DrawnInShare,
     ResultInRange, Prefix
<1>8. CASE ReturnNumber
  <2>1. expr[j] \in Element
    BY <1>8, <1>e DEF ReturnNumber, LoopOK
  <2>2. /\ result' \in Word
        /\ pc' \in {"done", "trap"}
        /\ pc' = "done" /\ expr[j].high # NoBound /\ expr[j].low <= expr[j].high =>
             expr[j].low <= result' /\ result' <= expr[j].high
    <3>1. CASE expr[j].high = NoBound
      BY <1>8, <2>1, <3>1 DEF ReturnNumber, Element
    <3>2. CASE expr[j].high # NoBound /\ Whole(expr[j])
      BY <1>8, <2>1, <3>2 DEF ReturnNumber, Element, Whole, Word
    <3>3. CASE expr[j].high # NoBound /\ ~Whole(expr[j]) /\ Width(expr[j]) = 0
      BY <1>8, <2>1, <3>3 DEF ReturnNumber, TypeOK
    <3>4. CASE expr[j].high # NoBound /\ ~Whole(expr[j]) /\ Width(expr[j]) # 0
      BY <1>8, <2>1, <3>4, RangeArithmetic DEF ReturnNumber
    <3> QED
      BY <3>1, <3>2, <3>3, <3>4
  <2> QED
    BY <1>8, <2>1, <2>2 DEF ReturnNumber, TypeOK, SumsOK, LoopOK, PickStaysInList,
       DrawnInShare, ResultInRange, Prefix, Faults
<1>9. CASE UNCHANGED vars
  BY <1>9 DEF vars, TypeOK, SumsOK, LoopOK, PickStaysInList, DrawnInShare,
     ResultInRange, Prefix
<1> QED
  BY <1>1, <1>2, <1>3, <1>4, <1>5, <1>6, <1>7, <1>8, <1>9 DEF Next

LEMMA Invariance == Spec => []IInv
BY InitIInv, NextIInv, PTL DEF Spec

\* Every variable of the evaluation keeps its range: the sums stay words.
THEOREM EvaluateTypeCorrect == Spec => []TypeOK
BY Invariance, PTL DEF IInv

\* The selection loop of choose_from_weighted_list, which never tests j against
\* count, reads no element past the last, for all weights and wrapping sums.
THEOREM SelectionInBounds == Spec => []PickStaysInList
BY Invariance, PTL DEF IInv

\* The draw lies in the share of the element chosen.
THEOREM SelectionProportional == Spec => []DrawnInShare
BY Invariance, PTL DEF IInv

\* sknobs_eval of a range returns a number of the range.
THEOREM RangeRespected == Spec => []ResultInRange
BY Invariance, PTL DEF IInv
-----------------------------------------------------------------------------
(* The client's loop, for every list, every name and every number of       *)
(* lookups in its body: the bound under which it is given every match.     *)

\* All turns of the loop together take fewer slots than the ring has.
RingSuffices == Cardinality(Matching[Mine]) * Body < MaxIterators

Cells == [name : Names, knob : 0 .. Knobs]

LoopTyped ==
  /\ slots \in [Slots -> Cells] /\ cur \in Slots /\ it \in Slots
  /\ at \in {"start", "next", "get", "body", "done"}
  /\ left \in 0 .. Body /\ seen \in SUBSET Matching[Mine]

\* The slots taken since the client's own.
Taken == Cardinality(seen) * Body - left

\* The client's slot is still its own, and says how far it has come.
Walk ==
  LET k == slots[it].knob
      upTo(n) == {m \in Matching[Mine] : m <= n}
  IN  /\ at = "start" => seen = {}
      /\ at # "body" => left = 0
      /\ at = "done" => seen = Matching[Mine]
      /\ at \in {"next", "get", "body"} =>
           /\ slots[it].name = Mine
           /\ Taken \in 0 .. MaxIterators - 1
           /\ cur = (IF it + 1 + Taken < MaxIterators THEN it + 1 + Taken
                                                      ELSE it + 1 + Taken - MaxIterators)
      /\ at \in {"next", "body"} => seen = upTo(k)
      /\ at = "get" => k \in Matching[Mine] /\ seen = upTo(k) \ {k}

LEMMA MatchesAreFinite ==
  /\ Matching[Mine] \subseteq 1 .. Knobs /\ IsFiniteSet(Matching[Mine])
  /\ Cardinality(Matching[Mine]) \in Nat
  /\ \A S \in SUBSET Matching[Mine] :
       /\ IsFiniteSet(S) /\ Cardinality(S) \in Nat
       /\ Cardinality(S) <= Cardinality(Matching[Mine])
<1>1. Matching[Mine] \subseteq 1 .. Knobs /\ Knobs \in Nat
  BY LoopAssumption
<1>2. IsFiniteSet(1 .. Knobs)
  BY <1>1, FS_Interval
<1>3. IsFiniteSet(Matching[Mine])
  BY <1>1, <1>2, FS_Subset
<1> QED
  BY <1>1, <1>3, FS_Subset, FS_CardinalityType

\* Fewer turns take fewer slots.
LEMMA TurnsTake ==
  ASSUME RingSuffices, NEW S \in SUBSET Matching[Mine]
  PROVE  /\ Cardinality(S) * Body \in Nat
         /\ Cardinality(S) * Body < MaxIterators
<1> DEFINE c == Cardinality(S)
           m == Cardinality(Matching[Mine])
<1>1. c \in Nat /\ m \in Nat /\ c <= m /\ Body \in Nat /\ MaxIterators \in Nat /\ m * Body < MaxIterators
  BY MatchesAreFinite, LoopAssumption DEF RingSuffices
<1> HIDE DEF c, m
<1>2. \A x, y, z \in Nat : x <= y => x * z \in Nat /\ y * z \in Nat /\ x * z <= y * z
  OBVIOUS
<1>3. c * Body \in Nat /\ m * Body \in Nat /\ c * Body <= m * Body
  BY <1>1, <1>2
<1>4. c * Body < MaxIterators
  BY <1>1, <1>3
<1> QED
  BY <1>3, <1>4 DEF c

\* A turn more takes Body slots more.
LEMMA OneMoreTurn ==
  ASSUME NEW S \in SUBSET Matching[Mine], NEW k \in Matching[Mine], k \notin S
  PROVE  Cardinality(S \cup {k}) * Body = Cardinality(S) * Body + Body
<1>1. Cardinality(S \cup {k}) = Cardinality(S) + 1
  BY MatchesAreFinite, FS_AddElement
<1>2. \A x, z \in Nat : (x + 1) * z = x * z + z
  OBVIOUS
<1> QED
  BY <1>1, <1>2, MatchesAreFinite, LoopAssumption

\* The cursor goes round.
LEMMA CursorGoesRound ==
  ASSUME NEW c \in Slots
  PROVE  /\ (c + 1) % MaxIterators = IF c + 1 = MaxIterators THEN 0 ELSE c + 1
         /\ (c + 1) % MaxIterators \in Slots
<1>1. c \in Nat /\ c < MaxIterators /\ MaxIterators \in Nat
  BY LoopAssumption DEF Slots
<1> QED
  BY <1>1 DEF Slots

LEMMA HitProperties ==
  ASSUME slots \in [Slots -> Cells], NEW s \in Slots
  PROVE  LET n == slots[s].name
             k == slots[s].knob
         IN  /\ Hit(s) \in 0 .. Knobs
             /\ Hit(s) = 0 => \A m \in Matching[n] : m <= k
             /\ Hit(s) # 0 => Hit(s) \in Matching[n] /\ Hit(s) > k
                              /\ \A m \in Matching[n] : m > k => Hit(s) <= m
<1> DEFINE n == slots[s].name
           k == slots[s].knob
           after == {m \in Matching[n] : m > k}
<1>1. n \in Names /\ k \in 0 .. Knobs /\ Matching[n] \subseteq 1 .. Knobs /\ Knobs \in Nat
  BY LoopAssumption DEF Cells
<1>2. Hit(s) = IF after = {} THEN 0 ELSE Min(after)
  BY DEF Hit
<1>3. after \in SUBSET Nat /\ after \subseteq Matching[n]
  BY <1>1
<1>4. after # {} => Min(after) \in after /\ \A m \in after : Min(after) <= m
  <2> HIDE DEF after
  <2> QED
    BY <1>3, MinOfNaturals
<1>5. CASE after = {}
  BY <1>1, <1>2, <1>5
<1>6. CASE after # {}
  <2>1. Hit(s) \in after /\ \A m \in after : Hit(s) <= m
    BY <1>2, <1>4, <1>6
  <2> QED
    BY <1>1, <2>1
<1> QED
  BY <1>5, <1>6

LEMMA TakeTyped ==
  ASSUME LoopTyped, NEW n \in Names, Take(n)
  PROVE  /\ slots' \in [Slots -> Cells] /\ cur' \in Slots
         /\ slots'[cur] = [name |-> n, knob |-> 0]
         /\ \A s \in Slots \ {cur} : slots'[s] = slots[s]
<1>1. [name |-> n, knob |-> 0] \in Cells
  BY LoopAssumption DEF Cells
<1> QED
  BY <1>1, CursorGoesRound DEF Take, LoopTyped

LEMMA InitWalk == RingSuffices /\ LoopInit => LoopTyped /\ Walk
BY LoopAssumption DEF LoopInit, LoopTyped, Walk, Cells, Slots

LEMMA NextWalk ==
  ASSUME RingSuffices, LoopTyped, Walk, [LoopNext]_loopVars
  PROVE  LoopTyped' /\ Walk'
<1>0. Mine \in Names /\ Body \in Nat /\ MaxIterators \in Nat /\ Matching[Mine] \subseteq 1 .. Knobs
      /\ 0 \in 0 .. Body /\ Knobs \in Nat
  BY LoopAssumption
<1>1. CASE Iterate
  <2>1. Take(Mine) /\ it' = cur /\ at = "start" /\ at' = "next" /\ UNCHANGED <<left, seen>>
    BY <1>1 DEF Iterate
  <2>2. seen = {} /\ left = 0 /\ Taken = 0 /\ Taken' = 0
    BY <1>0, <2>1, FS_EmptySet DEF Walk, Taken
  <2>3. LoopTyped'
    BY <1>0, <2>1, TakeTyped DEF LoopTyped
  <2>4. slots'[it'] = [name |-> Mine, knob |-> 0]
    BY <1>0, <2>1, TakeTyped
  <2>5. cur' = IF it' + 1 < MaxIterators THEN it' + 1 ELSE it' + 1 - MaxIterators
    BY <1>0, <2>1, CursorGoesRound DEF Take, LoopTyped, Slots
  <2>6. {m \in Matching[Mine] : m <= 0} = {}
    BY <1>0
  <2> QED
    BY <1>0, <2>1, <2>2, <2>3, <2>4, <2>5, <2>6, LoopAssumption DEF Walk, LoopTyped, Slots
<1>2. CASE IteratorNext
  <2>1. /\ at = "next" /\ slots' = [slots EXCEPT ![it].knob = Hit(it)]
        /\ at' = (IF Hit(it) = 0 THEN "done" ELSE "get") /\ UNCHANGED <<cur, it, left, seen>>
    BY <1>2 DEF IteratorNext
  <2> DEFINE k == slots[it].knob
             h == Hit(it)
  <2>2. /\ slots[it].name = Mine /\ it \in Slots /\ k \in 0 .. Knobs
        /\ seen = {m \in Matching[Mine] : m <= k}
    BY <2>1 DEF Walk, LoopTyped, Cells
  <2>3. /\ h \in 0 .. Knobs
        /\ h = 0 => \A m \in Matching[Mine] : m <= k
        /\ h # 0 => h \in Matching[Mine] /\ h > k /\ \A m \in Matching[Mine] : m > k => h <= m
    BY <2>2, HitProperties DEF LoopTyped
  <2>4. slots' \in [Slots -> Cells] /\ slots'[it].name = Mine /\ slots'[it].knob = h
    BY <2>1, <2>2, <2>3 DEF LoopTyped, Cells
  <2>5. h = 0 => seen = Matching[Mine]
    BY <2>2, <2>3
  <2>6. h # 0 => seen = {m \in Matching[Mine] : m <= h} \ {h}
    BY <1>0, <2>2, <2>3
  <2>7. Taken' = Taken /\ left = 0
    BY <2>1 DEF Taken, Walk
  <2> HIDE DEF h
  <2> QED
    BY <2>1, <2>3, <2>4, <2>5, <2>6, <2>7 DEF Walk, LoopTyped, h
<1>3. CASE IteratorGet
  <2> DEFINE k == slots[it].knob
  <2>1. /\ at = "get" /\ at' = "body" /\ seen' = seen \cup {k} /\ left' = Body
        /\ UNCHANGED <<slots, cur, it>>
    BY <1>3 DEF IteratorGet
  <2>2. /\ k \in Matching[Mine] /\ seen = {m \in Matching[Mine] : m <= k} \ {k} /\ left = 0
        /\ k \in Nat
    BY <1>0, <2>1 DEF Walk
  <2>3. seen' = {m \in Matching[Mine] : m <= k} /\ k \notin seen /\ seen \in SUBSET Matching[Mine]
    BY <2>1, <2>2
  <2>4. Cardinality(seen') * Body = Cardinality(seen) * Body + Body
    BY <2>1, <2>2, <2>3, OneMoreTurn
  <2>5. Cardinality(seen) * Body \in Nat
    BY <2>3, TurnsTake
  <2>6. Taken' = Taken
    BY <1>0, <2>1, <2>2, <2>4, <2>5 DEF Taken
  <2> QED
    BY <1>0, <2>1, <2>3, <2>6 DEF Walk, LoopTyped
<1>4. CASE LookUp
  <2>1. PICK n \in Names : Take(n)
    BY <1>4 DEF LookUp
  <2>2. at = "body" /\ left > 0 /\ left' = left - 1 /\ UNCHANGED <<it, at, seen>> /\ left \in 1 .. Body
    BY <1>0, <1>4 DEF LookUp, LoopTyped
  <2>3. Cardinality(seen) * Body \in Nat /\ Cardinality(seen) * Body < MaxIterators
    BY TurnsTake DEF LoopTyped
  <2>4. Taken' = Taken + 1 /\ Taken' \in 0 .. MaxIterators - 1 /\ Taken \in 0 .. MaxIterators - 2
    BY <1>0, <2>2, <2>3 DEF Taken, Walk
  <2>5. /\ cur = (IF it + 1 + Taken < MaxIterators THEN it + 1 + Taken
                                                   ELSE it + 1 + Taken - MaxIterators)
        /\ it \in 0 .. MaxIterators - 1
    BY <2>2 DEF Walk, LoopTyped, Slots
  <2> HIDE DEF Taken
  <2>6. cur # it
    BY <1>0, <2>4, <2>5
  <2>7. cur' = IF it + 1 + Taken' < MaxIterators THEN it + 1 + Taken' ELSE it + 1 + Taken' - MaxIterators
    <3>1. cur' = IF cur + 1 = MaxIterators THEN 0 ELSE cur + 1
      BY <2>1, CursorGoesRound DEF Take, LoopTyped
    <3> QED
      BY <1>0, <2>4, <2>5, <3>1
  <2>8. slots'[it] = slots[it]
    BY <2>1, <2>6, TakeTyped DEF LoopTyped
  <2>9. LoopTyped'
    <3>1. slots' \in [Slots -> Cells] /\ cur' \in Slots
      BY <2>1, TakeTyped
    <3>2. left' \in 0 .. Body
      BY <1>0, <2>2
    <3> QED
      BY <2>2, <3>1, <3>2 DEF LoopTyped
  <2> QED
    BY <2>2, <2>4, <2>7, <2>8, <2>9 DEF Walk
<1>5. CASE EndOfBody
  BY <1>5 DEF EndOfBody, LoopTyped, Walk, Taken
<1>6. CASE UNCHANGED loopVars
  BY <1>6 DEF loopVars, LoopTyped, Walk, Taken
<1> QED
  BY <1>1, <1>2, <1>3, <1>4, <1>5, <1>6 DEF LoopNext

\* A loop that ends has been given every match of its name and no other knob
\* (sknobs_iterate, sknobs_iterator_next), if all its turns together take fewer slots
\* than the ring has.
THEOREM LoopSeesEveryMatch ==
  ASSUME RingSuffices
  PROVE  LoopSpec => []SeesEveryMatch
<1>1. LoopTyped /\ Walk => SeesEveryMatch
  BY DEF Walk, SeesEveryMatch
<1>2. LoopInit => LoopTyped /\ Walk
  BY InitWalk
<1>3. LoopTyped /\ Walk /\ [LoopNext]_loopVars => LoopTyped' /\ Walk'
  BY NextWalk
<1> QED
  BY <1>1, <1>2, <1>3, PTL DEF LoopSpec
=============================================================================
