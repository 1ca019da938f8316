------------------------------ MODULE FileProofs ------------------------------
(***************************************************************************)
(* Knob files: what a restart reads of what was saved, for every list,     *)
(* every set of values and every history of saves and restarts; and what   *)
(* the comment remover leaves of a file, for every text.                   *)
(***************************************************************************)
EXTENDS SaveRestore, Uncomment, Extrema, FiniteSetTheorems, SequenceTheorems

Lists == Seq(KnobSet)
Readings == [tokens : Seq(Tokens), open : BOOLEAN]

\* What a list of knobs, or of the tokens that will be knobs, says of a name.
StringIn(l, n) ==
  LET hits == {i \in DOMAIN l : <<l[i].pattern, n>> \in Match}
  IN  IF hits = {} THEN NULL ELSE l[Max(hits)].value
NumberIn(l, n) == IF StringIn(l, n) = NULL THEN {Default} ELSE Eval[StringIn(l, n)]
Filed(n) == StringIn(Text(file.lines).tokens, n)

\* No entry of a list is for n; the last that is is x.
Silent(l, n) == \A i \in 1 .. Len(l) : <<l[i].pattern, n>> \notin Match
Says(l, n, x) ==
  \E i \in 1 .. Len(l) :
    /\ <<l[i].pattern, n>> \in Match /\ l[i] = x
    /\ \A j \in i + 1 .. Len(l) : <<l[j].pattern, n>> \notin Match

SaveTyped ==
  /\ list \in Lists
  /\ DOMAIN pinned \in SUBSET Names /\ IsFiniteSet(DOMAIN pinned)
  /\ pinned \in [DOMAIN pinned -> Numbers]
  /\ file \in [exists : BOOLEAN, lines : Lists]
  /\ process \in {"running", "loading", "restored"}
  /\ unread \in Seq(Tokens) /\ argState \in {"START", "DASHF", "IGNORE"}
  /\ seeded \in BOOLEAN
  /\ atSave \in [string : [Names -> Values], number : [Names -> SUBSET Numbers],
                 pinned : SUBSET Names, kept : SUBSET Names, saves : Nat]

\* The file's tokens give back what it was written from, whoever reads them.
FileKeeps ==
  file.exists /\ Tame(file.lines) =>
    \A n \in atSave.kept \cup atSave.pinned :
      /\ (IF Filed(n) = NULL THEN {Default} ELSE Eval[Filed(n)]) = atSave.number[n]
      /\ n \notin atSave.pinned => Filed(n) = atSave.string[n]

\* Half loaded: the knobs read and the tokens to come say together what the file
\* says; all of them will be knobs, and the seed is the first.
Ahead(n) == IF Silent(unread, n) THEN StringIn(list, n) ELSE StringIn(unread, n)
SeedFirst ==
  \/ seeded
  \/ /\ list = <<>> /\ unread # <<>>
     /\ Due.pattern = SeedName /\ Sown[Due.value] # NULL
Loading ==
  process = "loading" =>
    /\ file.exists
    /\ Tame(file.lines) =>
         /\ argState = "START" /\ DOMAIN pinned = {} /\ SeedFirst
         /\ \A i \in 1 .. Len(unread) : unread[i].kind \in Knobs
         /\ \A n \in Names : Ahead(n) = Filed(n)

SaveInv == SaveTyped /\ FileKeeps /\ Loading /\ NumbersSurvive /\ StringsSurvive

\* Induction along a list.
LEMMA Along ==
  ASSUME NEW k \in Nat, NEW S, 0 \in S, \A i \in 1 .. k : i - 1 \in S => i \in S
  PROVE  \A i \in 0 .. k : i \in S
<1> DEFINE Bad == {i \in 0 .. k : i \notin S}
<1>1. SUFFICES ASSUME Bad # {} PROVE FALSE
  OBVIOUS
<1>2. Bad \in SUBSET Nat
  OBVIOUS
<1>3. PICK i \in Bad : \A x \in Bad : i <= x
  <2> HIDE DEF Bad
  <2> QED
    BY <1>1, <1>2, LeastNatural
<1>4. i \in 1 .. k /\ i \notin S /\ i - 1 \in 0 .. k /\ ~(i <= i - 1)
  OBVIOUS
<1>5. i - 1 \in S
  BY <1>3, <1>4
<1> QED
  BY <1>4, <1>5

LEMMA ListFacts ==
  ASSUME NEW l \in Lists
  PROVE  /\ Len(l) \in Nat /\ DOMAIN l = 1 .. Len(l)
         /\ \A i \in 1 .. Len(l) : /\ l[i] \in KnobSet
                                   /\ l[i].pattern \in Patterns /\ l[i].value \in Values
<1>1. \A i \in 1 .. Len(l) : l[i] \in KnobSet
  BY DEF Lists
<1> QED
  BY <1>1 DEF Lists, KnobSet

LEMMA StringOfList ==
  ASSUME NEW S, NEW l \in Seq(S), NEW n
  PROVE  /\ Silent(l, n) => StringIn(l, n) = NULL
         /\ LET hits == {i \in DOMAIN l : <<l[i].pattern, n>> \in Match}
            IN  /\ hits = {} <=> Silent(l, n)
                /\ hits # {} => Says(l, n, l[Max(hits)]) /\ Max(hits) \in 1 .. Len(l)
         /\ \A x : Says(l, n, x) => StringIn(l, n) = x.value
         /\ ~Silent(l, n) => \E x \in S : Says(l, n, x)
<1> DEFINE hits == {i \in DOMAIN l : <<l[i].pattern, n>> \in Match}
<1>1. /\ Len(l) \in Nat /\ DOMAIN l = 1 .. Len(l)
      /\ \A i \in 1 .. Len(l) : l[i] \in S
  OBVIOUS
<1>2. hits \in SUBSET (1 .. Len(l)) /\ \A i \in 1 .. Len(l) : i \in hits <=> <<l[i].pattern, n>> \in Match
  BY <1>1
<1>3. StringIn(l, n) = IF hits = {} THEN NULL ELSE l[Max(hits)].value
  BY DEF StringIn
<1> HIDE DEF hits
<1>4. ASSUME hits # {} PROVE Max(hits) \in hits /\ \A i \in hits : i <= Max(hits)
  BY <1>1, <1>2, <1>4, MaxOfPositions
<1>5. Silent(l, n) <=> hits = {}
  BY <1>2 DEF Silent
<1>6. ASSUME hits # {}
      PROVE  Says(l, n, l[Max(hits)]) /\ Max(hits) \in 1 .. Len(l)
  <2>1. Max(hits) \in 1 .. Len(l) /\ <<l[Max(hits)].pattern, n>> \in Match
    BY <1>2, <1>4, <1>6
  <2>2. ASSUME NEW j \in Max(hits) + 1 .. Len(l) PROVE <<l[j].pattern, n>> \notin Match
    <3>1. j \in 1 .. Len(l) /\ ~(j <= Max(hits))
      BY <1>1, <2>1
    <3> QED
      BY <1>2, <1>4, <1>6, <3>1
  <2> QED
    BY <2>1, <2>2 DEF Says
<1>7. ASSUME NEW x, Says(l, n, x) PROVE StringIn(l, n) = x.value
  <2>1. PICK i \in 1 .. Len(l) :
          /\ <<l[i].pattern, n>> \in Match /\ l[i] = x
          /\ \A j \in i + 1 .. Len(l) : <<l[j].pattern, n>> \notin Match
    BY <1>7 DEF Says
  <2>2. i \in hits /\ hits # {}
    BY <1>2, <2>1
  <2>3. Max(hits) \in 1 .. Len(l) /\ i <= Max(hits) /\ ~(Max(hits) \in i + 1 .. Len(l))
    BY <1>2, <1>4, <2>1, <2>2
  <2>4. Max(hits) = i
    BY <1>1, <2>3
  <2> QED
    BY <1>3, <2>1, <2>2, <2>4
<1>8. ASSUME ~Silent(l, n) PROVE \E x \in S : Says(l, n, x)
  BY <1>1, <1>5, <1>6, <1>8
<1> QED
  BY <1>3, <1>5, <1>6, <1>7, <1>8 DEF hits

\* A list with another behind it that says nothing of a name, or the last word.
LEMMA BehindIt ==
  ASSUME NEW S, NEW l \in Seq(S), NEW k \in Seq(S), NEW n
  PROVE  /\ l \o k \in Seq(S)
         /\ Silent(l, n) /\ Silent(k, n) => Silent(l \o k, n)
         /\ \A x : Says(l, n, x) /\ Silent(k, n) => Says(l \o k, n, x)
         /\ \A x : Says(k, n, x) => Says(l \o k, n, x)
<1> DEFINE s == l \o k
           a == Len(l)
           b == Len(k)
<1>1. /\ s \in Seq(S) /\ Len(s) = a + b /\ a \in Nat /\ b \in Nat
      /\ \A i \in 1 .. a : s[i] = l[i]
      /\ \A i \in 1 .. b : s[a + i] = k[i]
  OBVIOUS
<1> HIDE DEF s
<1>2. \A i \in a + 1 .. a + b : i - a \in 1 .. b /\ a + (i - a) = i
  BY <1>1
<1>3. \A i \in 1 .. a + b : i \in 1 .. a \/ i \in a + 1 .. a + b
  BY <1>1
<1>4. ASSUME Silent(l, n), Silent(k, n) PROVE Silent(s, n)
  <2> SUFFICES ASSUME NEW i \in 1 .. a + b PROVE <<s[i].pattern, n>> \notin Match
    BY <1>1 DEF Silent
  <2>1. CASE i \in 1 .. a
    BY <1>1, <1>4, <2>1 DEF Silent
  <2>2. CASE i \in a + 1 .. a + b
    <3>1. s[i] = k[i - a] /\ i - a \in 1 .. b
      BY <1>1, <1>2, <2>2
    <3> QED
      BY <1>4, <3>1 DEF Silent
  <2> QED
    BY <1>3, <2>1, <2>2
<1>5. ASSUME NEW x, Says(l, n, x), Silent(k, n) PROVE Says(s, n, x)
  <2>1. PICK i \in 1 .. a :
          /\ <<l[i].pattern, n>> \in Match /\ l[i] = x
          /\ \A j \in i + 1 .. a : <<l[j].pattern, n>> \notin Match
    BY <1>5 DEF Says
  <2>2. i \in 1 .. a + b /\ s[i] = l[i]
    BY <1>1
  <2>3. ASSUME NEW j \in i + 1 .. a + b PROVE <<s[j].pattern, n>> \notin Match
    <3>1. CASE j \in i + 1 .. a
      <4>1. j \in 1 .. a
        BY <1>1, <3>1
      <4> QED
        BY <1>1, <2>1, <3>1, <4>1
    <3>2. CASE j \in a + 1 .. a + b
      <4>1. s[j] = k[j - a] /\ j - a \in 1 .. b
        BY <1>1, <1>2, <3>2
      <4> QED
        BY <1>5, <4>1 DEF Silent
    <3> QED
      BY <1>1, <3>1, <3>2
  <2> QED
    BY <1>1, <2>1, <2>2, <2>3 DEF Says
<1>6. ASSUME NEW x, Says(k, n, x) PROVE Says(s, n, x)
  <2>1. PICK i \in 1 .. b :
          /\ <<k[i].pattern, n>> \in Match /\ k[i] = x
          /\ \A j \in i + 1 .. b : <<k[j].pattern, n>> \notin Match
    BY <1>6 DEF Says
  <2>2. a + i \in 1 .. a + b /\ s[a + i] = k[i]
    BY <1>1
  <2>3. ASSUME NEW j \in (a + i) + 1 .. a + b PROVE <<s[j].pattern, n>> \notin Match
    <3>1. j \in a + 1 .. a + b /\ j - a \in i + 1 .. b
      BY <1>1
    <3>2. s[j] = k[j - a]
      BY <1>1, <1>2, <3>1
    <3> QED
      BY <2>1, <3>1, <3>2
  <2> QED
    BY <1>1, <2>1, <2>2, <2>3 DEF Says
<1> QED
  BY <1>1, <1>4, <1>5, <1>6 DEF s

\* One entry says all it can of a name.
LEMMA OneEntry ==
  ASSUME NEW S, NEW x \in S, NEW n
  PROVE  /\ <<x>> \in Seq(S)
         /\ <<x.pattern, n>> \in Match => Says(<<x>>, n, x)
         /\ <<x.pattern, n>> \notin Match => Silent(<<x>>, n)
<1> DEFINE k == <<x>>
<1>1. k \in Seq(S) /\ Len(k) = 1 /\ k[1] = x
  OBVIOUS
<1> HIDE DEF k
<1>2. /\ <<x.pattern, n>> \in Match => Says(k, n, x)
      /\ <<x.pattern, n>> \notin Match => Silent(k, n)
  BY <1>1 DEF Says, Silent
<1> QED
  BY <1>1, <1>2 DEF k

\* A knob more at the end of a list.
LEMMA OneMore ==
  ASSUME NEW S, NEW l \in Seq(S), NEW x \in S, NEW n
  PROVE  StringIn(Append(l, x), n)
         = IF <<x.pattern, n>> \in Match THEN x.value ELSE StringIn(l, n)
<1> DEFINE k == <<x>>
           s == l \o k
<1>1. Append(l, x) = s
  OBVIOUS
<1>2. /\ k \in Seq(S)
      /\ <<x.pattern, n>> \in Match => Says(k, n, x)
      /\ <<x.pattern, n>> \notin Match => Silent(k, n)
  BY OneEntry
<1> HIDE DEF k
<1>3. /\ s \in Seq(S)
      /\ Silent(l, n) /\ Silent(k, n) => Silent(s, n)
      /\ \A y : Says(l, n, y) /\ Silent(k, n) => Says(s, n, y)
      /\ \A y : Says(k, n, y) => Says(s, n, y)
  BY <1>2, BehindIt
<1> HIDE DEF s
<1>4. CASE <<x.pattern, n>> \in Match
  BY <1>1, <1>2, <1>3, <1>4, StringOfList
<1>5. CASE <<x.pattern, n>> \notin Match
  <2>1. CASE Silent(l, n)
    <3>1. StringIn(l, n) = NULL /\ StringIn(s, n) = NULL
      BY <1>2, <1>3, <1>5, <2>1, StringOfList
    <3> QED
      BY <1>1, <1>5, <3>1
  <2>2. CASE ~Silent(l, n)
    <3>1. PICK y \in S : Says(l, n, y)
      BY <2>2, StringOfList
    <3>2. Says(s, n, y)
      BY <1>2, <1>3, <1>5, <3>1
    <3>3. StringIn(l, n) = y.value
      BY <3>1, StringOfList
    <3>4. StringIn(s, n) = y.value
      BY <1>3, <3>2, StringOfList
    <3> QED
      BY <1>1, <1>5, <3>3, <3>4
  <2> QED
    BY <2>1, <2>2
<1> QED
  BY <1>4, <1>5

\* A knob less at its head.
LEMMA OneLess ==
  ASSUME NEW S, NEW u \in Seq(S), u # <<>>, NEW n
  PROVE  /\ Head(u) \in S /\ Tail(u) \in Seq(S)
         /\ Silent(u, n) <=> <<Head(u).pattern, n>> \notin Match /\ Silent(Tail(u), n)
         /\ Silent(Tail(u), n) /\ <<Head(u).pattern, n>> \in Match =>
              StringIn(u, n) = Head(u).value
         /\ ~Silent(Tail(u), n) => StringIn(u, n) = StringIn(Tail(u), n)
<1> DEFINE h == <<Head(u)>>
           k == Tail(u)
           s == h \o k
<1>1. u = s /\ Head(u) \in S /\ k \in Seq(S)
  OBVIOUS
<1>2. Silent(u, n) => <<Head(u).pattern, n>> \notin Match /\ Silent(k, n)
  <2>1. /\ Len(k) = Len(u) - 1 /\ Len(u) \in Nat \ {0} /\ Head(u) = u[1]
        /\ \A i \in 1 .. Len(k) : k[i] = u[i + 1]
    OBVIOUS
  <2> HIDE DEF k
  <2>2. 1 \in 1 .. Len(u) /\ \A i \in 1 .. Len(k) : i + 1 \in 1 .. Len(u)
    BY <2>1
  <2> QED
    BY <2>1, <2>2 DEF Silent
<1>3. /\ h \in Seq(S)
      /\ <<Head(u).pattern, n>> \in Match => Says(h, n, Head(u))
      /\ <<Head(u).pattern, n>> \notin Match => Silent(h, n)
  BY <1>1, OneEntry
<1> HIDE DEF h, k
<1>4. /\ s \in Seq(S)
      /\ Silent(h, n) /\ Silent(k, n) => Silent(s, n)
      /\ \A y : Says(h, n, y) /\ Silent(k, n) => Says(s, n, y)
      /\ \A y : Says(k, n, y) => Says(s, n, y)
  BY <1>1, <1>3, BehindIt
<1> HIDE DEF s
<1>5. ASSUME Silent(k, n), <<Head(u).pattern, n>> \in Match
      PROVE  StringIn(u, n) = Head(u).value
  <2>1. Says(u, n, Head(u))
    BY <1>1, <1>3, <1>4, <1>5
  <2>2. \A x : Says(u, n, x) => StringIn(u, n) = x.value
    BY StringOfList
  <2> QED
    BY <2>1, <2>2, Zenon
<1>6. ASSUME ~Silent(k, n) PROVE StringIn(u, n) = StringIn(k, n)
  <2>1. PICK y \in S : Says(k, n, y)
    BY <1>1, <1>6, StringOfList
  <2>2. Says(u, n, y)
    BY <1>1, <1>4, <2>1
  <2>3. \A x : Says(k, n, x) => StringIn(k, n) = x.value
    BY <1>1, StringOfList
  <2>4. \A x : Says(u, n, x) => StringIn(u, n) = x.value
    BY StringOfList
  <2> QED
    BY <2>1, <2>2, <2>3, <2>4, Zenon
<1> QED
  BY <1>1, <1>2, <1>3, <1>4, <1>5, <1>6 DEF k

\* The tokens of one line more, and whether a comment is open behind it.
Grown(r, l) == [tokens |-> r.tokens \o Scan[r.open][l].tokens, open |-> Scan[r.open][l].open]
Nothing == [tokens |-> <<>>, open |-> FALSE]

LEMMA GrownFacts ==
  ASSUME NEW r \in Readings, NEW l \in KnobSet
  PROVE  Grown(r, l) \in Readings
<1> DEFINE e == Scan[r.open][l]
<1>1. r.tokens \in Seq(Tokens) /\ r.open \in BOOLEAN
  BY DEF Readings
<1>2. e.tokens \in Seq(Tokens) /\ e.open \in BOOLEAN
  BY <1>1, SaveAssumption
<1> HIDE DEF e
<1>3. r.tokens \o e.tokens \in Seq(Tokens)
  BY <1>1, <1>2
<1>4. Grown(r, l) = [tokens |-> r.tokens \o e.tokens, open |-> e.open]
  BY DEF Grown, e
<1> QED
  BY <1>2, <1>3, <1>4 DEF Readings

\* The file's tokens up to each of its lines, as Text defines them.
UpTo(ls) ==
  CHOOSE f : f = [i \in 0 .. Len(ls) |-> IF i = 0 THEN [tokens |-> <<>>, open |-> FALSE]
    ELSE LET l == Scan[f[i - 1].open][ls[i]]
         IN  [tokens |-> f[i - 1].tokens \o l.tokens, open |-> l.open]]

LEMMA UpToExists ==
  ASSUME NEW ls \in Lists
  PROVE  \E f : f = [i \in 0 .. Len(ls) |-> IF i = 0 THEN Nothing ELSE Grown(f[i - 1], ls[i])]
<1> DEFINE n == Len(ls)
           Rule(f, i) == IF i = 0 THEN Nothing ELSE Grown(f[i - 1], ls[i])
           Solves(f, k) == f \in [0 .. k -> Readings] /\ \A i \in 0 .. k : f[i] = Rule(f, i)
           S == {k \in 0 .. n : \E f : Solves(f, k)}
<1>0. n \in Nat /\ \A i \in 1 .. n : ls[i] \in KnobSet
  BY ListFacts
<1> HIDE DEF n
<1>1. 0 \in S
  <2> DEFINE f == [i \in 0 .. 0 |-> Nothing]
  <2>1. Nothing \in Readings
    BY DEF Nothing, Readings
  <2>2. f \in [0 .. 0 -> Readings] /\ f[0] = Nothing /\ \A i \in 0 .. 0 : i = 0
    BY <2>1
  <2> HIDE DEF f
  <2>3. Solves(f, 0)
    BY <2>2
  <2> QED
    BY <1>0, <2>3
<1>2. ASSUME NEW k \in 1 .. n, k - 1 \in S PROVE k \in S
  <2>1. PICK g : Solves(g, k - 1)
    BY <1>2
  <2> DEFINE v == Grown(g[k - 1], ls[k])
             f == [i \in 0 .. k |-> IF i = k THEN v ELSE g[i]]
  <2>2. /\ k \in 0 .. n /\ k \in 0 .. k /\ k - 1 \in 0 .. k - 1 /\ k # 0
        /\ \A i \in 0 .. k : i = k \/ i \in 0 .. k - 1
        /\ \A i \in 0 .. k - 1 : i \in 0 .. k /\ i # k
        /\ \A i \in 0 .. k - 1 : i # 0 => i - 1 \in 0 .. k - 1
    BY <1>0
  <2>3. v \in Readings
    BY <1>0, <2>1, <2>2, GrownFacts
  <2> HIDE DEF v
  <2>4. /\ f \in [0 .. k -> Readings] /\ f[k] = v
        /\ \A i \in 0 .. k - 1 : f[i] = g[i]
    BY <2>1, <2>2, <2>3
  <2> HIDE DEF f
  <2>5. ASSUME NEW i \in 0 .. k PROVE f[i] = Rule(f, i)
    <3>1. CASE i = k
      <4>1. f[k] = Grown(f[k - 1], ls[k])
        BY <2>2, <2>4 DEF v
      <4> QED
        BY <2>2, <3>1, <4>1
    <3>2. CASE i \in 0 .. k - 1
      <4>1. f[i] = g[i] /\ g[i] = Rule(g, i)
        BY <2>1, <2>4, <3>2
      <4>2. i # 0 => f[i - 1] = g[i - 1]
        BY <2>2, <2>4, <3>2
      <4> QED
        BY <4>1, <4>2
    <3> QED
      BY <2>2, <3>1, <3>2
  <2>6. Solves(f, k)
    BY <2>4, <2>5
  <2> QED
    BY <2>2, <2>6
<1>3. \A k \in 0 .. n : k \in S
  <2> HIDE DEF S
  <2> QED
    BY <1>0, <1>1, <1>2, Along
<1>4. PICK f : Solves(f, n)
  BY <1>0, <1>3
<1>5. f = [i \in 0 .. n |-> IF i = 0 THEN Nothing ELSE Grown(f[i - 1], ls[i])]
  BY <1>4
<1> QED
  BY <1>5 DEF n

LEMMA UpToFacts ==
  ASSUME NEW ls \in Lists
  PROVE  /\ Text(ls) = UpTo(ls)[Len(ls)]
         /\ UpTo(ls)[0] = Nothing
         /\ \A i \in 1 .. Len(ls) : UpTo(ls)[i] = Grown(UpTo(ls)[i - 1], ls[i])
         /\ \A i \in 0 .. Len(ls) : UpTo(ls)[i] \in Readings
<1> DEFINE f == UpTo(ls)
           k == Len(ls)
           S == {i \in 0 .. k : f[i] \in Readings}
<1>1. \E g : g = [i \in 0 .. Len(ls) |-> IF i = 0 THEN [tokens |-> <<>>, open |-> FALSE]
         ELSE LET l == Scan[g[i - 1].open][ls[i]]
              IN  [tokens |-> g[i - 1].tokens \o l.tokens, open |-> l.open]]
  BY UpToExists, Zenon DEF Grown, Nothing
<1>2. f = [i \in 0 .. Len(ls) |-> IF i = 0 THEN [tokens |-> <<>>, open |-> FALSE]
         ELSE LET l == Scan[f[i - 1].open][ls[i]]
              IN  [tokens |-> f[i - 1].tokens \o l.tokens, open |-> l.open]]
  BY <1>1, Zenon DEF UpTo
<1>3. Text(ls) = UpTo(ls)[Len(ls)]
  BY Zenon DEF Text, UpTo
<1> HIDE DEF f
<1>4. f = [i \in 0 .. k |-> IF i = 0 THEN Nothing ELSE Grown(f[i - 1], ls[i])]
  BY <1>2, Zenon DEF Grown, Nothing
<1>5. k \in Nat /\ \A i \in 1 .. k : ls[i] \in KnobSet
  BY ListFacts
<1> HIDE DEF k
<1>6. /\ 0 \in 0 .. k
      /\ \A i \in 1 .. k : i \in 0 .. k /\ i # 0 /\ i - 1 \in 0 .. k
  BY <1>5
<1>7. f[0] = Nothing /\ \A i \in 1 .. k : f[i] = Grown(f[i - 1], ls[i])
  BY <1>4, <1>6
<1>8. 0 \in S
  <2>1. Nothing \in Readings
    BY DEF Nothing, Readings
  <2> QED
    BY <1>6, <1>7, <2>1
<1>9. ASSUME NEW i \in 1 .. k, i - 1 \in S PROVE i \in S
  <2>1. Grown(f[i - 1], ls[i]) \in Readings
    BY <1>5, <1>9, GrownFacts
  <2> QED
    BY <1>6, <1>7, <2>1
<1>10. \A i \in 0 .. k : i \in S
  <2> HIDE DEF S
  <2> QED
    BY <1>5, <1>8, <1>9, Along
<1> QED
  BY <1>3, <1>7, <1>10 DEF f, k

LEMMA TextIsTyped ==
  ASSUME NEW ls \in Lists
  PROVE  Text(ls).tokens \in Seq(Tokens) /\ Text(ls).open \in BOOLEAN
<1>1. Len(ls) \in 0 .. Len(ls)
  BY ListFacts
<1>2. Text(ls) \in Readings
  BY <1>1, UpToFacts
<1> QED
  BY <1>2 DEF Readings

\* Lines that are contained come to knobs only, the first line's first, and say of a
\* name what its last line says.
FirstOf(l) == Scan[FALSE][l].tokens[1]
Plain(n) == <<FilesName, n>> \notin Match

LEMMA ContainedFacts ==
  ASSUME NEW l \in Contained
  PROVE  LET ts == Scan[FALSE][l].tokens
         IN  /\ l \in KnobSet /\ ~Scan[FALSE][l].open
             /\ ts \in Seq(Tokens) /\ Len(ts) >= 1 /\ Len(ts) \in Nat
             /\ \A j \in 1 .. Len(ts) : ts[j] \in Tokens /\ ts[j].kind \in Knobs
             /\ ts[1] = FirstOf(l) /\ FirstOf(l) \in Tokens
             /\ FirstOf(l).pattern = l.pattern
             /\ \A j \in 2 .. Len(ts) : ts[j].pattern = FilesName
<1> DEFINE ts == Scan[FALSE][l].tokens
<1>1. /\ l \in KnobSet /\ ~Scan[FALSE][l].open
      /\ ts # <<>> /\ ts[1].pattern = l.pattern
      /\ ts[1].kind \in {"knob", "undefine"}
      /\ \A j \in 2 .. Len(ts) : ts[j].kind = "file"
  BY DEF Contained
<1>2. ts \in Seq(Tokens)
  BY <1>1, SaveAssumption
<1>3. ts[1] = FirstOf(l)
  BY DEF FirstOf
<1> HIDE DEF ts
<1>4. Len(ts) \in Nat /\ Len(ts) >= 1 /\ \A j \in 1 .. Len(ts) : ts[j] \in Tokens
  BY <1>1, <1>2
<1>5. ASSUME NEW j \in 1 .. Len(ts) PROVE ts[j].kind \in Knobs
  <2>1. j = 1 \/ j \in 2 .. Len(ts)
    BY <1>4
  <2> QED
    BY <1>1, <2>1 DEF Knobs
<1>6. ASSUME NEW j \in 2 .. Len(ts) PROVE ts[j].pattern = FilesName
  <2>1. ts[j] \in Tokens /\ ts[j].kind = "file"
    BY <1>1, <1>4
  <2> QED
    BY <2>1, SaveAssumption
<1>7. FirstOf(l) \in Tokens /\ FirstOf(l).pattern = l.pattern
  BY <1>1, <1>3, <1>4
<1> QED
  BY <1>1, <1>2, <1>3, <1>4, <1>5, <1>6, <1>7 DEF ts

LEMMA ContainedSays ==
  ASSUME NEW l \in Contained, NEW n, Plain(n)
  PROVE  LET ts == Scan[FALSE][l].tokens
         IN  /\ <<l.pattern, n>> \in Match => Says(ts, n, FirstOf(l))
             /\ <<l.pattern, n>> \notin Match => Silent(ts, n)
<1> DEFINE ts == Scan[FALSE][l].tokens
<1>1. /\ Len(ts) \in Nat /\ Len(ts) >= 1 /\ ts[1] = FirstOf(l) /\ ts[1].pattern = l.pattern
      /\ \A j \in 2 .. Len(ts) : <<ts[j].pattern, n>> \notin Match
  BY ContainedFacts DEF Plain
<1> HIDE DEF ts
<1>2. 1 \in 1 .. Len(ts) /\ \A j \in 1 .. Len(ts) : j = 1 \/ j \in 2 .. Len(ts)
  BY <1>1
<1>3. \A j \in 1 + 1 .. Len(ts) : j \in 2 .. Len(ts)
  BY <1>1
<1>4. <<l.pattern, n>> \in Match => Says(ts, n, FirstOf(l))
  BY <1>1, <1>2, <1>3 DEF Says
<1>5. <<l.pattern, n>> \notin Match => Silent(ts, n)
  BY <1>1, <1>2 DEF Silent
<1> QED
  BY <1>4, <1>5 DEF ts

\* As far as a reading has come in a file of contained lines.
AllKnobs(ts) == \A j \in 1 .. Len(ts) : ts[j].kind \in Knobs
Follows(r, ls, i) ==
  /\ r \in Readings /\ ~r.open /\ AllKnobs(r.tokens)
  /\ IF i = 0 THEN r.tokens = <<>> ELSE r.tokens # <<>> /\ r.tokens[1] = FirstOf(ls[1])
Means(r, ls, i, n) ==
  /\ (\A j \in 1 .. i : <<ls[j].pattern, n>> \notin Match) => Silent(r.tokens, n)
  /\ \A k \in 1 .. i :
       /\ <<ls[k].pattern, n>> \in Match
       /\ \A j \in k + 1 .. i : <<ls[j].pattern, n>> \notin Match
       => Says(r.tokens, n, FirstOf(ls[k]))

LEMMA GrownFollows ==
  ASSUME NEW ls \in Lists, NEW i \in 1 .. Len(ls), ls[i] \in Contained,
         NEW r, Follows(r, ls, i - 1)
  PROVE  Follows(Grown(r, ls[i]), ls, i)
<1> DEFINE ts == Scan[FALSE][ls[i]].tokens
           g == Grown(r, ls[i])
           us == r.tokens
           vs == us \o ts
<1>1. /\ us \in Seq(Tokens) /\ AllKnobs(us) /\ r.open = FALSE /\ r \in Readings
      /\ IF i - 1 = 0 THEN us = <<>> ELSE us # <<>> /\ us[1] = FirstOf(ls[1])
  BY DEF Follows, Readings
<1>2. /\ ls[i] \in KnobSet /\ ~Scan[FALSE][ls[i]].open
      /\ ts \in Seq(Tokens) /\ Len(ts) >= 1 /\ Len(ts) \in Nat
      /\ AllKnobs(ts) /\ ts[1] = FirstOf(ls[i])
  BY ContainedFacts DEF AllKnobs
<1>3. g \in Readings
  BY <1>1, <1>2, GrownFacts
<1>4. g.tokens = vs /\ ~g.open
  BY <1>1, <1>2 DEF Grown
<1> HIDE DEF ts, us, g
<1>5. /\ Len(vs) = Len(us) + Len(ts) /\ Len(us) \in Nat
      /\ \A j \in 1 .. Len(us) : vs[j] = us[j]
      /\ \A j \in 1 .. Len(ts) : vs[Len(us) + j] = ts[j]
  BY <1>1, <1>2
<1> HIDE DEF vs
<1>6. AllKnobs(vs)
  <2> SUFFICES ASSUME NEW j \in 1 .. Len(us) + Len(ts) PROVE vs[j].kind \in Knobs
    BY <1>5 DEF AllKnobs
  <2>1. CASE j \in 1 .. Len(us)
    BY <1>1, <1>5, <2>1 DEF AllKnobs
  <2>2. CASE j - Len(us) \in 1 .. Len(ts)
    <3>1. Len(us) + (j - Len(us)) = j
      BY <1>5
    <3>2. vs[j] = ts[j - Len(us)]
      BY <1>5, <2>2, <3>1
    <3> QED
      BY <1>2, <2>2, <3>2 DEF AllKnobs
  <2> QED
    BY <1>2, <1>5, <2>1, <2>2
<1>7. vs # <<>>
  <2>1. Len(vs) # 0
    BY <1>2, <1>5
  <2> QED
    BY <2>1
<1>8. vs[1] = FirstOf(ls[1])
  <2>0. i \in Nat /\ i >= 1
    BY ListFacts
  <2>1. CASE i = 1
    <3>1. Len(us) = 0
      BY <1>1, <2>1
    <3>2. 1 \in 1 .. Len(ts) /\ Len(us) + 1 = 1
      BY <1>2, <3>1
    <3> QED
      BY <1>2, <1>5, <2>1, <3>2
  <2>2. CASE i # 1
    <3>1. i - 1 # 0
      BY <2>0, <2>2
    <3>2. us # <<>> /\ us[1] = FirstOf(ls[1])
      BY <1>1, <3>1
    <3>3. 1 \in 1 .. Len(us)
      BY <1>1, <3>2
    <3> QED
      BY <1>5, <3>2, <3>3
  <2> QED
    BY <2>1, <2>2
<1>9. i # 0
  BY ListFacts
<1> QED
  BY <1>3, <1>4, <1>6, <1>7, <1>8, <1>9 DEF Follows, g

LEMMA GrownMeans ==
  ASSUME NEW ls \in Lists, NEW i \in 1 .. Len(ls), ls[i] \in Contained,
         NEW n, Plain(n), NEW r \in Readings, ~r.open, Means(r, ls, i - 1, n)
  PROVE  Means(Grown(r, ls[i]), ls, i, n)
<1> DEFINE ts == Scan[FALSE][ls[i]].tokens
           us == r.tokens
           vs == us \o ts
<1>1. us \in Seq(Tokens) /\ r.open = FALSE
  BY DEF Readings
<1>2. ts \in Seq(Tokens)
  BY ContainedFacts
<1>3. /\ <<ls[i].pattern, n>> \in Match => Says(ts, n, FirstOf(ls[i]))
      /\ <<ls[i].pattern, n>> \notin Match => Silent(ts, n)
  BY ContainedSays
<1>4. Grown(r, ls[i]).tokens = vs
  BY <1>1 DEF Grown
<1> HIDE DEF ts
<1>5. /\ Silent(us, n) /\ Silent(ts, n) => Silent(vs, n)
      /\ \A x : Says(us, n, x) /\ Silent(ts, n) => Says(vs, n, x)
      /\ \A x : Says(ts, n, x) => Says(vs, n, x)
  BY <1>1, <1>2, BehindIt
<1>6. /\ (\A j \in 1 .. i - 1 : <<ls[j].pattern, n>> \notin Match) => Silent(us, n)
      /\ \A k \in 1 .. i - 1 :
           /\ <<ls[k].pattern, n>> \in Match
           /\ \A j \in k + 1 .. i - 1 : <<ls[j].pattern, n>> \notin Match
           => Says(us, n, FirstOf(ls[k]))
  BY DEF Means
<1> HIDE DEF us, vs
<1>7. /\ i \in Nat /\ i >= 1 /\ i \in 1 .. i
      /\ \A j \in 1 .. i - 1 : j \in 1 .. i
      /\ \A k \in 1 .. i : k # i => k \in 1 .. i - 1 /\ i \in k + 1 .. i
      /\ \A k \in 1 .. i : \A j \in k + 1 .. i - 1 : j \in k + 1 .. i
  BY ListFacts
<1>8. ASSUME \A j \in 1 .. i : <<ls[j].pattern, n>> \notin Match PROVE Silent(vs, n)
  <2>1. Silent(us, n) /\ Silent(ts, n)
    BY <1>3, <1>6, <1>7, <1>8
  <2> QED
    BY <1>5, <2>1
<1>9. ASSUME NEW k \in 1 .. i, <<ls[k].pattern, n>> \in Match,
             \A j \in k + 1 .. i : <<ls[j].pattern, n>> \notin Match
      PROVE  Says(vs, n, FirstOf(ls[k]))
  <2>1. CASE k = i
    BY <1>3, <1>5, <1>9, <2>1
  <2>2. CASE k # i
    <3>1. k \in 1 .. i - 1 /\ Silent(ts, n)
      BY <1>3, <1>7, <1>9, <2>2
    <3>2. Says(us, n, FirstOf(ls[k]))
      BY <1>6, <1>7, <1>9, <3>1
    <3> QED
      BY <1>5, <3>1, <3>2
  <2> QED
    BY <2>1, <2>2
<1> QED
  BY <1>4, <1>8, <1>9 DEF Means

LEMMA ContainedFile ==
  ASSUME NEW ls \in Lists, \A i \in DOMAIN ls : ls[i] \in Contained
  PROVE  /\ Text(ls).tokens \in Seq(Tokens) /\ ~Text(ls).open /\ AllKnobs(Text(ls).tokens)
         /\ ls # <<>> => Text(ls).tokens # <<>> /\ Text(ls).tokens[1] = FirstOf(ls[1])
         /\ \A n : Plain(n) => Means(Text(ls), ls, Len(ls), n)
<1> DEFINE f == UpTo(ls)
           k == Len(ls)
           S == {i \in 0 .. k : Follows(f[i], ls, i)}
<1>1. /\ k \in Nat /\ k \in 0 .. k /\ DOMAIN ls = 1 .. k /\ (ls # <<>> => k # 0)
      /\ \A i \in 1 .. k : ls[i] \in Contained /\ i \in 0 .. k /\ i - 1 \in 0 .. k
  <2>1. /\ k \in Nat /\ k \in 0 .. k /\ DOMAIN ls = 1 .. k
        /\ \A i \in 1 .. k : i \in 0 .. k /\ i - 1 \in 0 .. k
    BY ListFacts
  <2>2. ls # <<>> => k # 0
    BY DEF Lists
  <2> QED
    BY <2>1, <2>2
<1>2. /\ Text(ls) = f[k] /\ f[0] = Nothing
      /\ \A i \in 1 .. k : f[i] = Grown(f[i - 1], ls[i])
      /\ \A i \in 0 .. k : f[i] \in Readings
  BY UpToFacts
<1> HIDE DEF f
<1>3. Nothing.tokens = <<>> /\ Nothing.open = FALSE
  BY DEF Nothing
<1>4. \A i \in 0 .. k : i \in S
  <2>1. 0 \in S
    <3>1. AllKnobs(<<>>)
      BY DEF AllKnobs
    <3>2. Nothing \in Readings
      BY <1>1, <1>2
    <3>3. Follows(Nothing, ls, 0)
      BY <1>3, <3>1, <3>2 DEF Follows
    <3> QED
      BY <1>1, <1>2, <3>3
  <2>2. ASSUME NEW i \in 1 .. k, i - 1 \in S PROVE i \in S
    <3>1. Follows(Grown(f[i - 1], ls[i]), ls, i)
      BY <1>1, <2>2, GrownFollows
    <3> QED
      BY <1>1, <1>2, <3>1
  <2> HIDE DEF S
  <2> QED
    BY <1>1, <2>1, <2>2, Along
<1>5. ASSUME NEW n, Plain(n) PROVE Means(f[k], ls, k, n)
  <2> DEFINE R == {i \in 0 .. k : Means(f[i], ls, i, n)}
  <2>1. 0 \in R
    <3>1. Silent(<<>>, n)
      BY DEF Silent
    <3>2. Means(Nothing, ls, 0, n)
      BY <1>3, <3>1 DEF Means
    <3> QED
      BY <1>1, <1>2, <3>2
  <2>2. ASSUME NEW i \in 1 .. k, i - 1 \in R PROVE i \in R
    <3>1. Means(f[i - 1], ls, i - 1, n)
      BY <2>2
    <3>2. f[i - 1] \in Readings /\ ~f[i - 1].open
      BY <1>1, <1>4 DEF Follows
    <3>3. Means(Grown(f[i - 1], ls[i]), ls, i, n)
      BY <1>1, <1>5, <3>1, <3>2, GrownMeans
    <3> QED
      BY <1>1, <1>2, <3>3
  <2>3. k \in R
    <3> HIDE DEF R
    <3> QED
      BY <1>1, <2>1, <2>2, Along
  <2> QED
    BY <2>3
<1>6. Follows(f[k], ls, k)
  BY <1>1, <1>4
<1> QED
  BY <1>1, <1>2, <1>5, <1>6 DEF Follows, Readings

\* What the next process reads of a name in a file of contained lines: nothing if the
\* file says nothing, and otherwise what is left of the value of its last line.
LEMMA FileReads ==
  ASSUME NEW ls \in Lists, \A i \in DOMAIN ls : ls[i] \in Contained, NEW n, Plain(n)
  PROVE  /\ Silent(ls, n) => StringIn(Text(ls).tokens, n) = NULL
         /\ \A x : Says(ls, n, x) => StringIn(Text(ls).tokens, n) = FirstOf(x).value
<1> DEFINE ts == Text(ls).tokens
<1>1. /\ ts \in Seq(Tokens)
      /\ (\A j \in 1 .. Len(ls) : <<ls[j].pattern, n>> \notin Match) => Silent(ts, n)
      /\ \A k \in 1 .. Len(ls) :
           /\ <<ls[k].pattern, n>> \in Match
           /\ \A j \in k + 1 .. Len(ls) : <<ls[j].pattern, n>> \notin Match
           => Says(ts, n, FirstOf(ls[k]))
  BY ContainedFile DEF Means
<1> HIDE DEF ts
<1>2. Silent(ls, n) => Silent(ts, n)
  BY <1>1 DEF Silent
<1>3. \A x : Says(ls, n, x) => Says(ts, n, FirstOf(x))
  BY <1>1 DEF Says
<1>4. Silent(ts, n) => StringIn(ts, n) = NULL
  BY <1>1, StringOfList
<1>5. \A x : Says(ts, n, x) => StringIn(ts, n) = x.value
  BY <1>1, StringOfList
<1> QED
  BY <1>2, <1>3, <1>4, <1>5 DEF ts

\* The knobs that stand for pinned numbers: the name's own, and of no other name.
Pins(q, pn) == [i \in DOMAIN q |-> Line(q[i], Decimal[pn[q[i]]])]

LEMMA PinsFacts ==
  ASSUME NEW D \in SUBSET Names, IsFiniteSet(D), NEW pn \in [D -> Numbers], NEW q \in Orders(D)
  PROVE  /\ Pins(q, pn) \in Lists
         /\ NamesArePlain => /\ \A n \in Names \ D : Silent(Pins(q, pn), n)
                             /\ \A n \in D : Says(Pins(q, pn), n, Line(n, Decimal[pn[n]]))
<1> DEFINE c == Cardinality(D)
           pins == Pins(q, pn)
<1>1. c \in Nat /\ q \in [1 .. c -> D] /\ D = {q[i] : i \in 1 .. c}
  BY FS_CardinalityType DEF Orders, Range
<1> HIDE DEF c
<1>2. ASSUME NEW i \in 1 .. c
      PROVE  /\ q[i] \in D /\ pins[i] = Line(q[i], Decimal[pn[q[i]]]) /\ pins[i] \in KnobSet
             /\ pins[i].pattern = q[i]
  <2>1. q[i] \in D /\ q[i] \in Names /\ pn[q[i]] \in Numbers /\ i \in DOMAIN q
    BY <1>1
  <2>2. q[i] \in Patterns /\ Decimal[pn[q[i]]] \in Values
    BY <2>1, SaveAssumption
  <2>3. pins[i] = Line(q[i], Decimal[pn[q[i]]])
    BY <2>1 DEF Pins
  <2> HIDE DEF pins
  <2> QED
    BY <2>1, <2>2, <2>3 DEF Line, KnobSet
<1>3. pins = [i \in 1 .. c |-> pins[i]]
  BY <1>1 DEF Pins
<1> HIDE DEF pins
<1>4. pins \in Lists /\ Len(pins) = c
  <2>1. pins \in [1 .. c -> KnobSet]
    BY <1>2, <1>3
  <2>2. c \in Nat
    BY <1>1
  <2> QED
    BY <2>1, <2>2 DEF Lists
<1>5. ASSUME NamesArePlain, NEW i \in 1 .. c, NEW n \in Names
      PROVE  <<pins[i].pattern, n>> \in Match <=> q[i] = n
  BY <1>2, <1>5 DEF NamesArePlain
<1>6. ASSUME NamesArePlain, NEW n \in Names \ D PROVE Silent(pins, n)
  BY <1>2, <1>4, <1>5, <1>6 DEF Silent
<1>7. ASSUME NamesArePlain, NEW n \in D PROVE Says(pins, n, Line(n, Decimal[pn[n]]))
  <2> DEFINE at == {i \in 1 .. c : q[i] = n}
  <2>1. at \in SUBSET (1 .. c) /\ at # {}
    BY <1>1
  <2>2. Max(at) \in at /\ \A i \in at : i <= Max(at)
    <3> HIDE DEF at
    <3> QED
      BY <1>1, <2>1, MaxOfPositions
  <2>3. PICK k \in 1 .. c : q[k] = n /\ \A i \in 1 .. c : q[i] = n => i <= k
    <3>1. PICK k \in at : \A i \in at : i <= k
      <4> HIDE DEF at
      <4> QED
        BY <2>2
    <3>2. k \in 1 .. c /\ q[k] = n
      BY <3>1
    <3>3. \A i \in 1 .. c : q[i] = n => i <= k
      BY <3>1
    <3> QED
      BY <3>2, <3>3
  <2>4. ASSUME NEW j \in k + 1 .. c PROVE <<pins[j].pattern, n>> \notin Match
    <3>0. c \in Nat /\ k \in Nat /\ 1 <= k
      BY <1>1
    <3>1. j \in 1 .. c /\ ~(j <= k)
      BY <3>0
    <3> QED
      BY <1>5, <1>7, <2>3, <3>1
  <2>5. <<pins[k].pattern, n>> \in Match /\ pins[k] = Line(n, Decimal[pn[n]])
    BY <1>2, <1>5, <1>7, <2>3
  <2> QED
    BY <1>4, <2>4, <2>5 DEF Says
<1> QED
  BY <1>4, <1>6, <1>7 DEF pins

\* The file's lines: the list, and the pinned numbers behind it.
LEMMA LinesFacts ==
  ASSUME SaveTyped, NEW q \in Orders(DOMAIN pinned)
  PROVE  /\ Lines(q) \in Lists
         /\ NamesArePlain =>
              /\ \A n \in DOMAIN pinned : Says(Lines(q), n, Line(n, Decimal[pinned[n]]))
              /\ \A n \in Names \ DOMAIN pinned :
                   /\ Silent(list, n) => Silent(Lines(q), n)
                   /\ \A x : Says(list, n, x) => Says(Lines(q), n, x)
<1> DEFINE pins == Pins(q, pinned)
<1>1. /\ list \in Lists /\ DOMAIN pinned \in SUBSET Names /\ IsFiniteSet(DOMAIN pinned)
      /\ pinned \in [DOMAIN pinned -> Numbers]
  BY DEF SaveTyped
<1>2. /\ pins \in Lists
      /\ NamesArePlain => /\ \A n \in Names \ DOMAIN pinned : Silent(pins, n)
                          /\ \A n \in DOMAIN pinned : Says(pins, n, Line(n, Decimal[pinned[n]]))
  BY <1>1, PinsFacts
<1>3. Lines(q) = list \o pins
  BY DEF Lines, Pins
<1> HIDE DEF pins
<1>4. Lines(q) \in Lists
  BY <1>1, <1>2, <1>3, BehindIt DEF Lists
<1>5. ASSUME NamesArePlain, NEW n \in DOMAIN pinned
      PROVE  Says(Lines(q), n, Line(n, Decimal[pinned[n]]))
  <2> DEFINE x == Line(n, Decimal[pinned[n]])
  <2>1. Says(pins, n, x)
    BY <1>2, <1>5
  <2> HIDE DEF x
  <2>2. Says(list \o pins, n, x)
    BY <1>1, <1>2, <2>1, BehindIt DEF Lists
  <2> QED
    BY <1>3, <2>2 DEF x
<1>6. ASSUME NamesArePlain, NEW n \in Names \ DOMAIN pinned
      PROVE  /\ Silent(list, n) => Silent(Lines(q), n)
             /\ \A x : Says(list, n, x) => Says(Lines(q), n, x)
  <2>1. Silent(pins, n)
    BY <1>2, <1>6
  <2> QED
    BY <1>1, <1>2, <1>3, <2>1, BehindIt DEF Lists
<1> QED
  BY <1>4, <1>5, <1>6

\* What a client reads in a state, in terms of the list.
LEMMA ClientReads ==
  ASSUME NEW n \in Names
  PROVE  /\ String(n) = StringIn(list, n)
         /\ Number(n) = IF n \in DOMAIN pinned THEN {pinned[n]} ELSE NumberIn(list, n)
BY DEF String, StringIn, Matching, Number, Dynamic, NumberIn

LEMMA StringIsValue ==
  ASSUME NEW l \in Lists, NEW n
  PROVE  StringIn(l, n) \in Values
<1>1. CASE Silent(l, n)
  <2>1. StringIn(l, n) = NULL
    BY <1>1, StringOfList DEF Lists
  <2> QED
    BY <2>1, SaveAssumption
<1>2. CASE ~Silent(l, n)
  <2>1. PICK x \in KnobSet : Says(l, n, x)
    BY <1>2, StringOfList DEF Lists
  <2>2. StringIn(l, n) = x.value
    BY <2>1, StringOfList DEF Lists
  <2> QED
    BY <2>2 DEF KnobSet
<1> QED
  BY <1>1, <1>2

\* What is kept of a number is the number.
LEMMA DecimalFacts ==
  ASSUME NamesArePlain, NEW n \in Names, NEW x \in Numbers
  PROVE  /\ Decimal[x] # NULL /\ Eval[Decimal[x]] = {x}
         /\ FirstOf(Line(n, Decimal[x])).value = Decimal[x]
<1>1. Decimal[x] # NULL /\ Eval[Decimal[x]] = {x}
  BY SaveAssumption
<1>2. Line(n, Decimal[x]) \in LeftAlone
  BY DEF NamesArePlain
<1>3. FirstOf(Line(n, Decimal[x])).value = Line(n, Decimal[x]).value
  BY <1>2 DEF LeftAlone, FirstOf
<1> QED
  BY <1>1, <1>3 DEF Line

LEMMA SavedFileKeeps ==
  ASSUME NamesArePlain, SaveTyped, NEW q \in Orders(DOMAIN pinned), Tame(Lines(q)),
         NEW n \in Names, n \in DOMAIN pinned \/ n \in Kept
  PROVE  LET r == Text(Lines(q)).tokens
         IN  /\ NumberIn(r, n) = Number(n)
             /\ n \notin DOMAIN pinned => StringIn(r, n) = String(n)
<1> DEFINE ls == Lines(q)
           r == Text(ls).tokens
<1>1. /\ ls \in Lists
      /\ n \in DOMAIN pinned => Says(ls, n, Line(n, Decimal[pinned[n]]))
      /\ n \notin DOMAIN pinned /\ Silent(list, n) => Silent(ls, n)
      /\ \A x : n \notin DOMAIN pinned /\ Says(list, n, x) => Says(ls, n, x)
  BY LinesFacts
<1>2. \A i \in DOMAIN ls : ls[i] \in Contained
  BY DEF Tame
<1> HIDE DEF ls
<1>3. Plain(n) /\ list \in Seq(KnobSet)
  BY DEF NamesArePlain, Plain, SaveTyped, Lists
<1>4. /\ Silent(ls, n) => StringIn(r, n) = NULL
      /\ \A x : Says(ls, n, x) => StringIn(r, n) = FirstOf(x).value
  BY <1>1, <1>2, <1>3, FileReads
<1> HIDE DEF r
<1>5. CASE n \in DOMAIN pinned
  <2>1. pinned[n] \in Numbers
    BY <1>5 DEF SaveTyped
  <2>2. StringIn(r, n) = FirstOf(Line(n, Decimal[pinned[n]])).value
    BY <1>1, <1>4, <1>5
  <2>3. StringIn(r, n) = Decimal[pinned[n]]
    BY <2>1, <2>2, DecimalFacts
  <2>4. NumberIn(r, n) = {pinned[n]}
    BY <2>1, <2>3, DecimalFacts DEF NumberIn
  <2> QED
    BY <1>5, <2>4 DEF r, ls, Number
<1>6. CASE n \notin DOMAIN pinned
  <2>1. Matching(n) = {i \in DOMAIN list : <<list[i].pattern, n>> \in Match}
    BY DEF Matching
  <2>2. /\ Matching(n) = {} <=> Silent(list, n)
        /\ Matching(n) # {} => Says(list, n, list[Max(Matching(n))])
    BY <1>3, <2>1, StringOfList
  <2>3. StringIn(r, n) = String(n)
    <3>1. CASE Matching(n) = {}
      BY <1>1, <1>4, <1>6, <2>2, <3>1 DEF String
    <3>2. CASE Matching(n) # {}
      <4> DEFINE x == list[Max(Matching(n))]
      <4>1. String(n) = x.value
        BY <3>2 DEF String
      <4>2. Says(list, n, x) /\ x \in LeftAlone
        BY <1>6, <2>2, <3>2 DEF Kept
      <4> HIDE DEF x
      <4>3. FirstOf(x).value = x.value
        BY <4>2 DEF LeftAlone, FirstOf
      <4> QED
        BY <1>1, <1>4, <1>6, <4>1, <4>2, <4>3
    <3> QED
      BY <3>1, <3>2
  <2>4. NumberIn(r, n) = NumberIn(list, n)
    BY <2>3, ClientReads DEF NumberIn
  <2> QED
    BY <1>6, <2>3, <2>4, ClientReads DEF r, ls
<1> QED
  BY <1>5, <1>6

LEMMA InitSave == Init => SaveInv
<1> SUFFICES ASSUME Init PROVE SaveInv
  OBVIOUS
<1>1. list \in Lists
  <2>1. Line(SeedName, Seed) \in KnobSet
    BY SaveAssumption DEF Line, KnobSet
  <2> QED
    BY <2>1 DEF Init, Lists
<1>2. file \in [exists : BOOLEAN, lines : Lists] /\ ~file.exists
  BY DEF Init, Lists
<1>3. DOMAIN pinned = {} /\ pinned \in [DOMAIN pinned -> Numbers] /\ IsFiniteSet(DOMAIN pinned)
  <2>1. DOMAIN pinned = {}
    BY DEF Init
  <2> QED
    BY <2>1, FS_EmptySet DEF Init
<1>4. unread \in Seq(Tokens) /\ argState = "START" /\ seeded = TRUE /\ process = "running"
  BY DEF Init
<1>5. atSave \in [string : [Names -> Values], number : [Names -> SUBSET Numbers],
                  pinned : SUBSET Names, kept : SUBSET Names, saves : Nat]
  BY SaveAssumption DEF Init
<1>6. SaveTyped
  BY <1>1, <1>2, <1>3, <1>4, <1>5 DEF SaveTyped
<1> QED
  BY <1>2, <1>4, <1>6 DEF SaveInv, FileKeeps, Loading, NumbersSurvive, StringsSurvive

\* A step that writes no file, loads nothing and restores nothing.
LEMMA OtherSteps ==
  ASSUME FileKeeps, UNCHANGED <<file, atSave>>, process' = "running"
  PROVE  FileKeeps' /\ Loading' /\ NumbersSurvive' /\ StringsSurvive'
<1>1. FileKeeps'
  BY DEF FileKeeps, Filed
<1> QED
  BY <1>1 DEF Loading, NumbersSurvive, StringsSurvive

\* Types: knobs, tokens and numbers, step by step.
LEMMA AddTyped ==
  ASSUME SaveTyped, NEW l \in Added, Add(l)
  PROVE  SaveTyped'
<1>1. l \in KnobSet /\ list \in Lists
  BY SaveAssumption DEF SaveTyped
<1>2. list' = Append(list, l) /\ UNCHANGED <<pinned, file, atSave, unread, argState, seeded>>
      /\ process' = "running"
  BY DEF Add, loader
<1>3. list' \in Lists
  BY <1>1, <1>2 DEF Lists
<1> QED
  BY <1>2, <1>3 DEF SaveTyped

\* A value written over that of a list's last match.
LEMMA WrittenOver ==
  ASSUME NEW l \in Lists, NEW v \in Values, NEW k \in 1 .. Len(l)
  PROVE  [l EXCEPT ![k].value = v] \in Lists
<1>1. [l[k] EXCEPT !.value = v] \in KnobSet
  BY ListFacts DEF KnobSet
<1>2. [l EXCEPT ![k].value = v] = [l EXCEPT ![k] = [l[k] EXCEPT !.value = v]]
  OBVIOUS
<1> QED
  BY <1>1, <1>2 DEF Lists

LEMMA SetStringTyped ==
  ASSUME SaveTyped, NEW n \in Names, NEW v \in Assigned, SetString(n, v)
  PROVE  SaveTyped'
<1>1. list \in Lists /\ n \in Patterns /\ v \in Values
  BY SaveAssumption DEF SaveTyped
<1>2. list' \in Lists
  <2>1. CASE Matching(n) # {} /\ list' = [list EXCEPT ![Max(Matching(n))].value = v]
    <3>1. Matching(n) \in SUBSET (1 .. Len(list)) /\ Len(list) \in Nat
      BY <1>1, ListFacts DEF Matching
    <3>2. Max(Matching(n)) \in 1 .. Len(list)
      BY <2>1, <3>1, MaxOfPositions
    <3> QED
      BY <1>1, <2>1, <3>2, WrittenOver
  <2>2. CASE list' = Append(list, Line(n, v))
    <3>1. Line(n, v) \in KnobSet
      BY <1>1 DEF Line, KnobSet
    <3> QED
      BY <1>1, <2>2, <3>1 DEF Lists
  <2> QED
    BY <2>1, <2>2 DEF SetString
<1>3. UNCHANGED <<pinned, file, atSave, unread, argState, seeded>> /\ process' = "running"
  BY DEF SetString, loader
<1> QED
  BY <1>2, <1>3 DEF SaveTyped

\* A name evaluates to numbers.
LEMMA AnswersAreNumbers ==
  ASSUME SaveTyped, NEW n \in Names
  PROVE  /\ String(n) \in Values /\ Dynamic(n) \in SUBSET Numbers /\ Number(n) \in SUBSET Numbers
<1>1. String(n) \in Values
  BY StringIsValue, ClientReads DEF SaveTyped
<1>2. Dynamic(n) \in SUBSET Numbers
  BY <1>1, SaveAssumption DEF Dynamic
<1> QED
  BY <1>1, <1>2 DEF Number, SaveTyped

LEMMA GetValueTyped ==
  ASSUME SaveTyped, NEW n \in Names, GetValue(n)
  PROVE  SaveTyped'
<1>1. PICK x \in Dynamic(n) :
        pinned' = [m \in DOMAIN pinned \cup {n} |-> IF m = n THEN x ELSE pinned[m]]
  BY DEF GetValue
<1>2. x \in Numbers
  BY AnswersAreNumbers
<1>3. DOMAIN pinned \in SUBSET Names /\ IsFiniteSet(DOMAIN pinned) /\ pinned \in [DOMAIN pinned -> Numbers]
  BY DEF SaveTyped
<1>4. DOMAIN pinned' = DOMAIN pinned \cup {n}
  BY <1>1
<1>5. DOMAIN pinned' \in SUBSET Names /\ IsFiniteSet(DOMAIN pinned')
  BY <1>3, <1>4, FS_AddElement
<1>6. pinned' \in [DOMAIN pinned' -> Numbers]
  BY <1>1, <1>2, <1>3, <1>4
<1>7. UNCHANGED <<list, file, atSave, unread, argState, seeded>> /\ process' = "running"
  BY DEF GetValue, loader
<1> QED
  BY <1>5, <1>6, <1>7 DEF SaveTyped

LEMMA SaveStepTyped ==
  ASSUME SaveTyped, Save
  PROVE  SaveTyped'
<1>1. PICK q \in Orders(DOMAIN pinned) : file' = [exists |-> TRUE, lines |-> Lines(q)]
  BY DEF Save
<1>2. UNCHANGED <<list, pinned, process, unread, argState, seeded>> /\ atSave' = View
  BY DEF Save, loader
<1>3. file' \in [exists : BOOLEAN, lines : Lists]
  BY <1>1, LinesFacts
<1>4. atSave' \in [string : [Names -> Values], number : [Names -> SUBSET Numbers],
                   pinned : SUBSET Names, kept : SUBSET Names, saves : Nat]
  <2>1. /\ [n \in Names |-> String(n)] \in [Names -> Values]
        /\ [n \in Names |-> Number(n)] \in [Names -> SUBSET Numbers]
    BY AnswersAreNumbers
  <2>2. DOMAIN pinned \in SUBSET Names /\ atSave.saves + 1 \in Nat /\ Kept \in SUBSET Names
    BY DEF SaveTyped, Kept
  <2> QED
    BY <1>2, <2>1, <2>2 DEF View
<1> QED
  BY <1>2, <1>3, <1>4 DEF SaveTyped

LEMMA RestartTyped ==
  ASSUME SaveTyped, Restart
  PROVE  SaveTyped'
<1>1. /\ pinned' = <<>> /\ list' = <<>> /\ seeded' = FALSE /\ argState' = "START"
      /\ UNCHANGED <<file, atSave>> /\ process' \in {"running", "loading"}
      /\ unread' = <<>> \/ unread' = Text(file.lines).tokens
  BY DEF Restart
<1>2. list' \in Lists /\ unread' \in Seq(Tokens)
  <2>1. file.lines \in Lists
    BY DEF SaveTyped
  <2>2. Text(file.lines).tokens \in Seq(Tokens)
    BY <2>1, TextIsTyped
  <2>3. <<>> \in Lists /\ <<>> \in Seq(Tokens)
    BY DEF Lists
  <2> QED
    BY <1>1, <2>2, <2>3
<1>3. DOMAIN pinned' = {} /\ pinned' \in [DOMAIN pinned' -> Numbers]
  BY <1>1
<1>4. DOMAIN pinned' \in SUBSET Names /\ IsFiniteSet(DOMAIN pinned')
  BY <1>3, FS_EmptySet
<1> QED
  BY <1>1, <1>2, <1>3, <1>4 DEF SaveTyped

\* The list after a token that adds knobs.
LEMMA GivenTyped ==
  ASSUME SaveTyped, NEW t \in Tokens
  PROVE  Listed(t) \in Lists /\ Given(t) \in Lists
<1>1. /\ list \in Lists /\ t.pattern \in Patterns /\ t.value \in Values \ {NULL}
      /\ t.text \in Values
  BY SaveAssumption DEF SaveTyped, Token
<1>2. Sown[t.value] \in Values
  BY <1>1, SaveAssumption
<1>3. /\ Line(t.pattern, t.value) \in KnobSet /\ Line(SeedName, Sown[t.value]) \in KnobSet
      /\ Line(DefinesName, t.text) \in KnobSet /\ Line(UndefinesName, t.text) \in KnobSet
  BY <1>1, <1>2, SaveAssumption DEF Line, KnobSet
<1>4. Listed(t) \in Lists /\ Len(list) <= Len(Listed(t)) /\ Len(list) \in Nat
  BY <1>1, <1>3 DEF Listed, Lists
<1>5. SeedKnobs # {} => Max(SeedKnobs) \in 1 .. Len(Listed(t))
  <2>1. SeedKnobs \in SUBSET (1 .. Len(list))
    BY <1>1, ListFacts DEF SeedKnobs
  <2>2. SeedKnobs # {} => Max(SeedKnobs) \in 1 .. Len(list)
    BY <1>4, <2>1, MaxOfPositions
  <2>3. \A i \in 1 .. Len(list) : i \in 1 .. Len(Listed(t))
    BY <1>4, ListFacts
  <2> QED
    BY <2>2, <2>3
<1> DEFINE ls == Listed(t)
           v == Sown[t.value]
<1> HIDE DEF ls, v
<1>6. SeedKnobs # {} => [ls EXCEPT ![Max(SeedKnobs)].value = v] \in Lists
  BY <1>2, <1>4, <1>5, WrittenOver DEF ls, v
<1>7. /\ Append(ls, Line(SeedName, v)) \in Lists
      /\ Append(ls, Line(t.pattern, t.value)) \in Lists
  BY <1>3, <1>4 DEF Lists, ls, v
<1>8. Given(t) \in Lists
  <2>1. Given(t) =
          CASE Sows(t) /\ SeedKnobs # {} -> [ls EXCEPT ![Max(SeedKnobs)].value = v]
            [] Sows(t) /\ SeedKnobs = {} -> Append(ls, Line(SeedName, v))
            [] t.pattern = SeedName /\ ~Sows(t) -> ls
            [] OTHER -> Append(ls, Line(t.pattern, t.value))
    BY Zenon DEF Given, ls, v
  <2>2. ls \in Lists
    BY <1>4 DEF ls
  <2> QED
    BY <1>6, <1>7, <2>1, <2>2
<1> QED
  BY <1>4, <1>8

LEMMA DueFacts ==
  ASSUME SaveTyped, unread # <<>>
  PROVE  Due \in Tokens /\ Tail(unread) \in Seq(Tokens)
BY DEF SaveTyped, Due

\* A step of the loader.
LEMMA LoaderTyped ==
  ASSUME SaveTyped, AddKnob \/ Await \/ Ignore \/ Include \/ Refuse \/ Loaded
  PROVE  SaveTyped'
<1>1. UNCHANGED <<pinned, file, atSave>>
  BY DEF AddKnob, Await, Ignore, Include, Refuse, Loaded, Take
<1>2. list \in Lists /\ unread \in Seq(Tokens) /\ process \in {"running", "loading", "restored"}
      /\ argState \in {"START", "DASHF", "IGNORE"} /\ seeded \in BOOLEAN
  BY DEF SaveTyped
<1>3. /\ list' \in Lists /\ unread' \in Seq(Tokens) /\ process' \in {"running", "loading", "restored"}
      /\ argState' \in {"START", "DASHF", "IGNORE"} /\ seeded' \in BOOLEAN
  <2>1. CASE AddKnob
    <3>1. /\ unread # <<>> /\ list' = Given(Due) /\ seeded' = (seeded \/ Sows(Due))
          /\ unread' = Tail(unread) /\ UNCHANGED <<process, argState>>
      BY <2>1 DEF AddKnob, Take
    <3>2. list' \in Lists /\ unread' \in Seq(Tokens)
      BY <3>1, DueFacts, GivenTyped
    <3>3. seeded' \in BOOLEAN
      BY <3>1
    <3> QED
      BY <1>2, <3>1, <3>2, <3>3
  <2>2. CASE Await
    <3>1. /\ unread # <<>> /\ argState' \in {"DASHF", "IGNORE"} /\ unread' = Tail(unread)
          /\ UNCHANGED <<list, process, seeded>>
      BY <2>2 DEF Await, Take
    <3> QED
      BY <1>2, <3>1, DueFacts
  <2>3. CASE Ignore
    <3>1. /\ unread # <<>> /\ argState' = "START" /\ unread' = Tail(unread)
          /\ UNCHANGED <<list, process, seeded>>
      BY <2>3 DEF Ignore, Take
    <3> QED
      BY <1>2, <3>1, DueFacts
  <2>4. CASE Include
    <3>1. PICK ts \in Loads[Due] : unread' = ts \o Tail(unread)
      BY <2>4 DEF Include
    <3>2. unread # <<>> /\ argState' = "START" /\ UNCHANGED <<list, process, seeded>>
      BY <2>4 DEF Include, Take
    <3>3. Due \in Tokens /\ Tail(unread) \in Seq(Tokens)
      BY <3>2, DueFacts
    <3>4. ts \in Seq(Tokens)
      BY <3>3, SaveAssumption
    <3>5. unread' \in Seq(Tokens)
      BY <3>1, <3>3, <3>4
    <3> QED
      BY <1>2, <3>2, <3>5
  <2>5. CASE Refuse
    <3>1. /\ unread # <<>> /\ unread' = <<>> /\ process' = "running"
          /\ UNCHANGED <<argState, seeded>>
      BY <2>5 DEF Refuse, Take
    <3>2. list' \in Lists
      <4>1. CASE list' = list
        BY <1>2, <4>1
      <4>2. CASE \E d \in {DefinesName, UndefinesName} : list' = Append(list, Line(d, Due.text))
        <5>1. PICK d \in {DefinesName, UndefinesName} : list' = Append(list, Line(d, Due.text))
          BY <4>2
        <5>2. Due \in Tokens
          BY <3>1, DueFacts
        <5>3. Line(d, Due.text) \in KnobSet
          BY <5>2, SaveAssumption DEF Line, KnobSet, Token
        <5> QED
          BY <1>2, <5>1, <5>3 DEF Lists
      <4> QED
        BY <2>5, <4>1, <4>2 DEF Refuse
    <3> QED
      BY <1>2, <3>1, <3>2
  <2>6. CASE Loaded
    BY <1>2, <2>6 DEF Loaded
  <2> QED
    BY <2>1, <2>2, <2>3, <2>4, <2>5, <2>6
<1> QED
  BY <1>1, <1>3 DEF SaveTyped

LEMMA NextTyped == SaveTyped /\ [Next]_vars => SaveTyped'
<1> SUFFICES ASSUME SaveTyped, [Next]_vars PROVE SaveTyped'
  OBVIOUS
<1>1. ASSUME NEW l \in Added, Add(l) PROVE SaveTyped'
  BY <1>1, AddTyped
<1>2. ASSUME NEW n \in Names, NEW v \in Assigned, SetString(n, v) PROVE SaveTyped'
  BY <1>2, SetStringTyped
<1>3. ASSUME NEW n \in Names, GetValue(n) PROVE SaveTyped'
  BY <1>3, GetValueTyped
<1>4. CASE Save
  BY <1>4, SaveStepTyped
<1>5. CASE Restart
  BY <1>5, RestartTyped
<1>6. CASE AddKnob \/ Await \/ Ignore \/ Include \/ Refuse \/ Loaded
  BY <1>6, LoaderTyped
<1>7. CASE UNCHANGED vars
  BY <1>7 DEF vars, SaveTyped
<1> QED
  BY <1>1, <1>2, <1>3, <1>4, <1>5, <1>6, <1>7 DEF Next

LEMMA SaveStep ==
  ASSUME NamesArePlain, SaveInv, Save
  PROVE  FileKeeps' /\ Loading' /\ NumbersSurvive' /\ StringsSurvive'
<1>1. PICK q \in Orders(DOMAIN pinned) : file' = [exists |-> TRUE, lines |-> Lines(q)]
  BY DEF Save
<1>2. /\ SaveTyped /\ UNCHANGED <<list, pinned, process>> /\ atSave' = View
      /\ process # "loading"
  BY DEF Save, SaveInv, Up
<1>3. /\ atSave'.string = [n \in Names |-> String(n)]
      /\ atSave'.number = [n \in Names |-> Number(n)]
      /\ atSave'.pinned = DOMAIN pinned /\ atSave'.kept = Kept
  BY <1>2 DEF View
<1>4. \A n \in atSave'.kept \cup atSave'.pinned : n \in Names /\ (n \in DOMAIN pinned \/ n \in Kept)
  BY <1>2, <1>3 DEF SaveTyped, Kept
<1>5. FileKeeps'
  <2> SUFFICES ASSUME Tame(Lines(q)), NEW n \in atSave'.kept \cup atSave'.pinned
               PROVE  /\ NumberIn(Text(Lines(q)).tokens, n) = atSave'.number[n]
                      /\ n \notin atSave'.pinned =>
                           StringIn(Text(Lines(q)).tokens, n) = atSave'.string[n]
    BY <1>1 DEF FileKeeps, Filed, NumberIn
  <2>1. /\ NumberIn(Text(Lines(q)).tokens, n) = Number(n)
        /\ n \notin DOMAIN pinned => StringIn(Text(Lines(q)).tokens, n) = String(n)
    BY <1>2, <1>4, SavedFileKeeps
  <2> QED
    BY <1>3, <1>4, <2>1
<1>6. \A n \in Names : Number(n)' = Number(n) /\ String(n)' = String(n)
  BY <1>2 DEF Number, Dynamic, String, Matching
<1>7. NumbersSurvive' /\ StringsSurvive'
  <2>1. \A n \in atSave'.kept \cup atSave'.pinned :
          Number(n)' = atSave'.number[n] /\ String(n)' = atSave'.string[n]
    BY <1>3, <1>4, <1>6
  <2> QED
    BY <2>1 DEF NumbersSurvive, StringsSurvive
<1> QED
  BY <1>2, <1>5, <1>7 DEF Loading

LEMMA RestartStep ==
  ASSUME NamesArePlain, SaveInv, Restart
  PROVE  FileKeeps' /\ Loading' /\ NumbersSurvive' /\ StringsSurvive'
<1>1. /\ file.exists /\ pinned' = <<>> /\ list' = <<>> /\ argState' = "START"
      /\ UNCHANGED <<file, atSave>>
      /\ \/ process' = "running"
         \/ process' = "loading" /\ unread' = Text(file.lines).tokens
  BY DEF Restart
<1>2. FileKeeps'
  BY <1>1 DEF SaveInv, FileKeeps, Filed
<1>3. Loading'
  <2> SUFFICES ASSUME process' = "loading", Tame(file.lines)
               PROVE  /\ argState' = "START" /\ DOMAIN pinned' = {} /\ SeedFirst'
                      /\ \A i \in 1 .. Len(unread') : unread'[i].kind \in Knobs
                      /\ \A n \in Names : Ahead(n)' = Filed(n)
    BY <1>1 DEF Loading, Filed
  <2> DEFINE ts == Text(file.lines).tokens
             ls == file.lines
  <2>1. /\ ls \in Lists /\ \A i \in DOMAIN ls : ls[i] \in Contained
        /\ ls # <<>> /\ ls[1].pattern = SeedName /\ Sown[FirstOf(ls[1]).value] # NULL
        /\ 1 \in DOMAIN ls
    <3>1. ls \in Lists /\ ls # <<>>
      BY DEF SaveInv, SaveTyped, Tame
    <3>2. 1 \in DOMAIN ls
      <4> HIDE DEF ls
      <4> QED
        BY <3>1 DEF Lists
    <3> QED
      BY <3>1, <3>2 DEF Tame, FirstOf
  <2>2. ts \in Seq(Tokens) /\ AllKnobs(ts) /\ ts # <<>> /\ ts[1] = FirstOf(ls[1])
    BY <2>1, ContainedFile
  <2>3. FirstOf(ls[1]).pattern = SeedName
    BY <2>1, ContainedFacts
  <2>4. unread' = ts /\ list' = <<>>
    BY <1>1
  <2>5. \A n \in Names : Filed(n) = StringIn(ts, n)
    BY DEF Filed
  <2> HIDE DEF ts, ls
  <2>6. Head(ts) = ts[1]
    BY <2>2
  <2>7. SeedFirst'
    BY <2>1, <2>2, <2>3, <2>4, <2>6 DEF SeedFirst, Due
  <2>8. ASSUME NEW n \in Names PROVE Ahead(n)' = Filed(n)
    <3>1. Ahead(n)' = IF Silent(ts, n) THEN StringIn(<<>>, n) ELSE StringIn(ts, n)
      BY <2>4 DEF Ahead
    <3>2. Silent(ts, n) => StringIn(ts, n) = NULL
      BY <2>2, StringOfList
    <3>3. StringIn(<<>>, n) = NULL
      BY DEF StringIn
    <3> QED
      BY <2>5, <3>1, <3>2, <3>3
  <2> QED
    BY <1>1, <2>2, <2>4, <2>7, <2>8 DEF AllKnobs
<1> QED
  BY <1>1, <1>2, <1>3 DEF NumbersSurvive, StringsSurvive

\* A token of a file of contained lines says as a knob what it said as a token.
LEMMA GivenSays ==
  ASSUME NamesArePlain, SaveTyped, SeedFirst, NEW t \in Tokens, unread # <<>>, t = Due,
         NEW n \in Names
  PROVE  StringIn(Given(t), n) = IF <<t.pattern, n>> \in Match THEN t.value ELSE StringIn(list, n)
<1>1. /\ list \in Seq(KnobSet) /\ Listed(t) \in Seq(KnobSet)
      /\ t.pattern \in Patterns /\ t.value \in Values /\ t.text \in Values /\ t.value # NULL
  BY GivenTyped, SaveAssumption DEF SaveTyped, Lists, Token
<1>2. /\ <<SeedName, n>> \notin Match /\ <<DefinesName, n>> \notin Match
      /\ <<UndefinesName, n>> \notin Match
  BY DEF NamesArePlain
<1>3. Sown[t.value] \in Values
  BY <1>1, SaveAssumption
<1>4. /\ Line(t.pattern, t.value) \in KnobSet /\ Line(SeedName, Sown[t.value]) \in KnobSet
      /\ Line(DefinesName, t.text) \in KnobSet /\ Line(UndefinesName, t.text) \in KnobSet
  BY <1>1, <1>3, SaveAssumption DEF Line, KnobSet
<1>5. \A x, v : Line(x, v).pattern = x /\ Line(x, v).value = v
  BY DEF Line
<1>6. StringIn(Listed(t), n) = StringIn(list, n)
  <2>1. /\ StringIn(Append(list, Line(DefinesName, t.text)), n) = StringIn(list, n)
        /\ StringIn(Append(list, Line(UndefinesName, t.text)), n) = StringIn(list, n)
    BY <1>1, <1>2, <1>4, <1>5, OneMore
  <2> QED
    BY <2>1 DEF Listed
<1>7. CASE t.pattern = SeedName /\ ~Sows(t)
  <2>1. Given(t) = Listed(t)
    BY <1>7 DEF Given
  <2> QED
    BY <1>2, <1>6, <1>7, <2>1
<1>8. CASE Sows(t)
  <2>1. SeedKnobs = {} /\ t.pattern = SeedName
    BY <1>8 DEF Sows, SeedFirst, SeedKnobs
  <2>2. Given(t) = Append(Listed(t), Line(SeedName, Sown[t.value]))
    BY <1>8, <2>1 DEF Given
  <2>3. StringIn(Given(t), n) = StringIn(Listed(t), n)
    BY <1>1, <1>2, <1>4, <1>5, <2>2, OneMore
  <2> QED
    BY <1>2, <1>6, <2>1, <2>3
<1>9. CASE t.pattern # SeedName
  <2>1. ~Sows(t)
    BY <1>9 DEF Sows
  <2>2. Given(t) = Append(Listed(t), Line(t.pattern, t.value))
    BY <1>9, <2>1 DEF Given
  <2>3. StringIn(Given(t), n) = IF <<t.pattern, n>> \in Match THEN t.value ELSE StringIn(Listed(t), n)
    BY <1>1, <1>4, <1>5, <2>2, OneMore
  <2> QED
    BY <1>6, <2>3
<1> QED
  BY <1>7, <1>8, <1>9

LEMMA AddKnobStep ==
  ASSUME NamesArePlain, SaveInv, AddKnob
  PROVE  FileKeeps' /\ Loading' /\ NumbersSurvive' /\ StringsSurvive'
<1>1. /\ process = "loading" /\ process' = "loading" /\ unread # <<>> /\ argState' = argState
      /\ list' = Given(Due) /\ seeded' = (seeded \/ Sows(Due)) /\ unread' = Tail(unread)
      /\ UNCHANGED <<pinned, file, atSave>>
  BY DEF AddKnob, Take
<1>2. FileKeeps'
  BY <1>1 DEF SaveInv, FileKeeps, Filed
<1>3. Loading'
  <2>0. file.exists /\ file' = file /\ SaveTyped
    BY <1>1 DEF SaveInv, Loading
  <2> SUFFICES ASSUME Tame(file.lines)
               PROVE  /\ argState' = "START" /\ DOMAIN pinned' = {} /\ SeedFirst'
                      /\ \A i \in 1 .. Len(unread') : unread'[i].kind \in Knobs
                      /\ \A n \in Names : Ahead(n)' = Filed(n)
    BY <1>1, <2>0 DEF Loading, Filed
  <2>1. /\ argState = "START" /\ DOMAIN pinned = {} /\ SeedFirst
        /\ \A i \in 1 .. Len(unread) : unread[i].kind \in Knobs
        /\ \A n \in Names : Ahead(n) = Filed(n)
    BY <1>1 DEF SaveInv, Loading
  <2>2. unread \in Seq(Tokens) /\ Due \in Tokens /\ Due = Head(unread)
    BY <1>1, <2>0, DueFacts DEF SaveTyped, Due
  <2>3. SeedFirst'
    BY <1>1, <2>1 DEF SeedFirst, Sows
  <2>4. \A i \in 1 .. Len(unread') : unread'[i].kind \in Knobs
    <3> DEFINE k == Tail(unread)
    <3>1. /\ Len(k) = Len(unread) - 1 /\ Len(unread) \in Nat \ {0}
          /\ \A i \in 1 .. Len(k) : k[i] = unread[i + 1]
      BY <1>1, <2>2
    <3>2. unread' = k
      BY <1>1
    <3> HIDE DEF k
    <3>3. \A i \in 1 .. Len(k) : i + 1 \in 1 .. Len(unread)
      BY <3>1
    <3> QED
      BY <2>1, <3>1, <3>2, <3>3
  <2>5. ASSUME NEW n \in Names PROVE Ahead(n)' = Ahead(n)
    <3> DEFINE k == Tail(unread)
    <3>1. StringIn(Given(Due), n)
          = IF <<Due.pattern, n>> \in Match THEN Due.value ELSE StringIn(list, n)
      BY <1>1, <2>0, <2>1, <2>2, GivenSays
    <3>2. /\ Silent(unread, n) <=> <<Due.pattern, n>> \notin Match /\ Silent(k, n)
          /\ Silent(k, n) /\ <<Due.pattern, n>> \in Match => StringIn(unread, n) = Due.value
          /\ ~Silent(k, n) => StringIn(unread, n) = StringIn(k, n)
      BY <1>1, <2>2, OneLess
    <3>3. Ahead(n)' = IF Silent(k, n) THEN StringIn(Given(Due), n) ELSE StringIn(k, n)
      BY <1>1 DEF Ahead
    <3> HIDE DEF k
    <3> QED
      BY <3>1, <3>2, <3>3 DEF Ahead
  <2> QED
    BY <1>1, <2>1, <2>3, <2>4, <2>5
<1> QED
  BY <1>1, <1>2, <1>3 DEF NumbersSurvive, StringsSurvive

LEMMA LoadedStep ==
  ASSUME SaveInv, Loaded
  PROVE  FileKeeps' /\ Loading' /\ NumbersSurvive' /\ StringsSurvive'
<1>1. /\ process = "loading" /\ unread = <<>> /\ UNCHANGED <<list, pinned, file, atSave>>
      /\ process' \in {"restored", "running"}
  BY DEF Loaded
<1>2. FileKeeps'
  BY <1>1 DEF SaveInv, FileKeeps, Filed
<1>3. ASSUME Tame(file.lines), NEW n \in atSave.kept \cup atSave.pinned
      PROVE  /\ Number(n)' = atSave.number[n]
             /\ n \notin atSave.pinned => String(n)' = atSave.string[n]
  <2>1. n \in Names /\ file.exists /\ DOMAIN pinned = {} /\ Ahead(n) = Filed(n)
    BY <1>1, <1>3 DEF SaveInv, SaveTyped, Loading
  <2>2. Silent(unread, n)
    BY <1>1 DEF Silent
  <2>3. StringIn(list, n) = Filed(n)
    BY <2>1, <2>2 DEF Ahead
  <2>4. /\ (IF Filed(n) = NULL THEN {Default} ELSE Eval[Filed(n)]) = atSave.number[n]
        /\ n \notin atSave.pinned => Filed(n) = atSave.string[n]
    BY <1>3, <2>1 DEF SaveInv, FileKeeps
  <2>5. String(n) = StringIn(list, n) /\ Number(n) = NumberIn(list, n)
    BY <2>1, ClientReads
  <2>6. String(n)' = String(n) /\ Number(n)' = Number(n)
    BY <1>1 DEF Number, Dynamic, String, Matching
  <2> QED
    BY <2>3, <2>4, <2>5, <2>6 DEF NumberIn
<1> QED
  BY <1>1, <1>2, <1>3 DEF Loading, NumbersSurvive, StringsSurvive

\* What a file of contained lines cannot come to: the loader has only knobs before it.
LEMMA NotKnobs ==
  ASSUME SaveInv, Await \/ Ignore \/ Include \/ Refuse
  PROVE  FileKeeps' /\ Loading' /\ NumbersSurvive' /\ StringsSurvive'
<1>1. /\ process = "loading" /\ unread # <<>> /\ UNCHANGED <<pinned, file, atSave>>
      /\ process' \in {"loading", "running"}
      /\ \/ argState # "START"
         \/ Due.kind \notin Knobs
  BY DEF Await, Ignore, Include, Refuse, Take, Knobs
<1>2. FileKeeps'
  BY <1>1 DEF SaveInv, FileKeeps, Filed
<1>3. file.exists /\ (Tame(file.lines) =>
        argState = "START" /\ \A i \in 1 .. Len(unread) : unread[i].kind \in Knobs)
  BY <1>1 DEF SaveInv, Loading
<1>4. Due = unread[1] /\ 1 \in 1 .. Len(unread)
  BY <1>1 DEF SaveInv, SaveTyped, Due
<1>5. ~Tame(file.lines)
  BY <1>1, <1>3, <1>4
<1>6. Loading'
  BY <1>1, <1>3, <1>5 DEF Loading
<1> QED
  BY <1>1, <1>2, <1>6 DEF NumbersSurvive, StringsSurvive

LEMMA Stutter ==
  ASSUME SaveInv, UNCHANGED vars
  PROVE  FileKeeps' /\ Loading' /\ NumbersSurvive' /\ StringsSurvive'
<1>1. UNCHANGED <<list, pinned, file, process, unread, argState, seeded, atSave>>
  BY DEF vars
<1>2. FileKeeps' /\ Loading'
  BY <1>1 DEF SaveInv, FileKeeps, Filed, Loading, Ahead, SeedFirst, Due
<1>3. atSave.kept \cup atSave.pinned \subseteq Names
  BY DEF SaveInv, SaveTyped
<1>4. \A n \in Names : Number(n)' = Number(n) /\ String(n)' = String(n)
  BY <1>1 DEF Number, Dynamic, String, Matching
<1> QED
  BY <1>1, <1>2, <1>3, <1>4 DEF SaveInv, NumbersSurvive, StringsSurvive

LEMMA NextSave == NamesArePlain /\ SaveInv /\ [Next]_vars => SaveInv'
<1> SUFFICES ASSUME NamesArePlain, SaveInv, [Next]_vars PROVE SaveInv'
  OBVIOUS
<1> DEFINE Rest == FileKeeps /\ Loading /\ NumbersSurvive /\ StringsSurvive
<1>1. SaveTyped'
  BY NextTyped DEF SaveInv
<1>2. FileKeeps
  BY DEF SaveInv
<1>3. ASSUME NEW l \in Added, Add(l) PROVE Rest'
  BY <1>2, <1>3, OtherSteps DEF Add
<1>4. ASSUME NEW n \in Names, NEW v \in Assigned, SetString(n, v) PROVE Rest'
  BY <1>2, <1>4, OtherSteps DEF SetString
<1>5. ASSUME NEW n \in Names, GetValue(n) PROVE Rest'
  BY <1>2, <1>5, OtherSteps DEF GetValue
<1>6. ASSUME Save PROVE Rest'
  BY <1>6, SaveStep
<1>7. ASSUME Restart PROVE Rest'
  BY <1>7, RestartStep
<1>8. ASSUME AddKnob PROVE Rest'
  BY <1>8, AddKnobStep
<1>9. ASSUME Await \/ Ignore \/ Include \/ Refuse PROVE Rest'
  BY <1>9, NotKnobs
<1>10. ASSUME Loaded PROVE Rest'
  BY <1>10, LoadedStep
<1>11. ASSUME UNCHANGED vars PROVE Rest'
  BY <1>11, Stutter
<1>12. Rest'
  <2> HIDE DEF Rest
  <2> QED
    BY <1>3, <1>4, <1>5, <1>6, <1>7, <1>8, <1>9, <1>10, <1>11 DEF Next
<1> QED
  BY <1>1, <1>12 DEF SaveInv

\* Every list, file, half-read file and history of what was read keeps its type,
\* whatever the loader makes of the values in it.
THEOREM SaveTypeCorrect == Spec => []SaveTyped
<1>1. Init => SaveTyped
  BY InitSave DEF SaveInv
<1> QED
  BY <1>1, NextTyped, PTL DEF Spec

\* A file whose lines disturb no other gives back what a client could read, under
\* every step of either process and at every token of the loader.
THEOREM SaveInvariance == NamesArePlain => (Spec => []SaveInv)
<1> SUFFICES ASSUME NamesArePlain PROVE Spec => []SaveInv
  OBVIOUS
<1>1. SaveInv /\ [Next]_vars => SaveInv'
  BY NextSave
<1> QED
  BY <1>1, InitSave, PTL DEF Spec

\* What get_value had answered when the file was written is what it answers in any
\* process started from it, and every name left alone may still come to the same
\* numbers: for any knobs and values, as long as no line of the file comes to more
\* than its knob and plain arguments, however often either is done.
THEOREM NumbersAreKept == NamesArePlain => (Spec => []NumbersSurvive)
<1> SUFFICES ASSUME NamesArePlain PROVE Spec => []NumbersSurvive
  OBVIOUS
<1>1. SaveInv => NumbersSurvive
  BY DEF SaveInv
<1> QED
  BY <1>1, SaveInvariance, PTL

\* The strings the loader leaves alone read as they did, where no number stands in
\* front of them, in a file of such lines.
THEOREM StringsAreKept == NamesArePlain => (Spec => []StringsSurvive)
<1> SUFFICES ASSUME NamesArePlain PROVE Spec => []StringsSurvive
  OBVIOUS
<1>1. SaveInv => StringsSurvive
  BY DEF SaveInv
<1> QED
  BY <1>1, SaveInvariance, PTL
-----------------------------------------------------------------------------
(* The comment remover.                                                    *)

Texts == Seq(Chars)

\* Openings at and after each position of a text.
OpeningsFrom(t) ==
  CHOOSE from : from = [i \in 1 .. Len(t) + 2 |->
    IF i > Len(t) THEN {}
    ELSE IF CommentEnd(t, i) = i THEN from[i + 1] ELSE {i} \cup from[CommentEnd(t, i)]]

Inside(s) == s \in {"BLOCK", "STAR", "LINE"}
Within(t, O) == UNION {i .. CommentEnd(t, i) - 1 : i \in O}

\* The text with the comments that begin at O blanked, and what is in B.
Masked(t, O, B) ==
  [i \in DOMAIN t |-> IF i \in Within(t, O) \/ i \in B THEN Blank ELSE t[i]]

\* The machine has found the comments that begin at O, and reads on from b.
At(b, O) ==
  /\ Openings(text) = O \cup OpeningsFrom(text)[b]
  /\ \A i \in O : CommentEnd(text, i) \in i .. b
  /\ lbuffer = Masked(text, O, IF Inside(state) THEN b .. p - 1 ELSE {})
  /\ state = "NORMAL" => p = b
  /\ state = "SLASH" => p = b + 1 /\ text[b] = Slash
  /\ state = "LINE" =>
       /\ Opens(text, b, Slash) /\ p >= b + 2
       /\ \A j \in b .. p - 1 : text[j] # Newline
  /\ state \in {"BLOCK", "STAR"} =>
       /\ Opens(text, b, Star) /\ p >= b + 2
       /\ \A j \in b + 3 .. p - 1 : ~(text[j] = Slash /\ text[j - 1] = Star)
  /\ state = "BLOCK" => ~(p >= b + 3 /\ text[p - 1] = Star)
  /\ state = "STAR" => p >= b + 3 /\ text[p - 1] = Star

ScanTyped ==
  /\ text \in Texts /\ p \in 1 .. Len(text) + 1
  /\ state \in {"NORMAL", "SLASH", "BLOCK", "STAR", "LINE"}
  /\ reply \in {"none", "closed", "open"}

ScanInv ==
  /\ ScanTyped
  /\ \E b \in 1 .. Len(text) + 1, O \in SUBSET (1 .. Len(text)) : At(b, O)
  /\ reply # "none" => p = Len(text) + 1
  /\ reply = "open" => state = "BLOCK"
  /\ reply = "closed" => state # "BLOCK"

\* A text is taken for closed that is not, only if a star is the last of it: the
\* comment remover looks for the state BLOCK alone (sknobs_uncomment).
OnlyAStarHidesIt == reply = "closed" /\ Unclosed(text) => text[Len(text)] = Star

LEMMA CharsDiffer ==
  /\ Slash \in Chars /\ Star \in Chars /\ Newline \in Chars /\ Blank \in Chars
  /\ Slash # Star /\ Slash # Newline /\ Star # Newline
BY DEF Chars, Slash, Star, Newline, Blank

LEMMA TextFacts ==
  ASSUME NEW t \in Texts
  PROVE  Len(t) \in Nat /\ DOMAIN t = 1 .. Len(t) /\ \A i \in 1 .. Len(t) : t[i] \in Chars
BY DEF Texts

\* The least position of a set, if it has any, and no other.
LEMMA FirstFacts ==
  ASSUME NEW t \in Texts, NEW S \in SUBSET (1 .. Len(t))
  PROVE  /\ S = {} => First(t, S) = Len(t) + 1
         /\ S # {} => First(t, S) \in S
         /\ \A j \in S : (\A k \in S : j <= k) => First(t, S) = j
<1>1. Len(t) \in Nat /\ S \in SUBSET Nat
  BY TextFacts
<1>2. ASSUME S # {} PROVE First(t, S) \in S /\ \A k \in S : First(t, S) <= k
  BY <1>1, <1>2, MinOfNaturals DEF First
<1>3. ASSUME NEW j \in S, \A k \in S : j <= k PROVE First(t, S) = j
  <2>1. First(t, S) \in S /\ First(t, S) <= j /\ j <= First(t, S)
    BY <1>2, <1>3
  <2>2. First(t, S) \in Nat /\ j \in Nat
    BY <1>1, <2>1
  <2> QED
    BY <2>1, <2>2
<1> QED
  BY <1>2, <1>3 DEF First

\* The end of a comment, by what the text holds.
LEMMA LineEnds ==
  ASSUME NEW t \in Texts, NEW i \in 1 .. Len(t), Opens(t, i, Slash),
         NEW q \in i .. Len(t) + 1, \A j \in i .. q - 1 : t[j] # Newline,
         q <= Len(t) => t[q] = Newline
  PROVE  CommentEnd(t, i) = q
<1> DEFINE S == {j \in i .. Len(t) : t[j] = Newline}
<1>1. Len(t) \in Nat /\ i \in Nat /\ q \in Nat /\ i <= q /\ q <= Len(t) + 1 /\ 1 <= i
  BY TextFacts
<1>2. CommentEnd(t, i) = First(t, S)
  BY DEF CommentEnd
<1>3. S \in SUBSET (1 .. Len(t)) /\ \A j \in S : q <= j
  <2>1. ASSUME NEW j \in S PROVE j \in 1 .. Len(t) /\ q <= j
    <3>1. j \in i .. Len(t) /\ t[j] = Newline
      OBVIOUS
    <3>2. j \in Nat /\ ~(j <= q - 1) /\ j <= Len(t) /\ i <= j
      BY <1>1, <3>1
    <3> QED
      BY <1>1, <3>2
  <2> QED
    BY <2>1
<1>4. CASE q <= Len(t)
  <2>1. q \in S
    BY <1>1, <1>4
  <2> HIDE DEF S
  <2> QED
    BY <1>2, <1>3, <2>1, FirstFacts
<1>5. CASE q > Len(t)
  <2>1. S = {} /\ q = Len(t) + 1
    BY <1>1, <1>3, <1>5
  <2> HIDE DEF S
  <2> QED
    BY <1>2, <1>3, <2>1, FirstFacts
<1> QED
  BY <1>1, <1>4, <1>5

LEMMA BlockEnds ==
  ASSUME NEW t \in Texts, NEW i \in 1 .. Len(t), Opens(t, i, Star),
         NEW q \in i + 2 .. Len(t) + 1,
         \A j \in i + 3 .. q - 1 : ~(t[j] = Slash /\ t[j - 1] = Star),
         q <= Len(t) => q >= i + 3 /\ t[q] = Slash /\ t[q - 1] = Star
  PROVE  CommentEnd(t, i) = q + 1
<1> DEFINE S == {j \in i + 3 .. Len(t) : t[j] = Slash /\ t[j - 1] = Star}
<1>1. Len(t) \in Nat /\ i \in Nat /\ q \in Nat /\ i + 2 <= q /\ q <= Len(t) + 1 /\ 1 <= i
  BY TextFacts
<1>2. CommentEnd(t, i) = First(t, S) + 1
  BY CharsDiffer DEF CommentEnd, Opens
<1>3. S \in SUBSET (1 .. Len(t)) /\ \A j \in S : q <= j
  <2>1. ASSUME NEW j \in S PROVE j \in 1 .. Len(t) /\ q <= j
    <3>1. j \in i + 3 .. Len(t) /\ t[j] = Slash /\ t[j - 1] = Star
      OBVIOUS
    <3>2. j \in Nat /\ ~(j <= q - 1) /\ j <= Len(t) /\ i <= j
      BY <1>1, <3>1
    <3> QED
      BY <1>1, <3>2
  <2> QED
    BY <2>1
<1>4. CASE q <= Len(t)
  <2>1. q \in S
    BY <1>1, <1>4
  <2> HIDE DEF S
  <2> QED
    BY <1>2, <1>3, <2>1, FirstFacts
<1>5. CASE q > Len(t)
  <2>1. S = {} /\ q = Len(t) + 1
    BY <1>1, <1>3, <1>5
  <2> HIDE DEF S
  <2> QED
    BY <1>2, <1>3, <2>1, FirstFacts
<1> QED
  BY <1>1, <1>4, <1>5

LEMMA NothingEnds ==
  ASSUME NEW t, NEW i, ~Opens(t, i, Slash), ~Opens(t, i, Star)
  PROVE  CommentEnd(t, i) = i
BY DEF CommentEnd

\* A comment ends after it begins.
LEMMA EndsInRange ==
  ASSUME NEW t \in Texts, NEW i \in 1 .. Len(t)
  PROVE  CommentEnd(t, i) \in i .. Len(t) + 2
<1>1. Len(t) \in Nat /\ i \in Nat /\ 1 <= i /\ i <= Len(t)
  BY TextFacts
<1>2. ASSUME NEW S \in SUBSET (i .. Len(t)) PROVE First(t, S) \in i .. Len(t) + 1
  <2>1. S \in SUBSET (1 .. Len(t))
    BY <1>1
  <2>2. S = {} \/ First(t, S) \in S
    BY <2>1, FirstFacts
  <2>3. CASE S = {}
    BY <1>1, <2>1, <2>3, FirstFacts
  <2>4. CASE First(t, S) \in S
    <3>1. First(t, S) \in i .. Len(t)
      BY <2>4
    <3> QED
      BY <1>1, <3>1
  <2> QED
    BY <2>2, <2>3, <2>4
<1>3. CASE Opens(t, i, Slash)
  <2> DEFINE S == {j \in i .. Len(t) : t[j] = Newline}
  <2>1. CommentEnd(t, i) = First(t, S) /\ S \in SUBSET (i .. Len(t))
    BY <1>3 DEF CommentEnd
  <2> HIDE DEF S
  <2> QED
    BY <1>1, <1>2, <2>1
<1>4. CASE ~Opens(t, i, Slash) /\ Opens(t, i, Star)
  <2> DEFINE S == {j \in i + 3 .. Len(t) : t[j] = Slash /\ t[j - 1] = Star}
  <2>1. CommentEnd(t, i) = First(t, S) + 1
    BY <1>4 DEF CommentEnd
  <2>2. S \in SUBSET (i .. Len(t))
    BY <1>1
  <2> HIDE DEF S
  <2>3. First(t, S) \in i .. Len(t) + 1
    BY <1>2, <2>2
  <2> QED
    BY <1>1, <2>1, <2>3
<1>5. CASE ~Opens(t, i, Slash) /\ ~Opens(t, i, Star)
  BY <1>1, <1>5, NothingEnds
<1> QED
  BY <1>3, <1>4, <1>5

\* What the recursion in Openings defines.
LEMMA OpeningsExist ==
  ASSUME NEW t \in Texts
  PROVE  \E f : f = [i \in 1 .. Len(t) + 2 |->
           IF i > Len(t) THEN {}
           ELSE IF CommentEnd(t, i) = i THEN f[i + 1] ELSE {i} \cup f[CommentEnd(t, i)]]
<1> DEFINE n == Len(t) + 2
           e(i) == CommentEnd(t, i)
           Rule(f, i) == IF i > Len(t) THEN {}
                         ELSE IF e(i) = i THEN f[i + 1] ELSE {i} \cup f[e(i)]
           Solves(f, k) == /\ f \in [n - k .. n -> SUBSET Nat]
                           /\ \A i \in n - k .. n : f[i] = Rule(f, i)
           Bad == {k \in Nat : k < n /\ ~\E f : Solves(f, k)}
<1>0. /\ Len(t) \in Nat /\ n \in Nat /\ n = Len(t) + 2
      /\ \A i \in 1 .. Len(t) : e(i) \in i .. n
  BY TextFacts, EndsInRange
<1>1. Bad = {}
  <2> SUFFICES ASSUME Bad # {} PROVE FALSE
    OBVIOUS
  <2>1. PICK k \in Bad : \A x \in Bad : k <= x
    <3>1. Bad \in SUBSET Nat
      OBVIOUS
    <3> HIDE DEF Bad
    <3> QED
      BY <3>1, LeastNatural
  <2> HIDE DEF n
  <2>2. CASE k = 0
    <3> DEFINE f == [i \in n .. n |-> {}]
    <3>1. f \in [n .. n -> SUBSET Nat] /\ f[n] = {} /\ \A i \in n .. n : i = n /\ i > Len(t)
      BY <1>0
    <3> HIDE DEF f, e
    <3>2. n - 0 = n
      BY <1>0
    <3>3. Solves(f, k)
      BY <2>2, <3>1, <3>2
    <3> QED
      BY <2>1, <3>3
  <2>3. CASE k # 0
    <3> HIDE DEF e
    <3>1. /\ k \in Nat /\ k < n /\ k - 1 \in Nat /\ k - 1 < n /\ k - 1 \notin Bad
      <4>1. k \in Nat /\ k < n
        BY <2>1
      <4>2. k - 1 \in Nat /\ k - 1 < n /\ ~(k <= k - 1)
        BY <1>0, <2>3, <4>1
      <4> HIDE DEF Bad
      <4> QED
        BY <2>1, <4>1, <4>2
    <3>2. PICK g : Solves(g, k - 1)
      BY <3>1
    <3> DEFINE m == n - k
               v == IF m > Len(t) THEN {} ELSE IF e(m) = m THEN g[m + 1] ELSE {m} \cup g[e(m)]
               f == [i \in m .. n |-> IF i = m THEN v ELSE g[i]]
    <3>3. /\ m \in 1 .. n /\ m \in m .. n /\ n - (k - 1) = m + 1 /\ m \in Nat
          /\ \A i \in m .. n : i = m \/ i \in m + 1 .. n
          /\ \A i \in m + 1 .. n : i \in m .. n /\ i # m
      BY <1>0, <2>3, <3>1
    <3>4. ASSUME NEW i \in m .. n, ~(i > Len(t))
          PROVE  i + 1 \in m + 1 .. n /\ (e(i) # i => e(i) \in m + 1 .. n)
      <4> HIDE DEF m
      <4>0. n \in Nat /\ m \in Nat /\ 1 <= m
        BY <1>0, <3>3
      <4>1. i \in 1 .. Len(t) /\ i \in Nat /\ m <= i
        BY <1>0, <3>4, <4>0
      <4>2. e(i) \in i .. n
        BY <1>0, <4>1
      <4> QED
        BY <1>0, <3>3, <4>1, <4>2
    <3>g. g \in [m + 1 .. n -> SUBSET Nat] /\ \A i \in m + 1 .. n : g[i] = Rule(g, i)
      BY <3>2, <3>3
    <3>5. v \in SUBSET Nat
      <4> HIDE DEF m
      <4>1. CASE m > Len(t)
        BY <4>1
      <4>2. CASE ~(m > Len(t))
        <5>1. m + 1 \in m + 1 .. n /\ (e(m) # m => e(m) \in m + 1 .. n)
          BY <3>3, <3>4, <4>2
        <5>2. g[m + 1] \in SUBSET Nat /\ (e(m) # m => g[e(m)] \in SUBSET Nat)
          BY <3>g, <5>1
        <5> QED
          BY <3>3, <4>2, <5>2
      <4> QED
        BY <4>1, <4>2
    <3> HIDE DEF v, m
    <3>6. /\ f \in [m .. n -> SUBSET Nat] /\ f[m] = v
          /\ \A i \in m + 1 .. n : f[i] = g[i]
      BY <3>3, <3>5, <3>g
    <3> HIDE DEF f
    <3>7. ASSUME NEW i \in m .. n PROVE Rule(f, i) = Rule(g, i)
      <4>1. CASE i > Len(t)
        BY <4>1
      <4>2. CASE ~(i > Len(t))
        <5>1. i + 1 \in m + 1 .. n /\ (e(i) # i => e(i) \in m + 1 .. n)
          BY <3>4, <4>2
        <5>2. f[i + 1] = g[i + 1] /\ (e(i) # i => f[e(i)] = g[e(i)])
          BY <3>6, <5>1
        <5> QED
          BY <4>2, <5>2
      <4> QED
        BY <4>1, <4>2
    <3>8. ASSUME NEW i \in m .. n PROVE f[i] = Rule(f, i)
      <4>1. CASE i = m
        BY <3>6, <3>7, <4>1 DEF v
      <4>2. CASE i \in m + 1 .. n
        BY <3>6, <3>7, <3>g, <4>2
      <4> QED
        BY <3>3, <4>1, <4>2
    <3>9. Solves(f, k)
      BY <3>6, <3>8 DEF m
    <3> QED
      BY <2>1, <3>9
  <2> QED
    BY <2>2, <2>3
<1>2. \E f : Solves(f, n - 1)
  <2>1. n - 1 \in Nat /\ n - 1 < n
    BY <1>0
  <2> HIDE DEF n
  <2> QED
    BY <1>1, <2>1
<1>3. PICK f : Solves(f, n - 1)
  BY <1>2
<1> HIDE DEF n
<1>4. n - (n - 1) = 1
  BY <1>0
<1>5. f \in [1 .. n -> SUBSET Nat] /\ \A i \in 1 .. n : f[i] = Rule(f, i)
  BY <1>3, <1>4
<1>6. f = [i \in 1 .. n |-> Rule(f, i)]
  BY <1>5
<1> QED
  BY <1>6 DEF n

LEMMA OpeningsFacts ==
  ASSUME NEW t \in Texts
  PROVE  /\ Openings(t) = OpeningsFrom(t)[1]
         /\ \A i \in 1 .. Len(t) + 2 :
              OpeningsFrom(t)[i] =
                IF i > Len(t) THEN {}
                ELSE IF CommentEnd(t, i) = i THEN OpeningsFrom(t)[i + 1]
                ELSE {i} \cup OpeningsFrom(t)[CommentEnd(t, i)]
<1>1. OpeningsFrom(t) = [i \in 1 .. Len(t) + 2 |->
        IF i > Len(t) THEN {}
        ELSE IF CommentEnd(t, i) = i THEN OpeningsFrom(t)[i + 1]
        ELSE {i} \cup OpeningsFrom(t)[CommentEnd(t, i)]]
  BY OpeningsExist, Zenon DEF OpeningsFrom
<1>2. Openings(t) = OpeningsFrom(t)[1]
  BY Zenon DEF Openings, OpeningsFrom
<1> QED
  BY <1>1, <1>2, Zenon

\* A position at which no comment begins, and one at which one does.
LEMMA MoveOn ==
  ASSUME NEW t \in Texts, NEW i \in 1 .. Len(t)
  PROVE  /\ CommentEnd(t, i) = i => OpeningsFrom(t)[i] = OpeningsFrom(t)[i + 1]
         /\ CommentEnd(t, i) # i => OpeningsFrom(t)[i] = {i} \cup OpeningsFrom(t)[CommentEnd(t, i)]
<1>1. i \in 1 .. Len(t) + 2 /\ ~(i > Len(t))
  BY TextFacts
<1> QED
  BY <1>1, OpeningsFacts, Zenon

LEMMA NoneBeyond ==
  ASSUME NEW t \in Texts, NEW b \in {Len(t) + 1, Len(t) + 2}
  PROVE  OpeningsFrom(t)[b] = {}
<1>1. b \in 1 .. Len(t) + 2 /\ b > Len(t)
  BY TextFacts
<1> QED
  BY <1>1, OpeningsFacts, Zenon

\* Blanking is of one position at a time.
LEMMA MaskedFacts ==
  ASSUME NEW t \in Texts, NEW O, NEW B
  PROVE  /\ DOMAIN Masked(t, O, B) = 1 .. Len(t)
         /\ \A i \in 1 .. Len(t) :
              Masked(t, O, B)[i] = IF i \in Within(t, O) \/ i \in B THEN Blank ELSE t[i]
<1>1. DOMAIN t = 1 .. Len(t)
  BY TextFacts
<1> QED
  BY <1>1 DEF Masked

LEMMA BlankMore ==
  ASSUME NEW t \in Texts, NEW O, NEW B, NEW O2, NEW B2, NEW X,
         \A i \in 1 .. Len(t) : (i \in Within(t, O2) \/ i \in B2)
                                 <=> (i \in Within(t, O) \/ i \in B \/ i \in X)
  PROVE  [i \in DOMAIN Masked(t, O, B) |-> IF i \in X THEN Blank ELSE Masked(t, O, B)[i]]
         = Masked(t, O2, B2)
<1> DEFINE m == Masked(t, O, B)
<1>1. /\ DOMAIN t = 1 .. Len(t) /\ DOMAIN m = 1 .. Len(t)
      /\ \A i \in 1 .. Len(t) : m[i] = IF i \in Within(t, O) \/ i \in B THEN Blank ELSE t[i]
  BY TextFacts, MaskedFacts
<1> HIDE DEF m
<1>2. [i \in DOMAIN m |-> IF i \in X THEN Blank ELSE m[i]]
      = [i \in DOMAIN t |-> IF i \in Within(t, O2) \/ i \in B2 THEN Blank ELSE t[i]]
  BY <1>1
<1> QED
  BY <1>2 DEF Masked, m

LEMMA WithinBoth ==
  ASSUME NEW t, NEW O, NEW b
  PROVE  Within(t, O \cup {b}) = Within(t, O) \cup (b .. CommentEnd(t, b) - 1)
BY DEF Within

LEMMA InitScan == ScanInit => ScanInv
<1> SUFFICES ASSUME ScanInit PROVE ScanInv
  OBVIOUS
<1>1. PICK n \in 0 .. MaxLength : text \in [1 .. n -> Chars \ {Blank}]
  BY DEF ScanInit
<1>2. text \in Texts /\ Len(text) = n
  <2>1. n \in Nat /\ text \in [1 .. n -> Chars]
    BY <1>1, CharsAssumption
  <2> QED
    BY <2>1 DEF Texts
<1>3. ScanTyped
  BY <1>2, TextFacts DEF ScanTyped, ScanInit
<1>4. At(1, {})
  <2>1. Within(text, {}) = {} /\ ~Inside(state)
    BY DEF Within, Inside, ScanInit
  <2>2. lbuffer = Masked(text, {}, IF Inside(state) THEN 1 .. p - 1 ELSE {})
    <3>1. text = [i \in DOMAIN text |-> text[i]]
      BY <1>1
    <3> QED
      BY <2>1, <3>1 DEF Masked, ScanInit
  <2>3. Openings(text) = {} \cup OpeningsFrom(text)[1]
    BY <1>2, OpeningsFacts
  <2> QED
    BY <2>2, <2>3 DEF At, ScanInit
<1>5. 1 \in 1 .. Len(text) + 1 /\ {} \in SUBSET (1 .. Len(text))
  BY <1>2, TextFacts
<1> QED
  BY <1>3, <1>4, <1>5 DEF ScanInv, ScanInit


\* The positions blanked in a comment not yet ended.
Begun(b) == IF Inside(state) THEN b .. p - 1 ELSE {}

\* What a character read does, whatever the state.
LEMMA ReadFacts ==
  ASSUME ScanTyped, NEW b \in 1 .. Len(text) + 1, NEW O \in SUBSET (1 .. Len(text)),
         At(b, O), Read
  PROVE  /\ p \in 1 .. Len(text) /\ b <= p /\ Len(text) \in Nat /\ text \in Texts
         /\ text[p] \in Chars /\ lbuffer[p] = text[p]
         /\ text' = text /\ p' = p + 1 /\ reply' = reply
         /\ state' = NextState(state, text[p])
         /\ \A O2, B2 :
              (\A i \in 1 .. Len(text) :
                 (i \in Within(text, O2) \/ i \in B2)
                   <=> (i \in Within(text, O) \/ i \in Begun(b)
                        \/ i \in Blanked(state, text[p])))
              => lbuffer' = Masked(text, O2, B2)
<1>1. text \in Texts /\ Len(text) \in Nat /\ p \in Nat /\ p <= Len(lbuffer)
  BY TextFacts DEF ScanTyped, Read
<1>2. lbuffer = Masked(text, O, Begun(b))
  BY DEF At, Begun
<1>3. DOMAIN lbuffer = 1 .. Len(text)
  BY <1>1, <1>2, MaskedFacts
<1>4. Len(lbuffer) = Len(text)
  BY <1>1, <1>3
<1>5. p \in 1 .. Len(text) /\ b <= p
  <2>1. b <= p
    BY <1>1 DEF At, ScanTyped
  <2> QED
    BY <1>1, <1>4, <2>1 DEF ScanTyped
<1>6. lbuffer[p] = text[p]
  <2>1. p \notin Begun(b)
    BY <1>1, <1>5 DEF Begun
  <2>2. p \notin Within(text, O)
    <3> SUFFICES ASSUME NEW i \in O, p \in i .. CommentEnd(text, i) - 1 PROVE FALSE
      BY DEF Within
    <3>1. CommentEnd(text, i) \in i .. b
      BY DEF At
    <3> QED
      BY <1>1, <1>5, <3>1
  <2> QED
    BY <1>1, <1>2, <1>5, <2>1, <2>2, MaskedFacts
<1>7. ASSUME NEW O2, NEW B2,
             \A i \in 1 .. Len(text) :
                (i \in Within(text, O2) \/ i \in B2)
                  <=> (i \in Within(text, O) \/ i \in Begun(b)
                       \/ i \in Blanked(state, text[p]))
      PROVE  lbuffer' = Masked(text, O2, B2)
  <2> DEFINE B == Begun(b)
             X == Blanked(state, text[p])
  <2>1. lbuffer' = [i \in DOMAIN lbuffer |-> IF i \in X THEN Blank ELSE lbuffer[i]]
    BY <1>6 DEF Read
  <2> HIDE DEF B, X
  <2>2. lbuffer = Masked(text, O, B)
    BY <1>2 DEF B
  <2>3. \A i \in 1 .. Len(text) :
          (i \in Within(text, O2) \/ i \in B2) <=> (i \in Within(text, O) \/ i \in B \/ i \in X)
    BY <1>7 DEF B, X
  <2> QED
    BY <1>1, <2>1, <2>2, <2>3, BlankMore
<1>8. text' = text /\ p' = p + 1 /\ reply' = reply /\ state' = NextState(state, text[p])
  BY <1>6 DEF Read
<1> QED
  BY <1>1, <1>5, <1>6, <1>7, <1>8, TextFacts

LEMMA ReadStep ==
  ASSUME ScanTyped, NEW b \in 1 .. Len(text) + 1, NEW O \in SUBSET (1 .. Len(text)),
         At(b, O), Read
  PROVE  \E b2 \in 1 .. Len(text) + 1, O2 \in SUBSET (1 .. Len(text)) : At(b2, O2)'
<1> DEFINE c == text[p]
           n == Len(text)
<1>1. /\ p \in 1 .. n /\ b <= p /\ n \in Nat /\ text \in Texts /\ c \in Chars
      /\ text' = text /\ p' = p + 1 /\ state' = NextState(state, c)
  BY ReadFacts
<1>n. b \in Nat /\ p \in Nat /\ 1 <= b /\ p <= n
  BY <1>1
<1>m. ASSUME NEW O2, NEW B2,
             \A i \in 1 .. n : (i \in Within(text, O2) \/ i \in B2)
                               <=> (i \in Within(text, O) \/ i \in Begun(b) \/ i \in Blanked(state, c))
      PROVE  lbuffer' = Masked(text, O2, B2)
  BY <1>m, ReadFacts
<1>o. Openings(text) = O \cup OpeningsFrom(text)[b] /\ \A i \in O : CommentEnd(text, i) \in i .. b
  BY DEF At
<1>a. /\ state = "NORMAL" => p = b
      /\ state = "SLASH" => p = b + 1 /\ text[b] = Slash
      /\ state = "LINE" =>
           /\ Opens(text, b, Slash) /\ p >= b + 2
           /\ \A j \in b .. p - 1 : text[j] # Newline
      /\ state \in {"BLOCK", "STAR"} =>
           /\ Opens(text, b, Star) /\ p >= b + 2
           /\ \A j \in b + 3 .. p - 1 : ~(text[j] = Slash /\ text[j - 1] = Star)
      /\ state = "BLOCK" => ~(p >= b + 3 /\ text[p - 1] = Star)
      /\ state = "STAR" => p >= b + 3 /\ text[p - 1] = Star
  BY DEF At
<1> HIDE DEF c, n
\* A slash that may open a comment.
<1>2. CASE state = "NORMAL" /\ c = Slash
  <2>1. state' = "SLASH" /\ p = b
    BY <1>1, <1>n, <1>2, <1>a DEF NextState
  <2>2. lbuffer' = Masked(text, O, {})
    BY <1>m, <1>2 DEF Begun, Inside, Blanked
  <2>3. At(b, O)'
    BY <1>1, <1>n, <1>2, <1>o, <2>1, <2>2 DEF At, Inside, c
  <2> QED
    BY <2>3
\* A character that opens none, after none that might.
<1>3. CASE state = "NORMAL" /\ c # Slash
  <2>1. state' = "NORMAL" /\ p = b
    BY <1>1, <1>n, <1>3, <1>a DEF NextState
  <2>2. lbuffer' = Masked(text, O, {})
    BY <1>m, <1>3 DEF Begun, Inside, Blanked
  <2>3. CommentEnd(text, b) = b
    BY <1>3, <2>1, NothingEnds DEF Opens, c
  <2>4. OpeningsFrom(text)[b] = OpeningsFrom(text)[b + 1]
    <3>1. b \in 1 .. Len(text)
      BY <1>1, <1>n, <2>1 DEF n
    <3> QED
      BY <1>1, <1>n, <2>3, <3>1, MoveOn
  <2>5. \A i \in O : CommentEnd(text, i) \in i .. b + 1
    BY <1>1, <1>n, <1>o
  <2>6. b + 1 \in 1 .. n + 1
    BY <1>1, <1>n, <2>1
  <2>7. At(b + 1, O)'
    BY <1>1, <1>n, <1>o, <2>1, <2>2, <2>4, <2>5 DEF At, Inside
  <2> QED
    BY <2>6, <2>7 DEF n
\* A slash, and after it a character that opens none with it.
<1>4. CASE state = "SLASH" /\ c \notin {Star, Slash}
  <2>0. PICK q \in Nat : q = p + 1
    BY <1>n
  <2>1. state' = "NORMAL" /\ p = b + 1 /\ text[b] = Slash
    BY <1>1, <1>n, <1>4, <1>a DEF NextState
  <2>2. lbuffer' = Masked(text, O, {})
    BY <1>m, <1>4 DEF Begun, Inside, Blanked
  <2>3. CommentEnd(text, b) = b /\ CommentEnd(text, p) = p
    BY <1>4, <2>1, NothingEnds DEF Opens, c
  <2>4. /\ OpeningsFrom(text)[b] = OpeningsFrom(text)[b + 1]
        /\ OpeningsFrom(text)[p] = OpeningsFrom(text)[p + 1]
    <3>1. b \in 1 .. Len(text) /\ p \in 1 .. Len(text)
      BY <1>1, <1>n, <2>1 DEF n
    <3> QED
      BY <1>1, <1>n, <2>3, <3>1, MoveOn
  <2>5. \A i \in O : CommentEnd(text, i) \in i .. p + 1
    BY <1>1, <1>n, <1>o, <2>1
  <2>6. q \in 1 .. n + 1
    BY <1>1, <2>0, <1>n
  <2>7. At(q, O)'
    BY <1>1, <1>n, <1>o, <2>0, <2>1, <2>2, <2>4, <2>5 DEF At, Inside
  <2> QED
    BY <2>6, <2>7 DEF n
\* The second character of two that open a comment.
<1>5. CASE state = "SLASH" /\ c \in {Star, Slash}
  <2>1. p = b + 1 /\ text[b] = Slash /\ b < n /\ p' - 1 = p /\ p' >= b + 2
    BY <1>1, <1>n, <1>5, <1>a
  <2>2. state' = IF c = Star THEN "BLOCK" ELSE "LINE"
    BY <1>1, <1>n, <1>5, CharsDiffer DEF NextState
  <2>3. lbuffer' = Masked(text, O, b .. p' - 1)
    <3>1. Begun(b) = {} /\ Blanked(state, c) = {b, p}
      BY <1>1, <1>n, <1>5, <2>1 DEF Begun, Inside, Blanked
    <3>2. \A i \in 1 .. n : i \in b .. p' - 1 <=> i \in {b, p}
      BY <1>1, <1>n, <2>1
    <3> QED
      BY <1>m, <3>1, <3>2
  <2>4. Opens(text, b, c)
    BY <2>1 DEF Opens, c, n
  <2>5. CASE c = Star
    <3>1. /\ \A j \in b + 3 .. p' - 1 : FALSE
          /\ ~(p' >= b + 3)
      BY <1>1, <1>n, <2>1
    <3>2. At(b, O)'
      BY <1>1, <1>n, <1>o, <2>1, <2>2, <2>3, <2>4, <2>5, <3>1 DEF At, Inside
    <3> QED
      BY <3>2
  <2>6. CASE c = Slash
    <3>1. \A j \in b .. p' - 1 : text[j] # Newline
      <4>1. \A j \in b .. p' - 1 : j = b \/ j = p
        BY <1>1, <1>n, <2>1
      <4> QED
        BY <2>1, <2>6, <4>1, CharsDiffer DEF c
    <3>2. state' = "LINE"
      BY <2>2, <2>6, CharsDiffer
    <3>3. At(b, O)'
      BY <1>1, <1>n, <1>o, <2>1, <2>3, <2>4, <2>6, <3>1, <3>2 DEF At, Inside
    <3> QED
      BY <3>3
  <2> QED
    BY <1>5, <2>5, <2>6
\* The newline after a line comment.
<1>6. CASE state = "LINE" /\ c = Newline
  <2>0. PICK q \in Nat : q = p + 1
    BY <1>n
  <2>1. /\ state' = "NORMAL" /\ Opens(text, b, Slash) /\ p >= b + 2
        /\ \A j \in b .. p - 1 : text[j] # Newline
    BY <1>1, <1>n, <1>6, <1>a DEF NextState
  <2>2. CommentEnd(text, b) = p
    <3>1. b \in 1 .. Len(text) /\ p \in b .. Len(text) + 1 /\ text[p] = Newline
      BY <1>1, <1>n, <1>6 DEF c, n
    <3> QED
      BY <1>1, <1>n, <2>1, <3>1, LineEnds
  <2>3. CommentEnd(text, p) = p
    BY <1>6, CharsDiffer, NothingEnds DEF Opens, c
  <2>4. Openings(text) = (O \cup {b}) \cup OpeningsFrom(text)[p + 1]
    <3>1. /\ b \in 1 .. Len(text) /\ p # b
          /\ p \in 1 .. Len(text)
      BY <1>1, <1>n, <2>1 DEF n
    <3>2. OpeningsFrom(text)[b] = {b} \cup OpeningsFrom(text)[p]
      BY <1>1, <1>n, <2>2, <3>1, MoveOn
    <3>3. OpeningsFrom(text)[p] = OpeningsFrom(text)[p + 1]
      BY <1>1, <1>n, <2>3, <3>1, MoveOn
    <3> QED
      BY <1>o, <3>2, <3>3
  <2>5. \A i \in O \cup {b} : CommentEnd(text, i) \in i .. p + 1
    <3>1. ASSUME NEW i \in O PROVE CommentEnd(text, i) \in i .. p + 1
      <4>1. CommentEnd(text, i) \in i .. b
        BY <1>o
      <4> QED
        BY <1>1, <1>n, <4>1
    <3>2. p \in b .. p + 1
      BY <1>1, <1>n
    <3> QED
      BY <2>2, <3>1, <3>2
  <2>6. lbuffer' = Masked(text, O \cup {b}, {})
    <3>1. Begun(b) = b .. p - 1 /\ Blanked(state, c) = {}
      BY <1>6 DEF Begun, Inside, Blanked
    <3>2. Within(text, O \cup {b}) = Within(text, O) \cup (b .. p - 1)
      BY <2>2, WithinBoth
    <3> QED
      BY <1>m, <3>1, <3>2
  <2>7. q \in 1 .. n + 1 /\ O \cup {b} \in SUBSET (1 .. n)
    BY <1>1, <2>0, <1>n DEF n
  <2>8. At(q, O \cup {b})'
    BY <1>1, <1>n, <2>0, <2>1, <2>4, <2>5, <2>6 DEF At, Inside
  <2> QED
    BY <1>1, <1>n, <2>7, <2>8 DEF n
\* Another character of a line comment.
<1>7. CASE state = "LINE" /\ c # Newline
  <2>1. /\ state' = "LINE" /\ Opens(text, b, Slash) /\ p >= b + 2 /\ p' >= b + 2
        /\ \A j \in b .. p - 1 : text[j] # Newline
    BY <1>1, <1>n, <1>7, <1>a DEF NextState
  <2>2. \A j \in b .. p' - 1 : text[j] # Newline
    <3>1. \A j \in b .. p' - 1 : j \in b .. p - 1 \/ j = p
      BY <1>1, <1>n
    <3> QED
      BY <1>7, <2>1, <3>1 DEF c
  <2>3. lbuffer' = Masked(text, O, b .. p' - 1)
    <3>1. Begun(b) = b .. p - 1 /\ Blanked(state, c) = {p}
      BY <1>7 DEF Begun, Inside, Blanked
    <3>2. \A i \in 1 .. n : i \in b .. p' - 1 <=> i \in b .. p - 1 \/ i \in {p}
      BY <1>1, <1>n
    <3> QED
      BY <1>m, <3>1, <3>2
  <2>4. At(b, O)'
    BY <1>1, <1>n, <1>o, <2>1, <2>2, <2>3 DEF At, Inside
  <2> QED
    BY <2>4
\* The end of a block comment.
<1>8. CASE state = "STAR" /\ c = Slash
  <2>0. PICK q \in Nat : q = p + 1
    BY <1>n
  <2>1. /\ state' = "NORMAL" /\ Opens(text, b, Star) /\ p >= b + 3 /\ text[p - 1] = Star
        /\ \A j \in b + 3 .. p - 1 : ~(text[j] = Slash /\ text[j - 1] = Star)
    BY <1>1, <1>n, <1>8, <1>a DEF NextState
  <2>2. CommentEnd(text, b) = p + 1
    <3>1. b \in 1 .. Len(text) /\ p \in b + 2 .. Len(text) + 1 /\ text[p] = Slash
      BY <1>1, <1>n, <1>8, <2>1 DEF c, n
    <3> QED
      BY <1>1, <1>n, <2>1, <3>1, BlockEnds
  <2>4. Openings(text) = (O \cup {b}) \cup OpeningsFrom(text)[p + 1]
    <3>1. b \in 1 .. Len(text) /\ p + 1 # b
      BY <1>1, <1>n, <2>1 DEF n
    <3>2. OpeningsFrom(text)[b] = {b} \cup OpeningsFrom(text)[p + 1]
      BY <1>1, <1>n, <2>2, <3>1, MoveOn
    <3> QED
      BY <1>o, <3>2
  <2>5. \A i \in O \cup {b} : CommentEnd(text, i) \in i .. p + 1
    <3>1. ASSUME NEW i \in O PROVE CommentEnd(text, i) \in i .. p + 1
      <4>1. CommentEnd(text, i) \in i .. b
        BY <1>o
      <4> QED
        BY <1>1, <1>n, <4>1
    <3>2. p + 1 \in b .. p + 1
      BY <1>1, <1>n
    <3> QED
      BY <2>2, <3>1, <3>2
  <2>6. lbuffer' = Masked(text, O \cup {b}, {})
    <3>1. Begun(b) = b .. p - 1 /\ Blanked(state, c) = {p}
      BY <1>8 DEF Begun, Inside, Blanked
    <3>2. Within(text, O \cup {b}) = Within(text, O) \cup (b .. (p + 1) - 1)
      BY <2>2, WithinBoth
    <3>3. \A i \in 1 .. n : i \in b .. (p + 1) - 1 <=> i \in b .. p - 1 \/ i \in {p}
      BY <1>1, <1>n
    <3> QED
      BY <1>m, <3>1, <3>2, <3>3
  <2>7. q \in 1 .. n + 1 /\ O \cup {b} \in SUBSET (1 .. n)
    BY <1>1, <2>0, <1>n DEF n
  <2>8. At(q, O \cup {b})'
    BY <1>1, <1>n, <2>0, <2>1, <2>4, <2>5, <2>6 DEF At, Inside
  <2> QED
    BY <1>1, <1>n, <2>7, <2>8 DEF n
\* Another character of a block comment.
<1>9. CASE state \in {"BLOCK", "STAR"} /\ ~(state = "STAR" /\ c = Slash)
  <2>1. /\ Opens(text, b, Star) /\ p >= b + 2 /\ p' >= b + 2 /\ p' >= b + 3
        /\ \A j \in b + 3 .. p - 1 : ~(text[j] = Slash /\ text[j - 1] = Star)
    BY <1>1, <1>n, <1>9, <1>a
  <2>2. state' = IF c = Star THEN "STAR" ELSE "BLOCK"
    BY <1>1, <1>n, <1>9 DEF NextState
  <2>3. \A j \in b + 3 .. p' - 1 : ~(text[j] = Slash /\ text[j - 1] = Star)
    <3>1. p >= b + 3 => ~(text[p] = Slash /\ text[p - 1] = Star)
      BY <1>9, <1>a DEF c
    <3>2. \A j \in b + 3 .. p' - 1 : j \in b + 3 .. p - 1 \/ (j = p /\ p >= b + 3)
      BY <1>1, <1>n
    <3> QED
      BY <2>1, <3>1, <3>2
  <2>4. lbuffer' = Masked(text, O, b .. p' - 1)
    <3>1. Begun(b) = b .. p - 1 /\ Blanked(state, c) = {p}
      BY <1>9 DEF Begun, Inside, Blanked
    <3>2. \A i \in 1 .. n : i \in b .. p' - 1 <=> i \in b .. p - 1 \/ i \in {p}
      BY <1>1, <1>n
    <3> QED
      BY <1>m, <3>1, <3>2
  <2>5. p' - 1 = p
    BY <1>1, <1>n
  <2>6. At(b, O)'
    BY <1>1, <1>n, <1>o, <2>1, <2>2, <2>3, <2>4, <2>5 DEF At, Inside, c
  <2> QED
    BY <2>6
<1> QED
  BY <1>2, <1>3, <1>4, <1>5, <1>6, <1>7, <1>8, <1>9 DEF ScanTyped

LEMMA ReadTyped ==
  ASSUME ScanTyped, NEW b \in 1 .. Len(text) + 1, NEW O \in SUBSET (1 .. Len(text)),
         At(b, O), Read
  PROVE  ScanTyped'
<1>1. /\ text \in Texts /\ Len(text) \in Nat /\ p \in 1 .. Len(text)
      /\ text' = text /\ p' = p + 1 /\ reply' = reply /\ state' = NextState(state, text[p])
  BY ReadFacts
<1>2. NextState(state, text[p]) \in {"NORMAL", "SLASH", "BLOCK", "STAR", "LINE"}
  BY DEF ScanTyped, NextState
<1>3. p' \in 1 .. Len(text) + 1
  BY <1>1
<1> QED
  BY <1>1, <1>2, <1>3 DEF ScanTyped

LEMMA NextScan == ScanInv /\ [ScanNext]_scanVars => ScanInv'
<1> SUFFICES ASSUME ScanInv, [ScanNext]_scanVars PROVE ScanInv'
  OBVIOUS
<1>1. PICK b \in 1 .. Len(text) + 1, O \in SUBSET (1 .. Len(text)) : At(b, O)
  BY DEF ScanInv
<1>2. /\ ScanTyped /\ (reply # "none" => p = Len(text) + 1)
      /\ (reply = "open" => state = "BLOCK") /\ (reply = "closed" => state # "BLOCK")
  BY DEF ScanInv
<1>3. CASE Read
  <2>1. /\ p \in 1 .. Len(text) /\ Len(text) \in Nat /\ text' = text /\ reply' = reply
    BY <1>1, <1>2, <1>3, ReadFacts
  <2>2. reply = "none"
    BY <1>2, <2>1
  <2>3. ScanTyped'
    BY <1>1, <1>2, <1>3, ReadTyped
  <2>4. \E b2 \in 1 .. Len(text) + 1, O2 \in SUBSET (1 .. Len(text)) : At(b2, O2)'
    BY <1>1, <1>2, <1>3, ReadStep
  <2> QED
    BY <2>1, <2>2, <2>3, <2>4 DEF ScanInv
<1>4. CASE Return
  <2>1. /\ text' = text /\ lbuffer' = lbuffer /\ p' = p /\ state' = state
        /\ reply' = (IF state = "BLOCK" THEN "open" ELSE "closed")
        /\ p > Len(lbuffer)
    BY <1>4 DEF Return, LeftOpen
  <2>2. p = Len(text) + 1
    <3>1. text \in Texts /\ Len(text) \in Nat /\ p \in 1 .. Len(text) + 1
      BY <1>2, TextFacts DEF ScanTyped
    <3>2. DOMAIN lbuffer = 1 .. Len(text)
      BY <1>1, <3>1, MaskedFacts DEF At
    <3>3. Len(lbuffer) = Len(text)
      BY <3>1, <3>2
    <3> QED
      BY <2>1, <3>1, <3>3
  <2>3. ScanTyped'
    BY <1>2, <2>1 DEF ScanTyped
  <2>4. At(b, O)'
    BY <1>1, <2>1 DEF At
  <2> QED
    BY <2>1, <2>2, <2>3, <2>4 DEF ScanInv
<1>5. CASE UNCHANGED scanVars
  <2>1. text' = text /\ lbuffer' = lbuffer /\ p' = p /\ state' = state /\ reply' = reply
    BY <1>5 DEF scanVars
  <2>2. At(b, O)'
    BY <1>1, <2>1 DEF At
  <2>3. ScanTyped'
    BY <1>2, <2>1 DEF ScanTyped
  <2> QED
    BY <1>2, <2>1, <2>2, <2>3 DEF ScanInv
<1> QED
  BY <1>3, <1>4, <1>5 DEF ScanNext

\* What has been blanked when the text is read are its comments.
LEMMA AtTheEnd ==
  ASSUME ScanTyped, p = Len(text) + 1,
         NEW b \in 1 .. Len(text) + 1, NEW O \in SUBSET (1 .. Len(text)), At(b, O)
  PROVE  /\ lbuffer = [i \in DOMAIN text |-> IF i \in Comments(text) THEN Blank ELSE text[i]]
         /\ state = "BLOCK" => Unclosed(text)
         /\ Unclosed(text) => state = "BLOCK" \/ text[Len(text)] = Star
<1> DEFINE n == Len(text)
           B == Begun(b)
<1>1. text \in Texts /\ n \in Nat /\ DOMAIN text = 1 .. n /\ p = n + 1
  BY TextFacts DEF ScanTyped
<1>2. /\ Openings(text) = O \cup OpeningsFrom(text)[b]
      /\ lbuffer = Masked(text, O, B)
  BY DEF At, Begun
<1>3. b \in Nat /\ 1 <= b /\ b <= n + 1
  BY <1>1
<1>4. /\ Openings(text) = IF Inside(state) THEN O \cup {b} ELSE O
      /\ state \in {"BLOCK", "STAR"} => b \in 1 .. n /\ CommentEnd(text, b) = n + 2
      /\ state = "LINE" => b \in 1 .. n /\ CommentEnd(text, b) = n + 1
  <2>1. CASE state = "NORMAL"
    <3>1. b = n + 1
      BY <1>1, <2>1 DEF At
    <3>2. OpeningsFrom(text)[b] = {}
      BY <1>1, <3>1, NoneBeyond
    <3> QED
      BY <1>2, <2>1, <3>2 DEF Inside
  <2>2. CASE state = "SLASH"
    <3>0. p = b + 1
      BY <2>2 DEF At
    <3>1. b = n /\ b + 1 = n + 1 /\ b \in 1 .. Len(text)
      <4>1. n \in Nat /\ p = n + 1
        BY <1>1
      <4> HIDE DEF n
      <4>2. b = n /\ b + 1 = n + 1 /\ b \in 1 .. n
        BY <1>3, <3>0, <4>1
      <4> QED
        BY <4>2 DEF n
    <3>2. CommentEnd(text, b) = b
      BY <1>1, <1>3, <3>1, NothingEnds DEF Opens
    <3>3. OpeningsFrom(text)[b] = OpeningsFrom(text)[b + 1]
      BY <1>1, <3>1, <3>2, MoveOn
    <3>4. OpeningsFrom(text)[b + 1] = {}
      BY <1>1, <3>1, NoneBeyond
    <3> QED
      BY <1>2, <2>2, <3>3, <3>4 DEF Inside
  <2>3. CASE state = "LINE"
    <3>1. Opens(text, b, Slash) /\ p >= b + 2 /\ \A j \in b .. p - 1 : text[j] # Newline
      BY <2>3 DEF At
    <3>2. b \in 1 .. Len(text) /\ p \in b .. Len(text) + 1 /\ ~(p <= Len(text)) /\ n + 1 # b
      BY <1>1, <1>3, <3>1
    <3>3. CommentEnd(text, b) = n + 1
      BY <1>1, <3>1, <3>2, LineEnds
    <3>4. OpeningsFrom(text)[b] = {b} \cup OpeningsFrom(text)[n + 1]
      BY <1>1, <3>2, <3>3, MoveOn
    <3>5. OpeningsFrom(text)[n + 1] = {}
      BY <1>1, NoneBeyond
    <3> QED
      BY <1>2, <2>3, <3>2, <3>3, <3>4, <3>5 DEF Inside
  <2>4. CASE state \in {"BLOCK", "STAR"}
    <3>1. /\ Opens(text, b, Star) /\ p >= b + 2
          /\ \A j \in b + 3 .. p - 1 : ~(text[j] = Slash /\ text[j - 1] = Star)
      BY <2>4 DEF At
    <3>2. b \in 1 .. Len(text) /\ p \in b + 2 .. Len(text) + 1 /\ ~(p <= Len(text)) /\ n + 2 # b
      BY <1>1, <1>3, <3>1
    <3>a. CommentEnd(text, b) = p + 1
      BY <1>1, <3>1, <3>2, BlockEnds
    <3>3. CommentEnd(text, b) = n + 2
      BY <1>1, <3>a
    <3>4. OpeningsFrom(text)[b] = {b} \cup OpeningsFrom(text)[n + 2]
      BY <1>1, <3>2, <3>3, MoveOn
    <3>5. OpeningsFrom(text)[n + 2] = {}
      BY <1>1, NoneBeyond
    <3> QED
      BY <1>2, <2>4, <3>2, <3>3, <3>4, <3>5 DEF Inside
  <2> QED
    BY <2>1, <2>2, <2>3, <2>4 DEF ScanTyped
<1>5. \A i \in 1 .. n : i \in Comments(text) <=> i \in Within(text, O) \/ i \in B
  <2>1. Comments(text) = (1 .. n) \cap Within(text, Openings(text))
    BY <1>1 DEF Comments, Within
  <2>2. CASE ~Inside(state)
    BY <1>4, <2>1, <2>2 DEF Begun
  <2>3. CASE Inside(state)
    <3>a. Openings(text) = O \cup {b}
      BY <1>4, <2>3
    <3>b. Within(text, Openings(text)) = Within(text, O) \cup (b .. CommentEnd(text, b) - 1)
      BY <3>a, WithinBoth
    <3>1. /\ Within(text, Openings(text)) = Within(text, O) \cup (b .. CommentEnd(text, b) - 1)
          /\ B = b .. p - 1
      BY <2>3, <3>b DEF Begun
    <3>2. CommentEnd(text, b) \in {n + 1, n + 2}
      BY <1>4, <2>3 DEF Inside
    <3>3. \A i \in 1 .. n : i \in b .. CommentEnd(text, b) - 1 <=> i \in b .. p - 1
      BY <1>1, <1>3, <3>2
    <3> QED
      BY <2>1, <3>1, <3>3
  <2> QED
    BY <2>2, <2>3
<1> HIDE DEF B
<1>6. lbuffer = [i \in DOMAIN text |-> IF i \in Comments(text) THEN Blank ELSE text[i]]
  BY <1>1, <1>2, <1>5 DEF Masked
<1>7. ASSUME state = "BLOCK" PROVE Unclosed(text)
  <2>1. b \in Openings(text) /\ CommentEnd(text, b) = n + 2
    BY <1>4, <1>7 DEF Inside
  <2> QED
    BY <2>1 DEF Unclosed
<1>8. ASSUME Unclosed(text) PROVE state \in {"BLOCK", "STAR"}
  <2>1. PICK i \in Openings(text) : CommentEnd(text, i) = n + 2
    BY <1>8 DEF Unclosed
  <2>2. i \notin O
    <3> SUFFICES ASSUME i \in O PROVE FALSE
      OBVIOUS
    <3>1. CommentEnd(text, i) \in i .. b
      BY DEF At
    <3>2. n + 2 \in i .. b
      BY <2>1, <3>1
    <3>3. ~(n + 2 <= b)
      BY <1>1, <1>3
    <3> QED
      BY <3>2, <3>3
  <2>3. Inside(state) /\ i = b
    BY <1>4, <2>1, <2>2
  <2>4. state # "LINE"
    BY <1>1, <1>4, <2>1, <2>3
  <2> QED
    BY <2>3, <2>4 DEF Inside
<1>9. ASSUME state = "STAR" PROVE text[n] = Star
  <2>1. text[p - 1] = Star
    BY <1>9 DEF At
  <2>2. p - 1 = n
    BY <1>1
  <2> QED
    BY <2>1, <2>2
<1> QED
  BY <1>6, <1>7, <1>8, <1>9

LEMMA ScanInvGivesProperties ==
  ScanInv => ScanTyped /\ CommentsRemoved /\ ClosedIsAccepted /\ OnlyAStarHidesIt
<1> SUFFICES ASSUME ScanInv
             PROVE  ScanTyped /\ CommentsRemoved /\ ClosedIsAccepted /\ OnlyAStarHidesIt
  OBVIOUS
<1>1. PICK b \in 1 .. Len(text) + 1, O \in SUBSET (1 .. Len(text)) : At(b, O)
  BY DEF ScanInv
<1>2. /\ ScanTyped /\ (reply # "none" => p = Len(text) + 1)
      /\ (reply = "open" => state = "BLOCK") /\ (reply = "closed" => state # "BLOCK")
  BY DEF ScanInv
<1>3. ASSUME reply # "none"
      PROVE  /\ lbuffer = [i \in DOMAIN text |-> IF i \in Comments(text) THEN Blank ELSE text[i]]
             /\ state = "BLOCK" => Unclosed(text)
             /\ Unclosed(text) => state = "BLOCK" \/ text[Len(text)] = Star
  BY <1>1, <1>2, <1>3, AtTheEnd
<1>4. CommentsRemoved /\ ClosedIsAccepted
  BY <1>2, <1>3 DEF CommentsRemoved, ClosedIsAccepted
<1>5. OnlyAStarHidesIt
  BY <1>2, <1>3 DEF OnlyAStarHidesIt
<1> QED
  BY <1>2, <1>4, <1>5

\* The machine stands where the definition's jumps have come to.
THEOREM ScanInvariance == ScanSpec => []ScanInv
BY InitScan, NextScan, PTL DEF ScanSpec

\* For every text, however its comments touch, hide one another or run into its
\* end, what sknobs_uncomment leaves is the text with its comments blanked.
THEOREM CommentsAreRemoved == ScanSpec => []CommentsRemoved
BY ScanInvariance, ScanInvGivesProperties, PTL

\* It reports a comment as open only in a text whose last comment is.
THEOREM ClosedTextsAreAccepted == ScanSpec => []ClosedIsAccepted
BY ScanInvariance, ScanInvGivesProperties, PTL

\* Every other text whose last comment is open is reported: the state STAR at the
\* end is the one way past it.
THEOREM OpenTextsAreReported == ScanSpec => []OnlyAStarHidesIt
BY ScanInvariance, ScanInvGivesProperties, PTL

\* The machine stays in the text and in its five states.
THEOREM ScanTypeCorrect == ScanSpec => []ScanTyped
BY ScanInvariance, ScanInvGivesProperties, PTL
=============================================================================
