--------------------------- MODULE HeldStringsProofs ---------------------------
(***************************************************************************)
(* A client that keeps to the two rules of HeldStrings reads what it was   *)
(* given, for every set of names, knobs, directories and variables.        *)
(***************************************************************************)
EXTENDS HeldStrings, Extrema

\* A pointer leads to a knob or to the buffer only if its origin says so.
OriginsTold ==
  \A v \in Variables :
    /\ held[v][1] = "knob" => \E n \in origin[v] \cap Names : Owner[n] = held[v][2]
    /\ held[v][1] = "found" => "search" \in origin[v]

FreshAreAlive == \A v \in fresh : held[v][1] # "freed"

IInv == TypeOK /\ OriginsTold /\ FreshAreAlive /\ StringsStay

Pointers ==
  ({"own"} \X Strings) \cup ({"knob"} \X Stored) \cup {<<"found", 0>>, <<"freed", 0>>}

\* Whatever a live pointer leads to is a string.
LEMMA ReadsStrings ==
  ASSUME TypeOK, NEW p \in Pointers, p[1] # "freed"
  PROVE  Read(p) \in Strings
<1>1. CASE p[1] = "own"
  BY <1>1 DEF Read, Pointers
<1>2. CASE p[1] = "knob"
  BY <1>2 DEF Read, Pointers, TypeOK
<1>3. CASE p[1] = "found"
  BY <1>3 DEF Read, Pointers, TypeOK
<1> QED
  BY <1>1, <1>2, <1>3 DEF Pointers

\* Reading depends on the knob's value and the buffer only.
LEMMA ReadUnchanged ==
  ASSUME UNCHANGED <<value, found>>, NEW p
  PROVE  Read(p)' = Read(p)
BY DEF Read

\* A search leaves a path in the buffer, and what it was before if there is no
\* directory to be searched.
LEMMA TriedIsString ==
  ASSUME TypeOK, NEW x \in Strings
  PROVE  Tried(x) \in Strings
<1>1. Dirs \in Seq(Chars)
  BY StringsAssumption DEF Strings
<1>2. Hits(x) \in SUBSET Nat /\ Hits(x) \subseteq DOMAIN Dirs
  BY <1>1 DEF Hits
<1>3. \A i \in DOMAIN Dirs : <<Dirs[i]>> \o x \in Strings
  BY <1>1 DEF Strings
<1>4. CASE Hits(x) # {}
  <2>1. Min(Hits(x)) \in DOMAIN Dirs
    BY <1>2, <1>4, MinOfNaturals
  <2> QED
    BY <1>3, <1>4, <2>1 DEF Tried
<1>5. CASE Hits(x) = {} /\ Dirs = <<>>
  BY <1>5 DEF Tried, TypeOK
<1>6. CASE Hits(x) = {} /\ Dirs # <<>>
  <2>1. Len(Dirs) \in DOMAIN Dirs
    BY <1>1, <1>6
  <2> QED
    BY <1>3, <1>6, <2>1 DEF Tried
<1> QED
  BY <1>4, <1>5, <1>6

\* The pointer get_string answers with, and where it may come from.
LEMMA AnswerOfGetString ==
  ASSUME IInv, NEW n \in Names, NEW w \in fresh
  PROVE  LET p == StringOf(n, w)
             os == origin[w] \cup {n}
         IN  /\ p \in Pointers /\ p[1] # "freed"
             /\ os \in SUBSET (Names \cup {"search"})
             /\ p[1] = "knob" => \E m \in os \cap Names : Owner[m] = p[2]
             /\ p[1] = "found" => "search" \in os
<1>1. w \in Variables /\ held[w] \in Pointers /\ held[w][1] # "freed"
  BY DEF IInv, TypeOK, FreshAreAlive, Pointers
<1>2. origin[w] \in SUBSET (Names \cup {"search"})
  BY <1>1 DEF IInv, TypeOK
<1>3. CASE Owner[n] = None
  BY <1>1, <1>2, <1>3 DEF StringOf, IInv, OriginsTold
<1>4. CASE Owner[n] # None
  <2>1. Owner[n] \in Stored
    BY <1>4 DEF Stored
  <2>2. StringOf(n, w) = <<"knob", Owner[n]>>
    BY <1>4 DEF StringOf
  <2> QED
    BY <1>2, <2>1, <2>2 DEF Pointers
<1> QED
  BY <1>3, <1>4
-----------------------------------------------------------------------------
LEMMA InitIInv == Init => IInv
<1> SUFFICES ASSUME Init PROVE IInv
  OBVIOUS
<1>1. PICK t \in Texts : /\ held = [v \in Variables |-> <<"own", t>>]
                         /\ meant = [v \in Variables |-> t]
  BY DEF Init
<1>2. t \in Strings
  BY StringsAssumption
<1>3. TypeOK
  <2>1. value \in [Stored -> Strings]
    BY StringsAssumption DEF Init
  <2>2. found \in Strings
    BY DEF Init, Strings
  <2> QED
    BY <1>1, <1>2, <2>1, <2>2 DEF Init, TypeOK
<1> QED
  BY <1>1, <1>3 DEF IInv, OriginsTold, FreshAreAlive, StringsStay, Read, Init

\* A pointer is put into a variable while nothing it or others lead to changes.
LEMMA GetQuietly ==
  ASSUME IInv, NEW v \in Variables, NEW p \in Pointers, p[1] # "freed",
         NEW os \in SUBSET (Names \cup {"search"}),
         p[1] = "knob" => \E n \in os \cap Names : Owner[n] = p[2],
         p[1] = "found" => "search" \in os,
         Get(v, p, Read(p), os, {}), UNCHANGED <<value, found>>
  PROVE  IInv'
<1>1. Read(p) \in Strings
  BY ReadsStrings DEF IInv
<1>2. TypeOK'
  BY <1>1 DEF IInv, TypeOK, Get, Pointers
<1>3. /\ fresh' = fresh \cup {v} /\ \A u \in Variables : u # v => held'[u] = held[u]
      /\ held'[v] = p
  BY DEF Get, IInv, TypeOK
<1>4. OriginsTold'
  BY <1>3 DEF IInv, TypeOK, OriginsTold, Get
<1>5. FreshAreAlive'
  BY <1>3 DEF IInv, TypeOK, FreshAreAlive
<1>6. StringsStay'
  <2> SUFFICES ASSUME NEW u \in fresh' PROVE Read(held[u])' = meant'[u]
    BY DEF StringsStay
  <2>1. u \in Variables
    BY <1>3 DEF IInv, TypeOK
  <2>2. Read(held[u])' = Read(held'[u])
    BY DEF Read
  <2>3. CASE u = v
    BY <1>3, <2>2, <2>3 DEF Get, IInv, TypeOK
  <2>4. CASE u # v
    BY <1>3, <2>1, <2>2, <2>4 DEF Get, IInv, TypeOK, StringsStay
  <2> QED
    BY <2>3, <2>4
<1> QED
  BY <1>2, <1>4, <1>5, <1>6 DEF IInv
\* A string of the client's own.
LEMMA WriteStep ==
  ASSUME IInv, NEW v \in Variables, NEW t \in Texts, Write(v, t)
  PROVE  IInv'
<1> DEFINE p == <<"own", t>>
<1>1. p \in Pointers /\ p[1] = "own" /\ Read(p) = t
  BY StringsAssumption DEF Pointers, Read
<1>2. Get(v, p, Read(p), {}, {}) /\ UNCHANGED <<value, found>>
  BY <1>1 DEF Write
<1> HIDE DEF p
<1> QED
  BY <1>1, <1>2, GetQuietly

LEMMA GetStringStep ==
  ASSUME IInv, NEW v \in Variables, NEW n \in Names, NEW w \in Variables,
         GetString(v, n, w)
  PROVE  IInv'
<1> DEFINE p == StringOf(n, w)
           os == origin[w] \cup {n}
<1>1. w \in fresh /\ Get(v, p, Read(p), os, {}) /\ UNCHANGED <<value, found>>
  BY DEF GetString
<1>2. /\ p \in Pointers /\ p[1] # "freed"
      /\ os \in SUBSET (Names \cup {"search"})
      /\ p[1] = "knob" => \E m \in os \cap Names : Owner[m] = p[2]
      /\ p[1] = "found" => "search" \in os
  BY <1>1, AnswerOfGetString
<1> HIDE DEF p, os
<1> QED
  BY <1>1, <1>2, GetQuietly

\* What is written is read before it is freed: a client that keeps to its rule
\* does not pass the knob's own string.
LEMMA SetStringStep ==
  ASSUME IInv, NEW n \in Names, NEW w \in Variables, SetString(n, w)
  PROVE  IInv'
<1> DEFINE mine == <<"knob", Owner[n]>>
<1>1. /\ w \in fresh /\ Owner[n] # None /\ origin[w] \cap Sharing(n) = {}
      /\ value' = [value EXCEPT ![Owner[n]] = IF held[w] = mine THEN Torn ELSE Read(held[w])]
      /\ held' = [v \in Variables |-> IF held[v] = mine THEN <<"freed", 0>> ELSE held[v]]
      /\ fresh' = {v \in fresh : origin[v] \cap Sharing(n) = {}}
      /\ UNCHANGED <<found, meant, origin>>
  BY DEF SetString
<1>2. ASSUME NEW v \in Variables, origin[v] \cap Sharing(n) = {}
      PROVE  held[v] # mine
  BY <1>2 DEF IInv, OriginsTold, Sharing
<1>3. Read(held[w]) \in Strings /\ held[w] # mine
  <2>1. held[w] \in Pointers /\ held[w][1] # "freed"
    BY <1>1 DEF IInv, TypeOK, FreshAreAlive, Pointers
  <2> QED
    BY <1>1, <1>2, <2>1, ReadsStrings DEF IInv
<1>4. value' \in [Stored -> Strings]
  BY <1>1, <1>3 DEF IInv, TypeOK
<1>5. held' \in [Variables -> Pointers]
  BY <1>1 DEF IInv, TypeOK, Pointers
<1>6. TypeOK'
  BY <1>1, <1>4, <1>5 DEF IInv, TypeOK, Pointers
<1>7. OriginsTold'
  BY <1>1 DEF IInv, OriginsTold
<1>8. ASSUME NEW v \in fresh'
      PROVE  /\ v \in fresh /\ v \in Variables /\ held'[v] = held[v] /\ held[v] # mine
             /\ held[v][1] # "freed" /\ held[v] \in Pointers
  <2>1. v \in fresh /\ v \in Variables /\ origin[v] \cap Sharing(n) = {}
    BY <1>1, <1>8 DEF IInv, TypeOK
  <2>2. held[v] # mine
    BY <1>2, <2>1
  <2> QED
    BY <1>1, <2>1, <2>2 DEF IInv, TypeOK, FreshAreAlive, Pointers
<1>9. FreshAreAlive'
  BY <1>8 DEF FreshAreAlive
<1>10. StringsStay'
  <2> SUFFICES ASSUME NEW v \in fresh' PROVE Read(held[v])' = meant'[v]
    BY DEF StringsStay
  <2>1. Read(held[v])' = Read(held[v])
    <3>1. CASE held[v][1] = "knob"
      <4>1. held[v][2] \in Stored /\ held[v][2] # Owner[n]
        BY <1>8, <3>1 DEF Pointers
      <4>2. value'[held[v][2]] = value[held[v][2]]
        BY <1>1, <4>1 DEF IInv, TypeOK
      <4> QED
        BY <1>8, <3>1, <4>2 DEF Read
    <3>2. CASE held[v][1] # "knob"
      BY <1>1, <1>8, <3>2 DEF Read
    <3> QED
      BY <3>1, <3>2
  <2> QED
    BY <1>1, <1>8, <2>1 DEF IInv, StringsStay
<1> QED
  BY <1>6, <1>7, <1>9, <1>10 DEF IInv

\* A pointer is put into a variable once the buffer has changed: whatever may have
\* led there lapses.
LEMMA GetAfterSearch ==
  ASSUME IInv, NEW v \in Variables, NEW p \in Pointers, p[1] # "freed",
         NEW t \in Strings, NEW os \in SUBSET (Names \cup {"search"}), "search" \in os,
         p[1] = "knob" => \E n \in os \cap Names : Owner[n] = p[2],
         value' = value, found' \in Strings, Read(p)' = t,
         Get(v, p, t, os, {"search"})
  PROVE  IInv'
<1>1. /\ held' = [held EXCEPT ![v] = p] /\ meant' = [meant EXCEPT ![v] = t]
      /\ origin' = [origin EXCEPT ![v] = os]
      /\ fresh' = {u \in fresh : origin[u] \cap {"search"} = {}} \cup {v}
  BY DEF Get
<1>2. /\ held'[v] = p /\ meant'[v] = t /\ origin'[v] = os
      /\ \A u \in Variables : u # v => held'[u] = held[u] /\ meant'[u] = meant[u]
                                      /\ origin'[u] = origin[u]
  BY <1>1 DEF IInv, TypeOK
<1>3. TypeOK'
  BY <1>1 DEF IInv, TypeOK, Pointers
<1>4. OriginsTold'
  BY <1>2 DEF IInv, OriginsTold
<1>5. FreshAreAlive'
  BY <1>1, <1>2 DEF IInv, TypeOK, FreshAreAlive
<1>6. StringsStay'
  <2> SUFFICES ASSUME NEW u \in fresh' PROVE Read(held[u])' = meant'[u]
    BY DEF StringsStay
  <2>1. CASE u = v
    BY <1>2, <2>1 DEF Read
  <2>2. CASE u # v
    <3>1. u \in fresh /\ u \in Variables /\ "search" \notin origin[u]
      BY <1>1, <2>2 DEF IInv, TypeOK
    <3>2. held'[u] = held[u] /\ held[u][1] # "found"
      BY <1>2, <2>2, <3>1 DEF IInv, OriginsTold
    <3>3. Read(held[u])' = Read(held[u])
      BY <3>2 DEF Read
    <3> QED
      BY <1>2, <2>2, <3>1, <3>3 DEF IInv, StringsStay
  <2> QED
    BY <2>1, <2>2
<1> QED
  BY <1>3, <1>4, <1>5, <1>6 DEF IInv

\* A search leaves everything alone but what a search returned before, and answers
\* with what it was passed or with the buffer.
LEMMA SearchStep ==
  ASSUME IInv, NEW v \in Variables, NEW p \in Pointers, p[1] # "freed",
         NEW os \in SUBSET (Names \cup {"search"}),
         p[1] = "knob" => \E n \in os \cap Names : Owner[n] = p[2],
         p[1] = "found" => "search" \in os,
         Search(v, p, os)
  PROVE  IInv'
<1> DEFINE on == os \cup {"search"}
<1>1. "search" \notin os /\ found' = Tried(Read(p)) /\ value' = value
  BY DEF Search
<1>2. Read(p) \in Strings /\ Tried(Read(p)) \in Strings
  BY ReadsStrings, TriedIsString DEF IInv
<1>3. CASE Hits(Read(p)) = {}
  <2>1. Get(v, p, Read(p), on, {"search"})
    BY <1>3 DEF Search
  <2>2. Read(p)' = Read(p)
    BY <1>1 DEF Read
  <2> QED
    BY <1>1, <1>2, <2>1, <2>2, GetAfterSearch
<1>4. CASE Hits(Read(p)) # {}
  <2> DEFINE q == <<"found", 0>>
  <2>1. Get(v, q, Tried(Read(p)), on, {"search"})
    BY <1>4 DEF Search
  <2>2. Read(q)' = Tried(Read(p)) /\ q \in Pointers /\ q[1] = "found"
    BY <1>1 DEF Read, Pointers
  <2> HIDE DEF q
  <2> QED
    BY <1>1, <1>2, <2>1, <2>2, GetAfterSearch
<1> QED
  BY <1>3, <1>4

LEMMA FindFileStep ==
  ASSUME IInv, NEW v \in Variables, NEW w \in Variables, FindFile(v, w)
  PROVE  IInv'
<1> DEFINE p == held[w]
           os == origin[w]
<1>1. w \in fresh /\ Search(v, p, os)
  BY DEF FindFile
<1>2. /\ p \in Pointers /\ p[1] # "freed" /\ os \in SUBSET (Names \cup {"search"})
      /\ p[1] = "knob" => \E m \in os \cap Names : Owner[m] = p[2]
      /\ p[1] = "found" => "search" \in os
  BY <1>1 DEF IInv, TypeOK, OriginsTold, FreshAreAlive, Pointers
<1> HIDE DEF p, os
<1> QED
  BY <1>1, <1>2, SearchStep

LEMMA GetFilenameStep ==
  ASSUME IInv, NEW v \in Variables, NEW n \in Names, NEW w \in Variables,
         GetFilename(v, n, w)
  PROVE  IInv'
<1> DEFINE p == StringOf(n, w)
           os == origin[w] \cup {n}
<1>1. w \in fresh /\ Search(v, p, os)
  BY DEF GetFilename
<1>2. /\ p \in Pointers /\ p[1] # "freed"
      /\ os \in SUBSET (Names \cup {"search"})
      /\ p[1] = "knob" => \E m \in os \cap Names : Owner[m] = p[2]
      /\ p[1] = "found" => "search" \in os
  BY <1>1, AnswerOfGetString
<1> HIDE DEF p, os
<1> QED
  BY <1>1, <1>2, SearchStep

LEMMA StepIInv == IInv /\ [Next]_vars => IInv'
<1> SUFFICES ASSUME IInv, [Next]_vars PROVE IInv'
  OBVIOUS
<1>1. CASE UNCHANGED vars
  BY <1>1 DEF vars, IInv, TypeOK, OriginsTold, FreshAreAlive, StringsStay, Read
<1>2. ASSUME NEW v \in Variables, NEW w \in Variables, NEW t \in Texts, Write(v, t)
      PROVE  IInv'
  BY <1>2, WriteStep
<1>3. ASSUME NEW v \in Variables, NEW w \in Variables, NEW n \in Names,
             GetString(v, n, w) \/ SetString(n, w) \/ GetFilename(v, n, w)
      PROVE  IInv'
  BY <1>3, GetStringStep, SetStringStep, GetFilenameStep
<1>4. ASSUME NEW v \in Variables, NEW w \in Variables, FindFile(v, w)
      PROVE  IInv'
  BY <1>4, FindFileStep
<1> QED
  BY <1>1, <1>2, <1>3, <1>4 DEF Next

THEOREM Invariance == Spec => []IInv
BY InitIInv, StepIInv, PTL DEF Spec

\* Pointers lead to what the model knows (TypeOK).
THEOREM HeldTypeCorrect == Spec => []TypeOK
<1>1. IInv => TypeOK
  BY DEF IInv
<1> QED
  BY <1>1, Invariance, PTL

\* A string stays what it was until the next search or the next write that its
\* origin names, however it was passed from call to call (sknobs_get_string,
\* sknobs_find_file, sknobs_get_filename).
THEOREM HeldStringsStay == Spec => []StringsStay
<1>1. IInv => StringsStay
  BY DEF IInv
<1> QED
  BY <1>1, Invariance, PTL

\* No knob is given freed memory as its value (sknobs_set_string).
THEOREM WrittenValuesAreWhole == Spec => []ValuesAreWhole
<1>1. IInv => ValuesAreWhole
  BY StringsAssumption DEF IInv, TypeOK, ValuesAreWhole
<1> QED
  BY <1>1, Invariance, PTL
=============================================================================
