------------------------------ MODULE KnobStore ------------------------------
(***************************************************************************)
(* The knob database of sknobs.c once sknobs_init has returned: the list   *)
(* of knobs, the hash table of the values get_value has pinned, and the    *)
(* ring of iterator slots that every lookup, the client's and the          *)
(* library's own, draws from.  The library is single-threaded, so a call   *)
(* is one step; what interleaves are the calls on several open iterators   *)
(* with all the other calls.                                               *)
(***************************************************************************)
EXTENDS Integers, Sequences, FiniteSetsExt

CONSTANTS
  Names,         \* the names a client asks for
  Patterns,      \* the texts a knob may have as its pattern
  Match,         \* <<p, n>>: fnmatch or regexec accepts name n for pattern p
  Uncompilable,  \* patterns "+re" whose re regcomp rejects
  Values,        \* value strings of knobs
  NULL,          \* C's null pointer
  Unset,         \* "no value": neither a string nor a number
  Numbers,       \* the 64-bit numbers of the instance
  Eval,          \* Eval[v]: the numbers sknobs_eval(v) may return
  Decimal,       \* Decimal[x]: x printed with %lld
  Buckets,       \* HASH_TABLE_SIZE
  Hash,          \* Hash[n]: hash(n) % HASH_TABLE_SIZE
  MaxIterators,  \* MAX_ITERATORS
  Handles,       \* the iterator variables of the client
  Reach,         \* the client drops an iterator that has this many younger ones
  SeedName,      \* "seed"
  FilesName,     \* "sknobs.files"
  PathName,      \* "sknobs.search_path"
  Locked,        \* values written with an additional "=", as "=100" in +k==100
  Boot,          \* the knobs sknobs_init found
  MaxKnobs       \* bound on the length of the list (the C list is unbounded)

KnobSet == [pattern : Patterns, value : Values \cup {NULL}]

ASSUME NamesAssumption ==
  /\ Names \subseteq Patterns
  /\ {SeedName, FilesName, PathName} \subseteq Names
  /\ Match \subseteq Patterns \X Names
  /\ Uncompilable \subseteq Patterns
  /\ NULL \notin Names \cup Values
  /\ Unset \notin Values \cup Numbers \cup {NULL}

ASSUME ValuesAssumption ==
  /\ Locked \subseteq Values
  /\ Eval \in [Values -> SUBSET Numbers]
  /\ Decimal \in [Numbers -> Values]
  /\ \A v \in Values : Eval[v] # {}

ASSUME SizeAssumption ==
  /\ Buckets \in Nat \ {0}
  /\ Hash \in [Names -> 0 .. Buckets - 1]
  /\ MaxIterators \in Nat \ {0}
  /\ Reach \in Nat \ {0}
  /\ MaxKnobs \in Nat
  /\ Boot \in Seq(KnobSet)
  /\ Len(Boot) <= MaxKnobs

VARIABLES
  list,    \* sknob_list, from the head to last_knob
  saved,   \* saved_sknob_values: one chain per bucket, newest first
  iters,   \* sknobs_iterators: slot -> name and current knob
  cur,     \* sknobs_current_iterator
  handle,  \* what the client knows of each iterator it holds
  status,  \* "running", or the assertion that ended the process
  reply    \* the last call and its answer

vars == <<list, saved, iters, cur, handle, status, reply>>

Slots == 0 .. MaxIterators - 1
Freed == -1   \* a pointer to a knob that sknobs_close has freed

\* A knob pointer is the knob's position in the list, 0 the null pointer.
Iterators == [name : Names \cup {NULL}, knob : {Freed} \cup (0 .. MaxKnobs)]

(* The client's view: the slot its pointer designates, the name it asked   *)
(* for, the knob it was last given (0: none), how many iterators the       *)
(* library has handed out since, and the knobs it has seen on this walk.   *)
HandleSet == [open : BOOLEAN, slot : Slots, name : Names, at : 0 .. MaxKnobs,
              age : 0 .. Reach, seen : SUBSET (1 .. MaxKnobs)]

NoIterator == [open |-> FALSE, slot |-> 0, name |-> SeedName,
               at |-> 0, age |-> 0, seen |-> {}]

TypeOK ==
  /\ list \in Seq(KnobSet) /\ Len(list) <= MaxKnobs
  /\ saved \in [0 .. Buckets - 1 -> Seq([name : Names, value : Numbers])]
  /\ iters \in [Slots -> Iterators]
  /\ cur \in Slots
  /\ handle \in [Handles -> HandleSet]
  /\ status \in {"running", "no_knob", "no_value"}
-----------------------------------------------------------------------------
Answer(call, n, r) == [call |-> call, name |-> n, result |-> r]

Hits(n) == {k \in 1 .. Len(list) : <<list[k].pattern, n>> \in Match}

\* The slot sknobs_iterate hands out next, as it leaves it.
Opened(n) == [name |-> n, knob |-> 0]

\* Faults of NextHit: no match test, or one knob skipped after each hit.
NextKnob(it) == IF it.knob < Len(list) THEN it.knob + 1 ELSE 0
NextButOne(it) ==
  LET after == {k \in Hits(it.name) : k > it.knob + 1}
  IN  IF after = {} THEN 0 ELSE Min(after)

\* sknobs_get_next: the next knob after it.knob, 0 at the end of the list.
NextHit(it) ==
  LET after == {k \in Hits(it.name) : k > it.knob}
  IN  IF after = {} THEN 0 ELSE Min(after)

\* sknobs_find_last: the last knob the fresh iterator meets.
FindLast(it) ==
  LET after == {k \in Hits(it.name) : k > it.knob}
  IN  IF after = {} THEN 0 ELSE Max(after)

\* The client's iterators age with every slot handed out.
Older(h) ==
  IF h.open /\ h.age + 1 < Reach THEN [h EXCEPT !.age = @ + 1] ELSE NoIterator

\* Faults of TakeSlot: no wrap, a ring one slot short, a ring that stands still.
TakeSlotNoWrap(it) == iters' = [iters EXCEPT ![cur] = it] /\ cur' = cur + 1
TakeSlotShortRing(it) ==
  iters' = [iters EXCEPT ![cur] = it] /\ cur' = (cur + 1) % (MaxIterators - 1)
TakeSlotStuck(it) == iters' = [iters EXCEPT ![cur] = it] /\ cur' = cur

\* sknobs_iterate: take the slot under cur and move on, whoever held it.
TakeSlot(it) ==
  /\ iters' = [iters EXCEPT ![cur] = it]
  /\ cur' = (cur + 1) % MaxIterators

\* A lookup walks its iterator to the end, which leaves the slot at null.
Lookup(n) ==
  /\ TakeSlot([name |-> n, knob |-> 0])
  /\ handle' = [h \in Handles |-> Older(handle[h])]

\* The value string sknobs_get_string finds, Unset when no knob matches.
Found(n) == LET k == FindLast(Opened(n)) IN IF k = 0 THEN Unset ELSE list[k].value

\* sknobs_add: the list with one more knob, unless the expression is bad.
Added(p, v) ==
  IF p \in Uncompilable THEN list ELSE Append(list, [pattern |-> p, value |-> v])

\* Fault of Assigned: the first match is overwritten.
AssignedFirst(n, v) ==
  LET k == NextHit(Opened(n))
  IN  IF k = 0 THEN Added(n, v) ELSE [list EXCEPT ![k].value = v]

\* sknobs_set_string, sknobs_set_value: overwrite the last match or add.
Assigned(n, v) ==
  LET k == FindLast(Opened(n))
  IN  IF k = 0 THEN Added(n, v) ELSE [list EXCEPT ![k].value = v]

\* sknobs_get_dynamic_value
Dynamic(n, d) == IF Found(n) \in {NULL, Unset} THEN {d} ELSE Eval[Found(n)]

\* The search of sknobs_get_value along a chain: the first entry of the name.
\* Its fault compares the head only.
ChainHead(chain, n) ==
  IF chain # <<>> /\ Head(chain).name = n THEN Head(chain).value ELSE Unset
ChainValue(chain, n) ==
  LET same == {i \in DOMAIN chain : chain[i].name = n}
  IN  IF same = {} THEN Unset ELSE chain[Min(same)].value

SavedValue(n) == ChainValue(saved[Hash[n]], n)

Save(n, x) ==
  saved' = [saved EXCEPT ![Hash[n]] = <<[name |-> n, value |-> x]>> \o @]
-----------------------------------------------------------------------------
(* sknobs_init has looked up "seed" once, unless it restored a saved        *)
(* database without one, and then the search path once for every -f.       *)
Init ==
  /\ list = Boot
  /\ saved = [b \in 0 .. Buckets - 1 |-> <<>>]
  /\ \E used \in 0 .. 2 * MaxIterators :
       /\ cur = used % MaxIterators
       /\ iters = [s \in Slots |->
            [name |-> IF s >= used THEN NULL
                      ELSE IF s = 0 /\ used <= MaxIterators THEN SeedName
                      ELSE PathName,
             knob |-> 0]]
  /\ handle = [h \in Handles |-> NoIterator]
  /\ status = "running"
  /\ reply = Answer("init", NULL, 0)

Running == status = "running"

Add(p, v) ==
  /\ Running
  /\ Len(list) < MaxKnobs
  /\ list' = Added(p, v)
  /\ reply' = Answer("add", p, IF p \in Uncompilable THEN 1 ELSE 0)
  /\ UNCHANGED <<saved, iters, cur, handle, status>>

SetString(n, v) ==
  /\ Running
  /\ Len(Assigned(n, v)) <= MaxKnobs
  /\ list' = Assigned(n, v)
  /\ Lookup(n)
  /\ reply' = Answer("set_string", n, v)
  /\ UNCHANGED <<saved, status>>

SetValue(n, x) ==
  /\ Running
  /\ Len(Assigned(n, Decimal[x])) <= MaxKnobs
  /\ list' = Assigned(n, Decimal[x])
  /\ Lookup(n)
  /\ reply' = Answer("set_value", n, x)
  /\ UNCHANGED <<saved, status>>

GetString(n, d) ==
  /\ Running
  /\ Lookup(n)
  /\ reply' = Answer("get_string", n, IF Found(n) = Unset THEN d ELSE Found(n))
  /\ UNCHANGED <<list, saved, status>>

Exists(n) ==
  /\ Running
  /\ Lookup(n)
  /\ reply' = Answer("exists", n, IF NextHit(Opened(n)) = 0 THEN 0 ELSE 1)
  /\ UNCHANGED <<list, saved, status>>

GetDynamicValue(n, d) ==
  /\ Running
  /\ Lookup(n)
  /\ \E x \in Dynamic(n, d) : reply' = Answer("get_dynamic_value", n, x)
  /\ UNCHANGED <<list, saved, status>>

GetSavedValue(n) ==
  /\ Running
  /\ SavedValue(n) # Unset
  /\ reply' = Answer("get_value", n, SavedValue(n))
  /\ UNCHANGED <<list, saved, iters, cur, handle, status>>

\* Fault of GetFirstValue: the search for a pinned value is left out.
GetValueAnew(n, d) ==
  /\ Running
  /\ Lookup(n)
  /\ \E x \in Dynamic(n, d) : Save(n, x) /\ reply' = Answer("get_value", n, x)
  /\ UNCHANGED <<list, status>>

GetFirstValue(n, d) ==
  /\ Running
  /\ SavedValue(n) = Unset
  /\ Lookup(n)
  /\ \E x \in Dynamic(n, d) :
       /\ Save(n, x)
       /\ reply' = Answer("get_value", n, x)
  /\ UNCHANGED <<list, status>>

\* sknobs_dump walks over the files with an iterator of its own.
Dump ==
  /\ Running
  /\ Lookup(FilesName)
  /\ reply' = Answer("dump", FilesName, 0)
  /\ UNCHANGED <<list, saved, status>>

\* sknobs_find_file walks over the search path, and when it has found a file it
\* still walks on to the end.
FindFile ==
  /\ Running
  /\ Lookup(PathName)
  /\ reply' = Answer("find_file", PathName, 0)
  /\ UNCHANGED <<list, saved, status>>

Iterate(h, n) ==
  /\ Running
  /\ TakeSlot(Opened(n))
  /\ handle' = [g \in Handles |->
       IF g = h THEN [open |-> TRUE, slot |-> cur, name |-> n, at |-> 0,
                      age |-> 0, seen |-> {}]
                ELSE Older(handle[g])]
  /\ reply' = Answer("iterate", n, 0)
  /\ UNCHANGED <<list, saved, status>>

\* A call after the last knob starts over: null means the head of the list.
IteratorNext(h) ==
  LET s == handle[h].slot
      k == NextHit(iters[s])
  IN  /\ Running
      /\ handle[h].open
      /\ iters[s].knob # Freed
      /\ iters' = [iters EXCEPT ![s].knob = k]
      /\ handle' = [handle EXCEPT
           ![h].at = k,
           ![h].seen = (IF handle[h].at = 0 THEN {} ELSE @) \cup ({k} \ {0})]
      /\ reply' = Answer("iterator_next", handle[h].name, IF k = 0 THEN 0 ELSE 1)
      /\ UNCHANGED <<list, saved, cur, status>>

\* The client asks for the value of a knob only when next announced one; the
\* library asserts that the slot designates a knob, and for get_value that the
\* knob has a value.
IteratorGet(h, asNumber) ==
  LET k == iters[handle[h].slot].knob
  IN  /\ Running
      /\ handle[h].open
      /\ handle[h].at # 0
      /\ k # Freed
      /\ IF k = 0
           THEN /\ status' = "no_knob"
                /\ reply' = Answer("iterator_get", handle[h].name, NULL)
           ELSE IF asNumber /\ list[k].value = NULL
                  THEN /\ status' = "no_value"
                       /\ reply' = Answer("iterator_get", handle[h].name, NULL)
                  ELSE /\ UNCHANGED status
                       /\ \E r \in IF asNumber THEN Eval[list[k].value]
                                               ELSE {list[k].value} :
                            reply' = Answer("iterator_get", handle[h].name, r)
      /\ UNCHANGED <<list, saved, iters, cur, handle>>

\* Fault of Close: the pinned values survive.
CloseKeepsSaved ==
  /\ Running
  /\ list' = <<>>
  /\ iters' = [s \in Slots |-> [iters[s] EXCEPT !.knob = 0]]
  /\ handle' = [h \in Handles |-> NoIterator]
  /\ reply' = Answer("close", NULL, 0)
  /\ UNCHANGED <<saved, cur, status>>

\* sknobs_close frees knobs and pinned values; it leaves the slots alone, whose
\* knob pointers dangle, so the client gives up the iterators it held.
Close ==
  /\ Running
  /\ list' = <<>>
  /\ saved' = [b \in 0 .. Buckets - 1 |-> <<>>]
  /\ iters' = [s \in Slots |->
       [iters[s] EXCEPT !.knob = IF @ = 0 THEN 0 ELSE Freed]]
  /\ handle' = [h \in Handles |-> NoIterator]
  /\ reply' = Answer("close", NULL, 0)
  /\ UNCHANGED <<cur, status>>

Next ==
  \/ \E p \in Patterns, v \in Values \cup {NULL} : Add(p, v)
  \/ \E n \in Names, v \in Values : SetString(n, v)
  \/ \E n \in Names, x \in Numbers : SetValue(n, x)
  \/ \E n \in Names, d \in Values \cup {NULL} : GetString(n, d)
  \/ \E n \in Names : Exists(n)
  \/ \E n \in Names, d \in Numbers : GetDynamicValue(n, d)
  \/ \E n \in Names : GetSavedValue(n)
  \/ \E n \in Names, d \in Numbers : GetFirstValue(n, d)
  \/ Dump
  \/ FindFile
  \/ \E h \in Handles, n \in Names : Iterate(h, n)
  \/ \E h \in Handles : IteratorNext(h)
  \/ \E h \in Handles, asNumber \in BOOLEAN : IteratorGet(h, asNumber)
  \/ Close

Spec == Init /\ [][Next]_vars
-----------------------------------------------------------------------------
(* Properties.                                                             *)

\* A slot handed to the client stays its own until MaxIterators more have been
\* handed out: whatever lookups, writes and other iterators do, it holds the
\* name asked for and the knob the client was last given (sknobs_iterate and
\* sknobs_get_next share the ring between the client and every lookup).
IteratorPrivate ==
  \A h \in Handles :
    handle[h].open /\ handle[h].age < MaxIterators =>
      iters[handle[h].slot] = [name |-> handle[h].name, knob |-> handle[h].at]

\* A knob the client was given by sknobs_iterator_next matches the name it asked
\* for: "search through the knobs database for the knob whose pattern matches
\* name" (the comment over sknobs_get_next and sknobs_iterator_next).
YieldsItsName ==
  \A h \in Handles :
    handle[h].open /\ handle[h].at # 0 => handle[h].at \in Hits(handle[h].name)

\* assert(knob) in sknobs_iterator_get_string and sknobs_iterator_get_value
\* never fails for a client that asks only after next has answered 1.
NeverPastEnd == status # "no_knob"

\* When next answers 0 the client has been given every knob that matches its
\* name, those added or rewritten since the walk began included.
WalkIsComplete ==
  [][\A h \in Handles :
       IteratorNext(h) /\ handle'[h].at = 0 =>
         handle'[h].seen = Hits(handle[h].name)]_vars

\* The hash table is sound: a pinned value sits in the bucket its name hashes
\* to, where get_value will look, and no name has two.
SavedTableOK ==
  \A b \in 0 .. Buckets - 1 : \A i \in DOMAIN saved[b] :
    /\ Hash[saved[b][i].name] = b
    /\ \A j \in DOMAIN saved[b] : saved[b][i].name = saved[b][j].name => i = j

\* What get_value answered for a name it answers until the database is closed,
\* whatever is added, written or pinned meanwhile.
PinnedUntilClose ==
  [][\A n \in Names :
       SavedValue(n) # Unset => SavedValue(n)' = SavedValue(n) \/ Close]_vars

\* A value written under a name is the value the next lookup of it finds.
ReadYourWrites(n) ==
  /\ reply'.call = "set_string" /\ reply'.name = n => Found(n)' = reply'.result
  /\ reply'.call = "set_value" /\ reply'.name = n => Found(n)' = Decimal[reply'.result]

\* It does for names that, read as patterns, match themselves.
PlainNames == {n \in Names : <<n, n>> \in Match /\ n \notin Uncompilable}
PlainNamesReadTheirWrites == [][\A n \in PlainNames : ReadYourWrites(n)]_vars

\* README.md:35-40: once a locked value is met the search stops, and no value
\* given later for the name counts.
LockedValueWins ==
  \A n \in Names :
    LET locks == {k \in Hits(n) : list[k].value \in Locked}
    IN  locks # {} => Found(n) = list[Min(locks)].value

\* The database implements the map: the last match gives a name its value, the
\* first entry of its chain its number.
Map == INSTANCE KnobMap WITH
         binding <- [n \in Names |-> Found(n)],
         pinned <- [n \in Names |-> SavedValue(n)]
ImplementsMap == Map!Spec
=============================================================================
