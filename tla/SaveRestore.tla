----------------------------- MODULE SaveRestore -----------------------------
(***************************************************************************)
(* sknobs_save, and the next process, whose sknobs_init finds sknobs.save  *)
(* and loads it instead of everything else.  The file has the knobs in the *)
(* order of the list, then every value get_value has pinned as a knob      *)
(* more.  Nothing in it is quoted: comments are removed from it as a whole,*)
(* it is split at delimiters, and what a value has behind one is loaded    *)
(* like any other token.                                                   *)
(***************************************************************************)
EXTENDS Integers, Sequences, FiniteSetsExt

CONSTANTS
  Names, Patterns,
  Match,      \* <<p, n>>: pattern p matches name n
  Values,     \* value strings, the empty one and C's null pointer among them
  NULL,
  Added,      \* the knobs a client adds
  Assigned,   \* the values it sets
  Numbers,
  Default,    \* the number a client passes to get_value
  Eval,       \* Eval[v]: the numbers v may evaluate to
  Decimal,    \* Decimal[x]: x printed with %lld
  Sown,       \* Sown[v]: v as a seed, printed, or NULL if it is out of range
  Seed,       \* the seed that the first process came by
  SeedName, DefinesName, UndefinesName, FilesName,   \* the library's own knobs
  SeedPatterns,  \* patterns that match the name "seed"
  Tokens,     \* of the files
  Scan,       \* Scan[o][l]: the tokens of line l and whether it ends in a block
              \* comment, if it begins in one (o) or does not
  Loads,      \* Loads[t]: the tokens that a list of files, t, may come to
  MaxKnobs,   \* bound: no add to a list this long
  MaxSaves    \* bound on the number of saves

VARIABLES
  list,      \* sknob_list
  pinned,    \* saved_sknob_values, as a function
  file,      \* sknobs.save
  process,   \* "running", "loading" the file, or "restored": running, and
             \* nothing written yet
  unread,    \* the tokens of the file still to be loaded
  argState,  \* the state of sknobs_load
  seeded,    \* sknobs_set_seed_flag
  atSave     \* history: what a client could have read when the file was written

vars == <<list, pinned, file, process, unread, argState, seeded, atSave>>
loader == <<unread, argState, seeded>>

KnobSet == [pattern : Patterns, value : Values]
Line(p, v) == [pattern |-> p, value |-> v]

\* Tokens, as sknobs_load takes them; text is what follows define+ or undefine+.
Kinds == {"knob", "define", "undefine", "file", "-f", "-pli", "+", "wrong"}
Knobs == {"knob", "define", "undefine", "file"}
Token == [kind : Kinds, pattern : Patterns, value : Values \ {NULL},
          text : Values \ {NULL}]

\* A line that is read back as it was written.
LeftAlone ==
  {l \in KnobSet : LET ts == Scan[FALSE][l].tokens
                   IN  ts # <<>> /\ ts[1].pattern = l.pattern /\ ts[1].value = l.value}

\* A line that is the knob it was written for, and otherwise plain arguments.
Contained ==
  {l \in KnobSet : LET ts == Scan[FALSE][l].tokens
                   IN  /\ ~Scan[FALSE][l].open
                       /\ ts # <<>> /\ ts[1].pattern = l.pattern
                       /\ ts[1].kind \in {"knob", "undefine"}
                       /\ \A j \in 2 .. Len(ts) : ts[j].kind = "file"}

ASSUME SaveAssumption ==
  /\ Names \cup {SeedName, DefinesName, UndefinesName, FilesName} \subseteq Patterns
  /\ SeedName # FilesName /\ SeedPatterns \subseteq Patterns
  /\ Match \subseteq Patterns \X Names
  /\ NULL \in Values /\ NULL \notin Numbers
  /\ Added \subseteq KnobSet /\ Assigned \subseteq Values
  /\ Default \in Numbers /\ MaxKnobs \in Nat /\ MaxSaves \in Nat
  /\ Eval \in [Values \ {NULL} -> SUBSET Numbers]
  /\ Decimal \in [Numbers -> Values \ {NULL}]
  /\ \A x \in Numbers : Eval[Decimal[x]] = {x}
  /\ Sown \in [Values \ {NULL} -> Values] /\ Seed \in Values \ {NULL}
  /\ Tokens \subseteq Token /\ \A t \in Tokens : t.kind = "file" => t.pattern = FilesName
  /\ \A o \in BOOLEAN, l \in KnobSet :
       Scan[o][l].tokens \in Seq(Tokens) /\ Scan[o][l].open \in BOOLEAN
  /\ \A t \in Tokens : /\ Loads[t] # {} /\ Loads[t] \subseteq Seq(Tokens)
                       /\ \A ts \in Loads[t] : \A i \in DOMAIN ts :
                            ts[i].kind \in Knobs \cup {"wrong"}

\* A hypothesis of the theorems: no name that is looked up has a pattern's
\* special characters, which another name would match, or anything the loader
\* takes for more than a name, or is that of one of the library's own knobs.
NamesArePlain ==
  /\ \A p \in {SeedName, DefinesName, UndefinesName, FilesName}, n \in Names :
       <<p, n>> \notin Match
  /\ \A m, n \in Names : <<m, n>> \in Match <=> m = n
  /\ \A n \in Names, x \in Numbers :
       Line(n, Decimal[x]) \in LeftAlone \cap Contained
-----------------------------------------------------------------------------
Matching(n) == {i \in DOMAIN list : <<list[i].pattern, n>> \in Match}

\* get_string with a null default, and what get_value may answer.
String(n) == IF Matching(n) = {} THEN NULL ELSE list[Max(Matching(n))].value
Dynamic(n) == IF String(n) = NULL THEN {Default} ELSE Eval[String(n)]
Number(n) == IF n \in DOMAIN pinned THEN {pinned[n]} ELSE Dynamic(n)

\* The names whose string is read back: they have none, or one left alone.
Kept == {n \in Names : Matching(n) # {} => list[Max(Matching(n))] \in LeftAlone}

View == [string |-> [n \in Names |-> String(n)], number |-> [n \in Names |-> Number(n)],
         pinned |-> DOMAIN pinned, kept |-> Kept, saves |-> atSave.saves + 1]
-----------------------------------------------------------------------------
\* A process that initialised itself has chosen a seed.
Init ==
  /\ list = <<Line(SeedName, Seed)>>
  /\ pinned = <<>> /\ process = "running"
  /\ file = [exists |-> FALSE, lines |-> <<>>]
  /\ unread = <<>> /\ argState = "START" /\ seeded = TRUE
  /\ atSave = [string |-> [n \in Names |-> NULL], number |-> [n \in Names |-> {}],
               pinned |-> {}, kept |-> {}, saves |-> 0]

Up == process # "loading"

Add(l) ==
  /\ Up /\ Len(list) < MaxKnobs
  /\ list' = Append(list, l) /\ process' = "running"
  /\ UNCHANGED <<pinned, file, atSave>> /\ UNCHANGED loader

SetString(n, v) ==
  /\ Up /\ v # NULL
  /\ \/ Matching(n) # {} /\ list' = [list EXCEPT ![Max(Matching(n))].value = v]
     \/ Matching(n) = {} /\ Len(list) < MaxKnobs /\ list' = Append(list, Line(n, v))
  /\ process' = "running"
  /\ UNCHANGED <<pinned, file, atSave>> /\ UNCHANGED loader

GetValue(n) ==
  /\ Up /\ n \notin DOMAIN pinned
  /\ \E x \in Dynamic(n) :
       pinned' = [m \in DOMAIN pinned \cup {n} |-> IF m = n THEN x ELSE pinned[m]]
  /\ process' = "running"
  /\ UNCHANGED <<list, file, atSave>> /\ UNCHANGED loader

\* The hash table's order is any order.  The fault leaves out the last value.
Orders(names) == {q \in [1 .. Cardinality(names) -> names] : Range(q) = names}
LinesShort(q) == list \o [i \in 1 .. Len(q) - 1 |-> Line(q[i], Decimal[pinned[q[i]]])]
Lines(q) == list \o [i \in DOMAIN q |-> Line(q[i], Decimal[pinned[q[i]]])]

Save ==
  /\ Up /\ atSave.saves < MaxSaves
  /\ \E q \in Orders(DOMAIN pinned) : file' = [exists |-> TRUE, lines |-> Lines(q)]
  /\ atSave' = View
  /\ UNCHANGED <<list, pinned, process>> /\ UNCHANGED loader

\* The file without its comments, as tokens.  A comment may begin in one line and
\* end in another.
Text(ls) ==
  LET upTo[i \in 0 .. Len(ls)] ==
        IF i = 0 THEN [tokens |-> <<>>, open |-> FALSE]
        ELSE LET l == Scan[upTo[i - 1].open][ls[i]]
             IN  [tokens |-> upTo[i - 1].tokens \o l.tokens, open |-> l.open]
  IN  upTo[Len(ls)]

\* The process ends, whenever it likes, and the next one begins.  One comment left
\* open makes the file unreadable as a whole; the client may go on without it.
Restart ==
  /\ file.exists
  /\ pinned' = <<>> /\ list' = <<>> /\ seeded' = FALSE /\ argState' = "START"
  /\ IF Text(file.lines).open
     THEN process' = "running" /\ unread' = <<>>
     ELSE process' = "loading" /\ unread' = Text(file.lines).tokens
  /\ UNCHANGED <<file, atSave>>
-----------------------------------------------------------------------------
(* sknobs_load, of the file: one token a step.                             *)

Due == Head(unread)
Take(kinds, state) ==
  /\ process = "loading" /\ unread # <<>> /\ argState = state /\ Due.kind \in kinds
  /\ UNCHANGED <<pinned, file, atSave>>

\* The list after a token that adds knobs.  Of the seeds only the first counts, and
\* it is written to the last knob that matches, if there is one.
Listed(t) ==
  CASE t.kind = "define" -> Append(list, Line(DefinesName, t.text))
    [] t.kind = "undefine" -> Append(list, Line(UndefinesName, t.text))
    [] OTHER -> list
SeedKnobs == {i \in DOMAIN list : list[i].pattern \in SeedPatterns}
Sows(t) == t.pattern = SeedName /\ ~seeded /\ Sown[t.value] # NULL

\* The fault links the knob in front of the others.
GivenInFront(t) == <<Line(t.pattern, t.value)>> \o Listed(t)
Given(t) ==
  LET ls == Listed(t)
      v == Sown[t.value]
  IN  CASE Sows(t) /\ SeedKnobs # {} -> [ls EXCEPT ![Max(SeedKnobs)].value = v]
        [] Sows(t) /\ SeedKnobs = {} -> Append(ls, Line(SeedName, v))
        [] t.pattern = SeedName /\ ~Sows(t) -> ls
        [] OTHER -> Append(ls, Line(t.pattern, t.value))

AddKnob ==
  /\ Take(Knobs, "START")
  /\ list' = Given(Due) /\ seeded' = (seeded \/ Sows(Due))
  /\ unread' = Tail(unread) /\ UNCHANGED <<process, argState>>

\* -f and -pli wait for the next token, whatever it is.
Await ==
  /\ Take({"-f", "-pli"}, "START")
  /\ argState' = IF Due.kind = "-f" THEN "DASHF" ELSE "IGNORE"
  /\ unread' = Tail(unread) /\ UNCHANGED <<list, process, seeded>>

Ignore ==
  /\ Take(Kinds, "IGNORE") \/ Take({"+"}, "START")
  /\ argState' = "START"
  /\ unread' = Tail(unread) /\ UNCHANGED <<list, process, seeded>>

Include ==
  /\ Take(Kinds, "DASHF")
  /\ \E ts \in Loads[Due] : unread' = ts \o Tail(unread)
  /\ argState' = "START" /\ UNCHANGED <<list, process, seeded>>

\* The rest of the file is not read, and sknobs_init answers 1.  What was defined or
\* undefined has been listed before the name was found to be wrong.
Refuse ==
  /\ Take({"wrong"}, "START")
  /\ \/ list' = list
     \/ \E p \in {DefinesName, UndefinesName} : list' = Append(list, Line(p, Due.text))
  /\ process' = "running" /\ unread' = <<>> /\ UNCHANGED <<argState, seeded>>

\* A last token that waits for another is an error too.
Loaded ==
  /\ process = "loading" /\ unread = <<>>
  /\ process' = IF argState = "START" THEN "restored" ELSE "running"
  /\ argState' = "START"
  /\ UNCHANGED <<list, pinned, file, unread, seeded, atSave>>

Next ==
  \/ \E l \in Added : Add(l)
  \/ \E n \in Names, v \in Assigned : SetString(n, v)
  \/ \E n \in Names : GetValue(n)
  \/ Save
  \/ Restart
  \/ AddKnob \/ Await \/ Ignore \/ Include \/ Refuse \/ Loaded

Spec == Init /\ [][Next]_vars
-----------------------------------------------------------------------------
(* Properties.                                                             *)

\* A file with a seed first and only lines that disturb no other.
Tame(ls) ==
  /\ \A i \in DOMAIN ls : ls[i] \in Contained
  /\ ls # <<>> /\ ls[1].pattern = SeedName
  /\ Sown[Scan[FALSE][ls[1]].tokens[1].value] # NULL

\* What get_value had answered before the save, it answers in every process that
\* is started from the file, and what it had not been asked may still come to
\* the same numbers: provided that no saved value turns into more than a value and
\* plain arguments, and that of a name that has not been asked is left alone
\* (sknobs_save, sknobs_init, sknobs_load).
NumbersSurvive ==
  process = "restored" /\ Tame(file.lines) =>
    \A n \in atSave.kept \cup atSave.pinned : Number(n) = atSave.number[n]

\* A string reads as it did, unless the name has been given a number: other values
\* may be cut short and turn into plain arguments without harm to it.
StringsSurvive ==
  process = "restored" /\ Tame(file.lines) =>
    \A n \in atSave.kept \ atSave.pinned : String(n) = atSave.string[n]
=============================================================================
