------------------------------- MODULE Sources -------------------------------
(***************************************************************************)
(* What sknobs_init reads, as text: a source is a sequence of statements,  *)
(* and a world is the process environment and the disk a program starts    *)
(* in.  Loader says how one source is tokenized and searched for; here     *)
(* every source is what is left of it after that.                          *)
(***************************************************************************)
EXTENDS Integers, Sequences, FiniteSetsExt

CONSTANTS
  Patterns, Values,
  Seeds,          \* the values that are seeds in range
  Unset,          \* no seed: nobody asked for one, or the generators have none
  SeedName,       \* "seed"
  PathName,       \* "sknobs.search_path"
  SeedPatterns,   \* patterns that match the name "seed"
  FileNames,      \* names that follow -f
  Empty,          \* the empty file name
  Contents,       \* the statements of the files that can be loaded
  Worlds,         \* the environments a program may start in
  CommandLines,   \* the statements of its argv
  EarlyCalls,     \* what a client has the library do, one call each, before
  Calls           \* the library is initialised, and afterwards

(* One statement of a source, or of the library's own:                     *)
(*   knob    +pattern=value          seed    +seed=value                   *)
(*   choose  -f files                fail    anything a load rejects       *)
(*   add     sknobs_add, also of a plain argument                          *)
(*   look    a lookup                set     sknobs_set_seed               *)
(*   string  tokenization, the begin of sknobs_load_string                 *)
(*   dump    sknobs_dump             print   its loop; value says whether  *)
(*                                           it saw a list                 *)
(*   write   sknobs_set_value("seed", value)                               *)
Ops == {"knob", "seed", "choose", "fail", "add", "look", "set", "string",
        "dump", "print", "write"}
Statement ==
  {s \in [op : Ops, pattern : Patterns, value : Values \cup {Unset},
          files : Seq(FileNames)] :
     s.op \in {"knob", "seed", "add", "write"} => s.value \in Values}
Text == Seq(Statement)

\* What a file, a command line or the environment may hold.  A knob named seed is
\* none of these: sknobs_add_string makes it a seed.
IsSource(s) ==
  /\ s.op \in {"knob", "seed", "choose", "fail", "add"}
  /\ s.op \in {"knob", "add"} => s.pattern # SeedName
Source == Seq({s \in Statement : IsSource(s)})

Do(op, v) == [op |-> op, pattern |-> SeedName, value |-> v, files |-> <<>>]
Knob(op, p, v) == [op |-> op, pattern |-> p, value |-> v, files |-> <<>>]
Choose(fs) == [op |-> "choose", pattern |-> SeedName, value |-> Unset, files |-> fs]

World == [
  flavor : {"good", "bad"},      \* SKNOBS_DELIMITER_FLAVOR
  restore : BOOLEAN,             \* sknobs.save exists
  saved : Source,                \* and holds
  path : Seq(Values),            \* from the current directory up to .stopknobs
  SEED : Values \cup {Unset},
  home : Source,                 \* ~/.knobsrc
  knobsrc : Seq(Source),         \* *.knobsrc, from the root down to the current
  environ : Source,              \* the whole environment
  SKNOBS : Source]

\* A call of the client is one function: one that loads, or sknobs_load_string,
\* or one of those that are a single statement.
OneCall(c) ==
  \/ c \in Source
  \/ c # <<>> /\ Head(c).op = "string" /\ Tail(c) \in Source
  \/ /\ c # <<>> /\ Tail(c) = <<>>
     /\ Head(c).op \in {"add", "look", "dump", "set"}
     /\ Head(c).op = "set" => Head(c).value \in Values

ASSUME SourcesAssumption ==
  /\ Seeds \subseteq Values /\ Seeds # {} /\ Unset \notin Values
  /\ DOMAIN Contents \subseteq FileNames
  /\ {SeedName, PathName} \subseteq Patterns /\ SeedPatterns \subseteq Patterns
  /\ SeedName \in SeedPatterns /\ PathName \notin SeedPatterns
  /\ \A f \in DOMAIN Contents : f # Empty /\ Contents[f] \in Source
  /\ Worlds \subseteq World
  /\ \A w \in Worlds : w.knobsrc # <<>>
  /\ CommandLines \subseteq Source /\ Calls \cup EarlyCalls \subseteq Text
  /\ \A c \in Calls \cup EarlyCalls : OneCall(c)

\* The statements that call check_sknobs_init before they do anything.
NeedInit == {"knob", "seed", "fail", "look", "string", "print", "write"}

\* The seed asked for: the last +seed= of the command line, or else SEED.
Asked(w, av) ==
  LET given == {i \in DOMAIN av : av[i].op = "seed"}
  IN  IF given # {} THEN av[Max(given)].value ELSE w.SEED

(* The text of an initialisation: the directories of the search path, the  *)
(* seed and every source, in the order in which they are read.             *)
PathText(w) == [i \in DOMAIN w.path |-> Knob("add", PathName, w.path[i])]
SeedText(w, av) == <<Do("set", Asked(w, av))>>

\* The knobsrc files of a directory and of those below it.
Dirs(w, d) ==
  LET from[i \in 1 .. Len(w.knobsrc) + 1] ==
        IF i > Len(w.knobsrc) THEN <<>> ELSE w.knobsrc[i] \o from[i + 1]
  IN  from[d]

InitText(w, av) ==
  IF w.flavor = "bad" THEN <<>>
  ELSE IF w.restore THEN w.saved
  ELSE PathText(w) \o SeedText(w, av) \o w.home
       \o Dirs(w, 1) \o w.environ \o w.SKNOBS \o av
-----------------------------------------------------------------------------
(* What some of the theorems ask of the clients and the environments.      *)

\* The calls made before the initialisation choose no file.
NoEarlyChoice == \A c \in EarlyCalls : \A i \in DOMAIN c : c[i].op # "choose"

\* Once the library is initialised the client adds no knob named seed itself: those
\* of its sources are seeds.
SeedLeftAlone ==
  \A c \in Calls : \A i \in DOMAIN c : c[i].op = "add" => c[i].pattern # SeedName

\* A text with a seed, and nothing but knobs before it.
SeedAhead(t, v) ==
  \E i \in DOMAIN t : /\ t[i].op = "seed" /\ t[i].value = v
                      /\ \A j \in 1 .. i - 1 : t[j].op \in {"knob", "add"}

\* A saved database has the seed it was made with.
SavedWithSeed == \A w \in Worlds : w.restore => \E v \in Seeds : SeedAhead(w.saved, v)
=============================================================================
