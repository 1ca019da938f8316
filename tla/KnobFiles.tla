------------------------------ MODULE KnobFiles ------------------------------
(***************************************************************************)
(* The vocabulary of sknobs_load: the tokens of a command line or a knob   *)
(* file, what each of them adds to the database, and the files on disk.    *)
(* A file is a pair <<directory, name>>; NoDir stands for a name that is   *)
(* opened as it was written.                                               *)
(***************************************************************************)
EXTENDS Integers, Sequences, FiniteSetsExt

CONSTANTS
  Tokens,         \* arguments, after tokenization
  Kind,           \* what sknobs_load takes a token for
  Pattern,        \* +pattern=value: the pattern of a token that starts with +
  Value,          \* and its value, "1" when it has none
  Text,           \* the token itself, or what follows define+ or undefine+
  CommandLines,   \* the argument vectors and strings a program loads
  Alternatives,   \* the names of the list the token is when a file is due
  Patterns, Values,
  Refused,        \* patterns sknobs_add_string rejects: "" or a bad regex
  PathPatterns,   \* patterns that match sknobs.search_path
  DefinesName,    \* "sknobs.defines"
  UndefinesName,  \* "sknobs.undefines"
  FilesName,      \* "sknobs.files"
  FileNames,      \* names that follow -f
  NoDir,
  Existing,       \* the files that stat finds
  Contents,       \* the tokens of those that can be read and uncommented
  MaxArgv         \* MAX_ARGV_SIZE

Kinds == {"-f",        \* the next token is a list of files
          "-f list",   \* a list of files in the same token
          "-pli",      \* the next token is ignored
          "+",         \* a lone plus
          "knob", "define", "undefine", "seed",
          "file"}      \* anything else

Paths == (Values \cup {NoDir}) \X FileNames
Binding == [pattern : Patterns, value : Values]

ASSUME TokensAssumption ==
  /\ Kind \in [Tokens -> Kinds]
  /\ Pattern \in [Tokens -> Patterns]
  /\ Value \in [Tokens -> Values]
  /\ Text \in [Tokens -> Values]
  /\ CommandLines \subseteq Seq(Tokens)
  /\ Alternatives \in [Tokens -> Seq(FileNames) \ {<<>>}]
  /\ {DefinesName, UndefinesName, FilesName} \subseteq Patterns
  /\ Refused \subseteq Patterns /\ PathPatterns \subseteq Patterns

ASSUME FilesAssumption ==
  /\ Existing \subseteq Paths
  /\ \A p \in DOMAIN Contents : Contents[p] \in Seq(Tokens)
  /\ DOMAIN Contents \subseteq Existing
  /\ MaxArgv \in Nat \ {0}
-----------------------------------------------------------------------------
Bind(p, v) == [pattern |-> p, value |-> v]

\* The knobs sknobs_add_string adds for a token, in order.
Listed(t) ==
  IF Kind[t] = "define" THEN <<Bind(DefinesName, Text[t])>>
  ELSE IF Kind[t] = "undefine" THEN <<Bind(UndefinesName, Text[t])>>
  ELSE <<>>

\* Once the generators are seeded a seed knob is dropped.
Refuses(t) == Kind[t] # "seed" /\ Pattern[t] \in Refused

Given(t) ==
  IF Kind[t] = "seed" \/ Refuses(t) THEN <<>> ELSE <<Bind(Pattern[t], Value[t])>>

AddString(t) == Listed(t) \o Given(t)
AddsKnobs(t) == Kind[t] \in {"knob", "define", "undefine", "seed"}

\* sknobs_load_string needs a slot of argv for the name and for every token.
TooMany(args) == Len(args) + 1 > MaxArgv

(* The statements of args from position at on, when the token there is     *)
(* read in the given state of sknobs_load's loop.                          *)
Statement(op, t) == [op |-> op, token |-> t]

Statements(args, at, state) ==
  LET n == Len(args)
      rest[i \in 1 .. n + 2] ==
        IF i > n THEN <<>>
        ELSE LET t == args[i]
                 here(op) == <<Statement(op, t)>> \o rest[i + 1]
             IN  CASE Kind[t] = "-f" ->
                        IF i = n THEN <<Statement("fail", t)>>
                        ELSE <<Statement("include", args[i + 1])>> \o rest[i + 2]
                   [] Kind[t] = "-pli" ->
                        IF i = n THEN <<Statement("fail", t)>> ELSE rest[i + 2]
                   [] Kind[t] = "-f list" -> here("include")
                   [] Kind[t] = "+" -> rest[i + 1]
                   [] Kind[t] = "file" -> here("file")
                   [] AddsKnobs(t) -> here("knob")
  IN  IF state = "START" THEN rest[at]
      ELSE IF at > n THEN <<Statement("fail", args[n])>>
      ELSE IF state = "IGNORE" THEN rest[at + 1]
      ELSE <<Statement("include", args[at])>> \o rest[at + 1]
=============================================================================
