------------------------------ MODULE Expansion ------------------------------
(***************************************************************************)
(* What loading knobs means: -f is textual inclusion.  A command line or a *)
(* file is a sequence of statements, obeyed in reading order; the          *)
(* statements of an included file take the place of the -f that named it.  *)
(* The first statement that cannot be obeyed ends the whole load, and what *)
(* was read before it stays.                                               *)
(***************************************************************************)
EXTENDS KnobFiles

VARIABLES
  todo,     \* the statements still to obey
  knobs,    \* the database: the patterns and values, in order
  outcome   \* of the last load, or "loading"

vars == <<todo, knobs, outcome>>

\* Which file a name stands for: the one in the first directory of the search
\* path that has it, and the name as it is when none has.
Directories == {i \in DOMAIN knobs : knobs[i].pattern \in PathPatterns}
Has(i, n) == <<knobs[i].value, n>> \in Existing
StandsFor(n, p) ==
  \/ \E i \in Directories :
       /\ Has(i, n) /\ p = <<knobs[i].value, n>>
       /\ \A j \in Directories : Has(j, n) => i <= j
  \/ (\A i \in Directories : ~Has(i, n)) /\ p = <<NoDir, n>>
-----------------------------------------------------------------------------
Init == todo = <<>> /\ knobs \in Seq(Binding) /\ outcome = "ok"

Stop(why) == outcome' = why /\ todo' = <<>>

\* The statements of a file take their place before what is left to do.
Insert(p, after) ==
  IF p \notin DOMAIN Contents THEN Stop("error")
  ELSE IF TooMany(Contents[p]) THEN Stop("aborted")
  ELSE todo' = Statements(Contents[p], 1, "START") \o after /\ outcome' = "loading"

Begin ==
  /\ outcome \in {"ok", "error"}
  /\ UNCHANGED knobs
  /\ \/ \E args \in CommandLines :
          todo' = Statements(args, 1, "START") /\ outcome' = "loading"
     \/ \E args \in CommandLines : TooMany(args) /\ Stop("aborted")
     \/ \E p \in Paths : Insert(p, <<>>)
     \/ \E p \in Paths : p \notin Existing /\ Stop("ok")

Obey ==
  /\ outcome = "loading" /\ todo # <<>>
  /\ LET t == Head(todo).token
         after == Tail(todo)
     IN  \/ /\ Head(todo).op = "knob"
            /\ knobs' = knobs \o AddString(t)
            /\ IF Refuses(t) THEN Stop("error") ELSE todo' = after /\ UNCHANGED outcome
         \/ /\ Head(todo).op = "file"
            /\ knobs' = Append(knobs, Bind(FilesName, Text[t]))
            /\ todo' = after
            /\ UNCHANGED outcome
         \/ /\ Head(todo).op = "include"
            /\ \E k \in DOMAIN Alternatives[t], p \in Paths :
                 StandsFor(Alternatives[t][k], p) /\ Insert(p, after)
            /\ UNCHANGED knobs
         \/ Head(todo).op = "fail" /\ Stop("error") /\ UNCHANGED knobs

Finish == outcome = "loading" /\ todo = <<>> /\ Stop("ok") /\ UNCHANGED knobs

Next == Begin \/ Obey \/ Finish

Spec == Init /\ [][Next]_vars
=============================================================================
