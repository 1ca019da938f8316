------------------------------ MODULE SourceText ------------------------------
(***************************************************************************)
(* What initialisation means: all the sources, one after the other, are    *)
(* one text, which is obeyed once, before whatever needed it first.        *)
(* There are no buffers, no flags and no order in which files are opened.  *)
(***************************************************************************)
EXTENDS Sources

VARIABLES
  world,
  ready,   \* the text has been taken up
  text,    \* what is left of it
  call,    \* what is left of the client's call
  knobs,   \* the database
  seed     \* of the generators

vars == <<world, ready, text, call, knobs, seed>>

Init ==
  /\ world \in Worlds /\ ready = FALSE
  /\ text = <<>> /\ call = <<>> /\ knobs = <<>> /\ seed = Unset

Initialise ==
  /\ ~ready /\ ready' = TRUE
  /\ \/ \E av \in CommandLines : call = <<>> /\ text' = InitText(world, av)
     \/ text' = InitText(world, <<>>)
  /\ UNCHANGED <<world, call, knobs, seed>>

Ask ==
  /\ text = <<>> /\ call = <<>>
  /\ call' \in IF ready THEN Calls ELSE EarlyCalls
  /\ UNCHANGED <<world, ready, text, knobs, seed>>

\* The statement that is due, and what takes its place.
Due == IF text # <<>> THEN Head(text) ELSE Head(call)
Become(now) ==
  IF text # <<>> THEN text' = now \o Tail(text) /\ UNCHANGED call
                 ELSE call' = now \o Tail(call) /\ UNCHANGED text
GiveUp ==
  IF text # <<>> THEN text' = <<>> /\ UNCHANGED call
                 ELSE call' = <<>> /\ UNCHANGED text

\* A value is written to the last knob that matches, or added.
Matching == {i \in DOMAIN knobs : knobs[i].pattern \in SeedPatterns}
Write(v) ==
  IF Matching = {} THEN Append(knobs, [pattern |-> SeedName, value |-> v])
                   ELSE [knobs EXCEPT ![Max(Matching)].value = v]

\* The first seed counts; with none asked for, any is as good.
TakeSeed(v) ==
  /\ UNCHANGED knobs
  /\ IF seed # Unset \/ (v # Unset /\ v \notin Seeds)
     THEN Become(<<>>) /\ UNCHANGED seed
     ELSE \E s \in Seeds : /\ (v # Unset => s = v)
                           /\ seed' = s
                           /\ Become(<<Do("write", s)>>)

Obey ==
  /\ text \o call # <<>> /\ (ready \/ Due.op \notin NeedInit)
  /\ UNCHANGED <<world, ready>>
  /\ \/ /\ Due.op \in {"knob", "add"} /\ Become(<<>>)
        /\ knobs' = Append(knobs, [pattern |-> Due.pattern, value |-> Due.value])
        /\ UNCHANGED seed
     \/ Due.op \in {"seed", "set"} /\ TakeSeed(Due.value)
     \/ Due.op = "write" /\ knobs' = Write(Due.value) /\ Become(<<>>) /\ UNCHANGED seed
     \/ /\ Due.op \in {"look", "string", "print"} /\ Become(<<>>)
        /\ UNCHANGED <<knobs, seed>>
     \/ /\ Due.op = "dump" /\ \E v \in Values \cup {Unset} : Become(<<Do("print", v)>>)
        /\ UNCHANGED <<knobs, seed>>
     \/ Due.op = "fail" /\ GiveUp /\ UNCHANGED <<knobs, seed>>
     \* A list comes down to one of its files, and that to what is in it.
     \/ /\ Due.op = "choose" /\ UNCHANGED <<knobs, seed>>
        /\ \/ \E i \in DOMAIN Due.files : Become(<<Choose(<<Due.files[i]>>)>>)
           \/ /\ ready /\ Len(Due.files) = 1
              /\ IF Due.files[1] \in DOMAIN Contents
                 THEN Become(Contents[Due.files[1]]) ELSE GiveUp

Close ==
  /\ text = <<>> /\ call = <<>> /\ knobs' = <<>>
  /\ UNCHANGED <<world, ready, text, call, seed>>

Next == Initialise \/ Ask \/ Obey \/ Close
Spec == Init /\ [][Next]_vars
=============================================================================
