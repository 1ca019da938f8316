------------------------------- MODULE Startup -------------------------------
(***************************************************************************)
(* sknobs_init, the generators' seed, and the calls that initialise the    *)
(* library in passing.  A client's call and the initialisation it may      *)
(* trigger are two activations; a statement is one step, except where the  *)
(* code keeps something in a static buffer or a pointer from before        *)
(* check_sknobs_init until after it: a name chosen from a -f list, a seed  *)
(* to be written down, the head of the list to be dumped.                  *)
(***************************************************************************)
EXTENDS Sources

CONSTANT MaxCalls   \* bound: the client makes no more calls that load or draw

VARIABLES
  world,       \* the environment, fixed
  argv,        \* the command line sknobs_init was given
  flag,        \* sknobs_init_flag
  result,      \* sknobs_init_return_value
  phase,       \* where sknobs_init is; "idle" before and after
  dir,         \* directories done in the phases path and dirs
  buffer,      \* what buffer holds: the path "pwd", or something "else"
  evalBuffer,  \* eval_buffer: the names of the last -f list
  list,        \* sknob_list
  gen,         \* seed of the generators (Unset: sknobs_set_seed_flag is 0),
               \* and how many numbers have been drawn
  load,        \* the statements the client's call and init have still to obey
  SKNOBS,      \* SKNOBS in the environment: "whole", or "cut" by strtok
  history      \* what a client can tell; no guard reads it

vars == <<world, argv, flag, result, phase, dir, buffer, evalBuffer, list, gen,
          load, SKNOBS, history>>
library == <<flag, result, phase, dir, buffer, argv, SKNOBS, world>>

(* chosen: the place in eval_buffer of the file name to be loaded next, 0  *)
(* if none; asked: history, the name that stood there when it was chosen.  *)
Activations == [todo : Text, chosen : Nat, asked : FileNames \cup {Empty}]
Levels == {"client", "init"}
Phases == {"idle", "start", "restored", "path", "seed", "home", "walk", "dirs",
           "environ", "SKNOBS", "args", "finish", "crashed"}
NoReply == -1

TypeOK ==
  /\ world \in World /\ argv \in Text
  /\ flag \in BOOLEAN /\ result \in {0, 1} /\ phase \in Phases
  /\ dir \in Nat
  /\ buffer \in {"pwd", "else"}
  /\ evalBuffer \in Seq(FileNames)
  /\ list \in Seq([pattern : Patterns, value : Values])
  /\ gen \in [seed : Seeds \cup {Unset}, n : Nat]
  /\ load \in [Levels -> Activations]
  /\ phase = "idle" => load["init"].todo = <<>> /\ load["init"].chosen = 0
  /\ SKNOBS \in {"whole", "cut"}
-----------------------------------------------------------------------------
Idle == phase = "idle" /\ load["client"].todo = <<>> /\ load["client"].chosen = 0
Level == IF phase = "idle" THEN "client" ELSE "init"
Todo == load[Level].todo
Due == Head(Todo)
Chosen == load[Level].chosen

\* The statement due is one of ops; those that check are begun with flag set.
Reached(ops) ==
  /\ phase # "crashed" /\ Chosen = 0 /\ Todo # <<>> /\ Due.op \in ops
  /\ flag \/ Due.op \notin NeedInit

Becoming(now) == [load EXCEPT ![Level].todo = now \o Tail(Todo)]
Keep == UNCHANGED library

\* sknobs_set_seed_flag: the first seed counts.  The fault takes them all.
TakesAlways(v) == v # Unset => v \in Seeds
Takes(v) == gen.seed = Unset /\ (v # Unset => v \in Seeds)

\* sknobs_find_last("seed") in sknobs_set_value, and what it writes.  The fault
\* writes to the first knob that matches.
Matching == {i \in DOMAIN list : list[i].pattern \in SeedPatterns}
WrittenFirst(v) ==
  IF Matching = {} THEN Append(list, [pattern |-> SeedName, value |-> v])
                   ELSE [list EXCEPT ![Min(Matching)].value = v]
Written(v) ==
  IF Matching = {} THEN Append(list, [pattern |-> SeedName, value |-> v])
                   ELSE [list EXCEPT ![Max(Matching)].value = v]
-----------------------------------------------------------------------------
Quiet == [todo |-> <<>>, chosen |-> 0, asked |-> Empty]

Init ==
  /\ world \in Worlds /\ argv = <<>>
  /\ flag = FALSE /\ result = 0 /\ phase = "idle" /\ dir = 0
  /\ buffer = "else" /\ evalBuffer = <<>> /\ list = <<>>
  /\ gen = [seed |-> Unset, n |-> 0]
  /\ load = [l \in Levels |-> Quiet]
  /\ SKNOBS = "whole"
  /\ history = [calls |-> 0, first |-> NoReply, reply |-> NoReply, late |-> FALSE,
                early |-> Unset, dirs |-> <<>>, drawn |-> <<>>]

\* The client makes a call: any that checks for itself, or does not check.
Call(c) ==
  /\ Idle /\ history.calls < MaxCalls
  /\ load' = [load EXCEPT !["client"].todo = c]
  /\ history' = [history EXCEPT
                   !.calls = @ + 1,
                   !.early = IF /\ gen.seed = Unset /\ c # <<>> /\ Head(c).op = "set"
                                /\ Head(c).value \in Seeds
                             THEN Head(c).value ELSE @]
  /\ UNCHANGED <<evalBuffer, list, gen>> /\ Keep

\* Where sknobs_init knows the delimiters and the seed asked for, if any, is in range.
Usable == world.flavor = "good" /\ Asked(world, argv) \in Seeds \cup {Unset}

\* sknobs_init for the first time: a bad flavor fails before anything is read,
\* and leaves result as it is.
Begin(av) ==
  /\ flag' = TRUE /\ argv' = av
  /\ IF world.flavor = "bad"
     THEN /\ history' = [history EXCEPT !.first = 1, !.reply = 1]
          /\ UNCHANGED phase
     ELSE phase' = "start" /\ UNCHANGED history
  /\ UNCHANGED <<world, result, dir, buffer, evalBuffer, list, gen, load, SKNOBS>>

InitCall(av) == Idle /\ ~flag /\ Begin(av)

\* Again: an error if there are arguments, which are too late, else the stored answer.
InitAgain ==
  /\ Idle /\ flag
  /\ \E args \in BOOLEAN :
       history' = [history EXCEPT !.late = args, !.reply = IF args THEN 1 ELSE result]
  /\ UNCHANGED <<evalBuffer, list, gen, load>> /\ Keep

\* check_sknobs_init inside another call.
LazyInit ==
  /\ phase = "idle" /\ ~flag
  /\ Chosen # 0 \/ (Todo # <<>> /\ Due.op \in NeedInit)
  /\ Begin(<<>>)

\* Faults of Answer: the answer is not stored; sknobs_init does not return.
AnswerUnstored(r) ==
  /\ phase' = "idle" /\ UNCHANGED result
  /\ history' = [history EXCEPT !.first = r, !.reply = r]
AnswerHeldBack(r) ==
  /\ result' = r /\ UNCHANGED phase
  /\ history' = [history EXCEPT !.first = r, !.reply = r]

\* sknobs_init returns.
Answer(r) ==
  /\ result' = r /\ phase' = "idle"
  /\ history' = [history EXCEPT !.first = r, !.reply = r]

Between(p) == phase = p /\ load["init"].todo = <<>> /\ load["init"].chosen = 0
Read(t) == load' = [load EXCEPT !["init"].todo = t]
Rest == <<world, argv, flag, result, list, gen, evalBuffer>>

\* sknobs.save is loaded instead of everything else.
Start ==
  /\ Between("start")
  /\ IF world.restore THEN phase' = "restored" /\ Read(world.saved)
                      ELSE phase' = "path" /\ UNCHANGED load
  /\ dir' = 0 /\ buffer' = IF world.restore THEN buffer ELSE "pwd"
  /\ UNCHANGED <<Rest, SKNOBS, history>>

\* The current directory and those above it become the search path.
AddDirectory ==
  /\ Between("path") /\ dir < Len(world.path)
  /\ list' = Append(list, [pattern |-> PathName, value |-> world.path[dir + 1]])
  /\ dir' = dir + 1
  /\ UNCHANGED <<world, argv, flag, result, phase, buffer, evalBuffer, gen, load,
                 SKNOBS, history>>

PathDone ==
  /\ Between("path") /\ dir = Len(world.path) /\ phase' = "seed"
  /\ UNCHANGED <<Rest, dir, buffer, load, SKNOBS, history>>

\* set_seed_from_string, whose answer is dropped, or set_seed of a random number.
ChooseSeed ==
  /\ Between("seed") /\ phase' = "home"
  /\ Read(<<Do("set", Asked(world, argv))>>)
  /\ UNCHANGED <<Rest, dir, buffer, SKNOBS, history>>

LoadHome ==
  /\ Between("home") /\ phase' = "walk" /\ Read(world.home)
  /\ UNCHANGED <<Rest, dir, buffer, SKNOBS, history>>

\* Fault of BeginWalk: the walk begins below the first directory.
BeginWalkLow ==
  /\ Between("walk") /\ phase' = "dirs" /\ dir' = 1 /\ buffer' = "pwd"
  /\ UNCHANGED <<Rest, load, SKNOBS, history>>

\* The path is copied to buffer once more, to be cut after each directory.
BeginWalk ==
  /\ Between("walk") /\ phase' = "dirs" /\ dir' = 0 /\ buffer' = "pwd"
  /\ UNCHANGED <<Rest, load, SKNOBS, history>>

Enter(d) ==
  /\ Read(world.knobsrc[d])
  /\ history' = [history EXCEPT !.dirs = Append(@, d)]

\* The directories above the current one, from the root down, as buffer has
\* them.  If a seed was printed into it the path that follows names no
\* directory, or ends early.
LoadDirectory ==
  /\ Between("dirs") /\ dir + 1 < Len(world.knobsrc)
  /\ \/ buffer = "pwd" /\ Enter(dir + 1) /\ dir' = dir + 1
     \/ buffer = "else" /\ dir' = dir + 1 /\ UNCHANGED <<load, history>>
     \/ buffer = "else" /\ dir' = Len(world.knobsrc) - 1 /\ UNCHANGED <<load, history>>
  /\ UNCHANGED <<Rest, phase, buffer, SKNOBS>>

LoadCurrent ==
  /\ Between("dirs") /\ dir + 1 = Len(world.knobsrc)
  /\ Enter(dir + 1) /\ dir' = dir + 1 /\ phase' = "environ"
  /\ UNCHANGED <<Rest, buffer, SKNOBS>>

LoadEnvironment ==
  /\ Between("environ") /\ phase' = "SKNOBS" /\ Read(world.environ)
  /\ UNCHANGED <<Rest, dir, buffer, SKNOBS, history>>

\* The variable is copied to buffer, but tokenized where it is.
LoadSKNOBS ==
  /\ Between("SKNOBS") /\ phase' = "args" /\ Read(world.SKNOBS)
  /\ SKNOBS' = IF Len(world.SKNOBS) > 1 THEN "cut" ELSE SKNOBS
  /\ buffer' = IF world.SKNOBS # <<>> THEN "else" ELSE buffer
  /\ UNCHANGED <<Rest, dir, history>>

LoadArguments ==
  /\ Between("args") /\ phase' = "finish" /\ Read(argv)
  /\ UNCHANGED <<Rest, dir, buffer, SKNOBS, history>>

Finish ==
  /\ Between("finish") \/ Between("restored")
  /\ Answer(0)
  /\ UNCHANGED <<world, argv, flag, list, gen, evalBuffer, dir, buffer, load, SKNOBS>>
-----------------------------------------------------------------------------
\* Statements.
AddKnob ==
  /\ Reached({"knob", "add"})
  /\ list' = Append(list, [pattern |-> Due.pattern, value |-> Due.value])
  /\ load' = Becoming(<<>>)
  /\ UNCHANGED <<evalBuffer, gen, history>> /\ Keep

\* sknobs_set_seed, directly or from a string: the generators first.
SetSeed ==
  /\ Reached({"seed", "set"})
  /\ IF Takes(Due.value)
     THEN \E s \in Seeds : /\ Due.value # Unset => s = Due.value
                           /\ gen' = [seed |-> s, n |-> 0]
                           /\ load' = Becoming(<<Do("write", s)>>)
     ELSE UNCHANGED gen /\ load' = Becoming(<<>>)
  /\ UNCHANGED <<evalBuffer, list, history>> /\ Keep

\* and then sknobs_set_value("seed"), which prints into buffer.
WriteSeed ==
  /\ Reached({"write"})
  /\ list' = Written(Due.value) /\ buffer' = "else"
  /\ load' = Becoming(<<>>)
  /\ UNCHANGED <<evalBuffer, gen, history>>
  /\ UNCHANGED <<flag, result, phase, dir, argv, SKNOBS, world>>

Look ==
  /\ Reached({"look"}) /\ load' = Becoming(<<>>)
  /\ UNCHANGED <<evalBuffer, list, gen, history>> /\ Keep

\* strtok with no delimiters: a null pointer is read.
Tokenize ==
  /\ Reached({"string"}) /\ load' = Becoming(<<>>)
  /\ phase' = IF world.flavor = "bad" THEN "crashed" ELSE phase
  /\ UNCHANGED <<evalBuffer, list, gen, history>>
  /\ UNCHANGED <<flag, result, dir, buffer, argv, SKNOBS, world>>

\* sknobs_dump takes the head of the list, and then checks.
Dump ==
  /\ Reached({"dump"})
  /\ load' = Becoming(<<Do("print", IF list = <<>> THEN Unset
                                    ELSE CHOOSE v \in Values : TRUE)>>)
  /\ UNCHANGED <<evalBuffer, list, gen, history>> /\ Keep

PrintKnobs ==
  /\ Reached({"print"}) /\ load' = Becoming(<<>>)
  /\ UNCHANGED <<evalBuffer, list, gen, history>> /\ Keep

\* choose_from_weighted_list: no number is drawn for a single name.
ChooseFile ==
  LET fs == Due.files
      drawn == [gen EXCEPT !.n = @ + 1]
  IN  /\ Reached({"choose"})
      /\ \E i \in DOMAIN fs :
           load' = [load EXCEPT ![Level].chosen = i, ![Level].asked = fs[i],
                                ![Level].todo = Tail(Todo)]
      /\ evalBuffer' = fs
      /\ IF Len(fs) > 1
         THEN gen' = drawn /\ history' = [history EXCEPT !.drawn = Append(@, drawn)]
         ELSE UNCHANGED <<gen, history>>
      /\ UNCHANGED list /\ Keep

\* Faults of Failed: init goes on with the next source; init leaves statements.
FailedOn(l) ==
  load' = [load EXCEPT ![l] = Quiet] /\ UNCHANGED <<result, phase, history>>
FailedHalf(l) ==
  IF l = "init" THEN Answer(1) /\ UNCHANGED load ELSE FailedOn(l)

\* A failure ends the load of its activation; that of init ends init.
Failed(l) ==
  /\ load' = [load EXCEPT ![l] = Quiet]
  /\ IF l = "init" THEN Answer(1) ELSE UNCHANGED <<result, phase, history>>

Fail ==
  /\ Reached({"fail"}) /\ Failed(Level)
  /\ UNCHANGED <<world, argv, flag, dir, buffer, evalBuffer, list, gen, SKNOBS>>

\* find_file and load_file, once the library is initialised: the name is where
\* it was chosen, if nobody has split another list into eval_buffer.
NameAt(i) == IF i \in DOMAIN evalBuffer THEN evalBuffer[i] ELSE Empty

Include ==
  LET f == NameAt(Chosen)
      l == [load EXCEPT ![Level].chosen = 0]
  IN  /\ phase # "crashed" /\ Chosen # 0 /\ flag
      /\ \/ /\ f \in DOMAIN Contents /\ world.flavor = "good"
            /\ load' = [l EXCEPT ![Level].todo = Contents[f] \o Todo]
            /\ UNCHANGED <<phase, result, history>>
         \/ /\ f \in DOMAIN Contents /\ world.flavor = "bad"
            /\ phase' = "crashed" /\ load' = l /\ UNCHANGED <<result, history>>
         \/ /\ f \notin DOMAIN Contents
            /\ Failed(Level)
      /\ UNCHANGED <<world, argv, flag, dir, buffer, evalBuffer, list, gen, SKNOBS>>

\* sknobs_close keeps the flag, the answer, the seed and the iterators.
Close ==
  /\ Idle /\ list' = <<>>
  /\ UNCHANGED <<evalBuffer, gen, load, history>> /\ Keep

Step ==
  \/ LazyInit \/ Start \/ AddDirectory \/ PathDone \/ ChooseSeed \/ LoadHome
  \/ BeginWalk \/ LoadDirectory \/ LoadCurrent \/ LoadEnvironment \/ LoadSKNOBS
  \/ LoadArguments \/ Finish
  \/ AddKnob \/ SetSeed \/ WriteSeed \/ Look \/ Tokenize \/ Dump \/ PrintKnobs
  \/ ChooseFile \/ Fail \/ Include

Next ==
  \/ \E c \in IF flag THEN Calls ELSE EarlyCalls : Call(c)
  \/ \E av \in CommandLines : InitCall(av)
  \/ InitAgain
  \/ Close
  \/ Step

Spec == Init /\ [][Next]_vars

\* Nothing but its own code delays a call.
FairSpec == Spec /\ WF_vars(Step)
-----------------------------------------------------------------------------
(* Properties.                                                             *)

\* The seed a saved database was made with, the first one that counts.
SavedSeed ==
  LET given == {i \in DOMAIN world.saved : world.saved[i].op = "seed"}
  IN  IF given = {} THEN Unset ELSE world.saved[Min(given)].value

Wanted ==
  LET asked == IF world.restore THEN SavedSeed ELSE Asked(world, argv)
  IN  IF history.early # Unset THEN history.early
      ELSE IF asked \in Seeds THEN asked ELSE gen.seed

\* Two runs that ask for the same seed draw the same numbers, whether they ask
\* in the environment, on the command line or in both, and whatever +seed= they
\* come across in files: the k-th draw of a run is the k-th number of the seed it
\* was asked for (the comment in sknobs_set_seed, sknobs.c:682-697).
DrawsAsAsked ==
  Usable => \A k \in DOMAIN history.drawn : history.drawn[k] = [seed |-> Wanted, n |-> k]

\* A run can be repeated with the seed it reports: the knob named seed has the
\* generators' seed, wherever it came from and whatever knobs matched the name
\* before it was written (sknobs_set_seed, sknobs_set_value).
SeedIsReported ==
  Idle /\ gen.seed # Unset /\ Matching # {} =>
    LET last == list[Max(Matching)]
    IN  last.pattern = SeedName => last.value = gen.seed

\* Every later sknobs_init() without arguments answers what the first answered, also
\* if that one was made in passing and its answer dropped, and also after a call
\* with arguments has been answered by an error (sknobs_init_return_value).
AnswerRemembered ==
  world.flavor = "good" =>
    history.reply = IF history.late THEN 1 ELSE history.first

\* An initialisation that succeeds has read the knobsrc files of every directory
\* from the root to the current one, once each, in whatever order (the walk over
\* buffer).
EveryDirectoryRead ==
  Usable /\ history.first = 0 /\ ~world.restore =>
    /\ Len(history.dirs) = Len(world.knobsrc)
    /\ {history.dirs[i] : i \in DOMAIN history.dirs} = DOMAIN world.knobsrc

\* Generators that have been seeded are not seeded again, and go on.
SeedKept == [][gen.seed # Unset => gen'.seed = gen.seed /\ gen'.n >= gen.n]_vars

\* sknobs_init returns.
InitEnds == phase \notin {"idle", "crashed"} ~> phase = "idle"

\* All of it is one text, obeyed once, before whatever needed it first: nothing
\* is skipped, repeated or moved by the flags, buffers and pointers.
Shown(l) ==
  (IF load[l].chosen = 0 THEN <<>> ELSE <<Choose(<<load[l].asked>>)>>) \o load[l].todo

Unread ==
  LET w == world
      environ == w.environ \o w.SKNOBS \o argv
      from(d) == Dirs(w, d) \o environ
  IN  CASE phase = "start" -> InitText(w, argv)
        [] phase = "path" -> SubSeq(PathText(w), dir + 1, Len(w.path))
                             \o SeedText(w, argv) \o w.home \o from(1)
        [] phase = "seed" -> SeedText(w, argv) \o w.home \o from(1)
        [] phase = "home" -> w.home \o from(1)
        [] phase = "walk" -> from(1)
        [] phase = "dirs" -> from(dir + 1)
        [] phase = "environ" -> environ
        [] phase = "SKNOBS" -> w.SKNOBS \o argv
        [] phase = "args" -> argv
        [] OTHER -> <<>>

OneText == INSTANCE SourceText WITH
             ready <- flag, text <- Shown("init") \o Unread, call <- Shown("client"),
             knobs <- list, seed <- gen.seed
ImplementsText ==
  /\ OneText!Init
  /\ [][Usable => [OneText!Next]_(OneText!vars)]_vars
=============================================================================
