---------------------------- MODULE StartupProofs ----------------------------
(***************************************************************************)
(* The start of the library for every environment, command line and client *)
(* of the model, and any text.  The generators are seeded once, with the   *)
(* seed asked for, and draw its numbers; the answer is remembered, every   *)
(* directory is read and the file chosen is the file loaded; and all that  *)
(* is read is one text, obeyed in its order.                               *)
(***************************************************************************)
EXTENDS Startup, Extrema, SequenceTheorems, TLAPS

(* The generators.                                                         *)

Generators == [seed : Seeds \cup {Unset}, n : Nat]
GeneratorsOK == gen \in Generators

\* The statements that do not touch the generators, and everything else.
LEMMA GeneratorSteps ==
  ASSUME [Next]_vars
  PROVE  SetSeed \/ ChooseFile \/ gen' = gen
BY DEF Next, Step, vars, Rest, Call, InitCall, InitAgain, Begin, LazyInit, Start,
   AddDirectory, PathDone, ChooseSeed, LoadHome, BeginWalk, LoadDirectory, LoadCurrent,
   LoadEnvironment, LoadSKNOBS, LoadArguments, Finish, AddKnob, WriteSeed, Look, Tokenize,
   Dump, PrintKnobs, Fail, Include, Close

\* sknobs_set_seed leaves seeded generators alone.
LEMMA SetSeedOnce ==
  ASSUME gen \in Generators, SetSeed
  PROVE  gen' \in Generators /\ (gen.seed # Unset => gen' = gen)
<1>1. CASE Takes(Due.value)
  <2>1. gen.seed = Unset
    BY <1>1 DEF Takes
  <2>2. \E s \in Seeds : gen' = [seed |-> s, n |-> 0]
    BY <1>1 DEF SetSeed
  <2> QED
    BY <2>1, <2>2 DEF Generators
<1>2. CASE ~Takes(Due.value)
  BY <1>2 DEF SetSeed
<1> QED
  BY <1>1, <1>2

\* A choice draws one number or none.
LEMMA ChoiceDraws ==
  ASSUME gen \in Generators, ChooseFile
  PROVE  gen' = gen \/ gen' = [gen EXCEPT !.n = gen.n + 1]
BY DEF ChooseFile

LEMMA GeneratorStep ==
  ASSUME gen \in Generators, [Next]_vars
  PROVE  /\ gen' \in Generators
         /\ gen.seed # Unset => gen'.seed = gen.seed /\ gen'.n >= gen.n
<1>1. CASE SetSeed
  BY <1>1, SetSeedOnce DEF Generators
<1>2. CASE ChooseFile
  BY <1>2, ChoiceDraws DEF Generators
<1>3. CASE gen' = gen
  BY <1>3 DEF Generators
<1> QED
  BY <1>1, <1>2, <1>3, GeneratorSteps

\* No source, call or restart of the load seeds the generators a second time, or
\* takes a drawn number back.
THEOREM GeneratorsAreSeededOnce == Spec => SeedKept
<1>1. Init => GeneratorsOK
  BY DEF Init, GeneratorsOK, Generators
<1>2. GeneratorsOK /\ [Next]_vars => GeneratorsOK'
  BY GeneratorStep DEF GeneratorsOK
<1>3. GeneratorsOK /\ [Next]_vars =>
        [gen.seed # Unset => gen'.seed = gen.seed /\ gen'.n >= gen.n]_vars
  BY GeneratorStep DEF GeneratorsOK
<1> QED
  BY <1>1, <1>2, <1>3, PTL DEF Spec, SeedKept
-----------------------------------------------------------------------------
(* The stored answer.                                                      *)

\* Between two calls the stored answer is the one the client was given, and only then
\* is it asked for it again.
AnswerStored ==
  /\ {"first", "reply", "late"} \subseteq DOMAIN history
  /\ world.flavor = "good" =>
       /\ history.reply = IF history.late THEN 1 ELSE history.first
       /\ flag /\ phase = "idle" => history.first = result
       /\ history.late # FALSE => flag /\ phase = "idle"

\* The steps that record nothing a client is told by sknobs_init, and do not end
\* an initialisation.
TellsNothing ==
  /\ DOMAIN history' = DOMAIN history /\ history'.late = history.late
  /\ history'.first = history.first /\ history'.reply = history.reply
  /\ UNCHANGED <<world, flag, result>>
  /\ phase' = "idle" => phase = "idle"
  /\ world.flavor = "good" /\ phase = "idle" => phase' = "idle"

\* Those that end one.
Ends ==
  /\ phase # "idle" /\ DOMAIN history' = DOMAIN history /\ UNCHANGED world
  /\ {"first", "reply", "late"} \subseteq DOMAIN history =>
       history'.first = result' /\ history'.reply = result' /\ history'.late = history.late

LEMMA AnswerEnds ==
  ASSUME NEW r, Answer(r), phase # "idle", UNCHANGED world
  PROVE  Ends
BY DEF Answer, Ends

\* An initialisation begins with all that flavor allows.
LEMMA BeginAnswers ==
  ASSUME NEW av, ~flag, Begin(av), AnswerStored
  PROVE  AnswerStored'
<1>1. CASE world.flavor = "good"
  <2>1. phase' = "start" /\ UNCHANGED <<history, world>>
    BY <1>1 DEF Begin
  <2>2. history.late = FALSE
    BY <1>1 DEF AnswerStored
  <2> QED
    BY <1>1, <2>1, <2>2 DEF AnswerStored
<1>2. CASE world.flavor # "good"
  <2>1. UNCHANGED world /\ DOMAIN history' = DOMAIN history
    BY DEF Begin
  <2> QED
    BY <1>2, <2>1 DEF AnswerStored
<1> QED
  BY <1>1, <1>2

LEMMA TellingNothingKeeps ==
  ASSUME TellsNothing, AnswerStored
  PROVE  AnswerStored'
BY DEF TellsNothing, AnswerStored

LEMMA EndingStores ==
  ASSUME Ends, AnswerStored
  PROVE  AnswerStored'
BY DEF Ends, AnswerStored

\* The phases of sknobs_init, until it returns.
LEMMA PhasesTellNothing ==
  ASSUME {"first", "reply", "late"} \subseteq DOMAIN history,
         \/ Start \/ AddDirectory \/ PathDone \/ ChooseSeed \/ LoadHome \/ BeginWalk
         \/ LoadDirectory \/ LoadCurrent \/ LoadEnvironment \/ LoadSKNOBS \/ LoadArguments
  PROVE  TellsNothing
<1> USE DEF TellsNothing, Rest, Between, Enter
<1>1. CASE Start \/ AddDirectory \/ PathDone \/ ChooseSeed
  BY <1>1 DEF Start, AddDirectory, PathDone, ChooseSeed
<1>2. CASE LoadHome \/ BeginWalk
  BY <1>2 DEF LoadHome, BeginWalk
<1>3. CASE LoadDirectory
  <2>1. phase = "dirs" /\ UNCHANGED <<world, flag, result, phase>>
    BY <1>3 DEF LoadDirectory
  <2>2. UNCHANGED history \/ \E d : history' = [history EXCEPT !.dirs = Append(@, d)]
    BY <1>3 DEF LoadDirectory
  <2> QED
    BY <2>1, <2>2
<1>4. CASE LoadCurrent
  BY <1>4 DEF LoadCurrent
<1>5. CASE LoadEnvironment \/ LoadSKNOBS \/ LoadArguments
  BY <1>5 DEF LoadEnvironment, LoadSKNOBS, LoadArguments
<1> QED
  BY <1>1, <1>2, <1>3, <1>4, <1>5

\* The statements that do not end a load.
LEMMA StatementsTellNothing ==
  ASSUME {"first", "reply", "late"} \subseteq DOMAIN history,
         \/ AddKnob \/ SetSeed \/ WriteSeed \/ Look \/ Tokenize \/ Dump \/ PrintKnobs
         \/ ChooseFile \/ Close \/ \E c : Call(c)
  PROVE  TellsNothing
<1> USE DEF TellsNothing, Keep, library
<1>1. CASE AddKnob \/ SetSeed \/ WriteSeed \/ Look
  BY <1>1 DEF AddKnob, SetSeed, WriteSeed, Look
<1>2. CASE Tokenize \/ Dump \/ PrintKnobs \/ Close
  BY <1>2 DEF Tokenize, Dump, PrintKnobs, Close
<1>3. CASE ChooseFile
  <2>1. UNCHANGED library
    BY <1>3 DEF ChooseFile
  <2>2. UNCHANGED history \/ \E d : history' = [history EXCEPT !.drawn = d]
    BY <1>3 DEF ChooseFile
  <2> QED
    BY <2>1, <2>2
<1>4. ASSUME NEW c, Call(c) PROVE TellsNothing
  <2>1. UNCHANGED library
    BY <1>4 DEF Call
  <2>2. \E n, e : history' = [history EXCEPT !.calls = n, !.early = e]
    BY <1>4 DEF Call
  <2> QED
    BY <2>1, <2>2
<1> QED
  BY <1>1, <1>2, <1>3, <1>4

\* A load that fails ends init, if it was init that loaded.
LEMMA FailedAnswers ==
  ASSUME Failed(Level), phase # "crashed", UNCHANGED <<world, flag>>, AnswerStored
  PROVE  AnswerStored'
<1>1. CASE Level = "init"
  <2>1. Answer(1) /\ UNCHANGED world /\ phase # "idle"
    BY <1>1 DEF Failed, Level
  <2> QED
    BY <2>1, AnswerEnds, EndingStores
<1>2. CASE Level # "init"
  <2>1. TellsNothing
    BY <1>2 DEF Failed, TellsNothing
  <2> QED
    BY <2>1, TellingNothingKeeps
<1> QED
  BY <1>1, <1>2

LEMMA FailAnswers ==
  ASSUME Fail, AnswerStored
  PROVE  AnswerStored'
BY FailedAnswers DEF Fail, Reached

LEMMA IncludeAnswers ==
  ASSUME Include, AnswerStored
  PROVE  AnswerStored'
<1>1. UNCHANGED <<world, flag>> /\ phase # "crashed"
  BY DEF Include
<1>2. \/ UNCHANGED <<history, phase, result>>
      \/ world.flavor = "bad" /\ history' = history
      \/ Failed(Level)
  BY DEF Include
<1>3. CASE UNCHANGED <<history, phase, result>>
  BY <1>1, <1>3 DEF AnswerStored
<1>4. CASE world.flavor = "bad" /\ history' = history
  BY <1>1, <1>4 DEF AnswerStored
<1>5. CASE Failed(Level)
  BY <1>1, <1>5, FailedAnswers
<1> QED
  BY <1>2, <1>3, <1>4, <1>5

LEMMA NextStores == AnswerStored /\ [Next]_vars => AnswerStored'
<1> SUFFICES ASSUME AnswerStored, [Next]_vars PROVE AnswerStored'
  OBVIOUS
<1>1. ASSUME (\E av \in CommandLines : InitCall(av)) \/ LazyInit
      PROVE  AnswerStored'
  <2>1. PICK av : Begin(av) /\ ~flag
    BY <1>1 DEF InitCall, LazyInit
  <2> QED
    BY <2>1, BeginAnswers
<1>2. ASSUME InitAgain
      PROVE  AnswerStored'
  <2>1. /\ flag /\ phase = "idle" /\ UNCHANGED <<flag, phase, result, world>>
        /\ \E args \in BOOLEAN :
             history' = [history EXCEPT !.late = args, !.reply = IF args THEN 1 ELSE result]
    BY <1>2 DEF InitAgain, Idle, Keep, library
  <2>2. PICK args \in BOOLEAN :
             history' = [history EXCEPT !.late = args, !.reply = IF args THEN 1 ELSE result]
    BY <2>1
  <2>3. /\ DOMAIN history' = DOMAIN history /\ history'.late = args
        /\ history'.reply = (IF args THEN 1 ELSE result) /\ history'.first = history.first
    BY <2>2 DEF AnswerStored
  <2> QED
    BY <2>1, <2>3 DEF AnswerStored
<1>3. ASSUME Finish
      PROVE  AnswerStored'
  <2>1. Answer(0) /\ UNCHANGED world /\ phase # "idle"
    BY <1>3 DEF Finish, Between
  <2> QED
    BY <2>1, AnswerEnds, EndingStores
<1>4. ASSUME \/ Start \/ AddDirectory \/ PathDone \/ ChooseSeed \/ LoadHome \/ BeginWalk
             \/ LoadDirectory \/ LoadCurrent \/ LoadEnvironment \/ LoadSKNOBS \/ LoadArguments
      PROVE  AnswerStored'
  BY <1>4, PhasesTellNothing, TellingNothingKeeps DEF AnswerStored
<1>5. ASSUME \/ AddKnob \/ SetSeed \/ WriteSeed \/ Look \/ Tokenize \/ Dump \/ PrintKnobs
             \/ ChooseFile \/ Close \/ \E c \in IF flag THEN Calls ELSE EarlyCalls : Call(c)
      PROVE  AnswerStored'
  BY <1>5, StatementsTellNothing, TellingNothingKeeps DEF AnswerStored
<1>6. CASE UNCHANGED vars
  BY <1>6 DEF vars, AnswerStored
<1> QED
  BY <1>1, <1>2, <1>3, <1>4, <1>5, <1>6, FailAnswers, IncludeAnswers DEF Next, Step

\* sknobs_init answers every call without arguments like the first, the one made in
\* passing included, and a late one with arguments by an error, where it knows the
\* delimiters.
THEOREM AnswersAreRemembered == Spec => []AnswerRemembered
<1>1. Init => AnswerStored
  BY SourcesAssumption DEF Init, AnswerStored
<1>2. AnswerStored => AnswerRemembered
  BY DEF AnswerStored, AnswerRemembered
<1> QED
  BY <1>1, <1>2, NextStores, PTL DEF Spec
-----------------------------------------------------------------------------
(* Types.                                                                  *)

LEMMA StatementsTyped ==
  /\ Source \subseteq Text
  /\ \A v \in Values \cup {Unset} : \A op \in Ops \ {"knob", "seed", "add", "write"} :
       Do(op, v) \in Statement
  /\ \A v \in Values : Do("write", v) \in Statement
  /\ \A s \in Statement : /\ s.pattern \in Patterns /\ s.value \in Values \cup {Unset}
                          /\ s.files \in Seq(FileNames)
                          /\ s.op \in {"knob", "seed", "add", "write"} => s.value \in Values
<1> USE SourcesAssumption DEF Statement, Ops, Do
<1>1. {s \in Statement : IsSource(s)} \subseteq Statement
  OBVIOUS
<1>2. Source \subseteq Text
  BY <1>1 DEF Source, Text
<1> QED
  BY <1>2

\* What a statement that is due leaves: the activation it belongs to goes on with
\* another text.
LEMMA DueTyped ==
  ASSUME TypeOK, Todo # <<>>
  PROVE  Due \in Statement /\ Tail(Todo) \in Text /\ Todo \in Text
<1>1. Level \in Levels
  BY DEF Level, Levels
<1>2. Todo \in Text
  BY <1>1 DEF TypeOK, Activations, Todo
<1> QED
  BY <1>2 DEF Text, Due

LEMMA LoadTyped ==
  ASSUME NEW l \in Levels, NEW t \in Text, load \in [Levels -> Activations],
         load' = [load EXCEPT ![l].todo = t]
  PROVE  load' \in [Levels -> Activations]
BY DEF Activations

\* An activation that is not init's leaves init's alone.
LEMMA IdleKept ==
  ASSUME TypeOK, UNCHANGED phase, NEW a, load' = [load EXCEPT ![Level] = a]
  PROVE  phase' = "idle" => load'["init"].todo = <<>> /\ load'["init"].chosen = 0
BY DEF TypeOK, Level, Levels

LEMMA BecomingTyped ==
  ASSUME TypeOK, Todo # <<>>, NEW now \in Text, load' = Becoming(now), UNCHANGED phase
  PROVE  /\ load' \in [Levels -> Activations]
         /\ phase' = "idle" => load'["init"].todo = <<>> /\ load'["init"].chosen = 0
<1>1. Tail(Todo) \in Text
  BY DueTyped
<1>2. now \o Tail(Todo) \in Text
  BY <1>1 DEF Text
<1>3. Level \in Levels /\ load \in [Levels -> Activations]
  BY DEF TypeOK, Level, Levels
<1>4. load' = [load EXCEPT ![Level].todo = now \o Tail(Todo)]
  BY DEF Becoming
<1>5. load' \in [Levels -> Activations]
  BY <1>2, <1>3, <1>4, LoadTyped
<1> QED
  BY <1>4, <1>5, IdleKept

KnobSet == [pattern : Patterns, value : Values]

LEMMA WrittenTyped ==
  ASSUME TypeOK, NEW v \in Values
  PROVE  Written(v) \in Seq(KnobSet)
<1>1. list \in Seq(KnobSet) /\ SeedName \in Patterns
  BY SourcesAssumption DEF TypeOK, KnobSet
<1>2. CASE Matching = {}
  <2>1. [pattern |-> SeedName, value |-> v] \in KnobSet
    BY <1>1 DEF KnobSet
  <2> QED
    BY <1>1, <1>2, <2>1 DEF Written
<1>3. CASE Matching # {}
  <2>1. Matching \subseteq 1 .. Len(list) /\ Len(list) \in Nat
    BY <1>1 DEF Matching
  <2>2. Max(Matching) \in Matching
    BY <1>3, <2>1, MaxOfPositions
  <2>3. PICK m \in 1 .. Len(list) : Written(v) = [list EXCEPT ![m].value = v]
    BY <1>3, <2>1, <2>2 DEF Written
  <2>4. list[m] \in KnobSet
    BY <1>1
  <2>5. [list[m] EXCEPT !.value = v] \in KnobSet
    BY <2>4 DEF KnobSet
  <2> QED
    BY <1>1, <2>3, <2>5
<1> QED
  BY <1>2, <1>3

\* A source that is taken up.
LEMMA ReadTyped ==
  ASSUME TypeOK, NEW t \in Text, Read(t)
  PROVE  load' \in [Levels -> Activations]
<1>1. load' = [load EXCEPT !["init"].todo = t] /\ "init" \in Levels
  BY DEF Read, Levels
<1> QED
  BY <1>1, LoadTyped DEF TypeOK

\* The seed asked for is a value, if there is one.
LEMMA AskedTyped ==
  ASSUME NEW w, NEW av \in Text, w.SEED \in Values \cup {Unset}
  PROVE  Asked(w, av) \in Values \cup {Unset}
<1> DEFINE given == {i \in DOMAIN av : av[i].op = "seed"}
<1>1. given \subseteq 1 .. Len(av) /\ Len(av) \in Nat
  BY DEF Text
<1>2. given # {} => Max(given) \in given
  <2> HIDE DEF given
  <2> QED
    BY <1>1, MaxOfPositions
<1>3. ASSUME given # {} PROVE av[Max(given)].value \in Values
  <2>1. av[Max(given)] \in Statement
    BY <1>1, <1>2, <1>3 DEF Text
  <2> QED
    BY <1>2, <1>3, <2>1, StatementsTyped
<1>4. Asked(w, av) = IF given # {} THEN av[Max(given)].value ELSE w.SEED
  BY DEF Asked
<1> QED
  BY <1>3, <1>4

LEMMA WorldTyped ==
  ASSUME TypeOK
  PROVE  /\ {world.saved, world.home, world.environ, world.SKNOBS, argv} \subseteq Text
         /\ \A d \in 1 .. Len(world.knobsrc) : world.knobsrc[d] \in Text
         /\ world.path \in Seq(Values) /\ world.knobsrc \in Seq(Source)
         /\ Asked(world, argv) \in Values \cup {Unset}
<1>1. /\ {world.saved, world.home, world.environ, world.SKNOBS} \subseteq Source
      /\ world.path \in Seq(Values) /\ world.knobsrc \in Seq(Source)
      /\ world.SEED \in Values \cup {Unset}
  BY DEF TypeOK, World
<1>2. argv \in Text
  BY DEF TypeOK
<1>3. \A d \in 1 .. Len(world.knobsrc) : world.knobsrc[d] \in Source
  BY <1>1
<1>4. Asked(world, argv) \in Values \cup {Unset}
  BY <1>1, <1>2, AskedTyped
<1> QED
  BY <1>1, <1>2, <1>3, <1>4, StatementsTyped

LEMMA PhasesTyped ==
  ASSUME TypeOK,
         \/ Start \/ AddDirectory \/ PathDone \/ ChooseSeed \/ LoadHome \/ BeginWalk
         \/ LoadDirectory \/ LoadCurrent \/ LoadEnvironment \/ LoadSKNOBS \/ LoadArguments
  PROVE  TypeOK'
<1> USE DEF Rest, Between
<1>1. CASE Start
  <2>1. load' \in [Levels -> Activations]
    BY <1>1, WorldTyped, ReadTyped DEF Start, TypeOK
  <2> QED
    BY <1>1, <2>1 DEF Start, TypeOK, Phases
<1>2. CASE AddDirectory
  <2>1. [pattern |-> PathName, value |-> world.path[dir + 1]] \in KnobSet
    BY <1>2, WorldTyped, SourcesAssumption DEF AddDirectory, TypeOK, KnobSet
  <2>2. list' \in Seq(KnobSet) /\ dir' \in Nat
    BY <1>2, <2>1 DEF AddDirectory, TypeOK, KnobSet
  <2> QED
    BY <1>2, <2>2 DEF AddDirectory, TypeOK, KnobSet
<1>3. CASE PathDone \/ BeginWalk
  BY <1>3 DEF PathDone, BeginWalk, TypeOK, Phases
<1>4. CASE ChooseSeed
  <2>0. Do("set", Asked(world, argv)) \in Statement
    BY WorldTyped, StatementsTyped DEF Ops
  <2>1. <<Do("set", Asked(world, argv))>> \in Text
    BY <2>0 DEF Text
  <2>2. load' \in [Levels -> Activations]
    BY <1>4, <2>1, ReadTyped DEF ChooseSeed
  <2> QED
    BY <1>4, <2>2 DEF ChooseSeed, TypeOK, Phases
<1>5. CASE LoadHome \/ LoadEnvironment \/ LoadSKNOBS \/ LoadArguments
  <2>1. load' \in [Levels -> Activations]
    BY <1>5, WorldTyped, ReadTyped DEF LoadHome, LoadEnvironment, LoadSKNOBS, LoadArguments
  <2> QED
    BY <1>5, <2>1 DEF LoadHome, LoadEnvironment, LoadSKNOBS, LoadArguments, TypeOK, Phases
<1>6. CASE LoadDirectory \/ LoadCurrent
  <2>1. Len(world.knobsrc) \in Nat
    BY WorldTyped
  <2>2. load' \in [Levels -> Activations] /\ dir' \in Nat
    BY <1>6, <2>1, WorldTyped, ReadTyped DEF LoadDirectory, LoadCurrent, Enter, TypeOK
  <2> QED
    BY <1>6, <2>2 DEF LoadDirectory, LoadCurrent, TypeOK, Phases
<1> QED
  BY <1>1, <1>2, <1>3, <1>4, <1>5, <1>6

\* A statement that has been obeyed, and what is left of its text.
LEMMA StatementsTypedStep ==
  ASSUME TypeOK,
         \/ AddKnob \/ SetSeed \/ WriteSeed \/ Look \/ Tokenize \/ Dump \/ PrintKnobs
  PROVE  TypeOK'
<1> USE DEF Keep, library
<1>0. <<>> \in Text
  BY DEF Text
<1>1. CASE AddKnob
  <2>1. Todo # <<>> /\ Due.op \in {"knob", "add"} /\ UNCHANGED phase /\ load' = Becoming(<<>>)
    BY <1>1 DEF AddKnob, Reached
  <2>2. [pattern |-> Due.pattern, value |-> Due.value] \in KnobSet
    BY <2>1, DueTyped, StatementsTyped DEF KnobSet
  <2>3. list' \in Seq(KnobSet)
    BY <1>1, <2>2 DEF AddKnob, TypeOK, KnobSet
  <2> QED
    BY <1>0, <1>1, <2>1, <2>3, BecomingTyped DEF AddKnob, TypeOK, KnobSet
<1>2. CASE SetSeed
  <2>1. Todo # <<>> /\ UNCHANGED phase
    BY <1>2 DEF SetSeed, Reached
  <2>2. \A s \in Seeds : <<Do("write", s)>> \in Text
    BY StatementsTyped, SourcesAssumption DEF Text
  <2>3. CASE ~Takes(Due.value)
    BY <1>0, <1>2, <2>1, <2>3, BecomingTyped DEF SetSeed, TypeOK
  <2>4. CASE Takes(Due.value)
    <3>1. PICK s \in Seeds : gen' = [seed |-> s, n |-> 0] /\ load' = Becoming(<<Do("write", s)>>)
      BY <1>2, <2>4 DEF SetSeed
    <3>2. gen' \in [seed : Seeds \cup {Unset}, n : Nat]
      BY <3>1
    <3> QED
      BY <1>2, <2>1, <2>2, <3>1, <3>2, BecomingTyped DEF SetSeed, TypeOK
  <2> QED
    BY <2>3, <2>4
<1>3. CASE WriteSeed
  <2>1. Todo # <<>> /\ Due.op = "write" /\ UNCHANGED phase /\ load' = Becoming(<<>>)
    BY <1>3 DEF WriteSeed, Reached
  <2>2. Due.value \in Values
    BY <2>1, DueTyped, StatementsTyped
  <2>3. list' \in Seq(KnobSet)
    BY <1>3, <2>2, WrittenTyped DEF WriteSeed
  <2> QED
    BY <1>0, <1>3, <2>1, <2>3, BecomingTyped DEF WriteSeed, TypeOK, KnobSet
<1>4. CASE Look \/ PrintKnobs
  <2>1. Todo # <<>> /\ UNCHANGED phase /\ load' = Becoming(<<>>)
    BY <1>4 DEF Look, PrintKnobs, Reached
  <2> QED
    BY <1>0, <1>4, <2>1, BecomingTyped DEF Look, PrintKnobs, TypeOK
<1>5. CASE Dump
  <2>1. (CHOOSE v \in Values : TRUE) \in Values
    BY SourcesAssumption
  <2>2. \A v \in Values \cup {Unset} : <<Do("print", v)>> \in Text
    BY StatementsTyped DEF Text, Ops
  <2>3. Todo # <<>> /\ UNCHANGED phase /\ \E now \in Text : load' = Becoming(now)
    BY <1>5, <2>1, <2>2 DEF Dump, Reached
  <2> QED
    BY <1>5, <2>3, BecomingTyped DEF Dump, TypeOK
<1>6. CASE Tokenize
  <2>1. Todo # <<>> /\ load' = Becoming(<<>>) /\ phase' \in {phase, "crashed"}
    BY <1>6 DEF Tokenize, Reached
  <2>2. CASE phase' = phase
    BY <1>0, <1>6, <2>1, <2>2, BecomingTyped DEF Tokenize, TypeOK
  <2>3. CASE phase' = "crashed"
    <3>1. <<>> \o Tail(Todo) \in Text
      BY <2>1, DueTyped DEF Text
    <3>2. Level \in Levels /\ load' = [load EXCEPT ![Level].todo = <<>> \o Tail(Todo)]
      BY <2>1 DEF Level, Levels, Becoming
    <3>3. load' \in [Levels -> Activations]
      BY <3>1, <3>2, LoadTyped DEF TypeOK
    <3> QED
      BY <1>6, <2>3, <3>3 DEF Tokenize, TypeOK, Phases
  <2> QED
    BY <2>1, <2>2, <2>3
<1> QED
  BY <1>1, <1>2, <1>3, <1>4, <1>5, <1>6

LEMMA QuietTyped == Quiet \in Activations
BY DEF Quiet, Activations, Text

LEMMA LoadsTyped ==
  ASSUME TypeOK, ChooseFile \/ Fail \/ Include
  PROVE  TypeOK'
<1>0. Level \in Levels /\ load \in [Levels -> Activations] /\ "init" \in Levels
  BY DEF Level, Levels, TypeOK
<1>1. CASE ChooseFile
  <2>1. /\ Todo # <<>> /\ Due.op = "choose"
    BY <1>1 DEF ChooseFile, Reached
  <2>2. Due.files \in Seq(FileNames) /\ Tail(Todo) \in Text
    BY <2>1, DueTyped, StatementsTyped
  <2>3. PICK i \in DOMAIN Due.files :
          load' = [load EXCEPT ![Level].chosen = i, ![Level].asked = Due.files[i],
                               ![Level].todo = Tail(Todo)]
    BY <1>1 DEF ChooseFile
  <2>4. i \in Nat /\ Due.files[i] \in FileNames
    BY <2>2
  <2>5. load' \in [Levels -> Activations]
    BY <1>0, <2>2, <2>3, <2>4 DEF Activations
  <2>6. phase = "idle" => load'["init"] = load["init"]
    BY <1>0, <2>3 DEF Level
  <2>7. gen' \in [seed : Seeds \cup {Unset}, n : Nat]
    <3>1. gen \in [seed : Seeds \cup {Unset}, n : Nat]
      BY DEF TypeOK
    <3>2. gen' = gen \/ gen' = [gen EXCEPT !.n = gen.n + 1]
      BY <1>1 DEF ChooseFile
    <3> QED
      BY <3>1, <3>2
  <2> QED
    BY <1>1, <2>2, <2>5, <2>6, <2>7 DEF ChooseFile, TypeOK, Keep, library
<1>2. CASE Fail
  <2>1. load' = [load EXCEPT ![Level] = Quiet]
    BY <1>2 DEF Fail, Failed
  <2>2. load' \in [Levels -> Activations]
    BY <1>0, <2>1, QuietTyped
  <2>3. load'["init"] \in {Quiet, load["init"]}
    BY <1>0, <2>1
  <2>4. phase' \in {"idle", phase} /\ result' \in {0, 1} /\ (phase' = "idle" => phase = "idle" \/ Level = "init")
    BY <1>2 DEF Fail, Failed, Answer, TypeOK
  <2>5. phase' = "idle" => load'["init"].todo = <<>> /\ load'["init"].chosen = 0
    BY <1>0, <2>1, <2>3, <2>4 DEF TypeOK, Quiet
  <2> QED
    BY <1>2, <2>2, <2>4, <2>5 DEF Fail, TypeOK, Phases
<1>3. CASE Include
  <2>1. UNCHANGED <<world, argv, flag, dir, buffer, evalBuffer, list, gen, SKNOBS>>
    BY <1>3 DEF Include
  <2> SUFFICES /\ load' \in [Levels -> Activations] /\ phase' \in Phases /\ result' \in {0, 1}
               /\ phase' = "idle" => load'["init"].todo = <<>> /\ load'["init"].chosen = 0
    BY <2>1 DEF TypeOK
  <2> DEFINE f == NameAt(Chosen)
             l == [load EXCEPT ![Level].chosen = 0]
  <2>2. l \in [Levels -> Activations] /\ (phase = "idle" => l["init"] = load["init"])
    BY <1>0 DEF Activations, Level
  <2>3. CASE /\ f \in DOMAIN Contents /\ UNCHANGED <<phase, result>>
             /\ load' = [l EXCEPT ![Level].todo = Contents[f] \o Todo]
    <3>1. Contents[f] \in Text /\ Todo \in Text
      BY <1>0, <2>3, StatementsTyped, SourcesAssumption DEF Todo, Activations
    <3>2. Contents[f] \o Todo \in Text
      BY <3>1 DEF Text
    <3> HIDE DEF f, l
    <3>3. load' \in [Levels -> Activations]
      BY <1>0, <2>2, <2>3, <3>2 DEF Activations
    <3>4. phase = "idle" => load'["init"] = load["init"]
      BY <1>0, <2>2, <2>3 DEF Level
    <3> QED
      BY <2>3, <3>3, <3>4 DEF TypeOK
  <2>4. CASE phase' = "crashed" /\ load' = l /\ UNCHANGED result
    BY <2>2, <2>4 DEF TypeOK, Phases
  <2>5. CASE /\ load' = [load EXCEPT ![Level] = Quiet]
             /\ \/ Level = "init" /\ result' = 1 /\ phase' = "idle"
                \/ Level # "init" /\ UNCHANGED <<result, phase>>
    <3>1. load' \in [Levels -> Activations] /\ load'["init"] \in {Quiet, load["init"]}
      BY <1>0, <2>5, QuietTyped
    <3>2. Level = "init" => load'["init"] = Quiet
      BY <1>0, <2>5
    <3> QED
      BY <2>5, <3>1, <3>2 DEF TypeOK, Phases, Quiet
  <2> QED
    BY <1>3, <2>3, <2>4, <2>5 DEF Include, Failed, Answer
<1> QED
  BY <1>1, <1>2, <1>3

LEMMA InitTyped == Init => TypeOK
<1> SUFFICES ASSUME Init PROVE TypeOK
  OBVIOUS
<1>1. world \in World /\ argv \in Text /\ list \in Seq(KnobSet) /\ evalBuffer \in Seq(FileNames)
      /\ gen \in [seed : Seeds \cup {Unset}, n : Nat]
  BY SourcesAssumption DEF Init, Text
<1>2. load \in [Levels -> Activations] /\ load["init"] = Quiet
  BY QuietTyped DEF Init, Levels
<1>3. /\ flag \in BOOLEAN /\ result \in {0, 1} /\ phase \in Phases /\ dir \in Nat
      /\ buffer \in {"pwd", "else"} /\ SKNOBS \in {"whole", "cut"}
  BY DEF Init, Phases
<1> QED
  BY <1>1, <1>2, <1>3 DEF TypeOK, Quiet, KnobSet

LEMMA NextTyped == TypeOK /\ [Next]_vars => TypeOK'
<1> SUFFICES ASSUME TypeOK, [Next]_vars PROVE TypeOK'
  OBVIOUS
<1>1. ASSUME NEW c \in Text, Call(c) PROVE TypeOK'
  <2>1. load' = [load EXCEPT !["client"].todo = c] /\ UNCHANGED phase /\ Level = "client"
    BY <1>1 DEF Call, Keep, library, Idle, Level
  <2>2. load' \in [Levels -> Activations] /\ load'["init"] = load["init"]
    BY <1>1, <2>1, LoadTyped DEF TypeOK, Levels
  <2> QED
    BY <1>1, <2>2 DEF Call, Keep, library, TypeOK
<1>2. ASSUME NEW av \in CommandLines \cup {<<>>}, phase = "idle", Begin(av) PROVE TypeOK'
  <2>1. av \in Text
    <3>1. <<>> \in Text
      BY DEF Text
    <3> QED
      BY <3>1, SourcesAssumption, StatementsTyped
  <2>2. phase' \in {phase, "start"}
    BY <1>2 DEF Begin
  <2> QED
    BY <1>2, <2>1, <2>2 DEF Begin, TypeOK, Phases
<1>3. CASE InitAgain \/ Close
  <2>0. list \in Seq(KnobSet) /\ <<>> \in Seq(KnobSet)
    BY DEF TypeOK, KnobSet
  <2>1. list' \in Seq(KnobSet)
    BY <1>3, <2>0 DEF InitAgain, Close
  <2>2. UNCHANGED <<library, evalBuffer, gen, load>>
    BY <1>3 DEF InitAgain, Close, Keep
  <2> QED
    BY <2>1, <2>2 DEF library, TypeOK, KnobSet
<1>4. CASE Finish
  BY <1>4 DEF Finish, Answer, Between, TypeOK, Phases
<1>5. CASE UNCHANGED vars
  BY <1>5 DEF vars, TypeOK
<1>6. \A c : c \in (IF flag THEN Calls ELSE EarlyCalls) => c \in Text
  BY SourcesAssumption
<1>7. CASE (\E av \in CommandLines : InitCall(av)) \/ LazyInit
  BY <1>2, <1>7 DEF InitCall, LazyInit, Idle
<1>8. CASE \E c \in IF flag THEN Calls ELSE EarlyCalls : Call(c)
  BY <1>1, <1>6, <1>8
<1> QED
  BY <1>3, <1>4, <1>5, <1>7, <1>8, PhasesTyped, StatementsTypedStep, LoadsTyped DEF Next, Step

\* The buffers, texts and phases of an initialisation have their types for every
\* environment, command line and call.
THEOREM StartupTypeCorrect == Spec => []TypeOK
BY InitTyped, NextTyped, PTL DEF Spec
-----------------------------------------------------------------------------
(* What is in a text.                                                      *)

\* All but its first statement come from a source.
Continues(t) == t # <<>> => Tail(t) \in Source

LEMMA SourceFacts ==
  /\ <<>> \in Source
  /\ \A s, t \in Source : s \o t \in Source
  /\ \A t \in Source : /\ Continues(t)
                       /\ t # <<>> => Head(t) \in Statement /\ IsSource(Head(t))
  /\ \A s, t \in Source : s # <<>> => s \o t # <<>> /\ Head(s \o t) = Head(s)
  /\ \A t \in Source : <<>> \o t = t
<1> DEFINE S == {s \in Statement : IsSource(s)}
<1>1. \A s \in S : s \in Statement /\ IsSource(s)
  OBVIOUS
<1>2. Source = Seq(S)
  BY DEF Source
<1> HIDE DEF S
<1> QED
  BY <1>1, <1>2 DEF Continues

LEMMA PutInFront ==
  ASSUME NEW x, NEW t \in Source
  PROVE  /\ <<x>> \o t # <<>> /\ Head(<<x>> \o t) = x /\ Continues(<<x>> \o t)
<1>1. <<x>> \o t # <<>> /\ Head(<<x>> \o t) = x /\ Tail(<<x>> \o t) = t
  BY DEF Source
<1> QED
  BY <1>1 DEF Continues

\* init has only what it reads and, in front of it, the seed it chooses or writes;
\* the client has a call, or what is left of one.
InitDue(s) == IsSource(s) \/ s.op \in {"set", "write"}
ClientDue(s) == IsSource(s) \/ s.op \in {"add", "look", "set", "string", "dump", "print", "write"}

HistoryFields == {"calls", "first", "reply", "late", "early", "dirs", "drawn"}

Structure ==
  /\ ~flag => phase = "idle"
  /\ DOMAIN history = HistoryFields
  /\ \A l \in Levels : /\ Continues(load[l].todo)
                       /\ load[l].chosen # 0 => load[l].todo \in Source
  /\ load["init"].todo # <<>> => InitDue(Head(load["init"].todo))
  /\ load["client"].todo # <<>> => ClientDue(Head(load["client"].todo))

\* What a step may do to the texts: an activation goes on with a text, a name is
\* chosen, a load is given up.
Goes(l, t, c) ==
  /\ l \in Levels
  /\ load'[l].todo = t /\ load'[l].chosen = c
  /\ \A k \in Levels \ {l} : load'[k] = load[k]

LEMMA GoesOn ==
  ASSUME Structure, NEW l \in Levels, NEW t, NEW c, Goes(l, t, c), Continues(t),
         c # 0 => t \in Source,
         t # <<>> => InitDue(Head(t)) \/ (l = "client" /\ ClientDue(Head(t))),
         ~flag' => phase' = "idle", DOMAIN history' = DOMAIN history
  PROVE  Structure'
<1>1. \A s : InitDue(s) => ClientDue(s)
  BY DEF InitDue, ClientDue
<1> QED
  BY <1>1 DEF Structure, Goes, Levels

\* Texts that a source leaves.
LEMMA SourceGoesOn ==
  ASSUME Structure, NEW l \in Levels, NEW t \in Source, NEW c, Goes(l, t, c),
         ~flag' => phase' = "idle", DOMAIN history' = DOMAIN history
  PROVE  Structure'
BY SourceFacts, GoesOn DEF InitDue

LEMMA LevelFacts ==
  ASSUME TypeOK
  PROVE  /\ Level \in Levels /\ "init" \in Levels /\ "client" \in Levels
         /\ load \in [Levels -> Activations]
         /\ \A l \in Levels, t \in Text : load' = [load EXCEPT ![l].todo = t] => Goes(l, t, load[l].chosen)
         /\ \A l \in Levels : load' = [load EXCEPT ![l] = Quiet] => Goes(l, <<>>, 0)
<1>1. Level \in Levels /\ "init" \in Levels /\ "client" \in Levels /\ load \in [Levels -> Activations]
  BY DEF TypeOK, Level, Levels
<1>2. ASSUME NEW l \in Levels, NEW t \in Text, load' = [load EXCEPT ![l].todo = t]
      PROVE  Goes(l, t, load[l].chosen)
  BY <1>1, <1>2 DEF Goes, Activations
<1>3. ASSUME NEW l \in Levels, load' = [load EXCEPT ![l] = Quiet]
      PROVE  Goes(l, <<>>, 0)
  BY <1>1, <1>3 DEF Goes, Quiet
<1> QED
  BY <1>1, <1>2, <1>3

\* A statement is replaced by at most one other.
LEMMA ObeyedGoes ==
  ASSUME TypeOK, Structure, Todo # <<>>, Chosen = 0, NEW now \in Text, load' = Becoming(now),
         now = <<>> \/ \E x : now = <<x>>
  PROVE  /\ Goes(Level, now \o Tail(Todo), 0) /\ Tail(Todo) \in Source
         /\ Continues(now \o Tail(Todo))
         /\ now = <<>> => now \o Tail(Todo) = Tail(Todo)
         /\ \A x : now = <<x>> => now \o Tail(Todo) # <<>> /\ Head(now \o Tail(Todo)) = x
<1>1. Tail(Todo) \in Source
  BY LevelFacts DEF Structure, Continues, Todo
<1>2. now \o Tail(Todo) \in Text
  <2>1. Tail(Todo) \in Text
    BY <1>1, StatementsTyped
  <2> QED
    BY <2>1 DEF Text
<1>3. load' = [load EXCEPT ![Level].todo = now \o Tail(Todo)]
  BY DEF Becoming
<1>4. Goes(Level, now \o Tail(Todo), 0)
  BY <1>2, <1>3, LevelFacts DEF Chosen
<1>5. now = <<>> => now \o Tail(Todo) = Tail(Todo)
  BY <1>1, SourceFacts
<1> QED
  BY <1>1, <1>4, <1>5, SourceFacts, PutInFront

LEMMA StatementsStructured ==
  ASSUME TypeOK, Structure,
         \/ AddKnob \/ SetSeed \/ WriteSeed \/ Look \/ Tokenize \/ Dump \/ PrintKnobs
  PROVE  Structure'
<1>1. /\ Todo # <<>> /\ Chosen = 0 /\ UNCHANGED <<flag, history>>
      /\ phase' = phase \/ (phase' = "crashed" /\ flag)
  BY DEF AddKnob, SetSeed, WriteSeed, Look, Tokenize, Dump, PrintKnobs, Reached, Keep, library,
         NeedInit
<1>2. /\ Level \in Levels /\ <<>> \in Text
      /\ ~flag' => phase' = "idle"
  BY <1>1, LevelFacts DEF Structure, Text
<1>3. CASE load' = Becoming(<<>>)
  BY <1>1, <1>2, <1>3, ObeyedGoes, SourceGoesOn
<1>4. ASSUME NEW op \in {"write", "print"}, NEW v, Do(op, v) \in Statement,
             load' = Becoming(<<Do(op, v)>>), op = "print" => Level = "client"
      PROVE  Structure'
  <2>1. <<Do(op, v)>> \in Text
    BY <1>4 DEF Text
  <2>2. Goes(Level, <<Do(op, v)>> \o Tail(Todo), 0)
    BY <1>1, <1>4, <2>1, ObeyedGoes
  <2>3. /\ Continues(<<Do(op, v)>> \o Tail(Todo)) /\ Head(<<Do(op, v)>> \o Tail(Todo)) = Do(op, v)
    BY <1>1, <1>4, <2>1, ObeyedGoes
  <2>4. InitDue(Do(op, v)) \/ (Level = "client" /\ ClientDue(Do(op, v)))
    BY <1>4 DEF InitDue, ClientDue, Do
  <2> QED
    BY <1>1, <1>2, <2>2, <2>3, <2>4, GoesOn
<1>5. CASE SetSeed
  <2>1. CASE Takes(Due.value)
    <3>1. PICK s \in Seeds : load' = Becoming(<<Do("write", s)>>)
      BY <1>5, <2>1 DEF SetSeed
    <3>2. Do("write", s) \in Statement
      BY StatementsTyped, SourcesAssumption
    <3> QED
      BY <1>4, <3>1, <3>2
  <2>2. CASE ~Takes(Due.value)
    BY <1>3, <1>5, <2>2 DEF SetSeed
  <2> QED
    BY <2>1, <2>2
<1>6. CASE Dump
  <2>1. PICK v \in Values \cup {Unset} : load' = Becoming(<<Do("print", v)>>)
    BY <1>6, SourcesAssumption DEF Dump
  <2>2. Do("print", v) \in Statement
    BY StatementsTyped DEF Ops
  <2>3. Level = "client"
    <3>1. Due.op = "dump"
      BY <1>6 DEF Dump, Reached
    <3>2. Level = "init" => InitDue(Due)
      BY <1>1 DEF Structure, Todo, Due
    <3> QED
      BY <1>2, <3>1, <3>2 DEF InitDue, IsSource, Levels
  <2> QED
    BY <1>4, <2>1, <2>2, <2>3
<1>7. CASE AddKnob \/ WriteSeed \/ Look \/ Tokenize \/ PrintKnobs
  BY <1>3, <1>7 DEF AddKnob, WriteSeed, Look, Tokenize, PrintKnobs
<1> QED
  BY <1>5, <1>6, <1>7

LEMMA ReadGoes ==
  ASSUME TypeOK, Structure, NEW t \in Text, Read(t), load["init"].chosen = 0
  PROVE  Goes("init", t, 0)
BY LevelFacts DEF Read

LEMMA WorldSources ==
  ASSUME TypeOK
  PROVE  /\ {world.saved, world.home, world.environ, world.SKNOBS} \subseteq Source
         /\ \A d \in 1 .. Len(world.knobsrc) : world.knobsrc[d] \in Source
<1>1. world.knobsrc \in Seq(Source)
  BY WorldTyped
<1> QED
  BY <1>1 DEF TypeOK, World

\* The command line is one of those a program may be given, or empty.
ArgvOK == argv \in Source

LEMMA PhasesStructured ==
  ASSUME TypeOK, Structure, ArgvOK,
         \/ Start \/ AddDirectory \/ PathDone \/ ChooseSeed \/ LoadHome \/ BeginWalk
         \/ LoadDirectory \/ LoadCurrent \/ LoadEnvironment \/ LoadSKNOBS \/ LoadArguments
  PROVE  Structure'
<1> USE DEF Between, Rest
<1>1. /\ phase # "idle" /\ load["init"].chosen = 0 /\ UNCHANGED flag /\ flag
  BY DEF Start, AddDirectory, PathDone, ChooseSeed, LoadHome, BeginWalk, LoadDirectory,
         LoadCurrent, LoadEnvironment, LoadSKNOBS, LoadArguments, Structure
<1>2. DOMAIN history' = DOMAIN history
  BY DEF Start, AddDirectory, PathDone, ChooseSeed, LoadHome, BeginWalk, LoadDirectory,
         LoadCurrent, LoadEnvironment, LoadSKNOBS, LoadArguments, Enter
<1>3. CASE load' = load
  BY <1>1, <1>2, <1>3 DEF Structure
<1>4. ASSUME NEW t \in Source, Read(t) PROVE Structure'
  BY <1>1, <1>2, <1>4, ReadGoes, SourceGoesOn, StatementsTyped, LevelFacts
<1>5. CASE ChooseSeed
  <2> DEFINE s == Do("set", Asked(world, argv))
  <2>1. <<s>> \in Text /\ Read(<<s>>)
    <3>1. s \in Statement
      BY WorldTyped, StatementsTyped DEF Ops
    <3> QED
      BY <1>5, <3>1 DEF ChooseSeed, Text
  <2>2. Head(<<s>>) = s /\ Tail(<<s>>) = <<>> /\ InitDue(s)
    BY DEF InitDue, Do
  <2>3. Continues(<<s>>)
    BY <2>2, SourceFacts DEF Continues
  <2> HIDE DEF s
  <2> QED
    BY <1>1, <1>2, <2>1, <2>2, <2>3, ReadGoes, GoesOn, LevelFacts
<1>6. CASE Start \/ AddDirectory \/ PathDone \/ LoadHome \/ BeginWalk
  BY <1>3, <1>4, <1>6, WorldSources DEF Start, AddDirectory, PathDone, LoadHome, BeginWalk
<1>7. CASE LoadDirectory \/ LoadCurrent
  <2>1. Len(world.knobsrc) \in Nat /\ dir \in Nat
    BY WorldTyped DEF TypeOK
  <2> QED
    BY <1>3, <1>4, <1>7, <2>1, WorldSources DEF LoadDirectory, LoadCurrent, Enter
<1>8. CASE LoadEnvironment \/ LoadSKNOBS \/ LoadArguments
  BY <1>4, <1>8, WorldSources DEF LoadEnvironment, LoadSKNOBS, LoadArguments, ArgvOK
<1> QED
  BY <1>5, <1>6, <1>7, <1>8

\* A name is chosen; what it names takes its place; or the load is given up.
LEMMA ChooseGoes ==
  ASSUME TypeOK, Structure, ChooseFile
  PROVE  \E i \in DOMAIN Due.files :
           /\ Goes(Level, Tail(Todo), i) /\ load'[Level].asked = Due.files[i]
           /\ Tail(Todo) \in Source
<1>1. Todo # <<>>
  BY DEF ChooseFile, Reached
<1>2. Tail(Todo) \in Source
  BY <1>1, LevelFacts DEF Structure, Continues, Todo
<1>3. PICK i \in DOMAIN Due.files :
          load' = [load EXCEPT ![Level].chosen = i, ![Level].asked = Due.files[i],
                               ![Level].todo = Tail(Todo)]
  BY DEF ChooseFile
<1>4. Goes(Level, Tail(Todo), i) /\ load'[Level].asked = Due.files[i]
  BY <1>3, LevelFacts DEF Goes, Activations
<1> QED
  BY <1>2, <1>4

LEMMA IncludeGoes ==
  ASSUME TypeOK, Structure, Include
  PROVE  /\ Chosen # 0 /\ flag /\ phase # "crashed"
         /\ \/ /\ NameAt(Chosen) \in DOMAIN Contents /\ UNCHANGED <<phase, result>>
               /\ Goes(Level, Contents[NameAt(Chosen)] \o Todo, 0)
               /\ Contents[NameAt(Chosen)] \o Todo \in Source
               /\ UNCHANGED history
            \/ /\ world.flavor = "bad" /\ phase' = "crashed" /\ Todo \in Source
               /\ Goes(Level, Todo, 0)
               /\ UNCHANGED history
            \/ /\ Goes(Level, <<>>, 0)
               /\ IF Level = "init"
                  THEN phase' = "idle" /\ history' = [history EXCEPT !.first = 1, !.reply = 1]
                  ELSE UNCHANGED <<phase, history>>
<1> DEFINE f == NameAt(Chosen)
           l == [load EXCEPT ![Level].chosen = 0]
<1>1. Chosen # 0 /\ flag /\ phase # "crashed"
  BY DEF Include
<1>2. Todo \in Source /\ Todo = load[Level].todo
  BY <1>1, LevelFacts DEF Structure, Todo, Chosen
<1>3. ASSUME f \in DOMAIN Contents, load' = [l EXCEPT ![Level].todo = Contents[f] \o Todo]
      PROVE  Goes(Level, Contents[f] \o Todo, 0) /\ Contents[f] \o Todo \in Source
  <2>1. Contents[f] \o Todo \in Source
    BY <1>2, <1>3, SourcesAssumption, SourceFacts
  <2> HIDE DEF f
  <2> QED
    BY <1>3, <2>1, LevelFacts DEF Goes, Activations
<1>4. ASSUME load' = l PROVE Goes(Level, Todo, 0)
  BY <1>2, <1>4, LevelFacts DEF Goes, Activations
<1>5. ASSUME load' = [load EXCEPT ![Level] = Quiet] PROVE Goes(Level, <<>>, 0)
  BY <1>5, LevelFacts
<1>6. \/ /\ f \in DOMAIN Contents /\ UNCHANGED <<phase, result, history>>
         /\ load' = [l EXCEPT ![Level].todo = Contents[f] \o Todo]
      \/ /\ world.flavor = "bad" /\ phase' = "crashed" /\ load' = l /\ UNCHANGED history
      \/ /\ load' = [load EXCEPT ![Level] = Quiet]
         /\ IF Level = "init"
            THEN phase' = "idle" /\ history' = [history EXCEPT !.first = 1, !.reply = 1]
            ELSE UNCHANGED <<phase, history>>
  BY DEF Include, Failed, Answer
<1> HIDE DEF f, l
<1> QED
  BY <1>1, <1>2, <1>3, <1>4, <1>5, <1>6 DEF f

LEMMA FailGoes ==
  ASSUME TypeOK, Structure, Fail
  PROVE  /\ Goes(Level, <<>>, 0) /\ flag /\ Chosen = 0 /\ Todo # <<>> /\ Due.op = "fail"
         /\ UNCHANGED <<world, argv, flag, dir, buffer, evalBuffer, list, gen, SKNOBS>>
         /\ IF Level = "init"
            THEN phase' = "idle" /\ history' = [history EXCEPT !.first = 1, !.reply = 1]
            ELSE UNCHANGED <<phase, history>>
<1>1. load' = [load EXCEPT ![Level] = Quiet]
  BY DEF Fail, Failed
<1> QED
  BY <1>1, LevelFacts DEF Fail, Failed, Answer, Reached, NeedInit

LEMMA LoadsStructured ==
  ASSUME TypeOK, Structure, ChooseFile \/ Fail \/ Include
  PROVE  Structure'
<1>0. Level \in Levels /\ <<>> \in Source
  BY LevelFacts, SourceFacts
<1>1. CASE ChooseFile
  <2>1. UNCHANGED <<flag, phase>> /\ DOMAIN history' = DOMAIN history
    BY <1>1 DEF ChooseFile, Keep, library
  <2> QED
    BY <1>0, <1>1, <2>1, ChooseGoes, SourceGoesOn DEF Structure
<1>2. CASE Fail
  <2>1. DOMAIN history' = DOMAIN history
    BY <1>2, FailGoes
  <2> QED
    BY <1>0, <1>2, <2>1, FailGoes, SourceGoesOn
<1>3. CASE Include
  <2>1. DOMAIN history' = DOMAIN history
    BY <1>3, IncludeGoes
  <2>2. flag' /\ \E t \in Source : Goes(Level, t, 0)
    BY <1>0, <1>3, IncludeGoes DEF Include
  <2> QED
    BY <1>0, <2>1, <2>2, SourceGoesOn
<1> QED
  BY <1>1, <1>2, <1>3

\* A call of the client.
LEMMA CallGoes ==
  ASSUME TypeOK, NEW c \in IF flag THEN Calls ELSE EarlyCalls, Call(c)
  PROVE  /\ Goes("client", c, 0) /\ Continues(c)
         /\ c # <<>> => ClientDue(Head(c)) /\ Head(c).op # "write"
         /\ \/ c \in Source
            \/ Head(c).op # "set"
            \/ Head(c).value \in Values
<1>1. load' = [load EXCEPT !["client"].todo = c] /\ load["client"].chosen = 0 /\ c \in Text
  BY SourcesAssumption DEF Call, Idle
<1>2. Goes("client", c, 0)
  BY <1>1, LevelFacts
<1>3. CASE c \in Source
  BY <1>2, <1>3, SourceFacts DEF ClientDue, IsSource
<1>4. CASE c # <<>> /\ Head(c).op = "string" /\ Tail(c) \in Source
  BY <1>2, <1>4 DEF ClientDue, Continues
<1>5. CASE /\ c # <<>> /\ Tail(c) = <<>>
           /\ Head(c).op \in {"add", "look", "dump", "set"}
           /\ Head(c).op = "set" => Head(c).value \in Values
  BY <1>2, <1>5, SourceFacts DEF ClientDue, Continues
<1> QED
  BY <1>3, <1>4, <1>5, SourcesAssumption DEF OneCall

LEMMA InitStructured == Init => Structure /\ ArgvOK
<1> SUFFICES ASSUME Init PROVE Structure /\ ArgvOK
  OBVIOUS
<1>1. \A l \in Levels : load[l].todo = <<>> /\ load[l].chosen = 0
  BY DEF Init, Quiet
<1>2. DOMAIN history = HistoryFields
  BY DEF Init, HistoryFields
<1> QED
  BY <1>1, <1>2, SourceFacts DEF Init, Structure, ArgvOK, Levels, Continues

LEMMA NextStructured ==
  ASSUME TypeOK, Structure, ArgvOK, [Next]_vars
  PROVE  Structure' /\ ArgvOK'
<1>1. ASSUME NEW c \in IF flag THEN Calls ELSE EarlyCalls, Call(c)
      PROVE  Structure' /\ ArgvOK'
  <2>1. UNCHANGED library /\ DOMAIN history' = DOMAIN history
    BY <1>1 DEF Call, Keep
  <2> QED
    BY <1>1, <2>1, CallGoes, GoesOn, LevelFacts DEF library, Structure, ArgvOK
<1>2. ASSUME NEW av \in CommandLines \cup {<<>>}, phase = "idle", Begin(av)
      PROVE  Structure' /\ ArgvOK'
  <2>1. DOMAIN history' = DOMAIN history /\ load' = load /\ flag' /\ argv' = av
    BY <1>2 DEF Begin
  <2>2. av \in Source
    BY SourcesAssumption, SourceFacts
  <2> QED
    BY <2>1, <2>2 DEF Structure, ArgvOK
<1>3. CASE InitAgain \/ Close
  <2>1. DOMAIN history' = DOMAIN history /\ UNCHANGED <<library, load>>
    BY <1>3 DEF InitAgain, Close, Keep
  <2> QED
    BY <2>1 DEF library, Structure, ArgvOK
<1>4. CASE Finish
  BY <1>4 DEF Finish, Answer, Between, Structure, ArgvOK
<1>5. CASE UNCHANGED vars
  BY <1>5 DEF vars, Structure, ArgvOK
<1>6. ASSUME \/ Start \/ AddDirectory \/ PathDone \/ ChooseSeed \/ LoadHome \/ BeginWalk
             \/ LoadDirectory \/ LoadCurrent \/ LoadEnvironment \/ LoadSKNOBS \/ LoadArguments
      PROVE  Structure' /\ ArgvOK'
  <2>1. argv' = argv
    BY <1>6 DEF Rest, Start, AddDirectory, PathDone, ChooseSeed, LoadHome, BeginWalk,
       LoadDirectory, LoadCurrent, LoadEnvironment, LoadSKNOBS, LoadArguments
  <2> QED
    BY <1>6, <2>1, PhasesStructured DEF ArgvOK
<1>7. ASSUME \/ AddKnob \/ SetSeed \/ WriteSeed \/ Look \/ Tokenize \/ Dump \/ PrintKnobs
             \/ ChooseFile \/ Fail \/ Include
      PROVE  Structure' /\ ArgvOK'
  <2>1. argv' = argv
    BY <1>7 DEF Keep, library, AddKnob, SetSeed, WriteSeed, Look, Tokenize, Dump, PrintKnobs,
       ChooseFile, Fail, Include
  <2> QED
    BY <1>7, <2>1, StatementsStructured, LoadsStructured DEF ArgvOK
<1>8. CASE (\E av \in CommandLines : InitCall(av)) \/ LazyInit
  BY <1>2, <1>8 DEF InitCall, LazyInit, Idle
<1> QED
  BY <1>1, <1>3, <1>4, <1>5, <1>6, <1>7, <1>8 DEF Next, Step

Shape == TypeOK /\ Structure /\ ArgvOK

LEMMA ShapeKept == Init => Shape
BY InitTyped, InitStructured DEF Shape
LEMMA ShapeStep == Shape /\ [Next]_vars => Shape'
BY NextTyped, NextStructured DEF Shape
-----------------------------------------------------------------------------
(* The chosen name.                                                        *)

Plain == Seq({s \in Statement : s.op # "choose"})

\* Nobody has split another list since a name was chosen: the activation that chose
\* it is the one that runs.
ChosenStands ==
  /\ phase # "crashed" /\ Chosen # 0 =>
       Chosen \in DOMAIN evalBuffer /\ evalBuffer[Chosen] = load[Level].asked
  /\ phase # "idle" => load["client"].chosen = 0
  /\ ~flag => load["client"].chosen = 0 /\ load["client"].todo \in Plain

LEMMA PlainFacts ==
  /\ <<>> \in Plain
  /\ \A t \in Plain : t # <<>> => Head(t).op # "choose" /\ Tail(t) \in Plain
  /\ \A x \in Statement : \A t \in Plain : x.op # "choose" => <<x>> \o t \in Plain
<1> DEFINE S == {s \in Statement : s.op # "choose"}
<1>1. \A s : s \in S <=> s \in Statement /\ s.op # "choose"
  OBVIOUS
<1>2. Plain = Seq(S)
  BY DEF Plain
<1> HIDE DEF S
<1>3. \A t \in Plain : t # <<>> => Head(t) \in S /\ Tail(t) \in Plain
  BY <1>2
<1>4. \A x \in S : \A t \in Plain : <<x>> \o t \in Plain
  BY <1>2
<1> QED
  BY <1>1, <1>2, <1>3, <1>4

LEMMA InitStands == Init => ChosenStands
<1> SUFFICES ASSUME Init PROVE ChosenStands
  OBVIOUS
<1>1. \A l \in Levels : load[l].todo = <<>> /\ load[l].chosen = 0
  BY DEF Init, Quiet
<1> QED
  BY <1>1, PlainFacts DEF Init, ChosenStands, Levels, Level, Chosen

LEMMA NextStands ==
  ASSUME NoEarlyChoice, Shape, ChosenStands, [Next]_vars
  PROVE  ChosenStands'
<1> USE DEF Levels
<1>0. /\ TypeOK /\ Structure /\ DOMAIN history = HistoryFields
      /\ Level \in Levels /\ (phase = "idle" <=> Level = "client")
      /\ phase = "idle" => load["init"].chosen = 0
  BY LevelFacts DEF Shape, Structure, TypeOK, Level
<1>1. ASSUME NEW c \in IF flag THEN Calls ELSE EarlyCalls, Call(c)
      PROVE  ChosenStands'
  <2>1. /\ UNCHANGED library /\ phase = "idle"
    BY <1>0, <1>1 DEF Call, Keep, Idle, HistoryFields
  <2>2. Goes("client", c, 0)
    BY <1>0, <1>1, CallGoes
  <2>3. ~flag => c \in Plain
    <3>1. ASSUME ~flag PROVE c \in Seq(Statement) /\ \A i \in DOMAIN c : c[i].op # "choose"
      BY <1>1, <3>1, SourcesAssumption DEF NoEarlyChoice, Text
    <3> QED
      BY <3>1 DEF Plain
  <2> QED
    BY <2>1, <2>2, <2>3 DEF library, ChosenStands, Goes, Level, Chosen
<1>2. ASSUME NEW av, phase = "idle", ~flag, Begin(av)
      PROVE  ChosenStands'
  <2>1. /\ flag' /\ phase' \in {phase, "start"}
        /\ UNCHANGED <<load, evalBuffer>>
        /\ load["client"].chosen = 0
    BY <1>0, <1>2 DEF Begin, HistoryFields, ChosenStands
  <2> QED
    BY <1>0, <1>2, <2>1 DEF ChosenStands, Level, Chosen
<1>3. CASE InitAgain \/ Close
  <2>1. UNCHANGED <<library, evalBuffer, load>>
    BY <1>0, <1>3 DEF InitAgain, Close, Keep, HistoryFields
  <2> QED
    BY <2>1 DEF library, ChosenStands, Level, Chosen
<1>4. CASE Finish
  <2>1. /\ phase # "idle" /\ phase' = "idle" /\ UNCHANGED <<flag, evalBuffer, load>>
       
    BY <1>0, <1>4 DEF Finish, Answer, Between, HistoryFields
  <2> QED
    BY <2>1 DEF ChosenStands, Level, Chosen
<1>5. CASE UNCHANGED vars
  BY <1>5 DEF vars, ChosenStands, Level, Chosen
<1>6. ASSUME \/ Start \/ AddDirectory \/ PathDone \/ ChooseSeed \/ LoadHome \/ BeginWalk
             \/ LoadDirectory \/ LoadCurrent \/ LoadEnvironment \/ LoadSKNOBS \/ LoadArguments
      PROVE  ChosenStands'
  <2>1. /\ phase # "idle" /\ phase' # "idle" /\ load["init"].chosen = 0
        /\ UNCHANGED <<flag, evalBuffer>>
        /\ load' = load \/ \E t : load' = [load EXCEPT !["init"].todo = t]
    BY <1>0, <1>6 DEF Between, Rest, Read, Enter, HistoryFields, Start, AddDirectory, PathDone,
       ChooseSeed, LoadHome, BeginWalk, LoadDirectory, LoadCurrent, LoadEnvironment, LoadSKNOBS,
       LoadArguments
  <2>2. load'["client"] = load["client"] /\ load'["init"].chosen = 0
    BY <1>0, <2>1 DEF TypeOK, Activations
  <2> QED
    BY <1>0, <2>1, <2>2 DEF ChosenStands, Structure, Level, Chosen
<1>7. ASSUME \/ AddKnob \/ SetSeed \/ WriteSeed \/ Look \/ Tokenize \/ Dump \/ PrintKnobs
      PROVE  ChosenStands'
  <2>1. /\ Todo # <<>> /\ Chosen = 0 /\ UNCHANGED <<flag, evalBuffer, history>>
        /\ phase' = phase \/ (phase' = "crashed" /\ flag)
    BY <1>7 DEF AddKnob, SetSeed, WriteSeed, Look, Tokenize, Dump, PrintKnobs, Reached, Keep, library,
         NeedInit
  <2>2. PICK now \in {<<>>} \cup {<<x>> : x \in {s \in Statement : s.op # "choose"}} : load' = Becoming(now)
    <3>1. \A op \in {"write", "print"} : Do(op, 0).op # "choose"
      BY DEF Do
    <3>2. (CHOOSE v \in Values : TRUE) \in Values
      BY SourcesAssumption
    <3>3. \A v \in Values \cup {Unset} : Do("print", v) \in Statement /\ Do("print", v).op # "choose"
      BY StatementsTyped DEF Ops, Do
    <3>4. \A v \in Seeds : Do("write", v) \in Statement /\ Do("write", v).op # "choose"
      BY StatementsTyped, SourcesAssumption DEF Do
    <3> QED
      BY <1>7, <3>2, <3>3, <3>4 DEF AddKnob, SetSeed, WriteSeed, Look, Tokenize, Dump, PrintKnobs
  <2>3. now \in Text /\ (now = <<>> \/ \E x : now = <<x>>)
    <3>1. <<>> \in Text /\ \A x \in Statement : <<x>> \in Text
      BY DEF Text
    <3> QED
      BY <2>2, <3>1
  <2>4. Goes(Level, now \o Tail(Todo), 0) /\ (now = <<>> => now \o Tail(Todo) = Tail(Todo))
    BY <1>0, <2>1, <2>2, <2>3, ObeyedGoes
  <2>5. ~flag => now \o Tail(Todo) \in Plain
    <3>1. ~flag => Todo \in Plain
      BY <1>0 DEF ChosenStands, Structure, Todo
    <3> QED
      BY <2>1, <2>2, <2>4, <3>1, PlainFacts
  <2> QED
    BY <1>0, <2>1, <2>4, <2>5 DEF ChosenStands, Goes, Structure, Level, Chosen
<1>8. CASE ChooseFile
  <2>1. /\ Chosen = 0 /\ Todo # <<>> /\ Due.op = "choose" /\ phase # "crashed"
        /\ UNCHANGED library /\ evalBuffer' = Due.files
    BY <1>0, <1>8 DEF ChooseFile, Reached, Keep, HistoryFields
  <2>2. flag
    BY <1>0, <2>1, PlainFacts DEF ChosenStands, Structure, Todo, Due
  <2>3. PICK i \in DOMAIN Due.files :
           Goes(Level, Tail(Todo), i) /\ load'[Level].asked = Due.files[i]
    BY <1>0, <1>8, ChooseGoes
  <2> QED
    BY <1>0, <2>1, <2>2, <2>3 DEF library, ChosenStands, Goes, Level, Chosen
<1>9. CASE Fail
  <2>1. /\ Goes(Level, <<>>, 0) /\ flag /\ flag' /\ phase' \in {phase, "idle"}
        /\ evalBuffer' = evalBuffer
    <3>1. phase' \in {phase, "idle"}
      BY <1>0, <1>9, FailGoes
    <3>2. Goes(Level, <<>>, 0) /\ flag /\ UNCHANGED <<flag, evalBuffer>>
      BY <1>0, <1>9, FailGoes
    <3> QED
      BY <3>1, <3>2
  <2> QED
    BY <1>0, <2>1 DEF ChosenStands, Goes, Level, Chosen
<1>10. CASE Include
  <2>1. /\ flag /\ flag' /\ UNCHANGED evalBuffer /\ Chosen # 0 /\ phase # "crashed"
    BY <1>10 DEF Include
  <2>2. /\ \E t : Goes(Level, t, 0)
        /\ phase' \in {phase, "crashed", "idle"}
    BY <1>0, <1>10, IncludeGoes DEF HistoryFields
  <2> QED
    BY <1>0, <2>1, <2>2 DEF ChosenStands, Goes, Level, Chosen
<1>11. CASE (\E av \in CommandLines : InitCall(av)) \/ LazyInit
  BY <1>2, <1>11 DEF InitCall, LazyInit, Idle
<1> QED
  BY <1>1, <1>3, <1>4, <1>5, <1>6, <1>7, <1>8, <1>9, <1>10, <1>11 DEF Next, Step

-----------------------------------------------------------------------------
(* The seed is chosen before any source is read.                           *)

\* What neither begins an initialisation nor takes it to its next phase.
Runs ==
  \/ AddKnob \/ SetSeed \/ WriteSeed \/ Look \/ Tokenize \/ Dump \/ PrintKnobs
  \/ ChooseFile \/ Fail \/ Include \/ Close \/ InitAgain
  \/ \E c \in IF flag THEN Calls ELSE EarlyCalls : Call(c)

Moves ==
  \/ Start \/ AddDirectory \/ PathDone \/ ChooseSeed \/ LoadHome \/ BeginWalk
  \/ LoadDirectory \/ LoadCurrent \/ LoadEnvironment \/ LoadSKNOBS \/ LoadArguments \/ Finish

Begins ==
  /\ phase = "idle" /\ ~flag
  /\ Idle \/ Chosen # 0 \/ (Todo # <<>> /\ Due.op \in NeedInit)
  /\ \E av \in CommandLines \cup {<<>>} : Begin(av)

LEMMA KindsOfSteps ==
  ASSUME [Next]_vars
  PROVE  Begins \/ Moves \/ Runs \/ UNCHANGED vars
BY DEF Next, Step, Begins, Moves, Runs, InitCall, LazyInit, Idle

\* What they leave alone.
LEMMA RunsKeep ==
  ASSUME Shape, Runs
  PROVE  /\ UNCHANGED <<world, argv, flag, dir>> /\ history'.dirs = history.dirs
         /\ \/ UNCHANGED phase /\ history'.first = history.first
            \/ phase' = "crashed" /\ world.flavor = "bad" /\ history'.first = history.first
            \/ phase' = "idle" /\ Level = "init" /\ flag /\ (Fail \/ Include) /\ history'.first = 1
         /\ buffer' = buffer \/ WriteSeed
<1>0. TypeOK /\ Structure /\ DOMAIN history = HistoryFields
  BY DEF Shape, Structure
<1> USE DEF HistoryFields, Keep, library
<1>1. CASE AddKnob \/ SetSeed \/ WriteSeed \/ Look \/ Dump \/ PrintKnobs
  BY <1>1 DEF AddKnob, SetSeed, WriteSeed, Look, Dump, PrintKnobs
<1>2. CASE Tokenize
  BY <1>2 DEF Tokenize
<1>3. CASE ChooseFile
  BY <1>0, <1>3 DEF ChooseFile
<1>4. CASE Fail
  <2>1. IF Level = "init"
        THEN phase' = "idle" /\ history' = [history EXCEPT !.first = 1, !.reply = 1]
        ELSE UNCHANGED <<phase, history>>
    BY <1>0, <1>4, FailGoes
  <2>2. flag /\ UNCHANGED <<world, argv, flag, dir, buffer>>
    BY <1>0, <1>4, FailGoes
  <2> QED
    BY <1>0, <1>4, <2>1, <2>2
<1>5. CASE Include
  <2>1. flag /\ UNCHANGED <<world, argv, flag, dir, buffer>>
    BY <1>5 DEF Include
  <2>2. \/ UNCHANGED <<phase, history>>
        \/ phase' = "crashed" /\ world.flavor = "bad" /\ UNCHANGED history
        \/ /\ phase' = "idle" /\ Level = "init"
           /\ history' = [history EXCEPT !.first = 1, !.reply = 1]
    BY <1>0, <1>5, IncludeGoes
  <2> QED
    BY <1>0, <1>5, <2>1, <2>2
<1>6. CASE Close \/ InitAgain
  BY <1>0, <1>6 DEF Close, InitAgain
<1>7. CASE \E c \in IF flag THEN Calls ELSE EarlyCalls : Call(c)
  BY <1>0, <1>7 DEF Call
<1> QED
  BY <1>1, <1>2, <1>3, <1>4, <1>5, <1>6, <1>7 DEF Runs

\* Once the generators are seeded a source leaves a source.
LEMMA SourceRuns ==
  ASSUME Shape, Runs, phase # "idle", load["init"].todo \in Source, gen.seed # Unset
  PROVE  load'["init"].todo \in Source
<1>0. TypeOK /\ Structure /\ Level = "init" /\ phase # "idle" /\ Todo \in Source
  BY LevelFacts DEF Shape, Level, Todo
<1>1. CASE AddKnob \/ SetSeed \/ WriteSeed \/ Look \/ Tokenize \/ Dump \/ PrintKnobs
  <2>1. Todo # <<>> /\ Chosen = 0
    BY <1>1 DEF AddKnob, SetSeed, WriteSeed, Look, Tokenize, Dump, PrintKnobs, Reached
  <2>2. IsSource(Due)
    BY <1>0, <2>1, SourceFacts DEF Due
  <2>3. ~Dump
    BY <2>2 DEF Dump, Reached, IsSource
  <2>4. ~Takes(Due.value)
    BY DEF Takes
  <2>5. load' = Becoming(<<>>)
    BY <1>1, <2>3, <2>4 DEF AddKnob, SetSeed, WriteSeed, Look, Tokenize, PrintKnobs
  <2>6. <<>> \in Text
    BY DEF Text
  <2>7. Goes(Level, <<>> \o Tail(Todo), 0) /\ <<>> \o Tail(Todo) \in Source
    BY <1>0, <2>1, <2>5, <2>6, ObeyedGoes
  <2> QED
    BY <1>0, <2>7 DEF Goes
<1>2. CASE ChooseFile
  BY <1>0, <1>2, ChooseGoes DEF Goes
<1>3. CASE Fail
  BY <1>0, <1>3, FailGoes, SourceFacts DEF Goes
<1>4. CASE Include
  BY <1>0, <1>4, IncludeGoes, SourceFacts DEF Goes
<1>5. CASE Close \/ InitAgain \/ \E c \in IF flag THEN Calls ELSE EarlyCalls : Call(c)
  BY <1>0, <1>5 DEF Close, InitAgain, Call, Idle
<1> QED
  BY <1>1, <1>2, <1>3, <1>4, <1>5 DEF Runs

Asks == Do("set", Asked(world, argv))

\* Which phase reads what, and that the generators are seeded from home on.
SeedChosen ==
  /\ phase \in {"start", "path", "seed"} => load["init"].todo = <<>> /\ load["init"].chosen = 0
  /\ phase \in {"path", "seed", "home", "walk", "dirs", "environ", "SKNOBS", "args", "finish"}
       => ~world.restore
  /\ phase = "restored" => world.restore
  /\ Usable /\ ~world.restore =>
       /\ phase = "home" /\ gen.seed = Unset
            => load["init"].chosen = 0 /\ load["init"].todo = <<Asks>>
       /\ flag /\ phase \notin {"start", "path", "seed", "home"} => gen.seed # Unset
       /\ phase \in {"walk", "dirs"} => load["init"].todo \in Source

\* The seed asked for is taken if there is none.
LEMMA AskedIsTaken ==
  ASSUME TypeOK, Structure, Runs, Usable, phase = "home", gen.seed = Unset,
         load["init"].chosen = 0, load["init"].todo = <<Asks>>
  PROVE  SetSeed /\ gen'.seed # Unset /\ UNCHANGED phase
<1>1. Level = "init" /\ Todo = <<Asks>> /\ Chosen = 0 /\ Due = Asks
  BY DEF Level, Todo, Chosen, Due
<1>2. Due.op = "set" /\ Due.value = Asked(world, argv)
  BY <1>1 DEF Asks, Do
<1>3. SetSeed
  BY <1>1, <1>2 DEF Runs, AddKnob, WriteSeed, Look, Tokenize, Dump, PrintKnobs, ChooseFile, Fail,
     Include, Close, InitAgain, Call, Reached, Idle
<1>4. Takes(Due.value)
  BY <1>2 DEF Takes, Usable
<1>5. \E s \in Seeds : gen' = [seed |-> s, n |-> 0]
  BY <1>3, <1>4 DEF SetSeed
<1> QED
  BY <1>3, <1>5, SourcesAssumption DEF SetSeed, Keep, library

LEMMA InitChosen == Init => SeedChosen
BY DEF Init, SeedChosen

LEMMA NextChosen ==
  ASSUME Shape, GeneratorsOK, SeedChosen, [Next]_vars
  PROVE  SeedChosen'
<1>0. /\ TypeOK /\ Structure
      /\ gen.seed # Unset => gen'.seed # Unset
      /\ phase = "idle" => load["init"].todo = <<>> /\ load["init"].chosen = 0
  BY GeneratorStep DEF Shape, TypeOK, GeneratorsOK
<1>1. CASE Begins
  <2>1. PICK av : Begin(av) /\ phase = "idle"
    BY <1>1 DEF Begins
  <2>2. CASE world.flavor = "bad"
    <3>1. phase' = "idle" /\ world' = world
      BY <2>1, <2>2 DEF Begin
    <3>2. ~Usable'
      BY <2>2, <3>1 DEF Usable
    <3> QED
      BY <3>1, <3>2 DEF SeedChosen
  <2>3. CASE world.flavor # "bad"
    <3>1. phase' = "start" /\ load' = load
      BY <2>1, <2>3 DEF Begin
    <3> QED
      BY <1>0, <2>1, <3>1 DEF SeedChosen
  <2> QED
    BY <2>2, <2>3
<1>2. CASE Runs
  <2>1. UNCHANGED <<world, argv, flag>> /\ Usable' = Usable /\ Asks' = Asks
    BY <1>2, RunsKeep DEF Usable, Asks
  <2>2. phase \notin {"start", "path", "seed"} \/ UNCHANGED <<phase, load>>
    <3>1. ASSUME phase \in {"start", "path", "seed"}
          PROVE  UNCHANGED <<phase, load>>
      <4>1. Todo = <<>> /\ Chosen = 0 /\ ~Idle
        BY <3>1 DEF SeedChosen, Todo, Chosen, Level, Idle
      <4> QED
        BY <1>2, <4>1 DEF Runs, AddKnob, SetSeed, WriteSeed, Look, Tokenize, Dump, PrintKnobs,
           ChooseFile, Fail, Include, Close, InitAgain, Call, Reached
    <3> QED
      BY <3>1
  <2>3. phase' \in {phase, "idle", "crashed"} /\ (phase' = "crashed" /\ phase # "crashed" => ~Usable)
    BY <1>2, RunsKeep DEF Usable
  <2>4. Usable /\ ~world.restore /\ phase = "home" => gen'.seed # Unset
    BY <1>0, <1>2, AskedIsTaken DEF SeedChosen
  <2>5. Usable /\ ~world.restore /\ phase \in {"walk", "dirs"} => load'["init"].todo \in Source
    BY <1>2, SourceRuns, <1>0 DEF SeedChosen, Structure
  <2>6. phase' = "idle" /\ phase # "idle" => flag
    BY <1>2, RunsKeep
  <2> QED
    BY <1>0, <2>1, <2>2, <2>3, <2>4, <2>5, <2>6 DEF SeedChosen
<1>3. CASE UNCHANGED vars
  BY <1>3 DEF vars, SeedChosen, Usable, Asks
<1>4. CASE Moves
  <2>1. UNCHANGED <<world, argv, flag, gen>> /\ Usable' = Usable /\ Asks' = Asks
    BY <1>4 DEF Moves, Start, AddDirectory, PathDone, ChooseSeed, LoadHome, BeginWalk, LoadDirectory,
      LoadCurrent, LoadEnvironment, LoadSKNOBS, LoadArguments, Finish, Rest, Usable, Asks
  <2> USE DEF Between, SeedChosen, Rest
  <2>2. CASE Start
    BY <1>0, <2>1, <2>2 DEF Start
  <2>3. CASE AddDirectory \/ PathDone
    BY <2>1, <2>3 DEF AddDirectory, PathDone
  <2>4. CASE ChooseSeed
    <3>1. Goes("init", <<Asks>>, 0)
      <4>1. Asks \in Statement
        BY <1>0, WorldTyped, StatementsTyped DEF Asks, Ops
      <4>2. <<Asks>> \in Text
        BY <4>1 DEF Text
      <4> QED
        BY <1>0, <2>4, <4>2, ReadGoes DEF ChooseSeed, Asks
    <3> QED
      BY <2>1, <2>4, <3>1 DEF ChooseSeed, Goes
  <2>5. CASE LoadHome
    <3>1. load'["init"].todo \in Source
      <4>1. world.home \in Source /\ world.home \in Text
        BY <1>0, WorldSources, WorldTyped
      <4> QED
        BY <1>0, <2>5, <4>1, ReadGoes DEF LoadHome, Goes
    <3>2. load["init"].todo # <<Asks>>
      BY <2>5 DEF LoadHome
    <3> QED
      BY <2>1, <2>5, <3>1, <3>2 DEF LoadHome
  <2>6. CASE BeginWalk
    BY <2>1, <2>6, SourceFacts DEF BeginWalk
  <2>7. CASE LoadDirectory
    <3>1. load'["init"].todo \in Source
      <4>1. Len(world.knobsrc) \in Nat /\ dir \in Nat
        BY <1>0, WorldTyped DEF TypeOK
      <4>2. dir + 1 < Len(world.knobsrc) /\ (UNCHANGED load \/ Read(world.knobsrc[dir + 1]))
        BY <2>7 DEF LoadDirectory, Enter
      <4>3. world.knobsrc[dir + 1] \in Source /\ world.knobsrc[dir + 1] \in Text
        BY <1>0, <4>1, <4>2, WorldSources, WorldTyped
      <4> QED
        BY <1>0, <2>7, <4>2, <4>3, ReadGoes, SourceFacts DEF LoadDirectory, Goes
    <3> QED
      BY <2>1, <2>7, <3>1 DEF LoadDirectory
  <2>8. CASE LoadCurrent \/ LoadEnvironment \/ LoadSKNOBS \/ LoadArguments
    BY <2>1, <2>8 DEF LoadCurrent, LoadEnvironment, LoadSKNOBS, LoadArguments
  <2>9. CASE Finish
    BY <2>1, <2>9 DEF Finish, Answer
  <2> QED
    BY <1>4, <2>2, <2>3, <2>4, <2>5, <2>6, <2>7, <2>8, <2>9 DEF Moves
<1> QED
  BY <1>1, <1>2, <1>3, <1>4, KindsOfSteps
-----------------------------------------------------------------------------
(* Every directory is read.                                                *)

UpTo(n) == [d \in 1 .. n |-> d]

\* What the walk has read, where it is and what has become of buffer.
Walked ==
  /\ world \in Worlds
  /\ ~flag \/ phase \in {"start", "path", "seed", "home", "walk"} => history.dirs = <<>>
  /\ ~flag \/ phase \notin {"idle", "crashed"} => history.first = NoReply
  /\ Usable /\ ~world.restore =>
       /\ phase = "dirs" => /\ buffer = "pwd" /\ dir < Len(world.knobsrc)
                            /\ history.dirs = UpTo(dir)
       /\ phase \in {"environ", "SKNOBS", "args", "finish"} \/ history.first = 0
            => history.dirs = UpTo(Len(world.knobsrc))

LEMMA UpToFacts ==
  /\ UpTo(0) = <<>>
  /\ \A n \in Nat : Append(UpTo(n), n + 1) = UpTo(n + 1)
<1>1. UpTo(0) = <<>>
  BY DEF UpTo
<1>2. ASSUME NEW n \in Nat
      PROVE  Append(UpTo(n), n + 1) = UpTo(n + 1)
  <2>1. UpTo(n) \in Seq(Nat) /\ Len(UpTo(n)) = n
    BY DEF UpTo
  <2>2. Append(UpTo(n), n + 1) \in Seq(Nat) /\ Len(Append(UpTo(n), n + 1)) = n + 1
    BY <2>1
  <2>3. \A i \in 1 .. n + 1 : Append(UpTo(n), n + 1)[i] = i
    BY <2>1 DEF UpTo
  <2>4. UpTo(n + 1) \in Seq(Nat) /\ Len(UpTo(n + 1)) = n + 1
    BY DEF UpTo
  <2>5. \A i \in 1 .. n + 1 : UpTo(n + 1)[i] = i
    BY DEF UpTo
  <2> QED
    BY <2>2, <2>3, <2>4, <2>5
<1> QED
  BY <1>1, <1>2

LEMMA InitWalked == Init => Walked
BY DEF Init, Walked, NoReply

LEMMA NextWalked ==
  ASSUME Shape, SeedChosen, Walked, [Next]_vars
  PROVE  Walked'
<1>0. /\ TypeOK /\ Structure /\ DOMAIN history = HistoryFields
      /\ Len(world.knobsrc) \in Nat /\ Len(world.knobsrc) # 0 /\ dir \in Nat
  <2>1. TypeOK /\ Structure
    BY DEF Shape
  <2>2. world \in Worlds /\ world \in World
    BY <2>1 DEF Walked, TypeOK
  <2>3. world.knobsrc # <<>> /\ world.knobsrc \in Seq(Source)
    BY <2>2, SourcesAssumption DEF World
  <2> QED
    BY <2>1, <2>3 DEF Structure, TypeOK
<1> USE DEF HistoryFields, NoReply
<1>1. CASE Begins
  <2>1. PICK av : Begin(av) /\ phase = "idle" /\ ~flag
    BY <1>1 DEF Begins
  <2>2. CASE world.flavor = "bad"
    <3>1. phase' = "idle" /\ world' = world /\ flag'
      BY <2>1, <2>2 DEF Begin
    <3>2. ~Usable'
      BY <2>2, <3>1 DEF Usable
    <3> QED
      BY <3>1, <3>2 DEF Walked
  <2>3. CASE world.flavor # "bad"
    <3>1. phase' = "start" /\ history' = history /\ world' = world
      BY <2>1, <2>3 DEF Begin
    <3> QED
      BY <2>1, <3>1 DEF Walked
  <2> QED
    BY <2>2, <2>3
<1>2. CASE Runs
  <2>1. /\ UNCHANGED <<world, argv, flag, dir>> /\ history'.dirs = history.dirs
        /\ \/ UNCHANGED phase /\ history'.first = history.first
           \/ phase' = "crashed" /\ world.flavor = "bad" /\ history'.first = history.first
           \/ phase' = "idle" /\ flag /\ history'.first = 1
        /\ buffer' = buffer \/ WriteSeed
    BY <1>2, RunsKeep
  <2>2. Usable' = Usable
    BY <2>1 DEF Usable
  <2>3. Usable /\ ~world.restore /\ phase = "dirs" => buffer' = buffer
    <3>1. ASSUME WriteSeed, phase = "dirs", load["init"].todo \in Source
          PROVE  FALSE
      <4>1. Todo \in Source /\ Todo # <<>> /\ Due.op = "write"
        BY <3>1 DEF WriteSeed, Reached, Todo, Level
      <4>2. IsSource(Due)
        BY <4>1, SourceFacts DEF Due
      <4> QED
        BY <4>1, <4>2 DEF IsSource
    <3> QED
      BY <2>1, <3>1 DEF SeedChosen
  <2>4. phase' = "crashed" => phase = "crashed" \/ ~Usable
    BY <2>1 DEF Usable
  <2> QED
    BY <2>1, <2>2, <2>3, <2>4 DEF Walked
<1>3. CASE UNCHANGED vars
  BY <1>3 DEF vars, Walked, Usable
<1>4. CASE Moves
  <2>1. UNCHANGED <<world, argv, flag>> /\ Usable' = Usable
    BY <1>4 DEF Moves, Start, AddDirectory, PathDone, ChooseSeed, LoadHome, BeginWalk, LoadDirectory,
      LoadCurrent, LoadEnvironment, LoadSKNOBS, LoadArguments, Finish, Rest, Usable
  <2> USE DEF Between, Rest
  <2>2. CASE Start \/ AddDirectory \/ PathDone \/ ChooseSeed \/ LoadHome
    BY <2>1, <2>2 DEF Start, AddDirectory, PathDone, ChooseSeed, LoadHome, Walked
  <2>3. CASE BeginWalk
    <3>1. phase = "walk" /\ flag /\ phase' = "dirs" /\ dir' = 0 /\ buffer' = "pwd" /\ history' = history
      BY <1>0, <2>3 DEF BeginWalk, Structure
    <3>2. history.dirs = UpTo(0) /\ history.first = NoReply
      BY <3>1, UpToFacts DEF Walked
    <3> QED
      BY <1>0, <2>1, <3>1, <3>2 DEF Walked
  <2>4. CASE LoadDirectory
    <3>1. Usable /\ ~world.restore => history'.dirs = Append(history.dirs, dir + 1) /\ dir' = dir + 1
                                      /\ buffer' = "pwd"
      BY <1>0, <2>4 DEF LoadDirectory, Enter, Walked
    <3>4. Usable /\ ~world.restore => history.dirs = UpTo(dir)
      BY <2>4 DEF LoadDirectory, Walked
    <3>2. dir + 1 < Len(world.knobsrc) /\ phase = "dirs" /\ phase' = "dirs" /\ history'.first = history.first
      BY <1>0, <2>4 DEF LoadDirectory, Enter
    <3>3. flag
      BY <3>2, <1>0 DEF Structure
    <3>5. Usable /\ ~world.restore => history'.dirs = UpTo(dir')
      BY <1>0, <3>1, <3>4, UpToFacts
    <3>6. history.first = NoReply
      BY <3>2, <3>3 DEF Walked
    <3> QED
      BY <1>0, <2>1, <3>1, <3>2, <3>3, <3>5, <3>6 DEF Walked
  <2>5. CASE LoadCurrent
    <3>1. history'.dirs = Append(history.dirs, dir + 1) /\ history'.first = history.first
      BY <1>0, <2>5 DEF LoadCurrent, Enter
    <3>2. dir + 1 = Len(world.knobsrc) /\ phase = "dirs" /\ phase' = "environ"
      BY <1>0, <2>5 DEF LoadCurrent
    <3>3. flag
      BY <3>2, <1>0 DEF Structure
    <3> QED
      BY <1>0, <2>1, <3>1, <3>2, <3>3, UpToFacts DEF Walked
  <2>6. CASE LoadEnvironment \/ LoadSKNOBS \/ LoadArguments
    BY <2>1, <2>6 DEF LoadEnvironment, LoadSKNOBS, LoadArguments, Walked
  <2>7. CASE Finish
    <3>1. phase' = "idle" /\ history' = [history EXCEPT !.first = 0, !.reply = 0]
      BY <2>7 DEF Finish, Answer
    <3>2. flag /\ (phase = "finish" \/ world.restore)
      BY <1>0, <2>7 DEF Finish, Structure, SeedChosen
    <3> QED
      BY <1>0, <2>1, <3>1, <3>2 DEF Walked
  <2> QED
    BY <1>4, <2>2, <2>3, <2>4, <2>5, <2>6, <2>7 DEF Moves
<1> QED
  BY <1>1, <1>2, <1>3, <1>4, KindsOfSteps

\* An initialisation that succeeds has read every directory once
\* (sknobs.c:1190-1242): nothing prints into buffer during the walk, since by
\* then the generators are seeded and a file cannot seed them again.
THEOREM DirectoriesAreRead == Spec => []EveryDirectoryRead
<1> DEFINE I == Shape /\ GeneratorsOK /\ SeedChosen /\ Walked
<1>1. Init => I
  <2>1. Init => GeneratorsOK
    BY DEF Init, GeneratorsOK, Generators
  <2> QED
    BY <2>1, ShapeKept, InitChosen, InitWalked
<1>2. I /\ [Next]_vars => I'
  <2>1. GeneratorsOK /\ [Next]_vars => GeneratorsOK'
    BY GeneratorStep DEF GeneratorsOK
  <2> QED
    BY <2>1, ShapeStep, NextChosen, NextWalked
<1>3. I => EveryDirectoryRead
  <2> SUFFICES ASSUME I, Usable, history.first = 0, ~world.restore
               PROVE  /\ Len(history.dirs) = Len(world.knobsrc)
                      /\ {history.dirs[i] : i \in DOMAIN history.dirs} = DOMAIN world.knobsrc
    BY DEF EveryDirectoryRead
  <2> DEFINE k == Len(world.knobsrc)
  <2>1. DOMAIN world.knobsrc = 1 .. k /\ k \in Nat
    BY WorldTyped DEF Shape
  <2>2. history.dirs = [d \in 1 .. k |-> d]
    BY DEF Walked, UpTo
  <2> HIDE DEF k
  <2>3. Len([d \in 1 .. k |-> d]) = k
    BY <2>1
  <2> QED
    BY <2>1, <2>2, <2>3 DEF k
<1> QED
  BY <1>1, <1>2, <1>3, PTL DEF Spec
-----------------------------------------------------------------------------
(* The seed is reported.                                                   *)

Opens(l, op) == load[l].todo # <<>> /\ Head(load[l].todo).op = op

Reports ==
  Matching # {} /\ list[Max(Matching)].pattern = SeedName
    => list[Max(Matching)].value = gen.seed

\* Generators that are seeded are reported, or an activation is about to do it.
Reporting ==
  /\ gen.seed # Unset => Opens("client", "write") \/ Opens("init", "write") \/ Reports
  /\ \A l \in Levels : Opens(l, "write") => gen.seed # Unset
                                           /\ Head(load[l].todo).value = gen.seed
  /\ ~flag /\ gen.seed # Unset => Opens("client", "write")
  /\ flag /\ Opens("client", "add") => Head(load["client"].todo).pattern # SeedName

LEMMA InitReporting == Init => Reporting
BY DEF Init, Reporting, Opens, Quiet, Levels

\* The last knob that matches, when one is appended and when one is overwritten.
LEMMA AppendReports ==
  ASSUME list \in Seq([pattern : Patterns, value : Values]), NEW p \in Patterns, NEW v \in Values,
         list' = Append(list, [pattern |-> p, value |-> v]), gen'.seed = gen.seed,
         p = SeedName => v = gen.seed, p # SeedName => Reports
  PROVE  Reports'
<1> DEFINE n == Len(list)
<1>1. n \in Nat /\ Matching \subseteq 1 .. n
  BY DEF Matching
<1>2. Len(list') = n + 1 /\ list'[n + 1] = [pattern |-> p, value |-> v]
      /\ \A i \in 1 .. n : list'[i] = list[i]
  OBVIOUS
<1>3. CASE p \in SeedPatterns
  <2>1. n + 1 \in Matching' /\ Matching' \subseteq 1 .. n + 1
    BY <1>1, <1>2, <1>3 DEF Matching
  <2>2. Max(Matching') \in Matching' /\ n + 1 <= Max(Matching')
    <3>1. n + 1 \in Nat /\ Matching' \in SUBSET (1 .. n + 1) /\ Matching' # {}
      BY <1>1, <2>1
    <3> HIDE DEF n
    <3>2. Max(Matching') \in Matching' /\ \A x \in Matching' : x <= Max(Matching')
      BY <3>1, MaxOfPositions
    <3> QED
      BY <2>1, <3>2
  <2>3. Max(Matching') = n + 1
    <3>1. Max(Matching') \in 1 .. n + 1
      BY <2>1, <2>2
    <3> QED
      BY <1>1, <2>2, <3>1
  <2> QED
    BY <1>2, <2>3 DEF Reports
<1>4. CASE p \notin SeedPatterns
  <2>1. Matching' = Matching
    BY <1>1, <1>2, <1>4 DEF Matching
  <2>2. Matching # {} => Max(Matching) \in 1 .. n
    BY <1>1, MaxOfPositions
  <2> QED
    BY <1>2, <1>4, <2>1, <2>2, SourcesAssumption DEF Reports
<1> QED
  BY <1>3, <1>4

LEMMA WrittenReports ==
  ASSUME list \in Seq([pattern : Patterns, value : Values]), gen.seed \in Values,
         list' = Written(gen.seed), gen'.seed = gen.seed
  PROVE  Reports'
<1>1. CASE Matching = {}
  BY <1>1, AppendReports, SourcesAssumption DEF Written
<1>2. CASE Matching # {}
  <2> DEFINE n == Len(list)
  <2>1. n \in Nat /\ Matching \subseteq 1 .. n
    BY DEF Matching
  <2>2. Max(Matching) \in Matching
    BY <1>2, <2>1, MaxOfPositions
  <2>3. list' = [list EXCEPT ![Max(Matching)].value = gen.seed]
    BY <1>2 DEF Written
  <2>4. DOMAIN list' = DOMAIN list /\ list'[Max(Matching)].value = gen.seed
        /\ \A i \in DOMAIN list : list'[i].pattern = list[i].pattern
    BY <2>1, <2>2, <2>3
  <2>5. Matching' = Matching
    BY <2>4 DEF Matching
  <2> QED
    BY <2>4, <2>5 DEF Reports
<1> QED
  BY <1>1, <1>2

\* An activation that goes on with a source reports nothing, and owes no report.
LEMMA SourceReporting ==
  ASSUME Reporting, NEW l \in Levels, NEW t \in Source, NEW c, Goes(l, t, c),
         ~Opens(l, "write"), gen'.seed = gen.seed, flag' = flag, Reports => Reports'
  PROVE  Reporting'
<1>1. t # <<>> => Head(t).op # "write" /\ (Head(t).op = "add" => Head(t).pattern # SeedName)
  BY SourceFacts DEF IsSource
<1>2. \A k \in Levels \ {l}, op \in {"write", "add"} : Opens(k, op)' = Opens(k, op)
  BY DEF Opens, Goes
<1>3. ~Opens(l, "write")' /\ (Opens(l, "add")' => Head(load'[l].todo).pattern # SeedName)
  BY <1>1 DEF Opens, Goes
<1>4. \A k \in Levels \ {l} : load'[k] = load[k]
  BY DEF Goes
<1> QED
  BY <1>2, <1>3, <1>4 DEF Reporting, Levels

\* An activation obeys a statement.
LEMMA ObeyedReporting ==
  ASSUME Shape, Reporting,
         \/ AddKnob \/ SetSeed \/ WriteSeed \/ Look \/ Tokenize \/ Dump \/ PrintKnobs
  PROVE  Reporting'
<1>0. /\ TypeOK /\ Structure /\ Todo # <<>> /\ Chosen = 0 /\ UNCHANGED flag
      /\ Level \in Levels /\ Todo = load[Level].todo /\ Chosen = load[Level].chosen
      /\ Due = Head(Todo) /\ <<>> \in Text
      /\ list \in Seq([pattern : Patterns, value : Values])
  BY LevelFacts DEF AddKnob, SetSeed, WriteSeed, Look, Tokenize, Dump, PrintKnobs, Reached, Keep,
     library, Shape, TypeOK, Todo, Chosen, Due, Text
<1>1. ASSUME load' = Becoming(<<>>)
      PROVE  Goes(Level, Tail(Todo), 0) /\ Tail(Todo) \in Source
  BY <1>0, <1>1, ObeyedGoes
<1>2. CASE Look \/ Tokenize \/ PrintKnobs
  <2>1. load' = Becoming(<<>>) /\ UNCHANGED <<list, gen>> /\ Due.op # "write"
    BY <1>2 DEF Look, Tokenize, PrintKnobs, Reached
  <2>2. Reports => Reports'
    BY <2>1 DEF Reports, Matching
  <2> QED
    BY <1>0, <1>1, <2>1, <2>2, SourceReporting DEF Opens
<1>3. CASE AddKnob
  <2>1. /\ load' = Becoming(<<>>) /\ gen' = gen /\ Due.op \in {"knob", "add"}
        /\ list' = Append(list, [pattern |-> Due.pattern, value |-> Due.value])
    BY <1>3 DEF AddKnob, Reached
  <2>2. Due \in Statement /\ Due.pattern \in Patterns /\ Due.value \in Values
    <3>1. Due \in Statement
      BY <1>0, DueTyped
    <3> QED
      BY <2>1, <3>1 DEF Statement
  <2>3. CASE Due.pattern # SeedName
    <3>1. Reports => Reports'
      BY <1>0, <2>1, <2>2, <2>3, AppendReports
    <3> QED
      BY <1>0, <1>1, <2>1, <3>1, SourceReporting DEF Opens
  <2>4. CASE Due.pattern = SeedName
    <3>1. ~IsSource(Due)
      BY <2>1, <2>4 DEF IsSource
    <3>2. Level = "client" /\ Due.op = "add"
      BY <1>0, <2>1, <3>1 DEF Structure, InitDue, ClientDue, Levels
    <3>3. ~flag
      BY <1>0, <2>4, <3>2 DEF Reporting, Opens
    <3>4. gen.seed = Unset
      BY <1>0, <2>1, <3>2, <3>3 DEF Reporting, Opens
    <3>5. ~Opens("init", "write") /\ Goes("client", Tail(Todo), 0) /\ Tail(Todo) \in Source
      BY <1>1, <2>1, <3>2, <3>4 DEF Reporting, Levels
    <3>6. ~Opens("init", "write")' /\ ~Opens("client", "write")'
      BY <3>5, SourceFacts DEF Opens, Goes, Levels, IsSource
    <3> QED
      BY <1>0, <2>1, <3>3, <3>4, <3>6 DEF Reporting, Levels
  <2> QED
    BY <2>3, <2>4
<1>4. CASE WriteSeed
  <2>1. /\ load' = Becoming(<<>>) /\ gen' = gen /\ Due.op = "write" /\ list' = Written(Due.value)
        /\ flag
    BY <1>4 DEF WriteSeed, Reached, NeedInit
  <2>2. gen.seed # Unset /\ Due.value = gen.seed
    BY <1>0, <2>1 DEF Reporting, Opens
  <2>3. gen.seed \in Values
    BY <1>0, <2>2, SourcesAssumption DEF TypeOK
  <2>4. Reports'
    BY <1>0, <2>1, <2>2, <2>3, WrittenReports
  <2>5. Goes(Level, Tail(Todo), 0) /\ Tail(Todo) \in Source
    BY <1>1, <2>1
  <2>6. Tail(Todo) # <<>> => Head(Tail(Todo)).op # "write"
                 /\ (Head(Tail(Todo)).op = "add" => Head(Tail(Todo)).pattern # SeedName)
    BY <2>5, SourceFacts DEF IsSource
  <2>7. \A l \in Levels \ {Level} : load'[l] = load[l]
    BY <2>5 DEF Goes
  <2>8. load'[Level].todo = Tail(Todo)
    BY <2>5 DEF Goes
  <2>9. \A l \in Levels : Opens(l, "write")' => Opens(l, "write") /\ load'[l] = load[l]
    BY <2>6, <2>7, <2>8 DEF Opens
  <2>10. Opens("client", "add")' => \/ Opens("client", "add") /\ load'["client"] = load["client"]
                                   \/ Head(load'["client"].todo).pattern # SeedName
    BY <2>6, <2>7, <2>8 DEF Opens, Levels
  <2> QED
    BY <1>0, <2>1, <2>2, <2>4, <2>9, <2>10 DEF Reporting
<1>5. CASE SetSeed
  <2>1. CASE Takes(Due.value)
    <3>1. PICK s \in Seeds : gen' = [seed |-> s, n |-> 0] /\ load' = Becoming(<<Do("write", s)>>)
      BY <1>5, <2>1 DEF SetSeed
    <3>2. gen.seed = Unset /\ \A l \in Levels : ~Opens(l, "write")
      BY <2>1 DEF Takes, Reporting
    <3>3. s # Unset /\ gen'.seed = s /\ Do("write", s) \in Statement
      BY <3>1, StatementsTyped, SourcesAssumption
    <3>4. <<Do("write", s)>> \in Text
      BY <3>3 DEF Text
    <3>5. /\ Goes(Level, <<Do("write", s)>> \o Tail(Todo), 0)
          /\ <<Do("write", s)>> \o Tail(Todo) # <<>>
          /\ Head(<<Do("write", s)>> \o Tail(Todo)) = Do("write", s)
      BY <1>0, <3>1, <3>4, ObeyedGoes
    <3>6. /\ load'[Level].todo # <<>> /\ Head(load'[Level].todo) = Do("write", s)
          /\ \A l \in Levels \ {Level} : load'[l] = load[l]
      BY <3>5 DEF Goes
    <3>7. Do("write", s).op = "write" /\ Do("write", s).value = s
      BY DEF Do
    <3>8. Opens(Level, "write")' /\ ~Opens(Level, "add")'
      BY <1>5, <3>6, <3>7 DEF Opens, SetSeed, Keep, library, Level
    <3>9. ~flag => Level = "client"
      BY <1>0 DEF Structure, Level
    <3> QED
      BY <1>0, <3>2, <3>3, <3>6, <3>7, <3>8, <3>9 DEF Reporting, Opens, Levels
  <2>2. CASE ~Takes(Due.value)
    <3>1. load' = Becoming(<<>>) /\ UNCHANGED <<list, gen>> /\ Due.op # "write"
      BY <1>5, <2>2 DEF SetSeed, Reached
    <3>2. Reports => Reports'
      BY <3>1 DEF Reports, Matching
    <3> QED
      BY <1>0, <1>1, <3>1, <3>2, SourceReporting DEF Opens
  <2> QED
    BY <2>1, <2>2
<1>6. CASE Dump
  <2>1. PICK v \in Values \cup {Unset} : load' = Becoming(<<Do("print", v)>>)
    BY <1>6, SourcesAssumption DEF Dump
  <2>2. UNCHANGED <<list, gen>> /\ Due.op = "dump"
    BY <1>6 DEF Dump, Reached
  <2>3. Do("print", v) \in Statement /\ Do("print", v).op = "print"
    BY StatementsTyped DEF Ops, Do
  <2>4. <<Do("print", v)>> \in Text
    BY <2>3 DEF Text
  <2>5. /\ Goes(Level, <<Do("print", v)>> \o Tail(Todo), 0)
        /\ Head(<<Do("print", v)>> \o Tail(Todo)) = Do("print", v)
    BY <1>0, <2>1, <2>4, ObeyedGoes
  <2>6. /\ Head(load'[Level].todo) = Do("print", v)
        /\ \A l \in Levels \ {Level} : load'[l] = load[l]
    BY <2>5 DEF Goes
  <2>7. ~Opens(Level, "write")
    BY <1>0, <2>2 DEF Opens
  <2>8. Reports => Reports'
    BY <2>2 DEF Reports, Matching
  <2>9. \A l \in Levels : /\ Opens(l, "write") <=> Opens(l, "write")'
                          /\ Opens(l, "write")' \/ Opens(l, "add")' => load'[l] = load[l]
    BY <2>3, <2>6, <2>7 DEF Opens
  <2>10. Opens("client", "add")' => Opens("client", "add")
    BY <2>9 DEF Opens, Levels
  <2> QED
    BY <1>0, <2>2, <2>8, <2>9, <2>10 DEF Reporting, Levels
<1> QED
  BY <1>2, <1>3, <1>4, <1>5, <1>6

LEMMA NextReporting ==
  ASSUME SeedLeftAlone, Shape, GeneratorsOK, Reporting, [Next]_vars
  PROVE  Reporting'
<1>0. /\ TypeOK /\ Structure /\ Level \in Levels /\ Levels = {"client", "init"} /\ <<>> \in Source
      /\ Todo = load[Level].todo /\ Chosen = load[Level].chosen /\ Due = Head(Todo)
  BY LevelFacts, SourceFacts DEF Shape, Levels, Todo, Chosen, Due
<1>1. \A l \in Levels : Opens(l, "write") => load[l].chosen = 0
  BY <1>0, SourceFacts DEF Structure, Opens, IsSource
<1>2. CASE UNCHANGED vars \/ InitAgain \/ Close
  <2>1. UNCHANGED <<flag, load, gen>> /\ (list' = list \/ list' = <<>>)
    BY <1>2 DEF vars, InitAgain, Close, Keep, library
  <2>2. Reports => Reports'
    <3>1. CASE list' = list
      BY <2>1, <3>1 DEF Reports, Matching
    <3>2. CASE list' = <<>>
      BY <3>2 DEF Reports, Matching
    <3> QED
      BY <2>1, <3>1, <3>2
  <2>3. \A l, op : UNCHANGED Opens(l, op)
    BY <2>1 DEF Opens
  <2> QED
    BY <2>1, <2>2, <2>3 DEF Reporting
<1>4. CASE Begins
  <2>1. UNCHANGED <<load, gen, list>> /\ flag' /\ ~flag /\ phase = "idle"
    BY <1>4 DEF Begins, Begin
  <2>2. UNCHANGED Reports
    BY <2>1 DEF Reports, Matching
  <2>3. ~Opens("client", "add") \/ Head(load["client"].todo).pattern # SeedName
    <3>1. Todo = load["client"].todo /\ Chosen = load["client"].chosen
      BY <2>1 DEF Todo, Chosen, Level
    <3>2. Todo = <<>> \/ Chosen # 0 \/ Due.op # "add"
      BY <1>4, <3>1 DEF Begins, Idle, NeedInit
    <3> QED
      BY <1>0, <3>1, <3>2, SourceFacts DEF Opens, Structure, IsSource
  <2> QED
    BY <2>1, <2>2, <2>3 DEF Reporting, Opens
<1>5. ASSUME NEW c \in IF flag THEN Calls ELSE EarlyCalls, Call(c)
      PROVE  Reporting'
  <2>1. UNCHANGED <<flag, gen, list>> /\ Idle
    BY <1>5 DEF Call, Keep, library
  <2>2. Goes("client", c, 0) /\ (c # <<>> => Head(c).op # "write")
    BY <1>0, <1>5, CallGoes
  <2>3. flag /\ c # <<>> /\ Head(c).op = "add" => Head(c).pattern # SeedName
    BY <1>5, SourcesAssumption DEF SeedLeftAlone, Text
  <2>4. ~Opens("client", "write") /\ ~Opens("init", "write")
    BY <2>1 DEF Idle, Opens, Shape, TypeOK
  <2>5. UNCHANGED Reports
    BY <2>1 DEF Reports, Matching
  <2>6. load'["client"].todo = c /\ load'["init"] = load["init"]
    BY <1>0, <2>2 DEF Goes
  <2> QED
    BY <1>0, <2>1, <2>2, <2>3, <2>4, <2>5, <2>6 DEF Reporting, Opens
<1>6. CASE \/ AddKnob \/ SetSeed \/ WriteSeed \/ Look \/ Tokenize \/ Dump \/ PrintKnobs
  BY <1>6, ObeyedReporting
<1>7. CASE ChooseFile \/ Fail \/ Include
  <2>1. UNCHANGED <<flag, list>> /\ gen'.seed = gen.seed
    <3>1. UNCHANGED <<flag, list>> /\ (gen' = gen \/ gen' = [gen EXCEPT !.n = @ + 1])
      BY <1>7 DEF ChooseFile, Fail, Include, Keep, library
    <3> QED
      BY <3>1 DEF GeneratorsOK, Generators
  <2>2. ~Opens(Level, "write")
    BY <1>0, <1>1, <1>7 DEF Opens, ChooseFile, Fail, Include, Reached
  <2>3. \E t \in Source : \E c : Goes(Level, t, c)
    BY <1>0, <1>7, ChooseGoes, FailGoes, IncludeGoes
  <2>4. UNCHANGED Reports
    BY <2>1 DEF Reports, Matching
  <2> QED
    BY <1>0, <2>1, <2>2, <2>3, <2>4, SourceReporting
<1>8. CASE Moves
  <2>1. load["init"].todo = <<>> /\ load["init"].chosen = 0 /\ UNCHANGED <<flag, gen>> /\ flag
    BY <1>0, <1>8 DEF Structure, Between, Rest, Moves, Start, AddDirectory, PathDone, ChooseSeed,
       LoadHome, BeginWalk, LoadDirectory, LoadCurrent, LoadEnvironment, LoadSKNOBS,
       LoadArguments, Finish
  <2>2. Reports => Reports'
    <3>1. CASE AddDirectory
      <4>1. list' = Append(list, [pattern |-> PathName, value |-> world.path[dir + 1]])
            /\ dir \in Nat /\ dir < Len(world.path)
        BY <1>0, <3>1 DEF AddDirectory, TypeOK
      <4>2. world.path[dir + 1] \in Values
        BY <1>0, <4>1, WorldTyped
      <4> QED
        BY <1>0, <2>1, <4>1, <4>2, AppendReports, SourcesAssumption DEF TypeOK
    <3>2. CASE ~AddDirectory
      <4>1. list' = list
        BY <1>8, <3>2 DEF Rest, Moves, Start, PathDone, ChooseSeed,
           LoadHome, BeginWalk, LoadDirectory, LoadCurrent, LoadEnvironment, LoadSKNOBS,
           LoadArguments, Finish
      <4> QED
        BY <2>1, <4>1 DEF Reports, Matching
    <3> QED
      BY <3>1, <3>2
  <2>3. CASE load' = load
    BY <2>1, <2>2, <2>3 DEF Reporting, Opens
  <2>4. ASSUME NEW t \in Source, Read(t)
        PROVE  Reporting'
    <3>1. Goes("init", t, 0) /\ ~Opens("init", "write")
      BY <1>0, <2>1, <2>4, ReadGoes, StatementsTyped DEF Opens
    <3> QED
      BY <1>0, <2>1, <2>2, <3>1, SourceReporting
  <2>5. CASE ChooseSeed
    <3>1. Asks \in Statement /\ Read(<<Asks>>) /\ Asks.op = "set"
      BY <1>0, <2>5, WorldTyped, StatementsTyped DEF Asks, Ops, ChooseSeed, Do
    <3>2. Goes("init", <<Asks>>, 0)
      <4>1. <<Asks>> \in Text
      BY <3>1 DEF Text
    <4> QED
      BY <1>0, <2>1, <3>1, <4>1, ReadGoes
    <3>3. load'["client"] = load["client"] /\ ~Opens("init", "write")' /\ ~Opens("init", "write")
      BY <1>0, <2>1, <3>1, <3>2 DEF Goes, Opens
    <3> QED
      BY <1>0, <2>1, <2>2, <3>3 DEF Reporting, Opens
  <2>6. CASE LoadDirectory \/ LoadCurrent
    <3>1. Len(world.knobsrc) \in Nat /\ dir \in Nat
      BY <1>0, WorldTyped DEF TypeOK
    <3> QED
      BY <1>0, <2>3, <2>4, <2>6, <3>1, WorldSources DEF LoadDirectory, LoadCurrent, Enter
  <2>7. CASE Start \/ AddDirectory \/ PathDone \/ LoadHome \/ BeginWalk \/ LoadEnvironment
             \/ LoadSKNOBS \/ LoadArguments \/ Finish
    BY <1>0, <2>3, <2>4, <2>7, WorldSources DEF Start, AddDirectory, PathDone, LoadHome, BeginWalk,
       LoadEnvironment, LoadSKNOBS, LoadArguments, Finish, Shape, ArgvOK
  <2> QED
    BY <1>8, <2>5, <2>6, <2>7 DEF Moves
<1> QED
  BY <1>2, <1>4, <1>5, <1>6, <1>7, <1>8, KindsOfSteps DEF Runs

\* The knob named seed has the generators' seed whenever no call is running
\* (sknobs_set_seed, sknobs_set_value): if a client that has initialised the library
\* does not itself add a knob of that name.
THEOREM ReportedSeedIsUsed ==
  ASSUME SeedLeftAlone
  PROVE  Spec => []SeedIsReported
<1> DEFINE I == Shape /\ GeneratorsOK /\ Reporting
<1>1. Init => I
  <2>1. Init => GeneratorsOK
    BY DEF Init, GeneratorsOK, Generators
  <2> QED
    BY <2>1, ShapeKept, InitReporting
<1>2. I /\ [Next]_vars => I'
  <2>1. GeneratorsOK /\ [Next]_vars => GeneratorsOK'
    BY GeneratorStep DEF GeneratorsOK
  <2> QED
    BY <2>1, ShapeStep, NextReporting
<1>3. I => SeedIsReported
  BY DEF Reporting, SeedIsReported, Reports, Opens, Idle, Shape, TypeOK
<1> QED
  BY <1>1, <1>2, <1>3, PTL DEF Spec
-----------------------------------------------------------------------------
(* Draws are as they were asked for.                                       *)

\* The call that sets the seed before the library is initialised.
Awaiting ==
  /\ gen.seed = Unset /\ phase = "idle" /\ Opens("client", "set")
  /\ Head(load["client"].todo).value = history.early

Numbers == [k \in 1 .. gen.n |-> [seed |-> gen.seed, n |-> k]]

\* Who chose the seed, and what was drawn.
Drawing ==
  /\ world \in Worlds
  /\ ~flag => gen.n = 0
  /\ Usable \/ ~flag => history.drawn = Numbers /\ (gen.seed = Unset => gen.n = 0)
  /\ history.early # Unset => history.early \in Seeds /\ (gen.seed = history.early \/ Awaiting)
  /\ gen.seed # Unset /\ history.early = Unset => flag /\ (Usable => gen.seed = Wanted)
  /\ Opens("client", "set") =>
       LET v == Head(load["client"].todo).value
       IN  phase = "idle" /\ v \in Values /\ (gen.seed = Unset /\ v \in Seeds => history.early = v)
  /\ flag /\ Usable /\ world.restore /\ gen.seed = Unset =>
       \/ phase = "start"
       \/ /\ phase = "restored" /\ load["init"].chosen = 0
          /\ SavedSeed \in Seeds /\ SeedAhead(load["init"].todo, SavedSeed)

LEMMA SavedSeedAhead ==
  ASSUME SavedWithSeed, TypeOK, world \in Worlds, world.restore
  PROVE  SavedSeed \in Seeds /\ SeedAhead(world.saved, SavedSeed)
<1> DEFINE t == world.saved
           given == {i \in DOMAIN t : t[i].op = "seed"}
<1>1. PICK v \in Seeds, i \in DOMAIN t :
         t[i].op = "seed" /\ t[i].value = v /\ \A j \in 1 .. i - 1 : t[j].op \in {"knob", "add"}
  BY DEF SavedWithSeed, SeedAhead
<1>2. DOMAIN t = 1 .. Len(t) /\ Len(t) \in Nat
  BY WorldTyped DEF Text
<1>3. given \in SUBSET Nat /\ i \in given
  BY <1>1, <1>2
<1>4. Min(given) \in given /\ Min(given) <= i
  <2> HIDE DEF given
  <2> QED
    BY <1>3, MinOfNaturals
<1>5. Min(given) = i
  <2>1. Min(given) \in 1 .. Len(t) /\ t[Min(given)].op = "seed"
    BY <1>2, <1>4
  <2>2. Min(given) \notin 1 .. i - 1
    BY <1>1, <2>1
  <2> HIDE DEF given, t
  <2> QED
    BY <1>2, <1>4, <2>1, <2>2
<1>6. SavedSeed = v
  BY <1>1, <1>3, <1>5 DEF SavedSeed
<1> QED
  BY <1>1, <1>6 DEF SeedAhead

LEMMA AheadFacts ==
  ASSUME NEW t \in Seq(Statement), NEW v, SeedAhead(t, v)
  PROVE  /\ t # <<>>
         /\ Head(t).op = "seed" => Head(t).value = v
         /\ Head(t).op # "seed" => Head(t).op \in {"knob", "add"} /\ SeedAhead(Tail(t), v)
<1>1. PICK i \in DOMAIN t :
         t[i].op = "seed" /\ t[i].value = v /\ \A j \in 1 .. i - 1 : t[j].op \in {"knob", "add"}
  BY DEF SeedAhead
<1>2. t # <<>> /\ Head(t) = t[1] /\ i \in 1 .. Len(t) /\ Len(t) \in Nat
  OBVIOUS
<1>3. CASE i = 1
  BY <1>1, <1>2, <1>3
<1>4. CASE i # 1
  <2>1. Head(t).op \in {"knob", "add"}
    BY <1>1, <1>2, <1>4
  <2>2. i - 1 \in DOMAIN Tail(t) /\ \A j \in 1 .. i - 1 : Tail(t)[j] = t[j + 1]
    BY <1>2, <1>4
  <2>3. \A j \in 1 .. (i - 1) - 1 : Tail(t)[j].op \in {"knob", "add"}
    BY <1>1, <1>2, <1>4, <2>2
  <2>4. Tail(t)[i - 1] = t[i]
    BY <1>2, <1>4, <2>2
  <2>5. SeedAhead(Tail(t), v)
    BY <1>1, <2>2, <2>3, <2>4 DEF SeedAhead
  <2> QED
    BY <1>2, <2>1, <2>5
<1> QED
  BY <1>3, <1>4

LEMMA InitDrawing == Init => Drawing
<1> SUFFICES ASSUME Init PROVE Drawing
  OBVIOUS
<1>1. history.drawn = <<>> /\ history.early = Unset /\ gen.n = 0 /\ gen.seed = Unset /\ ~flag
      /\ world \in Worlds
  BY DEF Init
<1>2. load["client"].todo = <<>>
  BY DEF Init, Quiet, Levels
<1>3. Numbers = <<>>
  BY <1>1 DEF Numbers
<1> QED
  BY <1>1, <1>2, <1>3 DEF Drawing, Opens

\* A choice is made by a library that is initialised and has its seed.
LEMMA ChoicesAreSeeded ==
  ASSUME Shape, SeedChosen, ChosenStands, Drawing, ChooseFile
  PROVE  flag /\ (Usable => gen.seed # Unset)
<1>0. TypeOK /\ Structure /\ Todo # <<>> /\ Due.op = "choose" /\ Chosen = 0 /\ Due = Head(Todo)
      /\ phase # "crashed"
  BY DEF Shape, ChooseFile, Reached, Due
<1>1. flag
  BY <1>0, PlainFacts DEF ChosenStands, Structure, Todo, Level
<1>2. ASSUME Usable, gen.seed = Unset
      PROVE  FALSE
  <2>1. CASE world.restore
    <3>1. phase = "restored" /\ SeedAhead(Todo, SavedSeed)
      BY <1>0, <1>1, <1>2, <2>1 DEF Drawing, SeedChosen, Todo, Level
    <3>2. Todo \in Seq(Statement)
      BY <1>0, <3>1 DEF TypeOK, Activations, Text, Levels, Todo, Level
    <3> QED
      BY <1>0, <3>1, <3>2, AheadFacts
  <2>2. CASE ~world.restore
    <3>1. phase \in {"start", "path", "seed", "home"}
      BY <1>1, <1>2, <2>2 DEF SeedChosen
    <3>2. Todo = <<Asks>>
      BY <1>0, <1>2, <2>2, <3>1 DEF SeedChosen, Todo, Level
    <3> QED
      BY <1>0, <3>2 DEF Asks, Do
  <2> QED
    BY <2>1, <2>2
<1> QED
  BY <1>1, <1>2

\* A step that neither draws nor seeds, and goes on with a source or something
\* else that is not a set.
LEMMA DrawingKept ==
  ASSUME Shape, Drawing, UNCHANGED <<world, argv, flag, gen>>,
         history'.drawn = history.drawn, history'.early = history.early,
         ~Awaiting,
         Opens("client", "set")' => Opens("client", "set") /\ phase' = "idle" /\ load'["client"] = load["client"],
         flag /\ Usable /\ world.restore /\ gen.seed = Unset =>
           \/ phase' = "start"
           \/ /\ phase' = "restored" /\ load'["init"].chosen = 0
              /\ SavedSeed \in Seeds /\ SeedAhead(load'["init"].todo, SavedSeed)
  PROVE  Drawing'
<1>1. UNCHANGED <<Usable, Wanted, Numbers, SavedSeed>>
  BY DEF Usable, Wanted, Numbers, SavedSeed
<1>2. history.early # Unset => gen.seed = history.early
  BY DEF Drawing
<1>3. \A t, v : SeedAhead(t, v)' = SeedAhead(t, v)
  BY DEF SeedAhead
<1> QED
  BY <1>1, <1>2, <1>3 DEF Drawing

LEMMA BeginsDrawing ==
  ASSUME Shape, SeedChosen, Drawing, Begins
  PROVE  Drawing'
<1>0. /\ TypeOK /\ Structure /\ DOMAIN history = HistoryFields /\ phase = "idle" /\ ~flag
      /\ Todo = load["client"].todo /\ Chosen = load["client"].chosen /\ Due = Head(Todo)
      /\ "client" \in Levels
  BY DEF Shape, Structure, Begins, Todo, Chosen, Due, Level, Levels
<1>1. /\ UNCHANGED <<world, gen, load>> /\ flag'
      /\ history'.drawn = history.drawn /\ history'.early = history.early
      /\ IF world.flavor = "bad" THEN phase' = "idle" ELSE phase' = "start"
  BY <1>0 DEF Begins, Begin, HistoryFields
<1>2. ~Opens("client", "set")
  <2>1. Todo = <<>> \/ Todo \in Source \/ Due.op # "set"
    BY <1>0 DEF Begins, Idle, NeedInit, Structure
  <2> QED
    BY <1>0, <2>1, SourceFacts DEF Opens, IsSource
<1>3. ~Awaiting /\ ~Awaiting' /\ ~Opens("client", "set")'
  BY <1>1, <1>2 DEF Awaiting, Opens
<1>4. Numbers' = Numbers /\ (world.flavor = "bad" => ~Usable')
  BY <1>1 DEF Numbers, Usable
<1> QED
  BY <1>0, <1>1, <1>3, <1>4 DEF Drawing

\* The seed is taken.
LEMMA SeedDrawing ==
  ASSUME Shape, GeneratorsOK, SeedChosen, Drawing, SetSeed, Takes(Due.value)
  PROVE  Drawing'
<1>0. /\ TypeOK /\ Structure /\ Todo # <<>> /\ Chosen = 0 /\ UNCHANGED library
      /\ Due.op \in {"seed", "set"} /\ Due = Head(Todo) /\ gen.seed = Unset
      /\ UNCHANGED history /\ Level \in Levels
  BY LevelFacts DEF Shape, SetSeed, Reached, Due, Takes, Keep
<1>1. PICK s \in Seeds : /\ Due.value # Unset => s = Due.value
                         /\ gen' = [seed |-> s, n |-> 0] /\ load' = Becoming(<<Do("write", s)>>)
  BY DEF SetSeed
<1>2. s # Unset /\ gen'.seed = s /\ gen'.n = 0 /\ gen'.seed # Unset
  BY <1>1, SourcesAssumption
<1>3. ~Opens("client", "set")'
  <2>1. Do("write", s) \in Statement
    BY StatementsTyped, SourcesAssumption
  <2>2. <<Do("write", s)>> \in Text
    BY <2>1 DEF Text
  <2>3. /\ Goes(Level, <<Do("write", s)>> \o Tail(Todo), 0)
        /\ Head(<<Do("write", s)>> \o Tail(Todo)) = Do("write", s)
    BY <1>0, <1>1, <2>2, ObeyedGoes
  <2>4. CASE Level = "client"
    BY <2>3, <2>4 DEF Goes, Opens, Do
  <2>5. CASE Level = "init"
    <3>1. load'["client"] = load["client"] /\ phase # "idle"
      BY <2>3, <2>5 DEF Goes, Level, Levels
    <3> QED
      BY <3>1 DEF Drawing, Opens
  <2> QED
    BY <1>0, <2>4, <2>5 DEF Levels
<1>4. Due.op = "set" /\ Level = "client" => Due.value \in Values /\ Opens("client", "set")
                                           /\ s = Due.value /\ history.early = s
  <2>1. ASSUME Due.op = "set", Level = "client"
        PROVE  Opens("client", "set") /\ Due.value = Head(load["client"].todo).value
    BY <1>0, <2>1 DEF Opens, Todo
  <2> QED
    BY <1>0, <1>1, <2>1, SourcesAssumption DEF Drawing
<1>5. history.early # Unset => Due.op = "set" /\ Level = "client"
  BY <1>0 DEF Drawing, Awaiting, Opens, Level, Todo
<1>6. history.early # Unset => s = history.early
  BY <1>4, <1>5
<1>7. ASSUME history.early = Unset
      PROVE  flag /\ (Usable => Wanted' = s)
  <2>1. ~(Due.op = "set" /\ Level = "client")
    BY <1>2, <1>4, <1>7
  <2>2. flag
    BY <1>0, <2>1 DEF SetSeed, Reached, NeedInit, Structure, Level
  <2>3. ASSUME Usable
        PROVE  Wanted' = s
    <3>1. CASE world.restore
      <4>1. /\ phase = "restored" /\ Level = "init" /\ SavedSeed \in Seeds
            /\ SeedAhead(Todo, SavedSeed)
        BY <1>0, <2>2, <2>3, <3>1 DEF Drawing, Todo, Level, SeedChosen
      <4>2. Todo \in Seq(Statement)
        BY <1>0 DEF TypeOK, Activations, Text, Todo
      <4>3. Due.op = "seed"
        BY <1>0, <4>1, <4>2, AheadFacts
      <4>4. Due.value = SavedSeed
        BY <1>0, <4>1, <4>2, <4>3, AheadFacts
      <4>5. s = SavedSeed /\ SavedSeed' = SavedSeed
        BY <1>0, <1>1, <4>1, <4>4, SourcesAssumption DEF library, SavedSeed
      <4> QED
        BY <1>0, <1>7, <3>1, <4>1, <4>5 DEF Wanted, library
    <3>2. CASE ~world.restore
      <4>1. phase \in {"start", "path", "seed", "home"}
        BY <1>0, <2>2, <2>3, <3>2 DEF SeedChosen
      <4>2. Todo = <<Asks>>
        BY <1>0, <2>3, <3>2, <4>1 DEF SeedChosen, Todo, Level
      <4>3. Due.value = Asked(world, argv)
        BY <1>0, <4>2 DEF Asks, Do
      <4>4. Asked(world, argv) # Unset => s = Asked(world, argv)
        BY <1>1, <4>3
      <4>5. Asked(world, argv)' = Asked(world, argv)
        BY <1>0 DEF library
      <4> QED
        BY <1>0, <1>2, <1>7, <2>3, <3>2, <4>4, <4>5, SourcesAssumption DEF Wanted, library, Usable
    <3> QED
      BY <3>1, <3>2
  <2> QED
    BY <2>2, <2>3
<1>8. Usable \/ ~flag => history.drawn = Numbers'
  <2>1. Usable \/ ~flag => history.drawn = Numbers /\ gen.n = 0
    BY <1>0 DEF Drawing
  <2> QED
    BY <1>2, <2>1 DEF Numbers
<1> QED
  BY <1>0, <1>2, <1>3, <1>6, <1>7, <1>8 DEF Drawing, library, Usable

\* An activation obeys a statement that seeds nothing.
LEMMA ObeyedDrawing ==
  ASSUME Shape, SeedChosen, Drawing,
         \/ AddKnob \/ WriteSeed \/ Look \/ Tokenize \/ Dump \/ PrintKnobs
         \/ (SetSeed /\ ~Takes(Due.value))
  PROVE  Drawing'
<1>0. /\ TypeOK /\ Structure /\ Todo # <<>> /\ Chosen = 0 /\ UNCHANGED <<world, argv, flag, gen, history>>
      /\ Due = Head(Todo) /\ Level \in Levels /\ Todo = load[Level].todo /\ Todo \in Seq(Statement)
      /\ phase # "crashed" /\ Levels = {"client", "init"}
  BY LevelFacts DEF Shape, AddKnob, SetSeed, WriteSeed, Look, Tokenize, Dump, PrintKnobs, Reached,
     Keep, library, Due, Todo, TypeOK, Activations, Text, Levels
<1>1. phase' = phase \/ (phase' = "crashed" /\ ~Usable)
  BY DEF AddKnob, SetSeed, WriteSeed, Look, Tokenize, Dump, PrintKnobs, Keep, library, Usable
<1>2. PICK t : /\ Goes(Level, t, 0) /\ (t # <<>> => Head(t).op # "set")
               /\ ~Dump => t = Tail(Todo)
  <2>1. CASE Dump
    <3>1. PICK v \in Values \cup {Unset} : load' = Becoming(<<Do("print", v)>>)
      BY <2>1, SourcesAssumption DEF Dump
    <3>2. Do("print", v) \in Statement /\ Do("print", v).op = "print"
      BY StatementsTyped DEF Ops, Do
    <3>3. <<Do("print", v)>> \in Text
      BY <3>2 DEF Text
    <3>4. /\ Goes(Level, <<Do("print", v)>> \o Tail(Todo), 0)
          /\ Head(<<Do("print", v)>> \o Tail(Todo)) = Do("print", v)
      BY <1>0, <3>1, <3>3, ObeyedGoes
    <3> QED
      BY <2>1, <3>2, <3>4
  <2>2. CASE ~Dump
    <3>1. load' = Becoming(<<>>) /\ <<>> \in Text
      BY <2>2 DEF AddKnob, SetSeed, WriteSeed, Look, Tokenize, PrintKnobs, Text
    <3>2. Goes(Level, Tail(Todo), 0) /\ Tail(Todo) \in Source
      BY <1>0, <3>1, ObeyedGoes
    <3> QED
      BY <3>2, SourceFacts DEF IsSource
  <2> QED
    BY <2>1, <2>2
<1>3. /\ load'[Level].todo = t /\ load'[Level].chosen = 0
      /\ \A l \in Levels \ {Level} : load'[l] = load[l]
  BY <1>2 DEF Goes
<1>4. ~Awaiting
  <2>1. ASSUME Awaiting
        PROVE  FALSE
    <3>1. Level = "client" /\ Due.op = "set" /\ Due.value = history.early /\ gen.seed = Unset
      BY <1>0, <2>1 DEF Awaiting, Opens, Level
    <3>2. SetSeed
      BY <3>1 DEF AddKnob, WriteSeed, Look, Tokenize, Dump, PrintKnobs, Reached
    <3>3. history.early \in Seeds
      BY <3>1, <1>0, SourcesAssumption DEF Drawing, Opens
    <3> QED
      BY <3>1, <3>2, <3>3 DEF AddKnob, WriteSeed, Look, Tokenize, Dump, PrintKnobs, Reached, Takes
  <2> QED
    BY <2>1
<1>5. ~Opens("client", "set")'
  <2>1. CASE Level = "client"
    BY <1>2, <1>3, <2>1 DEF Opens
  <2>2. CASE Level = "init"
    <3>1. load'["client"] = load["client"] /\ phase # "idle"
      BY <1>0, <1>3, <2>2 DEF Level
    <3> QED
      BY <3>1 DEF Drawing, Opens
  <2> QED
    BY <1>0, <2>1, <2>2
<1>6. ASSUME flag, Usable, world.restore, gen.seed = Unset
      PROVE  /\ phase' = "restored" /\ load'["init"].chosen = 0
             /\ SavedSeed \in Seeds /\ SeedAhead(load'["init"].todo, SavedSeed)
  <2>1. /\ phase = "restored" /\ Level = "init" /\ SavedSeed \in Seeds
        /\ SeedAhead(Todo, SavedSeed)
    BY <1>0, <1>6 DEF Drawing, Todo, Level, SeedChosen
  <2>2. Due.op # "seed"
    <3>1. ASSUME Due.op = "seed"
          PROVE  FALSE
      <4>1. Due.value = SavedSeed
        BY <1>0, <2>1, <3>1, AheadFacts
      <4> QED
        BY <1>6, <2>1, <3>1, <4>1 DEF AddKnob, SetSeed, WriteSeed, Look, Tokenize, Dump, PrintKnobs,
           Reached, Takes
    <3> QED
      BY <3>1
  <2>3. SeedAhead(Tail(Todo), SavedSeed) /\ ~Dump
    BY <1>0, <2>1, <2>2, AheadFacts DEF Dump, Reached
  <2> QED
    BY <1>1, <1>2, <1>3, <1>6, <2>1, <2>3
<1> QED
  BY <1>0, <1>4, <1>5, <1>6, DrawingKept

\* A file is chosen, or loaded, or a load is given up.
LEMMA LoadsDrawing ==
  ASSUME Shape, GeneratorsOK, SeedChosen, ChosenStands, Drawing, ChooseFile \/ Fail \/ Include
  PROVE  Drawing'
<1>0. /\ TypeOK /\ Structure /\ Level \in Levels /\ Levels = {"client", "init"}
      /\ Todo = load[Level].todo /\ Chosen = load[Level].chosen /\ Due = Head(Todo)
      /\ DOMAIN history = HistoryFields
  BY LevelFacts DEF Shape, Structure, Levels, Todo, Chosen, Due
<1>1. flag /\ (Usable => gen.seed # Unset)
  <2>1. CASE ChooseFile
    BY <2>1, ChoicesAreSeeded
  <2>2. CASE Fail \/ Include
    <3>1. flag /\ (Chosen # 0 \/ (Todo # <<>> /\ Due.op = "fail"))
      BY <2>2, <1>0, FailGoes, IncludeGoes
    <3>2. ASSUME Usable, gen.seed = Unset
          PROVE  FALSE
      <4>1. CASE world.restore
        <5>1. phase = "restored" /\ SeedAhead(Todo, SavedSeed) /\ Chosen = 0
          BY <1>0, <3>1, <3>2, <4>1 DEF Drawing, SeedChosen, Todo, Chosen, Level
        <5>2. Todo \in Seq(Statement)
          BY <1>0 DEF TypeOK, Activations, Text
        <5> QED
          BY <1>0, <3>1, <5>1, <5>2, AheadFacts
      <4>2. CASE ~world.restore
        <5>1. phase \in {"start", "path", "seed", "home"}
          BY <3>1, <3>2, <4>2 DEF SeedChosen
        <5>2. Chosen = 0 /\ (Todo = <<>> \/ Todo = <<Asks>>)
          BY <1>0, <3>2, <4>2, <5>1 DEF SeedChosen, Todo, Chosen, Level
        <5> QED
          BY <1>0, <3>1, <5>2 DEF Asks, Do
      <4> QED
        BY <4>1, <4>2
    <3> QED
      BY <3>1, <3>2
  <2> QED
    BY <2>1, <2>2
<1>2. /\ UNCHANGED <<world, argv, flag>> /\ history'.early = history.early
      /\ \/ gen' = gen /\ history'.drawn = history.drawn
         \/ /\ gen' = [gen EXCEPT !.n = @ + 1]
            /\ history'.drawn = Append(history.drawn, gen')
  <2>1. CASE ChooseFile
    BY <1>0, <2>1 DEF ChooseFile, Keep, library, HistoryFields
  <2>2. CASE Fail
    BY <1>0, <2>2, FailGoes DEF HistoryFields
  <2>3. CASE Include
    <3>1. UNCHANGED <<world, argv, flag, gen>>
      BY <2>3 DEF Include
    <3>2. history'.early = history.early /\ history'.drawn = history.drawn
      BY <1>0, <2>3, IncludeGoes DEF HistoryFields
    <3> QED
      BY <3>1, <3>2
  <2> QED
    BY <2>1, <2>2, <2>3
<1>3. ~Awaiting
  <2>1. ASSUME Awaiting
        PROVE  FALSE
    <3>1. Level = "client" /\ Todo # <<>> /\ Due.op = "set"
      BY <1>0, <2>1 DEF Awaiting, Opens, Level
    <3>2. Chosen = 0
      BY <1>0, <3>1, SourceFacts DEF Structure, IsSource
    <3> QED
      BY <3>1, <3>2 DEF ChooseFile, Fail, Include, Reached
  <2> QED
    BY <2>1
<1>4. ~Opens("client", "set")'
  <2>1. PICK t \in Source : \E c : Goes(Level, t, c)
    BY <1>0, ChooseGoes, FailGoes, IncludeGoes, SourceFacts
  <2>2. t # <<>> => Head(t).op # "set"
    BY SourceFacts DEF IsSource
  <2>3. CASE Level = "client"
    BY <2>1, <2>2, <2>3 DEF Opens, Goes
  <2>4. CASE Level = "init"
    <3>1. load'["client"] = load["client"] /\ phase # "idle"
      BY <1>0, <2>1, <2>4 DEF Goes, Level
    <3> QED
      BY <3>1 DEF Drawing, Opens
  <2> QED
    BY <1>0, <2>3, <2>4
<1>5. gen'.seed = gen.seed /\ UNCHANGED <<Usable, Wanted>>
  <2>1. gen'.seed = gen.seed
    BY <1>2 DEF GeneratorsOK, Generators
  <2> QED
    BY <1>2, <2>1 DEF Usable, Wanted, SavedSeed
<1>6. Usable => history'.drawn = Numbers'
  <2>1. CASE gen' = gen
    <3>1. gen.n # gen.n + 1
      BY DEF GeneratorsOK, Generators
    <3>2. history'.drawn = history.drawn
      BY <1>2, <2>1, <3>1 DEF GeneratorsOK, Generators
    <3> QED
      BY <2>1, <3>2 DEF Drawing, Numbers
  <2>2. CASE gen' = [gen EXCEPT !.n = gen.n + 1] /\ history'.drawn = Append(history.drawn, gen')
    <3> DEFINE n == gen.n
    <3>1. n \in Nat /\ gen'.n = n + 1 /\ gen' = [seed |-> gen.seed, n |-> n + 1]
      BY <2>2 DEF GeneratorsOK, Generators
    <3>2. Usable => history.drawn = [k \in 1 .. n |-> [seed |-> gen.seed, n |-> k]]
      BY DEF Drawing, Numbers
    <3>3. Numbers' = [k \in 1 .. n + 1 |-> [seed |-> gen.seed, n |-> k]]
      BY <1>5, <3>1 DEF Numbers
    <3> HIDE DEF n
    <3>4. Append([k \in 1 .. n |-> [seed |-> gen.seed, n |-> k]], [seed |-> gen.seed, n |-> n + 1])
            = [k \in 1 .. n + 1 |-> [seed |-> gen.seed, n |-> k]]
      BY <3>1
    <3> QED
      BY <2>2, <3>1, <3>2, <3>3, <3>4
  <2> QED
    BY <1>2, <2>1, <2>2
<1>7. history.early # Unset => gen.seed = history.early
  BY <1>3 DEF Drawing
<1> QED
  BY <1>1, <1>2, <1>4, <1>5, <1>6, <1>7 DEF Drawing

LEMMA NextDrawing ==
  ASSUME SavedWithSeed, Shape, GeneratorsOK, SeedChosen, ChosenStands, Drawing, [Next]_vars
  PROVE  Drawing'
<1>0. /\ TypeOK /\ Structure /\ Levels = {"client", "init"} /\ DOMAIN history = HistoryFields
      /\ phase = "idle" => load["init"].todo = <<>> /\ load["init"].chosen = 0
  BY DEF Shape, Structure, TypeOK, Levels
<1>1. CASE UNCHANGED vars \/ InitAgain \/ Close
  <2>1. UNCHANGED <<world, argv, flag, gen, load, phase>> /\ history'.drawn = history.drawn
        /\ history'.early = history.early
    BY <1>0, <1>1 DEF vars, InitAgain, Close, Keep, library, HistoryFields
  <2>2. UNCHANGED <<Usable, Wanted, Numbers, SavedSeed, Awaiting, Opens("client", "set")>>
    BY <2>1 DEF Usable, Wanted, Numbers, SavedSeed, Awaiting, Opens
  <2>3. \A t, v : SeedAhead(t, v)' = SeedAhead(t, v)
    BY DEF SeedAhead
  <2> QED
    BY <2>1, <2>2, <2>3 DEF Drawing
<1>2. CASE Begins
  BY <1>2, BeginsDrawing
<1>3. ASSUME NEW c \in IF flag THEN Calls ELSE EarlyCalls, Call(c)
      PROVE  Drawing'
  <2>1. /\ UNCHANGED <<world, argv, flag, gen, phase>> /\ Idle /\ history'.drawn = history.drawn
        /\ history'.early = IF gen.seed = Unset /\ c # <<>> /\ Head(c).op = "set"
                                /\ Head(c).value \in Seeds
                             THEN Head(c).value ELSE history.early
    BY <1>0, <1>3 DEF Call, Keep, library, HistoryFields
  <2>2. /\ Goes("client", c, 0)
        /\ c # <<>> /\ Head(c).op = "set" => Head(c).value \in Values
    <3>1. c # <<>> /\ c \in Source => Head(c).op # "set"
      BY SourceFacts DEF IsSource
    <3> QED
      BY <1>0, <1>3, <3>1, CallGoes
  <2>3. load'["client"].todo = c /\ load'["init"] = load["init"] /\ phase = "idle"
    BY <1>0, <2>1, <2>2 DEF Goes, Idle
  <2>4. history.early # Unset => gen.seed = history.early
    BY <2>1 DEF Drawing, Awaiting, Opens, Idle
  <2>5. ~(flag /\ Usable /\ world.restore /\ gen.seed = Unset)
    BY <2>3 DEF Drawing
  <2>6. UNCHANGED <<Usable, Numbers>> /\ (history'.early = history.early => Wanted' = Wanted)
    BY <2>1 DEF Usable, Numbers, Wanted, SavedSeed
  <2>7. CASE history'.early = history.early
    <3>1. Opens("client", "set")' => Head(load'["client"].todo).value \in Values
             /\ (gen.seed = Unset /\ Head(load'["client"].todo).value \in Seeds
                  => history'.early = Head(load'["client"].todo).value)
      BY <2>1, <2>2, <2>3 DEF Opens
    <3> QED
      BY <2>1, <2>3, <2>4, <2>5, <2>6, <2>7, <3>1 DEF Drawing
  <2>8. CASE history'.early # history.early
    <3>1. gen.seed = Unset /\ c # <<>> /\ Head(c).op = "set" /\ Head(c).value \in Seeds
          /\ history'.early = Head(c).value
      BY <2>1, <2>8
    <3>2. Awaiting'
      BY <2>1, <2>3, <3>1 DEF Awaiting, Opens
    <3> QED
      BY <2>1, <2>2, <2>3, <2>5, <2>6, <3>1, <3>2 DEF Drawing, Opens
  <2> QED
    BY <2>7, <2>8
<1>4. CASE ChooseFile \/ Fail \/ Include
  BY <1>4, LoadsDrawing
<1>5. CASE SetSeed /\ Takes(Due.value)
  BY <1>5, SeedDrawing
<1>6. CASE \/ AddKnob \/ WriteSeed \/ Look \/ Tokenize \/ Dump \/ PrintKnobs
           \/ (SetSeed /\ ~Takes(Due.value))
  BY <1>6, ObeyedDrawing
<1>7. CASE Moves
  <2>1. /\ UNCHANGED <<world, argv, flag, gen>> /\ phase # "idle" /\ load["init"].chosen = 0
        /\ load["init"].todo = <<>> /\ "init" \in Levels
    BY <1>0, <1>7 DEF Moves, Start, AddDirectory, PathDone, ChooseSeed, LoadHome, BeginWalk,
       LoadDirectory, LoadCurrent, LoadEnvironment, LoadSKNOBS, LoadArguments, Finish, Rest, Between
  <2>2. history'.drawn = history.drawn /\ history'.early = history.early
    BY <1>0, <1>7 DEF Moves, Start, AddDirectory, PathDone, ChooseSeed, LoadHome, BeginWalk,
       LoadDirectory, LoadCurrent, LoadEnvironment, LoadSKNOBS, LoadArguments, Finish, Enter, Answer,
       HistoryFields
  <2>3. load'["client"] = load["client"] /\ load'["init"].chosen = 0
    <3>1. load' = load \/ \E t : load' = [load EXCEPT !["init"].todo = t]
      BY <1>7 DEF Moves, Start, AddDirectory, PathDone, ChooseSeed, LoadHome, BeginWalk,
         LoadDirectory, LoadCurrent, LoadEnvironment, LoadSKNOBS, LoadArguments, Finish, Enter, Read
    <3> QED
      BY <1>0, <2>1, <3>1 DEF TypeOK, Activations
  <2>4. ~Awaiting /\ ~Opens("client", "set") /\ ~Opens("client", "set")'
    BY <2>1, <2>3 DEF Awaiting, Drawing, Opens
  <2>5. ASSUME flag, Usable, world.restore, gen.seed = Unset
        PROVE  /\ phase' = "restored"
               /\ SavedSeed \in Seeds /\ SeedAhead(load'["init"].todo, SavedSeed)
    <3>1. phase = "start" \/ SeedAhead(<<>>, SavedSeed)
      BY <2>1, <2>5 DEF Drawing
    <3>2. ~SeedAhead(<<>>, SavedSeed)
      BY DEF SeedAhead
    <3>3. Start
      BY <1>7, <3>1, <3>2 DEF Moves, AddDirectory, PathDone, ChooseSeed, LoadHome, BeginWalk,
       LoadDirectory, LoadCurrent, LoadEnvironment, LoadSKNOBS, LoadArguments, Finish, Between
    <3>4. phase' = "restored" /\ load' = [load EXCEPT !["init"].todo = world.saved]
      BY <2>5, <3>3 DEF Start, Read
    <3>5. load'["init"].todo = world.saved
      BY <1>0, <2>1, <3>4 DEF TypeOK, Activations
    <3>6. SavedSeed \in Seeds /\ SeedAhead(world.saved, SavedSeed)
      BY <1>0, <2>5, SavedSeedAhead DEF Drawing
    <3> QED
      BY <3>4, <3>5, <3>6
  <2> QED
    BY <2>1, <2>2, <2>3, <2>4, <2>5, DrawingKept
<1> QED
  BY <1>1, <1>2, <1>3, <1>4, <1>5, <1>6, <1>7, KindsOfSteps DEF Runs

\* A run draws the numbers of the seed it was asked for, from the first on
\* (the comment in sknobs_set_seed, sknobs.c:682-697), whatever its sources say and
\* however often they say it: if no file is chosen before the library is
\* initialised, and saved databases have the seed they were made with.
THEOREM DrawsFollowTheSeed ==
  ASSUME NoEarlyChoice, SavedWithSeed
  PROVE  Spec => []DrawsAsAsked
<1> DEFINE I == Shape /\ GeneratorsOK /\ SeedChosen /\ ChosenStands /\ Drawing
<1>1. Init => I
  <2>1. Init => GeneratorsOK
    BY DEF Init, GeneratorsOK, Generators
  <2> QED
    BY <2>1, ShapeKept, InitChosen, InitStands, InitDrawing
<1>2. I /\ [Next]_vars => I'
  <2>1. GeneratorsOK /\ [Next]_vars => GeneratorsOK'
    BY GeneratorStep DEF GeneratorsOK
  <2> QED
    BY <2>1, ShapeStep, NextChosen, NextStands, NextDrawing
<1>3. I => DrawsAsAsked
  <2> SUFFICES ASSUME I, Usable, NEW k \in DOMAIN history.drawn
               PROVE  history.drawn[k] = [seed |-> Wanted, n |-> k]
    BY DEF DrawsAsAsked
  <2>1. history.drawn = Numbers /\ gen.n \in Nat
    BY DEF Drawing, GeneratorsOK, Generators
  <2>2. k \in 1 .. gen.n /\ history.drawn[k] = [seed |-> gen.seed, n |-> k]
    BY <2>1 DEF Numbers
  <2>3. gen.seed # Unset
    BY <2>1, <2>2 DEF Drawing
  <2>4. gen.seed = Wanted
    BY <2>3 DEF Drawing, Wanted, Awaiting
  <2> QED
    BY <2>2, <2>4
<1> QED
  BY <1>1, <1>2, <1>3, PTL DEF Spec
-----------------------------------------------------------------------------
(* One text: Startup implements SourceText.  What sknobs_init has still to *)
(* read is a text, and every phase reads a part of it.                     *)

\* The knobsrc files of a directory come before those of the directories below it:
\* what the recursion in Dirs defines.
LEMMA DirsExist ==
  ASSUME NEW n \in Nat, NEW r \in [1 .. n -> Source]
  PROVE  \E f : f = [i \in 1 .. n + 1 |-> IF i > n THEN <<>> ELSE r[i] \o f[i + 1]]
<1> DEFINE Value(f, i) == IF i > n THEN <<>> ELSE r[i] \o f[i + 1]
           Solves(f, k) == f \in [k .. n + 1 -> Source] /\ \A i \in k .. n + 1 : f[i] = Value(f, i)
           Bad == {j \in Nat : j <= n /\ ~\E f : Solves(f, n + 1 - j)}
<1>1. Bad = {}
  <2> SUFFICES ASSUME Bad # {} PROVE FALSE
    OBVIOUS
  <2>1. PICK j \in Bad : \A x \in Bad : j <= x
    <3>1. Bad \in SUBSET Nat
      OBVIOUS
    <3> HIDE DEF Bad
    <3> QED
      BY <3>1, LeastNatural
  <2>2. CASE j = 0
    <3> DEFINE f == [i \in n + 1 .. n + 1 |-> <<>>]
    <3>1. f \in [n + 1 .. n + 1 -> Source]
      BY SourceFacts
    <3>2. \A i \in n + 1 .. n + 1 : i > n /\ f[i] = <<>>
      OBVIOUS
    <3>3. Solves(f, n + 1 - j)
      BY <2>2, <3>1, <3>2
    <3> QED
      BY <2>1, <3>3
  <2>3. CASE j # 0
    <3>1. j \in Nat /\ j <= n /\ j - 1 \in Nat /\ j - 1 <= n /\ j - 1 \notin Bad
      <4>1. j \in Nat /\ j <= n
        BY <2>1
      <4>2. j - 1 \in Nat /\ j - 1 <= n /\ ~(j <= j - 1)
        BY <2>3, <4>1
      <4> HIDE DEF Bad
      <4> QED
        BY <2>1, <4>1, <4>2
    <3>2. PICK g : Solves(g, n + 1 - (j - 1))
      BY <3>1
    <3> DEFINE k == n + 1 - j
               f == [i \in k .. n + 1 |-> IF i = k THEN r[k] \o g[k + 1] ELSE g[i]]
    <3>3. /\ k \in 1 .. n /\ n + 1 - (j - 1) = k + 1 /\ k \in Nat
          /\ \A i \in k .. n + 1 : i = k \/ i \in k + 1 .. n + 1
      BY <3>1
    <3>4. g \in [k + 1 .. n + 1 -> Source] /\ \A i \in k + 1 .. n + 1 : g[i] = Value(g, i)
      BY <3>2, <3>3
    <3> HIDE DEF k
    <3>5. r[k] \o g[k + 1] \in Source
      BY <3>3, <3>4, SourceFacts
    <3>6. f \in [k .. n + 1 -> Source]
      BY <3>3, <3>4, <3>5
    <3>7. \A i \in k + 1 .. n + 1 : f[i] = g[i]
      BY <3>3
    <3>8. ASSUME NEW i \in k .. n + 1 PROVE f[i] = Value(f, i)
      <4>1. CASE i = k
        <5>1. f[i] = r[k] \o g[k + 1] /\ ~(i > n)
          BY <3>3, <4>1
        <5>2. f[k + 1] = g[k + 1]
          BY <3>3, <3>7
        <5> QED
          BY <4>1, <5>1, <5>2
      <4>2. CASE i \in k + 1 .. n + 1
        <5>1. f[i] = g[i] /\ g[i] = Value(g, i)
          BY <3>4, <3>7, <4>2
        <5>2. ~(i > n) => f[i + 1] = g[i + 1]
          BY <3>3, <3>7, <4>2
        <5> QED
          BY <5>1, <5>2
      <4> QED
        BY <3>3, <4>1, <4>2
    <3>9. Solves(f, k)
      BY <3>6, <3>8
    <3> QED
      BY <2>1, <3>9 DEF k
  <2> QED
    BY <2>2, <2>3
<1>2. n \notin Bad
  BY <1>1
<1>3. PICK f : Solves(f, 1)
  <2>1. n + 1 - n = 1
    OBVIOUS
  <2> QED
    BY <1>2, <2>1
<1>4. f = [i \in 1 .. n + 1 |-> Value(f, i)]
  BY <1>3
<1> QED
  BY <1>4

\* It consists of what the files hold.
LEMMA DirsTyped ==
  ASSUME NEW n \in Nat, NEW r \in [1 .. n -> Source], NEW f,
         f = [i \in 1 .. n + 1 |-> IF i > n THEN <<>> ELSE r[i] \o f[i + 1]]
  PROVE  \A i \in 1 .. n + 1 : f[i] \in Source
<1> DEFINE Bad == {j \in Nat : j <= n /\ f[n + 1 - j] \notin Source}
<1>0. \A i \in 1 .. n + 1 : f[i] = IF i > n THEN <<>> ELSE r[i] \o f[i + 1]
  <2> DEFINE g == [i \in 1 .. n + 1 |-> IF i > n THEN <<>> ELSE r[i] \o f[i + 1]]
  <2>1. \A i \in 1 .. n + 1 : g[i] = IF i > n THEN <<>> ELSE r[i] \o f[i + 1]
    OBVIOUS
  <2>2. f = g
    OBVIOUS
  <2> HIDE DEF g
  <2> QED
    BY <2>1, <2>2
<1>1. Bad = {}
  <2> SUFFICES ASSUME Bad # {} PROVE FALSE
    OBVIOUS
  <2>1. PICK j \in Bad : \A x \in Bad : j <= x
    <3>1. Bad \in SUBSET Nat
      OBVIOUS
    <3> HIDE DEF Bad
    <3> QED
      BY <3>1, LeastNatural
  <2>2. /\ j \in Nat /\ j <= n /\ f[n + 1 - j] \notin Source
        /\ n + 1 - j \in 1 .. n + 1
    BY <2>1
  <2>3. j # 0
    BY <1>0, <2>2, SourceFacts
  <2>4. j - 1 \in Nat /\ j - 1 <= n /\ ~(j <= j - 1) /\ n + 1 - (j - 1) = n + 1 - j + 1
    BY <2>2, <2>3
  <2>5. f[n + 1 - j + 1] \in Source
    <3>1. j - 1 \notin Bad
      <4> HIDE DEF Bad
      <4> QED
        BY <2>1, <2>4
    <3> QED
      BY <2>4, <3>1
  <2>6. n + 1 - j \in 1 .. n
    BY <2>2, <2>3
  <2>7. f[n + 1 - j] = r[n + 1 - j] \o f[n + 1 - j + 1]
    <3>1. \A i \in 1 .. n : i \in 1 .. n + 1 /\ ~(i > n)
      OBVIOUS
    <3>2. \A i \in 1 .. n : f[i] = r[i] \o f[i + 1]
      BY <1>0, <3>1
    <3> QED
      BY <2>6, <3>2
  <2> QED
    BY <2>2, <2>5, <2>6, <2>7, SourceFacts
<1> SUFFICES ASSUME NEW i \in 1 .. n + 1 PROVE f[i] \in Source
  OBVIOUS
<1>2. n + 1 - i \in Nat /\ n + 1 - i <= n /\ n + 1 - (n + 1 - i) = i
  OBVIOUS
<1>3. n + 1 - i \notin Bad
  BY <1>1
<1> QED
  BY <1>2, <1>3

\* The files of directory d come first, then those of the directories below it.
LEMMA DirsFacts ==
  ASSUME NEW w \in World
  PROVE  /\ Dirs(w, Len(w.knobsrc) + 1) = <<>>
         /\ \A d \in 1 .. Len(w.knobsrc) : Dirs(w, d) = w.knobsrc[d] \o Dirs(w, d + 1)
         /\ \A d \in 1 .. Len(w.knobsrc) + 1 : Dirs(w, d) \in Source
<1> DEFINE n == Len(w.knobsrc)
           from == CHOOSE f : f = [i \in 1 .. n + 1 |-> IF i > n THEN <<>> ELSE w.knobsrc[i] \o f[i + 1]]
<1>1. n \in Nat /\ w.knobsrc \in [1 .. n -> Source]
  <2>1. w.knobsrc \in Seq(Source)
    BY DEF World
  <2> QED
    BY <2>1
<1>2. \A d : Dirs(w, d) = from[d]
  BY DEF Dirs
<1> HIDE DEF n
<1>3. from = [i \in 1 .. n + 1 |-> IF i > n THEN <<>> ELSE w.knobsrc[i] \o from[i + 1]]
  BY <1>1, DirsExist
<1>4. \A d \in 1 .. n + 1 : from[d] \in Source
  <2> DEFINE f == from
  <2>1. f = [i \in 1 .. n + 1 |-> IF i > n THEN <<>> ELSE w.knobsrc[i] \o f[i + 1]]
    BY <1>3
  <2> HIDE DEF f
  <2>2. \A d \in 1 .. n + 1 : f[d] \in Source
    BY <1>1, <2>1, DirsTyped
  <2> QED
    BY <2>2 DEF f
<1>5. \A d \in 1 .. n + 1 : from[d] = IF d > n THEN <<>> ELSE w.knobsrc[d] \o from[d + 1]
  <2> DEFINE f == from
             g == [i \in 1 .. n + 1 |-> IF i > n THEN <<>> ELSE w.knobsrc[i] \o f[i + 1]]
  <2>1. \A d \in 1 .. n + 1 : g[d] = IF d > n THEN <<>> ELSE w.knobsrc[d] \o f[d + 1]
    OBVIOUS
  <2>2. f = g
    BY <1>3
  <2> HIDE DEF f, g
  <2>3. \A d \in 1 .. n + 1 : f[d] = IF d > n THEN <<>> ELSE w.knobsrc[d] \o f[d + 1]
    BY <2>1, <2>2
  <2> QED
    BY <2>3 DEF f
<1> HIDE DEF from
<1>6. /\ Dirs(w, n + 1) = <<>>
      /\ \A d \in 1 .. n : Dirs(w, d) = w.knobsrc[d] \o Dirs(w, d + 1)
      /\ \A d \in 1 .. n + 1 : Dirs(w, d) \in Source
  <2>1. n + 1 \in 1 .. n + 1 /\ n + 1 > n
    BY <1>1
  <2>2. \A d \in 1 .. n : d \in 1 .. n + 1 /\ d + 1 \in 1 .. n + 1 /\ ~(d > n)
    BY <1>1
  <2>3. from[n + 1] = <<>>
    BY <1>5, <2>1
  <2>4. \A d \in 1 .. n : from[d] = w.knobsrc[d] \o from[d + 1]
    BY <1>5, <2>2
  <2> QED
    BY <1>2, <1>4, <2>3, <2>4
<1> QED
  BY <1>6 DEF n

\* Texts can be joined.
LEMMA TextJoined ==
  ASSUME NEW s \in Text, NEW t \in Text
  PROVE  s \o t \in Text
BY DEF Text

\* Concatenation is associative.  The instances needed are named, since the provers
\* see through \o to the elements.
Three(s, t, u) == (s \o t) \o u = s \o (t \o u)
Four(s, t, u, v) == ((s \o t) \o u) \o v = s \o (t \o (u \o v))
Seven(p, s, h, d, e, k, a) ==
  (((((p \o s) \o h) \o d) \o e) \o k) \o a = p \o (s \o (h \o (d \o (e \o (k \o a)))))

LEMMA ThreeTexts == \A s, t, u \in Text : Three(s, t, u)
BY ConcatAssociative DEF Text, Three

LEMMA FourTexts == \A s, t, u, v \in Text : Four(s, t, u, v)
<1> SUFFICES ASSUME NEW s \in Text, NEW t \in Text, NEW u \in Text, NEW v \in Text
             PROVE  Four(s, t, u, v)
  OBVIOUS
<1>1. s \o t \in Text /\ u \o v \in Text
  BY TextJoined
<1>2. Three(s \o t, u, v) /\ Three(s, t, u \o v)
  BY <1>1, ThreeTexts
<1> QED
  BY <1>2 DEF Three, Four

LEMMA SevenTexts == \A p, s, h, d, e, k, a \in Text : Seven(p, s, h, d, e, k, a)
<1> SUFFICES ASSUME NEW p \in Text, NEW s \in Text, NEW h \in Text, NEW d \in Text,
                    NEW e \in Text, NEW k \in Text, NEW a \in Text
             PROVE  Seven(p, s, h, d, e, k, a)
  OBVIOUS
<1>1. p \o s \in Text /\ k \o a \in Text
  BY TextJoined
<1>2. (p \o s) \o h \in Text /\ e \o (k \o a) \in Text
  BY <1>1, TextJoined
<1>3. ((p \o s) \o h) \o d \in Text /\ d \o (e \o (k \o a)) \in Text
  BY <1>2, TextJoined
<1>4. Four(((p \o s) \o h) \o d, e, k, a)
  BY <1>3, FourTexts
<1>5. Three((p \o s) \o h, d, e \o (k \o a))
  BY <1>2, ThreeTexts
<1>6. Four(p, s, h, d \o (e \o (k \o a)))
  BY <1>3, FourTexts
<1> QED
  BY <1>4, <1>5, <1>6 DEF Three, Four, Seven

\* The empty text adds nothing.
LEMMA EmptyText ==
  /\ <<>> \in Text
  /\ \A t \in Text : <<>> \o t = t /\ t \o <<>> = t
BY ConcatEmptySeq DEF Text

\* A text of one statement, and what follows it.
LEMMA OneStatement ==
  ASSUME NEW x \in Statement
  PROVE  /\ <<x>> \in Text
         /\ \A t \in Text : <<x>> \o t # <<>> /\ Head(<<x>> \o t) = x /\ Tail(<<x>> \o t) = t
BY DEF Text

\* The first statement of two texts is that of the first.
LEMMA FirstStatement ==
  ASSUME NEW s \in Text, NEW t \in Text, s # <<>>
  PROVE  /\ s \o t # <<>> /\ Head(s \o t) = Head(s) /\ Tail(s) \in Text
         /\ Tail(s \o t) = Tail(s) \o t
<1>1. s \o t # <<>> /\ Head(s \o t) = Head(s) /\ Tail(s) \in Text
  BY DEF Text
<1>2. Tail(s \o t) = Tail(s) \o t
  <2>1. Tail(s \o t) \in Text /\ Tail(s) \o t \in Text
    BY <1>1 DEF Text
  <2>2. Len(Tail(s \o t)) = Len(Tail(s) \o t)
    BY DEF Text
  <2>3. \A i \in 1 .. Len(Tail(s \o t)) : Tail(s \o t)[i] = (Tail(s) \o t)[i]
    BY DEF Text
  <2> QED
    BY <2>1, <2>2, <2>3, SeqEqual DEF Text
<1> QED
  BY <1>1, <1>2

\* What the phases leave to be read: p and d stand for phase and dir.
Remains(p, d, w, av) ==
  LET environ == w.environ \o w.SKNOBS \o av
      from(e) == Dirs(w, e) \o environ
  IN  CASE p = "start" -> InitText(w, av)
        [] p = "path" -> SubSeq(PathText(w), d + 1, Len(w.path))
                             \o SeedText(w, av) \o w.home \o from(1)
        [] p = "seed" -> SeedText(w, av) \o w.home \o from(1)
        [] p = "home" -> w.home \o from(1)
        [] p = "walk" -> from(1)
        [] p = "dirs" -> from(d + 1)
        [] p = "environ" -> environ
        [] p = "SKNOBS" -> w.SKNOBS \o av
        [] p = "args" -> av
        [] OTHER -> <<>>

\* What is unread is what the phase leaves.
LEMMA UnreadRemains ==
  Unread = Remains(phase, dir, world, argv) /\ Unread' = Remains(phase', dir', world', argv')
BY DEF Unread, Remains

\* Phase p reads t first, and leaves the rest to phase q.
Leaves(w, av, p, d, t, q, e) == Remains(p, d, w, av) = t \o Remains(q, e, w, av)

\* Every phase reads the next part of the text.
LEMMA RemainsFacts ==
  ASSUME NEW w \in World, NEW av \in Text, Asked(w, av) \in Values \cup {Unset},
         NEW d \in Nat, NEW e \in Nat
  PROVE  /\ w.flavor # "bad" /\ w.restore => Leaves(w, av, "start", d, w.saved, "restored", e)
         /\ w.flavor # "bad" /\ ~w.restore => Leaves(w, av, "start", d, <<>>, "path", 0)
         /\ d < Len(w.path) =>
              Leaves(w, av, "path", d, <<Knob("add", PathName, w.path[d + 1])>>, "path", d + 1)
         /\ d = Len(w.path) => Leaves(w, av, "path", d, <<>>, "seed", e)
         /\ Leaves(w, av, "seed", d, <<Do("set", Asked(w, av))>>, "home", e)
         /\ Leaves(w, av, "home", d, w.home, "walk", e)
         /\ Leaves(w, av, "walk", d, <<>>, "dirs", 0)
         /\ d + 1 < Len(w.knobsrc) => Leaves(w, av, "dirs", d, w.knobsrc[d + 1], "dirs", d + 1)
         /\ d + 1 = Len(w.knobsrc) => Leaves(w, av, "dirs", d, w.knobsrc[d + 1], "environ", e)
         /\ Leaves(w, av, "environ", d, w.environ, "SKNOBS", e)
         /\ Leaves(w, av, "SKNOBS", d, w.SKNOBS, "args", e)
         /\ Leaves(w, av, "args", d, av, "finish", e)
         /\ \A p \in {"finish", "restored"} : Leaves(w, av, p, d, <<>>, "idle", e)
         /\ Remains("idle", d, w, av) = <<>>
         /\ \A p \in Phases :
              (p = "dirs" => d + 1 \in 1 .. Len(w.knobsrc) + 1) => Remains(p, d, w, av) \in Text
<1> DEFINE a == w.environ \o (w.SKNOBS \o av)
           F(i) == Dirs(w, i) \o a
           n == Len(w.knobsrc)
           S == <<Do("set", Asked(w, av))>>
           P(i) == SubSeq(PathText(w), i + 1, Len(w.path))
<1>1. /\ w.home \in Text /\ w.environ \in Text /\ w.SKNOBS \in Text /\ w.saved \in Text
      /\ w.path \in Seq(Values) /\ w.knobsrc \in Seq(Source) /\ n \in Nat
      /\ \A i \in 1 .. n : w.knobsrc[i] \in Text
  <2>1. w.knobsrc \in Seq(Source)
    BY DEF World
  <2>2. \A i \in 1 .. n : w.knobsrc[i] \in Text
    BY <2>1, StatementsTyped
  <2> QED
    BY <2>1, <2>2, StatementsTyped DEF World
<1>2. /\ a \in Text /\ (w.environ \o w.SKNOBS) \o av = a
      /\ \A i \in 1 .. n + 1 : Dirs(w, i) \in Text /\ F(i) \in Text
  <2>0. w.SKNOBS \o av \in Text
    BY <1>1, TextJoined, EmptyText, OneStatement
  <2>1. (w.environ \o w.SKNOBS) \o av = a
    <3>1. Three(w.environ, w.SKNOBS, av)
      BY <1>1, ThreeTexts
    <3> QED
      BY <3>1 DEF Three
  <2>3. a \in Text
    BY <1>1, <2>0, TextJoined
  <2>2. \A i \in 1 .. n + 1 : Dirs(w, i) \in Text
    BY DirsFacts, TextJoined, EmptyText, OneStatement, StatementsTyped
  <2> HIDE DEF a, n
  <2> QED
    BY <2>1, <2>2, <2>3, TextJoined
<1>3. /\ \A i \in 1 .. n : F(i) = w.knobsrc[i] \o F(i + 1)
      /\ F(n + 1) = a
  <2> HIDE DEF a
  <2>1. ASSUME NEW i \in 1 .. n PROVE F(i) = w.knobsrc[i] \o F(i + 1)
    <3>1. i + 1 \in 1 .. n + 1
      BY <1>1
    <3>2. Dirs(w, i) = w.knobsrc[i] \o Dirs(w, i + 1)
      BY DirsFacts
    <3>3. w.knobsrc[i] \in Text /\ Dirs(w, i + 1) \in Text /\ a \in Text
      BY <1>1, <1>2, <3>1
    <3>4. (w.knobsrc[i] \o Dirs(w, i + 1)) \o a = w.knobsrc[i] \o (Dirs(w, i + 1) \o a)
      <4>1. Three(w.knobsrc[i], Dirs(w, i + 1), a)
        BY <3>3, ThreeTexts
      <4> QED
        BY <4>1 DEF Three
    <3> QED
      BY <3>2, <3>4
  <2>2. F(n + 1) = a
    BY <1>2, DirsFacts, TextJoined, EmptyText, OneStatement, StatementsTyped
  <2> QED
    BY <2>1, <2>2
<1>4. S \in Text /\ SeedText(w, av) = S /\ Do("set", Asked(w, av)) \in Statement
  <2>1. Do("set", Asked(w, av)) \in Statement
    BY StatementsTyped DEF Ops
  <2> QED
    BY <2>1, TextJoined, EmptyText, OneStatement DEF SeedText
<1>5. PathText(w) \in Text /\ Len(PathText(w)) = Len(w.path)
      /\ \A i \in 1 .. Len(w.path) : /\ PathText(w)[i] = Knob("add", PathName, w.path[i])
                                     /\ Knob("add", PathName, w.path[i]) \in Statement
  <2>1. \A i \in 1 .. Len(w.path) : Knob("add", PathName, w.path[i]) \in Statement
    <3>1. \A i \in 1 .. Len(w.path) : w.path[i] \in Values
      BY <1>1
    <3> QED
      BY <3>1, SourcesAssumption DEF Knob, Statement, Ops
  <2>2. DOMAIN w.path = 1 .. Len(w.path) /\ Len(w.path) \in Nat
    BY <1>1
  <2>3. PathText(w) \in Text /\ Len(PathText(w)) = Len(w.path)
    BY <2>1, <2>2 DEF PathText, Text
  <2> QED
    BY <2>1, <2>2, <2>3 DEF PathText
<1>6. \A i \in Nat : P(i) \in Text
  BY <1>1, <1>5, SubSeqProperties DEF Text
<1>7. P(Len(w.path)) = <<>> /\ P(0) = PathText(w)
  BY <1>1, <1>5 DEF Text
<1>8. d < Len(w.path) => P(d) = <<Knob("add", PathName, w.path[d + 1])>> \o P(d + 1)
  <2> DEFINE q == PathText(w)
             m == Len(w.path)
  <2> SUFFICES ASSUME d < m
               PROVE  SubSeq(q, d + 1, m)
                        = <<Knob("add", PathName, w.path[d + 1])>> \o SubSeq(q, d + 1 + 1, m)
    OBVIOUS
  <2>1. /\ q \in Seq(Statement) /\ Len(q) = m /\ m \in Nat
        /\ q[d + 1] = Knob("add", PathName, w.path[d + 1])
    BY <1>1, <1>5 DEF Text
  <2> HIDE DEF q, m
  <2>2. d + 1 \in 1 .. Len(q) /\ m \in d + 1 .. Len(q)
    BY <2>1
  <2>3. SubSeq(q, d + 1, m) = <<q[d + 1]>> \o SubSeq(q, d + 1 + 1, m)
    BY <2>1, <2>2, SubSeqRecursiveFirst, Zenon
  <2> QED
    BY <2>1, <2>3
<1>9. /\ 1 \in 1 .. n + 1 /\ F(1) \in Text /\ w.home \o F(1) \in Text
      /\ w.SKNOBS \o av \in Text
  BY <1>1, <1>2, TextJoined, EmptyText, OneStatement
<1>10. /\ \A i : Remains("walk", i, w, av) = F(1)
       /\ \A i : Remains("home", i, w, av) = w.home \o F(1)
       /\ \A i : Remains("seed", i, w, av) = S \o (w.home \o F(1))
       /\ \A i : Remains("environ", i, w, av) = a
       /\ \A i : Remains("SKNOBS", i, w, av) = w.SKNOBS \o av
       /\ \A i : Remains("args", i, w, av) = av
       /\ \A i, p : p \in {"idle", "restored", "finish", "crashed"} => Remains(p, i, w, av) = <<>>
       /\ \A i \in Nat : Remains("dirs", i, w, av) = F(i + 1)
       /\ \A i : Remains("start", i, w, av) = InitText(w, av)
  <2> HIDE DEF a, S
  <2>1. (S \o w.home) \o F(1) = S \o (w.home \o F(1))
    <3> HIDE DEF F
    <3>1. Three(S, w.home, F(1))
      BY <1>1, <1>4, <1>9, ThreeTexts
    <3> QED
      BY <3>1 DEF Three
  <2> QED
    BY <1>2, <1>4, <2>1 DEF Remains
<1>11. \A i \in Nat : Remains("path", i, w, av) = P(i) \o (S \o (w.home \o F(1)))
  <2> HIDE DEF a, S
  <2> SUFFICES ASSUME NEW i \in Nat
               PROVE  Remains("path", i, w, av) = P(i) \o (S \o (w.home \o F(1)))
    OBVIOUS
  <2>1. ((P(i) \o S) \o w.home) \o F(1) = P(i) \o (S \o (w.home \o F(1)))
    <3> HIDE DEF P, F
    <3>1. Four(P(i), S, w.home, F(1))
      BY <1>1, <1>4, <1>6, <1>9, FourTexts
    <3> QED
      BY <3>1 DEF Four
  <2>3. Remains("path", i, w, av) = ((P(i) \o S) \o w.home) \o F(1)
    BY <1>2, <1>4 DEF Remains
  <2> QED
    BY <2>1, <2>3
<1>12. S \o (w.home \o F(1)) \in Text
  BY <1>4, <1>9, TextJoined, EmptyText, OneStatement
<1>13. d < Len(w.path) =>
         Remains("path", d, w, av) =
           <<Knob("add", PathName, w.path[d + 1])>> \o Remains("path", d + 1, w, av)
  <2> SUFFICES ASSUME d < Len(w.path)
               PROVE  Remains("path", d, w, av) =
                        <<Knob("add", PathName, w.path[d + 1])>> \o Remains("path", d + 1, w, av)
    OBVIOUS
  <2> DEFINE k == Knob("add", PathName, w.path[d + 1])
             T == S \o (w.home \o F(1))
  <2>1. k \in Statement
    BY <1>1, <1>5
  <2> HIDE DEF P
  <2>2. P(d + 1) \in Text /\ T \in Text
    BY <1>6, <1>12
  <2> HIDE DEF k, T
  <2>4. <<k>> \in Text
    BY <2>1, OneStatement
  <2>3. (<<k>> \o P(d + 1)) \o T = <<k>> \o (P(d + 1) \o T)
    <3>1. Three(<<k>>, P(d + 1), T)
      BY <2>2, <2>4, ThreeTexts
    <3> QED
      BY <3>1 DEF Three
  <2> QED
    <3>1. Remains("path", d, w, av) = P(d) \o T /\ Remains("path", d + 1, w, av) = P(d + 1) \o T
      <4>1. d + 1 \in Nat
        OBVIOUS
      <4> HIDE DEF F, S, a
      <4> QED
        BY <1>11, <4>1 DEF T
    <3>2. P(d) = <<k>> \o P(d + 1)
      BY <1>8 DEF k
    <3>3. Remains("path", d, w, av) = <<k>> \o Remains("path", d + 1, w, av)
      BY <2>3, <3>1, <3>2
    <3> QED
      BY <3>3 DEF k
<1>14. Remains("path", Len(w.path), w, av) = S \o (w.home \o F(1))
  <2> DEFINE T == S \o (w.home \o F(1))
  <2>1. Remains("path", Len(w.path), w, av) = P(Len(w.path)) \o T
    <3>1. Len(w.path) \in Nat
      BY <1>1
    <3> HIDE DEF P
    <3> QED
      BY <1>11, <3>1
  <2> HIDE DEF T
  <2>2. P(Len(w.path)) \o T = T
    BY <1>7, <1>12, EmptyText DEF T
  <2> QED
    BY <2>1, <2>2 DEF T
<1>15. w.flavor # "bad" =>
         InitText(w, av) = IF w.restore THEN w.saved ELSE Remains("path", 0, w, av)
  <2> DEFINE p == PathText(w)
             h == w.home
             D == Dirs(w, 1)
  <2>1. p \in Text /\ S \in Text /\ h \in Text /\ D \in Text /\ w.environ \in Text
        /\ w.SKNOBS \in Text /\ av \in Text
    BY <1>1, <1>2, <1>4, <1>5, <1>9
  <2>2. w.flavor # "bad" /\ ~w.restore =>
          InitText(w, av) = (((((p \o S) \o h) \o D) \o w.environ) \o w.SKNOBS) \o av
    BY <1>4 DEF InitText
  <2>3. Remains("path", 0, w, av) = p \o (S \o (h \o (D \o a)))
    BY <1>7, <1>11
  <2> HIDE DEF p, h, D, S, F, P
  <2>4. (((((p \o S) \o h) \o D) \o w.environ) \o w.SKNOBS) \o av = p \o (S \o (h \o (D \o a)))
    <3> HIDE DEF a
    <3>1. Seven(p, S, h, D, w.environ, w.SKNOBS, av)
      BY <2>1, SevenTexts
    <3> QED
      BY <3>1 DEF Seven, a
  <2>5. w.flavor # "bad" /\ w.restore => InitText(w, av) = w.saved
    BY DEF InitText
  <2> QED
    BY <2>2, <2>3, <2>4, <2>5
<1>16. \A p \in Phases : \A i \in Nat :
         (p = "dirs" => i + 1 \in 1 .. n + 1) => Remains(p, i, w, av) \in Text
  <2> HIDE DEF a, S
  <2> SUFFICES ASSUME NEW p \in Phases, NEW i \in Nat, p = "dirs" => i + 1 \in 1 .. n + 1
               PROVE  Remains(p, i, w, av) \in Text
    OBVIOUS
  <2> DEFINE T == S \o (w.home \o F(1))
  <2>1. CASE p = "path"
    <3>1. Remains(p, i, w, av) = P(i) \o T
      BY <1>11, <2>1
    <3>2. P(i) \in Text /\ T \in Text
      BY <1>6, <1>12
    <3> HIDE DEF P, T
    <3> QED
      BY <3>1, <3>2, TextJoined
  <2>2. CASE p = "start"
    <3>1. Remains("path", 0, w, av) \in Text
      <4>1. Remains("path", 0, w, av) = P(0) \o T /\ P(0) \in Text /\ T \in Text
        BY <1>6, <1>11, <1>12
      <4> HIDE DEF P, T
      <4> QED
        BY <4>1, TextJoined
    <3>2. CASE w.flavor = "bad"
      BY <1>10, <2>2, <3>2, TextJoined, EmptyText, OneStatement DEF InitText
    <3>3. CASE w.flavor # "bad"
      BY <1>1, <1>10, <1>15, <2>2, <3>1, <3>3
    <3> QED
      BY <3>2, <3>3
  <2>3. CASE p \in {"walk", "dirs", "seed", "home"}
    BY <1>2, <1>9, <1>10, <1>12, <2>3
  <2>4. CASE p \in {"environ", "SKNOBS", "args"}
    BY <1>2, <1>9, <1>10, <2>4
  <2>5. CASE p \in {"idle", "restored", "finish", "crashed"}
    BY <1>10, <2>5, EmptyText
  <2> QED
    BY <2>1, <2>2, <2>3, <2>4, <2>5 DEF Phases
<1>17. d + 1 < n => Remains("dirs", d, w, av) = w.knobsrc[d + 1] \o Remains("dirs", d + 1, w, av)
  <2> HIDE DEF a
  <2> SUFFICES ASSUME d + 1 < n
               PROVE  Remains("dirs", d, w, av) = w.knobsrc[d + 1] \o Remains("dirs", d + 1, w, av)
    OBVIOUS
  <2>1. d + 1 \in 1 .. n /\ d \in Nat /\ d + 1 \in Nat
    BY <1>1
  <2> HIDE DEF F, n
  <2>2. F(d + 1) = w.knobsrc[d + 1] \o F(d + 1 + 1)
    BY <1>3, <2>1
  <2>3. Remains("dirs", d, w, av) = F(d + 1) /\ Remains("dirs", d + 1, w, av) = F(d + 1 + 1)
    BY <1>10, <2>1
  <2> QED
    BY <2>2, <2>3
<1>18. \A i : d + 1 = n => Remains("dirs", d, w, av) = w.knobsrc[d + 1] \o Remains("environ", i, w, av)
  <2> HIDE DEF a
  <2>1. d + 1 = n => d + 1 \in 1 .. n
    BY <1>1
  <2> HIDE DEF F
  <2> QED
    BY <1>3, <1>10, <2>1
<1>19. /\ Remains("walk", d, w, av) = Remains("dirs", 0, w, av)
       /\ Remains("path", Len(w.path), w, av) = Remains("seed", e, w, av)
  <2>1. Remains("dirs", 0, w, av) = F(1)
    <3>1. 0 \in Nat /\ 0 + 1 = 1
      OBVIOUS
    <3> HIDE DEF F
    <3>2. Remains("dirs", 0, w, av) = F(0 + 1)
      BY <1>10, <3>1
    <3> QED
      BY <3>1, <3>2
  <2> HIDE DEF S
  <2> QED
    BY <1>10, <1>14, <2>1
<1>20. /\ Leaves(w, av, "seed", d, S, "home", e)
       /\ Leaves(w, av, "home", d, w.home, "walk", e)
       /\ Leaves(w, av, "environ", d, w.environ, "SKNOBS", e)
       /\ Leaves(w, av, "SKNOBS", d, w.SKNOBS, "args", e)
  <2> HIDE DEF S, F
  <2>1. Leaves(w, av, "seed", d, S, "home", e)
    BY <1>10 DEF Leaves
  <2>2. Leaves(w, av, "home", d, w.home, "walk", e)
    BY <1>10 DEF Leaves
  <2>3. Leaves(w, av, "environ", d, w.environ, "SKNOBS", e)
    BY <1>10 DEF Leaves
  <2>4. Leaves(w, av, "SKNOBS", d, w.SKNOBS, "args", e)
    BY <1>10 DEF Leaves
  <2> QED
    BY <2>1, <2>2, <2>3, <2>4
\* A phase that reads nothing.
<1>21. ASSUME NEW p \in Phases, NEW q \in Phases, NEW f \in Nat, q # "dirs" \/ f = 0,
              Remains(p, d, w, av) = Remains(q, f, w, av)
       PROVE  Leaves(w, av, p, d, <<>>, q, f)
  <2>1. Remains(q, f, w, av) \in Text
    <3>1. 0 + 1 \in 1 .. n + 1
      BY <1>1
    <3> QED
      BY <1>16, <1>21, <3>1
  <2> QED
    BY <1>21, <2>1, EmptyText DEF Leaves
\* Phases that are the last to read.
<1>22. ASSUME NEW p, NEW q, NEW t \in Text, Remains(p, d, w, av) = t, Remains(q, e, w, av) = <<>>
       PROVE  Leaves(w, av, p, d, t, q, e)
  <2>1. t = t \o <<>>
    BY EmptyText
  <2> QED
    BY <1>22, <2>1 DEF Leaves
<1>23. /\ \A p \in {"finish", "restored"} : Leaves(w, av, p, d, <<>>, "idle", e)
       /\ Leaves(w, av, "args", d, av, "finish", e)
  <2>1. \A p \in {"idle", "restored", "finish"} : Remains(p, d, w, av) = <<>> /\ Remains(p, e, w, av) = <<>>
    BY <1>10
  <2>2. Remains("args", d, w, av) = av
    BY <1>10
  <2> QED
    BY <1>22, <2>1, <2>2, EmptyText
<1>24. /\ w.flavor # "bad" /\ w.restore => Leaves(w, av, "start", d, w.saved, "restored", e)
       /\ w.flavor # "bad" /\ ~w.restore => Leaves(w, av, "start", d, <<>>, "path", 0)
       /\ Leaves(w, av, "walk", d, <<>>, "dirs", 0)
       /\ d = Len(w.path) => Leaves(w, av, "path", d, <<>>, "seed", e)
  <2>1. w.flavor # "bad" => Remains("start", d, w, av) = IF w.restore THEN w.saved ELSE Remains("path", 0, w, av)
    BY <1>10, <1>15
  <2>2. Remains("restored", e, w, av) = <<>> /\ {"start", "path", "walk", "dirs", "seed"} \subseteq Phases
    BY <1>10 DEF Phases
  <2>3. w.saved \in Text
    BY <1>1
  <2> QED
    BY <1>19, <1>21, <1>22, <2>1, <2>2, <2>3
<1>25. d < Len(w.path) =>
         Leaves(w, av, "path", d, <<Knob("add", PathName, w.path[d + 1])>>, "path", d + 1)
  BY <1>13 DEF Leaves
<1>26. /\ d + 1 < n => Leaves(w, av, "dirs", d, w.knobsrc[d + 1], "dirs", d + 1)
       /\ d + 1 = n => Leaves(w, av, "dirs", d, w.knobsrc[d + 1], "environ", e)
  <2>1. d + 1 < n => Leaves(w, av, "dirs", d, w.knobsrc[d + 1], "dirs", d + 1)
    BY <1>17 DEF Leaves
  <2>2. d + 1 = n => Leaves(w, av, "dirs", d, w.knobsrc[d + 1], "environ", e)
    BY <1>18 DEF Leaves
  <2> QED
    BY <2>1, <2>2
<1>27. Remains("idle", d, w, av) = <<>>
  BY <1>10
<1> QED
  BY <1>16, <1>20, <1>23, <1>24, <1>25, <1>26, <1>27

\* The search path is walked to its end.
OnPath == phase = "path" => dir <= Len(world.path)

\* No step leaves the path.
LEMMA NextOnPath ==
  ASSUME TypeOK, Structure, OnPath, [Next]_vars
  PROVE  OnPath'
<1>0. Len(world.path) \in Nat /\ dir \in Nat
  BY WorldTyped DEF TypeOK
<1>1. CASE Begins
  BY <1>1 DEF Begins, Begin, OnPath
<1>2. CASE Runs
  <2>2. UNCHANGED <<world, dir>> /\ (phase' = "path" => phase = "path")
    BY <1>2 DEF Runs, Keep, library, AddKnob, SetSeed, WriteSeed, Look, Tokenize, Dump, PrintKnobs,
       ChooseFile, Fail, Failed, Answer, Include, Close, InitAgain, Call
  <2> QED
    BY <2>2 DEF OnPath
<1>3. CASE Moves
  BY <1>0, <1>3 DEF Moves, Start, AddDirectory, PathDone, ChooseSeed, LoadHome, BeginWalk,
     LoadDirectory, LoadCurrent, LoadEnvironment, LoadSKNOBS, LoadArguments, Finish, Answer, Between,
     Rest, OnPath
<1>4. CASE UNCHANGED vars
  BY <1>4 DEF vars, OnPath
<1> QED
  BY <1>1, <1>2, <1>3, <1>4, KindsOfSteps

Sound == Shape /\ SeedChosen /\ ChosenStands /\ Walked /\ OnPath

\* What an activation shows: the file it has chosen, and what it has still to do.
LEMMA ShownFacts ==
  ASSUME Sound, phase # "crashed", NEW l \in Levels
  PROVE  /\ Shown(l) \in Text
         /\ load[l].chosen = 0 => Shown(l) = load[l].todo
         /\ load[l].chosen # 0 =>
              /\ l = Level /\ Choose(<<load[l].asked>>) \in Statement
              /\ Shown(l) = <<Choose(<<load[l].asked>>)>> \o load[l].todo
<1>1. TypeOK /\ ChosenStands /\ load[l].todo \in Text /\ Level \in Levels
  BY LevelFacts DEF Sound, Shape, TypeOK, Activations
<1>2. CASE load[l].chosen = 0
  BY <1>1, <1>2, EmptyText DEF Shown
<1>3. CASE load[l].chosen # 0
  <2>1. l = Level
    BY <1>1, <1>3 DEF ChosenStands, TypeOK, Levels, Level
  <2>2. load[l].asked \in FileNames
    BY <1>1, <1>3, <2>1 DEF ChosenStands, Chosen, TypeOK
  <2> DEFINE c == Choose(<<load[l].asked>>)
  <2>3. c \in Statement
    BY <2>2, SourcesAssumption DEF Choose, Statement, Ops
  <2>4. Shown(l) = <<c>> \o load[l].todo
    BY <1>3 DEF Shown
  <2> HIDE DEF c
  <2>5. <<c>> \in Text
    BY <2>3, OneStatement
  <2>6. <<c>> \o load[l].todo \in Text
    BY <1>1, <2>5, TextJoined
  <2> QED
    BY <1>3, <2>1, <2>3, <2>4, <2>6 DEF c
<1> QED
  BY <1>2, <1>3

\* What is unread is a text, and nothing when sknobs_init is not running.
LEMMA UnreadFacts ==
  ASSUME Sound, Usable
  PROVE  /\ Unread \in Text /\ world \in World /\ argv \in Text /\ dir \in Nat
         /\ Asked(world, argv) \in Values \cup {Unset} /\ world.flavor # "bad"
         /\ phase = "idle" => Unread = <<>> /\ Shown("init") = <<>> /\ Shown("init") \o Unread = <<>>
         /\ phase # "idle" => flag
<1>1. TypeOK /\ Structure /\ world \in World /\ argv \in Text /\ dir \in Nat /\ phase \in Phases
  BY DEF Sound, Shape, TypeOK
<1>2. Asked(world, argv) \in Values \cup {Unset} /\ world.knobsrc \in Seq(Source)
  BY <1>1, WorldTyped
<1>3. phase = "dirs" => dir + 1 \in 1 .. Len(world.knobsrc) + 1
  <2>1. phase = "dirs" => dir < Len(world.knobsrc)
    BY DEF Sound, SeedChosen, Walked
  <2> QED
    BY <1>1, <1>2, <2>1
<1>4. Unread \in Text
  BY <1>1, <1>2, <1>3, RemainsFacts, UnreadRemains
<1>5. phase = "idle" => Unread = <<>>
  BY DEF Unread
<1>6. phase = "idle" => Shown("init") = <<>>
  <2>1. phase = "idle" => load["init"].todo = <<>> /\ load["init"].chosen = 0
    BY <1>1 DEF TypeOK
  <2> QED
    BY <2>1, EmptyText DEF Shown
<1> QED
  BY <1>1, <1>2, <1>4, <1>5, <1>6, EmptyText DEF Usable, Structure

\* sknobs_init takes what it reads next from what was unread: nothing changes.
LEMMA Taking ==
  ASSUME Sound, Usable, Between(phase), phase # "crashed", NEW t \in Text, Goes("init", t, 0),
         UNCHANGED <<world, argv, flag, list, gen>>,
         Leaves(world, argv, phase, dir, t, phase', dir')
  PROVE  UNCHANGED OneText!vars
<1>1. Unread \in Text /\ Unread = t \o Unread'
  BY UnreadFacts, UnreadRemains DEF Leaves
<1>2. Shown("init") = <<>>
  BY ShownFacts DEF Between, Levels
<1>3. Shown("init")' = t
  BY EmptyText DEF Goes, Shown
<1>4. Shown("client")' = Shown("client")
  BY DEF Goes, Levels, Shown
<1>5. Shown("init") \o Unread = Unread
  BY <1>1, <1>2, EmptyText
<1>6. (Shown("init") \o Unread)' = t \o Unread'
  BY <1>3
<1> QED
  BY <1>1, <1>4, <1>5, <1>6 DEF OneText!vars

\* The phases of sknobs_init read, and a directory of the search path is a statement.
LEMMA MovesMap ==
  ASSUME Sound, Usable, Moves
  PROVE  OneText!Obey \/ UNCHANGED OneText!vars
<1> DEFINE L(p, t, q, e) == Leaves(world, argv, p, dir, t, q, e)
<1>0. /\ TypeOK /\ world \in World /\ argv \in Text /\ dir \in Nat /\ world.flavor # "bad"
      /\ Asked(world, argv) \in Values \cup {Unset}
      /\ world.home \in Text /\ world.environ \in Text /\ world.SKNOBS \in Text /\ world.saved \in Text
      /\ \A d \in 1 .. Len(world.knobsrc) : world.knobsrc[d] \in Text
      /\ Len(world.knobsrc) \in Nat /\ Len(world.path) \in Nat /\ "init" \in Levels
  BY UnreadFacts, WorldTyped DEF Sound, Shape, Levels
<1>1. \A t \in Text : load["init"].chosen = 0 /\ Read(t) => Goes("init", t, 0)
  BY <1>0, LevelFacts DEF Read
<1>2. load["init"].chosen = 0 /\ load["init"].todo = <<>> /\ UNCHANGED load => Goes("init", <<>>, 0)
  BY <1>0 DEF Goes
<1>3. <<>> \in Text
  BY EmptyText
<1> USE DEF Between, Rest
<1>4. ASSUME Start PROVE UNCHANGED OneText!vars
  <2>1. CASE world.restore
    <3>1. L("start", world.saved, "restored", 0)
      BY <1>0, <2>1, RemainsFacts
    <3> QED
      BY <1>0, <1>1, <1>4, <2>1, <3>1, Taking DEF Start
  <2>2. CASE ~world.restore
    <3>1. L("start", <<>>, "path", 0)
      BY <1>0, <2>2, RemainsFacts
    <3> QED
      BY <1>2, <1>3, <1>4, <2>2, <3>1, Taking DEF Start
  <2> QED
    BY <2>1, <2>2
<1>5. ASSUME PathDone PROVE UNCHANGED OneText!vars
  <2>1. L("path", <<>>, "seed", dir)
    BY <1>0, <1>5, RemainsFacts DEF PathDone
  <2> QED
    BY <1>2, <1>3, <1>5, <2>1, Taking DEF PathDone
<1>6. ASSUME ChooseSeed PROVE UNCHANGED OneText!vars
  <2>1. <<Do("set", Asked(world, argv))>> \in Text
    <3>1. Do("set", Asked(world, argv)) \in Statement
      BY <1>0, StatementsTyped DEF Ops
    <3> QED
      BY <3>1, OneStatement
  <2>2. L("seed", <<Do("set", Asked(world, argv))>>, "home", dir)
    BY <1>0, RemainsFacts
  <2> QED
    BY <1>1, <1>6, <2>1, <2>2, Taking DEF ChooseSeed
<1>7. ASSUME LoadHome PROVE UNCHANGED OneText!vars
  <2>1. L("home", world.home, "walk", dir)
    BY <1>0, RemainsFacts
  <2> QED
    BY <1>0, <1>1, <1>7, <2>1, Taking DEF LoadHome
<1>8. ASSUME BeginWalk PROVE UNCHANGED OneText!vars
  <2>1. L("walk", <<>>, "dirs", 0)
    BY <1>0, RemainsFacts
  <2> QED
    BY <1>2, <1>3, <1>8, <2>1, Taking DEF BeginWalk
<1>9. ASSUME LoadDirectory PROVE UNCHANGED OneText!vars
  <2>1. buffer = "pwd"
    BY <1>9 DEF LoadDirectory, Sound, SeedChosen, Walked
  <2>2. /\ Read(world.knobsrc[dir + 1]) /\ dir' = dir + 1 /\ phase = "dirs" /\ phase' = "dirs"
        /\ dir + 1 < Len(world.knobsrc) /\ load["init"].chosen = 0
    BY <1>9, <2>1 DEF LoadDirectory, Enter
  <2>3. world.knobsrc[dir + 1] \in Text
    BY <1>0, <2>2
  <2>4. L("dirs", world.knobsrc[dir + 1], "dirs", dir + 1)
    BY <1>0, <2>2, RemainsFacts
  <2> QED
    BY <1>1, <1>9, <2>2, <2>3, <2>4, Taking DEF LoadDirectory
<1>10. ASSUME LoadCurrent PROVE UNCHANGED OneText!vars
  <2>1. world.knobsrc[dir + 1] \in Text /\ dir + 1 = Len(world.knobsrc)
    BY <1>0, <1>10 DEF LoadCurrent
  <2>2. L("dirs", world.knobsrc[dir + 1], "environ", dir + 1)
    BY <1>0, <2>1, RemainsFacts
  <2> QED
    BY <1>1, <1>10, <2>1, <2>2, Taking DEF LoadCurrent, Enter
<1>11. ASSUME LoadEnvironment PROVE UNCHANGED OneText!vars
  <2>1. L("environ", world.environ, "SKNOBS", dir)
    BY <1>0, RemainsFacts
  <2> QED
    BY <1>0, <1>1, <1>11, <2>1, Taking DEF LoadEnvironment
<1>12. ASSUME LoadSKNOBS PROVE UNCHANGED OneText!vars
  <2>1. L("SKNOBS", world.SKNOBS, "args", dir)
    BY <1>0, RemainsFacts
  <2> QED
    BY <1>0, <1>1, <1>12, <2>1, Taking DEF LoadSKNOBS
<1>13. ASSUME LoadArguments PROVE UNCHANGED OneText!vars
  <2>1. L("args", argv, "finish", dir)
    BY <1>0, RemainsFacts
  <2> QED
    BY <1>0, <1>1, <1>13, <2>1, Taking DEF LoadArguments
<1>14. ASSUME Finish PROVE UNCHANGED OneText!vars
  <2>1. \A p \in {"finish", "restored"} : L(p, <<>>, "idle", dir)
    BY <1>0, RemainsFacts
  <2> QED
    BY <1>2, <1>3, <1>14, <2>1, Taking DEF Finish, Answer
<1>15. ASSUME AddDirectory PROVE OneText!Obey
  <2> DEFINE k == Knob("add", PathName, world.path[dir + 1])
             t == Shown("init") \o Unread
  <2>1. /\ phase = "path" /\ phase' = "path" /\ dir < Len(world.path) /\ dir' = dir + 1
        /\ list' = Append(list, [pattern |-> PathName, value |-> world.path[dir + 1]])
        /\ UNCHANGED <<world, argv, flag, gen, load>>
    BY <1>15 DEF AddDirectory
  <2>2. k \in Statement
    <3>1. world.path[dir + 1] \in Values
      <4>1. world.path \in Seq(Values)
        BY <1>0, WorldTyped
      <4>2. dir + 1 \in 1 .. Len(world.path)
        BY <1>0, <2>1
      <4> QED
        BY <4>1, <4>2
    <3> QED
      BY <3>1, SourcesAssumption DEF Knob, Statement, Ops
  <2>3. L("path", <<k>>, "path", dir + 1)
    BY <1>0, <2>1, RemainsFacts
  <2>4. Remains("path", dir + 1, world, argv) \in Text /\ Unread \in Text
    <3>1. dir + 1 \in Nat /\ "path" \in Phases
      BY <1>0 DEF Phases
    <3> QED
      BY <1>0, <3>1, RemainsFacts, UnreadFacts
  <2>5. Shown("init") = <<>> /\ Shown("init")' = <<>> /\ Shown("client")' = Shown("client")
    <3>1. Shown("init") = <<>>
      BY <1>15, ShownFacts DEF AddDirectory, Levels
    <3> QED
      BY <2>1, <3>1 DEF Shown
  <2>6. t = <<k>> \o Remains("path", dir + 1, world, argv)
    BY <2>1, <2>3, <2>4, <2>5, UnreadRemains, EmptyText DEF Leaves
  <2>7. t' = Remains("path", dir + 1, world, argv)
    BY <2>1, <2>4, <2>5, UnreadRemains, EmptyText
  <2> HIDE DEF k
  <2>8. t # <<>> /\ Head(t) = k /\ Tail(t) = t' /\ t' \in Text
    BY <2>2, <2>4, <2>6, <2>7, OneStatement
  <2>9. k.op = "add" /\ k.pattern = PathName /\ k.value = world.path[dir + 1]
    BY DEF k, Knob
  <2>10. flag
    BY <2>1, UnreadFacts
  <2>11. t \o Shown("client") # <<>>
    <3>1. Shown("client") \in Text /\ t \in Text
      BY <2>1, <2>4, <2>5, ShownFacts, EmptyText DEF Levels
    <3> HIDE DEF t
    <3> QED
      BY <2>8, <3>1, FirstStatement
  <2>12. OneText!Due = k
    BY <2>8 DEF OneText!Due
  <2>13. OneText!Become(<<>>)
    BY <2>5, <2>8, EmptyText DEF OneText!Become
  <2> QED
    BY <2>1, <2>9, <2>10, <2>11, <2>12, <2>13 DEF OneText!Obey
<1> QED
  BY <1>4, <1>5, <1>6, <1>7, <1>8, <1>9, <1>10, <1>11, <1>12, <1>13, <1>14, <1>15 DEF Moves

\* What an activation shows first is due.
LEMMA DueIsShown ==
  ASSUME Sound, Usable, phase # "crashed", NEW l \in Levels, l = Level, Shown(l) # <<>>
  PROVE  /\ OneText!Due = Head(Shown(l))
         /\ (Shown("init") \o Unread) \o Shown("client") # <<>>
         /\ l = "init" => (Shown("init") \o Unread) # <<>>
                          /\ Tail(Shown("init") \o Unread) = Tail(Shown("init")) \o Unread
                          /\ Tail(Shown("init")) \in Text
         /\ l = "client" => (Shown("init") \o Unread) = <<>> /\ Unread = <<>> /\ phase = "idle"
                            /\ Tail(Shown("client")) \in Text
<1>1. Shown("init") \in Text /\ Shown("client") \in Text /\ Unread \in Text
  BY ShownFacts, UnreadFacts DEF Levels
<1>2. Shown("init") \o Unread \in Text
  BY <1>1, TextJoined
<1>3. CASE l = "init"
  <2>1. /\ Shown("init") \o Unread # <<>> /\ Head(Shown("init") \o Unread) = Head(Shown("init"))
        /\ Tail(Shown("init") \o Unread) = Tail(Shown("init")) \o Unread
        /\ Tail(Shown("init")) \in Text
    BY <1>1, <1>3, FirstStatement
  <2>2. (Shown("init") \o Unread) \o Shown("client") # <<>>
    <3> DEFINE t == Shown("init") \o Unread
    <3>1. t \in Text /\ t # <<>>
      BY <1>2, <2>1
    <3> HIDE DEF t
    <3>2. t \o Shown("client") # <<>>
      BY <1>1, <3>1, FirstStatement
    <3> QED
      BY <3>2 DEF t
  <2>3. OneText!Due = Head(Shown("init"))
    BY <2>1 DEF OneText!Due
  <2> QED
    BY <1>3, <2>1, <2>2, <2>3
<1>4. CASE l = "client"
  <2>1. phase = "idle"
    BY <1>4 DEF Level
  <2>2. Shown("init") \o Unread = <<>> /\ Unread = <<>>
    BY <2>1, UnreadFacts
  <2>3. (Shown("init") \o Unread) \o Shown("client") = Shown("client")
    BY <1>1, <2>2, EmptyText
  <2>4. Tail(Shown("client")) \in Text
    BY <1>1, <1>4, EmptyText, FirstStatement
  <2>5. OneText!Due = Head(Shown("client"))
    BY <2>2 DEF OneText!Due
  <2> QED
    BY <1>4, <2>1, <2>2, <2>3, <2>4, <2>5
<1> QED
  BY <1>3, <1>4 DEF Levels

\* It is replaced by what the activation shows instead.
LEMMA Replacing ==
  ASSUME Sound, Usable, phase # "crashed", NEW l \in Levels, l = Level, Shown(l) # <<>>,
         NEW now \in Text, Shown(l)' = now \o Tail(Shown(l)),
         \A k \in Levels \ {l} : load'[k] = load[k],
         UNCHANGED <<world, argv, phase, dir>>
  PROVE  OneText!Become(now)
<1>1. Unread' = Unread /\ Unread \in Text
  BY UnreadFacts, UnreadRemains
<1>2. CASE l = "init"
  <2>1. Shown("client")' = Shown("client")
    BY <1>2 DEF Levels, Shown
  <2>2. /\ Shown("init") \o Unread # <<>>
        /\ Tail(Shown("init") \o Unread) = Tail(Shown("init")) \o Unread
        /\ Tail(Shown("init")) \in Text
    BY <1>2, DueIsShown
  <2>3. Three(now, Tail(Shown("init")), Unread)
    BY <1>1, <2>2, ThreeTexts
  <2>4. (Shown("init") \o Unread)' = (now \o Tail(Shown("init"))) \o Unread
    BY <1>1, <1>2
  <2>5. (Shown("init") \o Unread)' = now \o Tail(Shown("init") \o Unread)
    BY <2>2, <2>3, <2>4 DEF Three
  <2> QED
    BY <2>1, <2>2, <2>5 DEF OneText!Become
<1>3. CASE l = "client"
  <2>1. Shown("init")' = Shown("init")
    BY <1>3 DEF Levels, Shown
  <2>2. Shown("init") \o Unread = <<>>
    BY <1>3, DueIsShown
  <2>3. (Shown("init") \o Unread)' = Shown("init") \o Unread
    BY <1>1, <2>1
  <2> QED
    BY <1>3, <2>2, <2>3 DEF OneText!Become
<1> QED
  BY <1>2, <1>3 DEF Levels

\* A failure takes all of it, and what init has not read.
LEMMA GivingUp ==
  ASSUME Sound, Usable, phase # "crashed", NEW l \in Levels, l = Level, Shown(l) # <<>>,
         Goes(l, <<>>, 0), IF l = "init" THEN phase' = "idle" ELSE UNCHANGED phase,
         UNCHANGED <<world, argv, dir>>
  PROVE  OneText!GiveUp
<1>1. Shown(l)' = <<>>
  BY EmptyText DEF Goes, Shown
<1>2. CASE l = "init"
  <2>1. Shown("client")' = Shown("client")
    BY <1>2 DEF Goes, Levels, Shown
  <2>2. Shown("init") \o Unread # <<>>
    BY <1>2, DueIsShown
  <2>3. Unread' = <<>>
    BY <1>2 DEF Unread
  <2>4. (Shown("init") \o Unread)' = <<>>
    BY <1>1, <1>2, <2>3, EmptyText
  <2> QED
    BY <2>1, <2>2, <2>4 DEF OneText!GiveUp
<1>3. CASE l = "client"
  <2>1. Shown("init")' = Shown("init") /\ Unread' = Unread
    BY <1>3, UnreadRemains DEF Goes, Levels, Shown
  <2>2. Shown("init") \o Unread = <<>>
    BY <1>3, DueIsShown
  <2>3. (Shown("init") \o Unread)' = Shown("init") \o Unread
    BY <2>1
  <2> QED
    BY <1>1, <1>3, <2>2, <2>3 DEF OneText!GiveUp
<1> QED
  BY <1>2, <1>3 DEF Levels

\* The vocabulary of Sources is the same in both specifications.
LEMMA SameWords ==
  /\ OneText!NeedInit = NeedInit /\ OneText!Matching = Matching
  /\ \A op, v : OneText!Do(op, v) = Do(op, v)
  /\ \A fs : OneText!Choose(fs) = Choose(fs)
  /\ \A S : OneText!Max(S) = Max(S)
  /\ \A w, av : OneText!InitText(w, av) = InitText(w, av)
<1>1. \A op, v : OneText!Do(op, v) = Do(op, v)
  BY DEF Do, OneText!Do
<1>2. \A S : OneText!Max(S) = Max(S)
  BY DEF Max, OneText!Max
<1>3. \A w, av : OneText!Asked(w, av) = Asked(w, av)
  BY <1>2 DEF Asked, OneText!Asked
<1>4. \A op, p, v : OneText!Knob(op, p, v) = Knob(op, p, v)
  BY DEF Knob, OneText!Knob
<1>5. \A w, d : OneText!Dirs(w, d) = Dirs(w, d)
  BY DEF Dirs, OneText!Dirs
<1>6. \A w : OneText!PathText(w) = PathText(w)
  BY <1>4 DEF PathText, OneText!PathText
<1>7. \A w, av : OneText!SeedText(w, av) = SeedText(w, av)
  BY <1>1, <1>3 DEF SeedText, OneText!SeedText
<1>8. \A w, av : OneText!InitText(w, av) = InitText(w, av)
  BY <1>5, <1>6, <1>7, Zenon DEF InitText, OneText!InitText
<1>9. \A fs : OneText!Choose(fs) = Choose(fs)
  BY DEF Choose, OneText!Choose
<1>10. OneText!NeedInit = NeedInit /\ OneText!Matching = Matching
  BY DEF NeedInit, OneText!NeedInit, Matching, OneText!Matching
<1> QED
  BY <1>1, <1>2, <1>8, <1>9, <1>10

\* A statement that is due is the text's, and so is what it becomes.
LEMMA Obeying ==
  ASSUME Sound, Usable, phase # "crashed", Todo # <<>>, Chosen = 0, NEW now \in Text,
         now = <<>> \/ \E x : now = <<x>>, load' = Becoming(now),
         UNCHANGED <<world, argv, phase, dir>>
  PROVE  /\ OneText!Due = Due /\ (Shown("init") \o Unread) \o Shown("client") # <<>>
         /\ OneText!Become(now)
<1>0. TypeOK /\ Structure
  BY DEF Sound, Shape
<1>1. PICK l \in Levels : l = Level
  BY <1>0, LevelFacts
<1>2. Shown(l) = load[l].todo /\ load[l].todo = Todo
  BY <1>1, ShownFacts DEF Chosen, Todo
<1>3. /\ Goes(Level, now \o Tail(Todo), 0) /\ Tail(Todo) \in Source
  BY <1>0, ObeyedGoes
<1>4. now \o Tail(Todo) \in Text
  BY <1>3, TextJoined, StatementsTyped
<1>5. Shown(l)' = now \o Tail(Todo)
  <2>1. load'[l].todo = now \o Tail(Todo) /\ load'[l].chosen = 0
    BY <1>1, <1>3 DEF Goes
  <2>2. Shown(l)' = <<>> \o load'[l].todo
    BY <2>1 DEF Shown
  <2> DEFINE t == now \o Tail(Todo)
  <2>3. t \in Text /\ Shown(l)' = <<>> \o t
    BY <1>4, <2>1, <2>2
  <2> HIDE DEF t
  <2>4. Shown(l)' = t
    BY <2>3, EmptyText
  <2> QED
    BY <2>4 DEF t
<1>6. OneText!Become(now)
  BY <1>1, <1>2, <1>3, <1>5, Replacing DEF Goes
<1> QED
  BY <1>1, <1>2, <1>6, DueIsShown DEF Due

\* The statements that do not choose, load or fail.
LEMMA StatementsMap ==
  ASSUME Sound, Usable,
         \/ AddKnob \/ SetSeed \/ WriteSeed \/ Look \/ Tokenize \/ Dump \/ PrintKnobs
  PROVE  OneText!Obey
<1> DEFINE C(now) == /\ OneText!Due = Due /\ (Shown("init") \o Unread) \o Shown("client") # <<>>
                     /\ OneText!Become(now)
<1>0. /\ TypeOK /\ Structure /\ <<>> \in Text /\ phase # "crashed" /\ Todo # <<>> /\ Chosen = 0
      /\ flag \/ Due.op \notin NeedInit
      /\ UNCHANGED <<world, argv, phase, dir, flag>>
      /\ Due.value \in Values \cup {Unset} /\ (Due.op = "write" => Due.value \in Values)
  <2>1. /\ phase # "crashed" /\ Todo # <<>> /\ Chosen = 0
        /\ flag \/ Due.op \notin NeedInit
        /\ UNCHANGED <<world, argv, phase, dir, flag>>
    BY DEF AddKnob, SetSeed, WriteSeed, Look, Tokenize, Dump, PrintKnobs, Reached, Keep, library, Usable
  <2>2. TypeOK /\ Structure
    BY DEF Sound, Shape
  <2>3. Due \in Statement
    BY <2>1, <2>2, DueTyped
  <2> QED
    BY <2>1, <2>2, <2>3, EmptyText, StatementsTyped
<1>1. load' = Becoming(<<>>) => C(<<>>)
  BY <1>0, Obeying
<1>2. ASSUME NEW x \in Statement, load' = Becoming(<<x>>) PROVE C(<<x>>)
  BY <1>0, <1>2, OneStatement, Obeying
<1>3. ASSUME AddKnob PROVE OneText!Obey
  BY <1>0, <1>1, <1>3, SameWords DEF AddKnob, Reached, OneText!Obey
<1>4. ASSUME SetSeed PROVE OneText!Obey
  <2>1. Due.op \in {"seed", "set"} /\ list' = list
    BY <1>4 DEF SetSeed, Reached
  <2>2. CASE Takes(Due.value)
    <3>1. PICK s \in Seeds : /\ Due.value # Unset => s = Due.value
                             /\ gen' = [seed |-> s, n |-> 0]
                             /\ load' = Becoming(<<Do("write", s)>>)
      BY <1>4, <2>2 DEF SetSeed
    <3>2. Do("write", s) \in Statement
      BY SourcesAssumption, StatementsTyped
    <3>3. C(<<Do("write", s)>>)
      BY <1>2, <3>1, <3>2
    <3>4. OneText!TakeSeed(Due.value)
      BY <2>1, <2>2, <3>1, <3>3 DEF Takes, Do, OneText!Do, OneText!TakeSeed
    <3> QED
      BY <1>0, <2>1, <3>3, <3>4, SameWords DEF OneText!Obey
  <2>3. CASE ~Takes(Due.value)
    <3>1. gen' = gen /\ C(<<>>)
      BY <1>1, <1>4, <2>3 DEF SetSeed
    <3>2. OneText!TakeSeed(Due.value)
      BY <2>1, <2>3, <3>1 DEF Takes, Do, OneText!Do, OneText!TakeSeed
    <3> QED
      BY <1>0, <2>1, <3>1, <3>2, SameWords DEF OneText!Obey
  <2> QED
    BY <2>2, <2>3
<1>5. ASSUME WriteSeed PROVE OneText!Obey
  <2>1. Due.op = "write" /\ list' = Written(Due.value) /\ gen' = gen /\ C(<<>>)
    BY <1>1, <1>5 DEF WriteSeed, Reached
  <2>2. Written(Due.value) = OneText!Write(Due.value)
    BY SameWords DEF Written, OneText!Write
  <2>3. gen'.seed = gen.seed /\ list' = OneText!Write(OneText!Due.value) /\ OneText!Due.op = "write"
    BY <2>1, <2>2
  <2> QED
    BY <1>0, <2>1, <2>3, SameWords DEF OneText!Obey
<1>6. ASSUME Look \/ Tokenize \/ PrintKnobs PROVE OneText!Obey
  <2>1. Due.op \in {"look", "string", "print"} /\ list' = list /\ gen' = gen /\ C(<<>>)
    BY <1>1, <1>6 DEF Look, Tokenize, PrintKnobs, Reached
  <2>2. OneText!Due.op \in {"look", "string", "print"} /\ gen'.seed = gen.seed
    BY <2>1
  <2> QED
    BY <1>0, <2>1, <2>2, SameWords DEF OneText!Obey
<1>7. ASSUME Dump PROVE OneText!Obey
  <2> DEFINE v == IF list = <<>> THEN Unset ELSE CHOOSE v \in Values : TRUE
  <2>1. Due.op = "dump" /\ list' = list /\ gen' = gen /\ load' = Becoming(<<Do("print", v)>>)
    BY <1>7 DEF Dump, Reached
  <2>2. v \in Values \cup {Unset}
    BY SourcesAssumption
  <2> HIDE DEF v
  <2>3. Do("print", v) \in Statement
    BY <2>2, StatementsTyped DEF Ops
  <2>4. C(<<Do("print", v)>>)
    BY <1>2, <2>1, <2>3
  <2>5. OneText!Due.op = "dump" /\ gen'.seed = gen.seed
    BY <2>1, <2>4
  <2> QED
    BY <1>0, <2>1, <2>2, <2>4, <2>5, SameWords DEF OneText!Obey
<1> QED
  BY <1>3, <1>4, <1>5, <1>6, <1>7

\* A list comes down to one of its files.
LEMMA ChooseMaps ==
  ASSUME Sound, Usable, ChooseFile
  PROVE  OneText!Obey
<1>0. /\ TypeOK /\ Structure /\ phase # "crashed" /\ Todo # <<>> /\ Chosen = 0
      /\ Due.op = "choose" /\ UNCHANGED <<world, argv, phase, dir, flag, list>>
      /\ Due.files \in Seq(FileNames) /\ Tail(Todo) \in Text
  <2>1. /\ phase # "crashed" /\ Todo # <<>> /\ Chosen = 0
        /\ Due.op = "choose" /\ UNCHANGED <<world, argv, phase, dir, flag, list>>
    BY DEF ChooseFile, Reached, Keep, library
  <2>2. TypeOK /\ Structure
    BY DEF Sound, Shape
  <2> QED
    BY <2>1, <2>2, DueTyped, StatementsTyped
<1>1. PICK l \in Levels : l = Level
  BY <1>0, LevelFacts
<1>2. PICK i \in DOMAIN Due.files : /\ Goes(l, Tail(Todo), i) /\ load'[l].asked = Due.files[i]
  BY <1>0, <1>1, ChooseGoes
<1>3. Shown(l) = Todo
  BY <1>0, <1>1, ShownFacts DEF Chosen, Todo
<1> DEFINE c == Choose(<<Due.files[i]>>)
<1>4. c \in Statement
  <2>1. Due.files[i] \in FileNames
    BY <1>0
  <2> QED
    BY <2>1, SourcesAssumption DEF Choose, Statement, Ops
<1>5. Shown(l)' = <<c>> \o Tail(Todo)
  <2>1. i # 0
    BY <1>0
  <2> QED
    BY <1>2, <2>1 DEF Goes, Shown
<1> HIDE DEF c
<1>6. OneText!Become(<<c>>)
  <2>1. <<c>> \in Text
    BY <1>4, OneStatement
  <2> QED
    BY <1>0, <1>1, <1>2, <1>3, <1>5, <2>1, Replacing DEF Goes
<1>7. OneText!Due = Due /\ (Shown("init") \o Unread) \o Shown("client") # <<>>
  BY <1>0, <1>1, <1>3, DueIsShown DEF Due
<1>8. gen'.seed = gen.seed
  <2>1. gen' = gen \/ gen' = [gen EXCEPT !.n = gen.n + 1]
    BY DEF ChooseFile
  <2>2. gen \in [seed : Seeds \cup {Unset}, n : Nat]
    BY <1>0 DEF TypeOK
  <2> QED
    BY <2>1, <2>2
<1>9. OneText!Due.op = "choose" /\ c = OneText!Choose(<<OneText!Due.files[i]>>)
      /\ i \in DOMAIN OneText!Due.files /\ OneText!Due.op \notin OneText!NeedInit
  BY <1>0, <1>7, SameWords DEF c, NeedInit
<1> QED
  BY <1>0, <1>6, <1>7, <1>8, <1>9 DEF OneText!Obey

\* A failure gives up the rest of the text.
LEMMA FailMaps ==
  ASSUME Sound, Usable, Fail
  PROVE  OneText!Obey
<1>0. TypeOK /\ Structure
  BY DEF Sound, Shape
<1>1. /\ Goes(Level, <<>>, 0) /\ flag /\ Chosen = 0 /\ Todo # <<>> /\ Due.op = "fail"
      /\ UNCHANGED <<world, argv, flag, dir, list, gen>>
      /\ IF Level = "init" THEN phase' = "idle" ELSE UNCHANGED phase
  BY <1>0, FailGoes
<1>2. phase # "crashed"
  BY DEF Fail, Reached
<1>3. PICK l \in Levels : l = Level
  BY <1>0, LevelFacts
<1>4. Shown(l) = Todo
  BY <1>1, <1>2, <1>3, ShownFacts DEF Chosen, Todo
<1>5. OneText!GiveUp
  BY <1>1, <1>2, <1>3, <1>4, GivingUp
<1>6. OneText!Due = Due /\ (Shown("init") \o Unread) \o Shown("client") # <<>>
  BY <1>1, <1>2, <1>3, <1>4, DueIsShown DEF Due
<1>7. OneText!Due.op = "fail"
  BY <1>1, <1>6
<1> QED
  BY <1>1, <1>5, <1>6, <1>7 DEF OneText!Obey

\* The file comes down to what is in it: the name is still where it was chosen.
LEMMA IncludeMaps ==
  ASSUME Sound, Usable, Include
  PROVE  OneText!Obey
<1>0. TypeOK /\ Structure /\ ChosenStands /\ world.flavor # "bad"
  BY DEF Sound, Shape, Usable
<1> DEFINE f == NameAt(Chosen)
<1>1. Chosen # 0 /\ flag /\ phase # "crashed" /\ UNCHANGED <<world, argv, flag, dir, list, gen>>
  BY DEF Include
<1>2. PICK l \in Levels : l = Level
  BY <1>0, LevelFacts
<1>3. f = load[l].asked
  BY <1>0, <1>1, <1>2 DEF ChosenStands, NameAt
<1>4. load[l].chosen # 0 /\ Todo = load[l].todo /\ load[l].todo \in Text
  BY <1>0, <1>1, <1>2 DEF Chosen, Todo, TypeOK, Activations
<1> DEFINE c == Choose(<<f>>)
<1>5. Shown(l) = <<c>> \o Todo /\ c \in Statement
  BY <1>1, <1>2, <1>3, <1>4, ShownFacts
<1>6. c.op = "choose" /\ c.files = <<f>> /\ Len(c.files) = 1 /\ c.files[1] = f
  BY DEF Choose
<1>7. \/ /\ f \in DOMAIN Contents /\ UNCHANGED phase
         /\ Goes(l, Contents[f] \o Todo, 0) /\ Contents[f] \in Source
      \/ /\ f \notin DOMAIN Contents /\ Goes(l, <<>>, 0)
         /\ IF l = "init" THEN phase' = "idle" ELSE UNCHANGED phase
  <2>1. CASE f \in DOMAIN Contents
    <3>1. UNCHANGED phase /\ load' = [[load EXCEPT ![Level].chosen = 0] EXCEPT ![Level].todo = Contents[f] \o Todo]
      BY <1>0, <2>1 DEF Include
    <3>2. Goes(Level, Contents[f] \o Todo, 0)
      <4> DEFINE t == Contents[f] \o Todo
      <4>1. load' = [[load EXCEPT ![Level].chosen = 0] EXCEPT ![Level].todo = t]
        BY <3>1
      <4> HIDE DEF t
      <4>2. Goes(Level, t, 0)
        BY <1>0, <4>1, LevelFacts DEF Goes, Activations
      <4> QED
        BY <4>2 DEF t
    <3>3. Contents[f] \in Source
      <4> HIDE DEF f
      <4> QED
        BY <2>1, SourcesAssumption
    <3> QED
      BY <1>2, <2>1, <3>1, <3>2, <3>3
  <2>2. CASE f \notin DOMAIN Contents
    <3>1. load' = [load EXCEPT ![Level] = Quiet] /\ IF Level = "init" THEN phase' = "idle" ELSE UNCHANGED phase
      BY <2>2 DEF Include, Failed, Answer
    <3> QED
      BY <1>0, <1>2, <2>2, <3>1, LevelFacts
  <2> QED
    BY <2>1, <2>2
<1> HIDE DEF f, c
<1>8. Shown(l) # <<>> /\ Head(Shown(l)) = c /\ Tail(Shown(l)) = Todo
  BY <1>4, <1>5, OneStatement
<1>9. OneText!Due = c /\ (Shown("init") \o Unread) \o Shown("client") # <<>>
  BY <1>1, <1>2, <1>8, DueIsShown
<1>10. CASE f \in DOMAIN Contents
  <2>1. Goes(l, Contents[f] \o Todo, 0) /\ Contents[f] \in Text /\ UNCHANGED phase
    BY <1>7, <1>10, StatementsTyped
  <2>2. Shown(l)' = Contents[f] \o Todo
    <3> DEFINE t == Contents[f] \o Todo
    <3>1. load'[l].todo = t /\ load'[l].chosen = 0 /\ t \in Text
      BY <1>4, <2>1, TextJoined DEF Goes
    <3> HIDE DEF t
    <3>2. Shown(l)' = t
      BY <3>1, EmptyText DEF Shown
    <3> QED
      BY <3>2 DEF t
  <2>3. OneText!Become(Contents[f])
    BY <1>1, <1>2, <1>8, <2>1, <2>2, Replacing DEF Goes
  <2> QED
    BY <1>1, <1>6, <1>9, <1>10, <2>3 DEF OneText!Obey
<1>11. CASE f \notin DOMAIN Contents
  <2>1. OneText!GiveUp
    BY <1>1, <1>2, <1>7, <1>8, <1>11, GivingUp
  <2> QED
    BY <1>1, <1>6, <1>9, <1>11, <2>1 DEF OneText!Obey
<1> QED
  BY <1>10, <1>11

\* A client that is idle has nothing to show, and neither has sknobs_init.
LEMMA IdleShows ==
  ASSUME Sound, Usable, Idle
  PROVE  Shown("init") \o Unread = <<>> /\ Shown("init") = <<>> /\ Shown("client") = <<>>
<1>1. phase = "idle" /\ load["client"].todo = <<>> /\ load["client"].chosen = 0
  BY DEF Idle
<1>2. Shown("client") = <<>>
  BY <1>1, ShownFacts DEF Levels
<1> QED
  BY <1>1, <1>2, UnreadFacts

\* A client's call is asked of the text.
LEMMA CallMaps ==
  ASSUME Sound, Usable, NEW c \in IF flag THEN Calls ELSE EarlyCalls, Call(c)
  PROVE  OneText!Ask
<1>0. TypeOK /\ Idle /\ c \in Text
  BY SourcesAssumption DEF Call, Sound, Shape
<1>1. Goes("client", c, 0) /\ UNCHANGED <<world, flag, argv, phase, dir, list, gen>>
  BY <1>0, CallGoes DEF Call, Keep, library
<1>2. Shown("client")' = c
  BY <1>0, <1>1, EmptyText DEF Goes, Shown
<1>3. Shown("init")' = Shown("init") /\ Unread' = Unread
  BY <1>1, UnreadRemains DEF Goes, Levels, Shown
<1>4. Shown("init") \o Unread = <<>> /\ Shown("client") = <<>>
  BY <1>0, IdleShows
<1>5. (Shown("init") \o Unread)' = Shown("init") \o Unread
  BY <1>3
<1> QED
  BY <1>1, <1>2, <1>4, <1>5 DEF OneText!Ask

\* sknobs_close empties both databases; sknobs_init called again changes neither.
LEMMA CloseMaps ==
  ASSUME Sound, Usable, Close \/ InitAgain
  PROVE  OneText!Close \/ UNCHANGED OneText!vars
<1>1. Idle /\ UNCHANGED <<world, flag, argv, phase, dir, load, gen>>
  BY DEF Close, InitAgain, Keep, library
<1>2. Shown("init") \o Unread = <<>> /\ Shown("client") = <<>>
  BY <1>1, IdleShows
<1>3. /\ Shown("client")' = Shown("client")
      /\ (Shown("init") \o Unread)' = Shown("init") \o Unread
  BY <1>1, UnreadRemains DEF Shown
<1>4. CASE Close
  BY <1>1, <1>2, <1>3, <1>4 DEF Close, OneText!Close
<1>5. CASE InitAgain
  BY <1>1, <1>3, <1>5 DEF InitAgain, OneText!vars
<1> QED
  BY <1>4, <1>5

\* sknobs_init takes up the whole text, before anything else is done: with a command
\* line if it is the client who calls it, without one if it is called in passing.
LEMMA BeginMaps ==
  ASSUME Sound, Usable, NEW av \in CommandLines \cup {<<>>}, phase = "idle", ~flag,
         Begin(av), Idle \/ av = <<>>
  PROVE  OneText!Initialise
<1>1. /\ flag' = TRUE /\ argv' = av /\ phase' = "start"
      /\ UNCHANGED <<world, dir, list, gen, load>>
  BY DEF Begin, Usable
<1>2. Shown("client")' = Shown("client") /\ Shown("init")' = <<>>
  BY <1>1, UnreadFacts DEF Shown
<1>3. InitText(world, av) \in Text
  <2>1. world \in World /\ av \in Text /\ dir \in Nat /\ world.SEED \in Values \cup {Unset}
    <3>1. world \in World /\ av \in Text /\ dir \in Nat
      BY <1>1, SourcesAssumption, EmptyText, StatementsTyped DEF Sound, Shape, TypeOK
    <3> QED
      BY <3>1 DEF World
  <2>2. Remains("start", dir, world, av) \in Text
    BY <2>1, AskedTyped, RemainsFacts DEF Phases
  <2> QED
    BY <2>2 DEF Remains
<1>4. Unread' = InitText(world, av)
  BY <1>1, UnreadRemains DEF Remains
<1>5. (Shown("init") \o Unread)' = OneText!InitText(world, av)
  BY <1>2, <1>3, <1>4, EmptyText, SameWords
<1>6. Idle => Shown("client") = <<>>
  BY IdleShows
<1> QED
  BY <1>1, <1>2, <1>5, <1>6 DEF OneText!Initialise

\* Every step is one of the text's, or none.
LEMMA StepMaps ==
  ASSUME Sound, Usable, [Next]_vars
  PROVE  [OneText!Next]_(OneText!vars)
<1>1. CASE \E av \in CommandLines : InitCall(av)
  BY <1>1, BeginMaps DEF InitCall, Idle, OneText!Next
<1>2. CASE LazyInit
  BY <1>2, BeginMaps DEF LazyInit, OneText!Next
<1>3. CASE Moves
  BY <1>3, MovesMap DEF OneText!Next
<1>4. CASE AddKnob \/ SetSeed \/ WriteSeed \/ Look \/ Tokenize \/ Dump \/ PrintKnobs
  BY <1>4, StatementsMap DEF OneText!Next
<1>5. CASE ChooseFile \/ Fail \/ Include
  BY <1>5, ChooseMaps, FailMaps, IncludeMaps DEF OneText!Next
<1>6. CASE Close \/ InitAgain
  BY <1>6, CloseMaps DEF OneText!Next
<1>7. CASE \E c \in IF flag THEN Calls ELSE EarlyCalls : Call(c)
  BY <1>7, CallMaps DEF OneText!Next
<1>8. CASE UNCHANGED vars
  <2>1. UNCHANGED <<world, argv, phase, dir, load, flag, list, gen>>
    BY <1>8 DEF vars
  <2>2. UNCHANGED OneText!vars
    BY <2>1, UnreadRemains DEF Shown, OneText!vars
  <2> QED
    BY <2>2
<1> QED
  BY <1>1, <1>2, <1>3, <1>4, <1>5, <1>6, <1>7, <1>8 DEF Next, Step, Moves

\* Initialisation is one text, obeyed once and before whatever needed it first:
\* the directories, the files and the variables that sknobs_init reads one by one, in
\* its buffers and with its flags, are obeyed as if they had been written one after
\* the other (sknobs_init, sknobs.c), if no file is chosen before.
THEOREM StartupIsOneText ==
  ASSUME NoEarlyChoice
  PROVE  Spec => ImplementsText
<1> DEFINE I == Sound /\ GeneratorsOK
           Maps == Usable => [OneText!Next]_(OneText!vars)
<1>1. Init => I
  <2>1. Init => GeneratorsOK
    BY DEF Init, GeneratorsOK, Generators
  <2>2. Init => OnPath
    BY DEF Init, OnPath
  <2> QED
    BY <2>1, <2>2, ShapeKept, InitChosen, InitStands, InitWalked DEF Sound
<1>2. I /\ [Next]_vars => I' /\ Maps
  <2>1. GeneratorsOK /\ [Next]_vars => GeneratorsOK'
    BY GeneratorStep DEF GeneratorsOK
  <2>2. I /\ [Next]_vars => Sound'
    BY <2>1, ShapeStep, NextChosen, NextStands, NextWalked, NextOnPath DEF Sound, Shape
  <2>3. I /\ [Next]_vars => Maps
    BY <2>2, StepMaps DEF Sound
  <2> QED
    BY <2>1, <2>2, <2>3
<1>3. Init => OneText!Init
  <2> SUFFICES ASSUME Init PROVE OneText!Init
    OBVIOUS
  <2>1. \A l \in Levels : Shown(l) = <<>>
    BY EmptyText DEF Init, Quiet, Shown
  <2>2. Unread = <<>>
    BY DEF Init, Unread
  <2>3. Shown("init") \o Unread = <<>> /\ Shown("client") = <<>>
    BY <2>1, <2>2, EmptyText DEF Levels
  <2> QED
    BY <2>3 DEF Init, OneText!Init
<1>4. Spec => [][Maps]_vars
  BY <1>1, <1>2, PTL DEF Spec
<1> QED
  BY <1>3, <1>4, PTL DEF Spec, ImplementsText
=============================================================================
