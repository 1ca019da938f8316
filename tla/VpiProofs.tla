------------------------------ MODULE VpiProofs ------------------------------
(***************************************************************************)
(* The Verilog binding for every set of strings and every width of a       *)
(* number: the library is initialised before it is asked, it sees the      *)
(* arguments of the design and the design its answers, and what the        *)
(* simulator owns is not written to.                                       *)
(***************************************************************************)
EXTENDS Vpi, FiniteSetTheorems, SequenceTheorems, TLAPS

(* The functions begin by initialising the library, but for two.           *)
WithoutInit == {"close", "load"}

LEMMA FunctionsInitialise ==
  ASSUME NEW f \in Names \ WithoutInit
  PROVE  Registered[f].calltf # <<>> /\ Head(Registered[f].calltf).op = "init"
<1> USE DEF Registered, As, Ensure
<1>1. CASE f \in {"exists", "get_value"}
  BY <1>1 DEF Exists, GetValue
<1>2. CASE f \in {"set_value", "get_string"}
  BY <1>2 DEF SetValue, GetString
<1>3. CASE f \in {"iterate", "iterator_next"}
  BY <1>3 DEF Iterate, IteratorNext
<1>4. CASE f \in {"iterator_get_string", "set_string"}
  BY <1>4 DEF IteratorGetString, SetString
<1>5. CASE f \in {"init", "add"}
  BY <1>5 DEF InitFunction, Add
<1>6. CASE f \in {"load_string", "load_file"}
  BY <1>6 DEF LoadString, LoadFile
<1>7. CASE f \in {"load_file_if_exists", "find_file"}
  BY <1>7 DEF LoadFileIfExists, FindFile
<1>8. CASE f \in {"get_filename", "get_dynamic_value"}
  BY <1>8 DEF GetFilename, GetDynamicValue
<1>9. CASE f \in {"set_seed", "eval"}
  BY <1>9 DEF SetSeed, Eval
<1>10. CASE f \in {"dump", "save"}
  BY <1>10 DEF Dump, Save
<1> QED
  BY <1>1, <1>2, <1>3, <1>4, <1>5, <1>6, <1>7, <1>8, <1>9, <1>10
     DEF Names, WithoutInit

\* A function that runs on a library nobody has initialised is about to do it.
Initialising ==
  /\ initted => library.ran # "no"
  /\ ~Idle /\ library.ran = "no" => asked.name \in WithoutInit \/ Head(program).op = "init"

LEMMA InitInitialising == Init => Initialising
BY DEF Init, Initialising, Idle

LEMMA NextInitialising == Initialising /\ [Next]_vars => Initialising'
<1> SUFFICES ASSUME Initialising, [Next]_vars PROVE Initialising'
  OBVIOUS
<1> USE DEF Initialising, Idle
<1>1. ASSUME NEW f \in Names, Ask(f)
      PROVE  Initialising'
  <2>1. asked'.name = f /\ program' = Registered[f].calltf /\ UNCHANGED <<initted, library>>
    BY <1>1 DEF Ask
  <2>2. f \notin WithoutInit => Head(program').op = "init"
    BY <2>1, FunctionsInitialise
  <2> QED
    BY <2>1, <2>2
<1>2. ASSUME RunInit
      PROVE  Initialising'
  BY <1>2 DEF RunInit
<1>3. ASSUME FetchArgument \/ FetchDefault \/ PutAnswer \/ FreeCopy
      PROVE  Initialising'
  <2>1. UNCHANGED <<asked, initted, library>> /\ ~Idle /\ Head(program).op # "init"
    BY <1>3 DEF FetchArgument, FetchDefault, PutAnswer, FreeCopy, Doing
  <2> QED
    BY <2>1
<1>4. ASSUME CallLibrary
      PROVE  Initialising'
  <2>1. /\ UNCHANGED <<asked, initted>> /\ ~Idle /\ Head(program).op # "init"
        /\ library.ran # "no" => library' = library
    BY <1>4 DEF CallLibrary, Doing
  <2> QED
    BY <2>1
<1>5. ASSUME UNCHANGED vars
      PROVE  Initialising'
  BY <1>5 DEF vars
<1> QED
  BY <1>1, <1>2, <1>3, <1>4, <1>5 DEF Next

LEMMA CallsInitialised ==
  ASSUME Initialising, CallLibrary
  PROVE  /\ asked.name \notin WithoutInit => library'.ran # "no"
         /\ library.ran = "no" /\ library'.ran = "lazy" => asked.name = "load"
<1>1. /\ ~Idle /\ Head(program).op = "call"
      /\ library.ran # "no" => library' = library
      /\ Library[asked.name].checks = "no" => library' = library
  BY DEF CallLibrary, Doing
<1>2. library.ran = "no" => asked.name \in WithoutInit
  BY <1>1 DEF Initialising
<1>3. Library["close"].checks = "no"
  BY DEF Library, Proto
<1> QED
  BY <1>1, <1>2, <1>3 DEF WithoutInit

\* The design cannot reach a library that has not been initialised, and only
\* $sknobs_load has it initialise itself.
THEOREM LibraryIsInitialisedFirst == Spec => InitialisedFirst
<1>1. Initialising /\ [Next]_vars =>
        [/\ CallLibrary /\ asked.name \notin {"close", "load"} => library'.ran # "no"
         /\ library.ran = "no" /\ library'.ran = "lazy" => asked.name = "load"]_vars
  <2> SUFFICES ASSUME Initialising, Next
               PROVE  /\ CallLibrary /\ asked.name \notin {"close", "load"}
                           => library'.ran # "no"
                      /\ library.ran = "no" /\ library'.ran = "lazy" => asked.name = "load"
    OBVIOUS
  <2>1. CASE CallLibrary
    BY <2>1, CallsInitialised DEF WithoutInit
  <2>2. CASE RunInit
    <3>1. library' = library \/ library'.ran = "argv"
      BY <2>2 DEF RunInit
    <3>2. ~CallLibrary
      BY <2>2 DEF RunInit, CallLibrary, Doing
    <3> QED
      BY <3>1, <3>2
  <2>3. CASE ~CallLibrary /\ ~RunInit
    <3>1. library' = library
      BY <2>3 DEF Next, Ask, FetchArgument, FetchDefault, PutAnswer, FreeCopy
    <3> QED
      BY <2>3, <3>1
  <2> QED
    BY <2>1, <2>2, <2>3
<1> QED
  BY <1>1, InitInitialising, NextInitialising, PTL DEF Spec, InitialisedFirst
-----------------------------------------------------------------------------
(* The programs of the functions.                                          *)

Places == {"number", "literal", "storage", "buffer", "heap"}
Instructions ==
  {Ensure, Call, Put, Free}
  \cup {Fetch(i, w, o) : i \in 1 .. 3, w \in {"number", "storage", "buffer", "heap"}, o \in BOOLEAN}

\* Where an argument of a kind is fetched to.
Suits(kind, where) ==
  CASE kind = "name" -> where = "buffer"
    [] kind = "text" -> where \in {"storage", "heap"}
    [] OTHER -> kind \in {"word", "seed"} /\ where = "number"

Before(f) == IF f \in WithoutInit THEN 0 ELSE 1
Answering(f) == IF f = "init" THEN 1 ELSE Before(f) + Len(Takes(f)) + 1

\* A function initialises the library, fetches its arguments in order, and calls.
\* Nothing that is pointed to is overwritten by a later argument: only the first is
\* a name, only the second is copied, and what stays in storage comes last.
Program(f, P) ==
  LET ts == Takes(f)
      n == Len(ts)
      b == Before(f)
  IN  /\ P \in Seq(Instructions) /\ ts \in Seq({"name", "text", "word", "seed"})
      /\ n \in 0 .. 3 /\ Answering(f) \in DOMAIN P
      /\ b = 1 => P[1].op = "init"
      /\ \A i \in 1 .. n :
           LET s == P[b + i]
           IN  /\ s.op = "fetch" /\ s.arg = i /\ Suits(ts[i], s.where)
               /\ s.where = "buffer" => i = 1
               /\ s.where = "heap" => i = 2
               /\ s.where = "storage" => i = n
      /\ P[Answering(f)].op = IF f = "init" THEN "init" ELSE "call"
      /\ \A i \in DOMAIN P : i > Answering(f) => P[i].op \in {"put", "free"}
      /\ (\E i \in DOMAIN P : P[i].op = "put") /\ f # "find_file" =>
           Library[f].answers \in 1 .. Registered[f].sizetf

LEMMA InstructionSet ==
  /\ {Ensure, Call, Put, Free} \subseteq Instructions
  /\ Ensure.op = "init" /\ Call.op = "call" /\ Put.op = "put" /\ Free.op = "free"
BY DEF Instructions, Ensure, Call, Put, Free

\* An instruction that fetches argument i to a place.
Fetches(s, i, w) == s \in Instructions /\ s.op = "fetch" /\ s.arg = i /\ s.where = w

LEMMA FetchSet ==
  ASSUME NEW i \in 1 .. 3
  PROVE  /\ Fetches(Expanded(i), i, "buffer") /\ Fetches(Copied(i), i, "heap")
         /\ Fetches(Kept(i), i, "storage") /\ Fetches(KeptOr(i), i, "storage")
         /\ Fetches(Number(i), i, "number") /\ Fetches(NumberOr(i), i, "number")
<1>1. ASSUME NEW w \in {"number", "storage", "buffer", "heap"}, NEW o \in BOOLEAN
      PROVE  Fetches(Fetch(i, w, o), i, w)
  <2>1. Fetch(i, w, o) \in Instructions
    BY DEF Instructions
  <2> QED
    BY <2>1 DEF Fetches, Fetch
<1> QED
  BY <1>1 DEF Expanded, Kept, KeptOr, Copied, Number, NumberOr

\* What else is known of a function: that its answer fits, if it has one.
Ordinary(f) ==
  /\ Before(f) = 1 /\ f # "init"
  /\ f # "find_file" => Library[f].answers \in 0 .. Registered[f].sizetf

Kinds == {"name", "text", "word", "seed"}

LEMMA OneArgument ==
  ASSUME NEW f, Ordinary(f), NEW t \in Kinds, Takes(f) = <<t>>,
         NEW w \in {"number", "buffer"}, Suits(t, w), NEW s, Fetches(s, 1, w),
         NEW P, \/ P = <<Ensure, s, Call>>
                \/ P = <<Ensure, s, Call, Put>> /\ Library[f].answers # 0
  PROVE  Program(f, P)
<1>1. Takes(f) \in Seq(Kinds) /\ Len(Takes(f)) = 1 /\ Takes(f)[1] = t
  OBVIOUS
<1>2. Answering(f) = 3 /\ Before(f) = 1
  BY <1>1 DEF Answering, Ordinary
<1>3. CASE P = <<Ensure, s, Call>>
  <2>1. P \in Seq(Instructions) /\ DOMAIN P = 1 .. 3 /\ P[1] = Ensure /\ P[2] = s /\ P[3] = Call
    BY <1>3, InstructionSet DEF Fetches
  <2> QED
    BY <1>1, <1>2, <2>1, InstructionSet DEF Program, Fetches, Ordinary, Kinds
<1>4. CASE P = <<Ensure, s, Call, Put>> /\ Library[f].answers # 0
  <2>1. P \in Seq(Instructions) /\ DOMAIN P = 1 .. 4 /\ P[1] = Ensure /\ P[2] = s /\ P[3] = Call /\ P[4] = Put
    BY <1>4, InstructionSet DEF Fetches
  <2> QED
    BY <1>1, <1>2, <1>4, <2>1, InstructionSet DEF Program, Fetches, Ordinary, Kinds
<1> QED
  BY <1>3, <1>4

LEMMA TwoArguments ==
  ASSUME NEW f, Ordinary(f), NEW t \in Kinds, Takes(f) = <<"name", t>>,
         NEW w \in {"number", "storage"}, Suits(t, w),
         NEW r, Fetches(r, 1, "buffer"), NEW s, Fetches(s, 2, w),
         NEW P, \/ P = <<Ensure, r, s, Call>>
                \/ P = <<Ensure, r, s, Call, Put>> /\ Library[f].answers # 0
  PROVE  Program(f, P)
<1>1. Takes(f) \in Seq(Kinds) /\ Len(Takes(f)) = 2 /\ Takes(f)[1] = "name" /\ Takes(f)[2] = t
  BY DEF Kinds
<1>2. Answering(f) = 4 /\ Before(f) = 1
  BY <1>1 DEF Answering, Ordinary
<1>3. CASE P = <<Ensure, r, s, Call>>
  <2>1. P \in Seq(Instructions) /\ DOMAIN P = 1 .. 4
        /\ P[1] = Ensure /\ P[2] = r /\ P[3] = s /\ P[4] = Call
    BY <1>3, InstructionSet DEF Fetches
  <2> QED
    BY <1>1, <1>2, <2>1, InstructionSet DEF Program, Fetches, Ordinary, Kinds, Suits
<1>4. CASE P = <<Ensure, r, s, Call, Put>> /\ Library[f].answers # 0
  <2>1. P \in Seq(Instructions) /\ DOMAIN P = 1 .. 5
        /\ P[1] = Ensure /\ P[2] = r /\ P[3] = s /\ P[4] = Call /\ P[5] = Put
    BY <1>4, InstructionSet DEF Fetches
  <2> QED
    BY <1>1, <1>2, <1>4, <2>1, InstructionSet DEF Program, Fetches, Ordinary, Kinds, Suits
<1> QED
  BY <1>3, <1>4

LEMMA ThreeArguments ==
  ASSUME NEW f, Ordinary(f), Takes(f) = <<"name", "text", "text">>, Library[f].answers # 0,
         NEW r, Fetches(r, 1, "buffer"), NEW s, Fetches(s, 2, "heap"), NEW t, Fetches(t, 3, "storage"),
         NEW P, P = <<Ensure, r, s, t, Call, Put>> \/ P = <<Ensure, r, s, t, Call, Put, Free>>
  PROVE  Program(f, P)
<1>1. Takes(f) \in Seq(Kinds) /\ Len(Takes(f)) = 3 /\ Takes(f)[1] = "name" /\ Takes(f)[2] = "text"
      /\ Takes(f)[3] = "text"
  BY DEF Kinds
<1>2. Answering(f) = 5 /\ Before(f) = 1
  BY <1>1 DEF Answering, Ordinary
<1>3. CASE P = <<Ensure, r, s, t, Call, Put>>
  <2>1. P \in Seq(Instructions) /\ DOMAIN P = 1 .. 6
        /\ P[1] = Ensure /\ P[2] = r /\ P[3] = s /\ P[4] = t /\ P[5] = Call /\ P[6] = Put
    BY <1>3, InstructionSet DEF Fetches
  <2> QED
    BY <1>1, <1>2, <2>1, InstructionSet DEF Program, Fetches, Ordinary, Kinds, Suits
<1>4. CASE P = <<Ensure, r, s, t, Call, Put, Free>>
  <2>1. P \in Seq(Instructions) /\ DOMAIN P = 1 .. 7
        /\ P[1] = Ensure /\ P[2] = r /\ P[3] = s /\ P[4] = t /\ P[5] = Call /\ P[6] = Put
        /\ P[7] = Free
    BY <1>4, InstructionSet DEF Fetches
  <2> QED
    BY <1>1, <1>2, <2>1, InstructionSet DEF Program, Fetches, Ordinary, Kinds, Suits
<1> QED
  BY <1>3, <1>4

LEMMA Signatures ==
  ASSUME NEW f \in Names
  PROVE  /\ Library[f].answers \in Nat /\ Registered[f].sizetf \in Nat
         /\ f \in Names \ {"init", "close", "load"} => Ordinary(f)
<1>0. f \in {"exists", "get_value", "set_value", "get_string", "iterate", "iterator_next",
            "iterator_get_string", "set_string", "add", "load_string", "load_file",
            "load_file_if_exists", "find_file", "get_filename", "get_dynamic_value",
            "set_seed", "eval", "dump", "save", "init", "close", "load"}
  BY DEF Names, Registered
<1>1. CASE f \in {"exists", "load_file", "load_file_if_exists"}
  BY <1>1 DEF Library, Proto, Registered, As, Takes, Before, WithoutInit, Ordinary
<1>2. CASE f \in {"get_value", "get_dynamic_value"}
  BY <1>2 DEF Library, Proto, Registered, As, Takes, Before, WithoutInit, Ordinary
<1>3. CASE f \in {"set_value"}
  BY <1>3 DEF Library, Proto, Registered, As, Takes, Before, WithoutInit, Ordinary
<1>4. CASE f \in {"get_string", "get_filename"}
  BY <1>4 DEF Library, Proto, Registered, As, Takes, Before, WithoutInit, Ordinary
<1>5. CASE f \in {"iterate", "eval"}
  BY <1>5 DEF Library, Proto, Registered, As, Takes, Before, WithoutInit, Ordinary
<1>6. CASE f \in {"iterator_next"}
  BY <1>6 DEF Library, Proto, Registered, As, Takes, Before, WithoutInit, Ordinary
<1>7. CASE f \in {"iterator_get_string"}
  BY <1>7 DEF Library, Proto, Registered, As, Takes, Before, WithoutInit, Ordinary
<1>8. CASE f \in {"set_string"}
  BY <1>8 DEF Library, Proto, Registered, As, Takes, Before, WithoutInit, Ordinary
<1>9. CASE f \in {"add", "load_string"}
  BY <1>9 DEF Library, Proto, Registered, As, Takes, Before, WithoutInit, Ordinary
<1>10. CASE f \in {"find_file"}
  BY <1>10 DEF Library, Proto, Registered, As, Takes, Before, WithoutInit, Ordinary
<1>11. CASE f \in {"set_seed"}
  BY <1>11 DEF Library, Proto, Registered, As, Takes, Before, WithoutInit, Ordinary
<1>12. CASE f \in {"dump"}
  BY <1>12 DEF Library, Proto, Registered, As, Takes, Before, WithoutInit, Ordinary
<1>13. CASE f \in {"save"}
  BY <1>13 DEF Library, Proto, Registered, As, Takes, Before, WithoutInit, Ordinary
<1>14. CASE f \in {"init", "close", "load"}
  BY <1>14 DEF Library, Proto, Registered, As, Takes, Before, WithoutInit, Ordinary
<1> QED
  BY <1>0, <1>1, <1>2, <1>3, <1>4, <1>5, <1>6, <1>7, <1>8, <1>9, <1>10, <1>11, <1>12, <1>13, <1>14

\* Every function is such a program.
LEMMA Programs ==
  ASSUME NEW f \in Names
  PROVE  Program(f, Registered[f].calltf)
<1>1. f \in {"exists", "get_value", "set_value", "get_string", "iterate", "iterator_next",
            "iterator_get_string", "set_string", "add", "load_string", "load_file",
            "load_file_if_exists", "find_file", "get_filename", "get_dynamic_value",
            "set_seed", "eval", "dump", "save", "init", "close", "load"}
  BY DEF Names, Registered
<1>2. f \notin {"init", "close", "load"} => Ordinary(f)
  BY Signatures
<1>3. Suits("name", "buffer") /\ Suits("text", "storage")
      /\ Suits("word", "number") /\ Suits("seed", "number") /\ Kinds = {"name", "text", "word", "seed"}
  BY DEF Suits, Kinds
<1>4. CASE f \in {"exists", "iterate", "load_file", "load_file_if_exists", "find_file", "eval"}
  <2>1. /\ Takes(f) = <<"name">> /\ Library[f].answers # 0
        /\ Registered[f].calltf = <<Ensure, Expanded(1), Call, Put>>
    <3>1. CASE f = "exists"
      BY <3>1 DEF Registered, As, Library, Proto, Takes, Exists
    <3>2. CASE f = "iterate"
      BY <3>2 DEF Registered, As, Library, Proto, Takes, Iterate
    <3>3. CASE f = "load_file"
      BY <3>3 DEF Registered, As, Library, Proto, Takes, LoadFile
    <3>4. CASE f = "load_file_if_exists"
      BY <3>4 DEF Registered, As, Library, Proto, Takes, LoadFileIfExists
    <3>5. CASE f = "find_file"
      BY <3>5 DEF Registered, As, Library, Proto, Takes, FindFile
    <3>6. CASE f = "eval"
      BY <3>6 DEF Registered, As, Library, Proto, Takes, Eval
    <3> QED
      BY <1>4, <3>1, <3>2, <3>3, <3>4, <3>5, <3>6
  <2> QED
    BY <1>2, <1>3, <1>4, <2>1, FetchSet, OneArgument
<1>5. CASE f \in {"iterator_next", "iterator_get_string"}
  <2>1. /\ Takes(f) = <<"word">> /\ Library[f].answers # 0
        /\ Registered[f].calltf = <<Ensure, Number(1), Call, Put>>
    <3>1. CASE f = "iterator_next"
      BY <3>1 DEF Registered, As, Library, Proto, Takes, IteratorNext
    <3>2. CASE f = "iterator_get_string"
      BY <3>2 DEF Registered, As, Library, Proto, Takes, IteratorGetString
    <3> QED
      BY <1>5, <3>1, <3>2
  <2> QED
    BY <1>2, <1>3, <1>5, <2>1, FetchSet, OneArgument
<1>6. CASE f \in {"set_seed"}
  <2>1. /\ Takes(f) = <<"seed">> /\ Library[f].answers = 0
        /\ Registered[f].calltf = <<Ensure, Number(1), Call>>
    <3>1. CASE f = "set_seed"
      BY <3>1 DEF Registered, As, Library, Proto, Takes, SetSeed
    <3> QED
      BY <1>6, <3>1
  <2> QED
    BY <1>2, <1>3, <1>6, <2>1, FetchSet, OneArgument
<1>7. CASE f \in {"save"}
  <2>1. /\ Takes(f) = <<"name">> /\ Library[f].answers = 0
        /\ Registered[f].calltf = <<Ensure, Expanded(1), Call>>
    <3>1. CASE f = "save"
      BY <3>1 DEF Registered, As, Library, Proto, Takes, Save
    <3> QED
      BY <1>7, <3>1
  <2> QED
    BY <1>2, <1>3, <1>7, <2>1, FetchSet, OneArgument
<1>8. CASE f \in {"get_value", "get_dynamic_value"}
  <2>1. /\ Takes(f) = <<"name", "word">> /\ Library[f].answers # 0
        /\ Registered[f].calltf = <<Ensure, Expanded(1), NumberOr(2), Call, Put>>
    <3>1. CASE f = "get_value"
      BY <3>1 DEF Registered, As, Library, Proto, Takes, GetValue
    <3>2. CASE f = "get_dynamic_value"
      BY <3>2 DEF Registered, As, Library, Proto, Takes, GetDynamicValue
    <3> QED
      BY <1>8, <3>1, <3>2
  <2> QED
    BY <1>2, <1>3, <1>8, <2>1, FetchSet, TwoArguments
<1>9. CASE f \in {"set_value"}
  <2>1. /\ Takes(f) = <<"name", "word">> /\ Library[f].answers = 0
        /\ Registered[f].calltf = <<Ensure, Expanded(1), Number(2), Call>>
    <3>1. CASE f = "set_value"
      BY <3>1 DEF Registered, As, Library, Proto, Takes, SetValue
    <3> QED
      BY <1>9, <3>1
  <2> QED
    BY <1>2, <1>3, <1>9, <2>1, FetchSet, TwoArguments
<1>10. CASE f \in {"get_string", "get_filename"}
  <2>1. /\ Takes(f) = <<"name", "text">> /\ Library[f].answers # 0
        /\ Registered[f].calltf = <<Ensure, Expanded(1), KeptOr(2), Call, Put>>
    <3>1. CASE f = "get_string"
      BY <3>1 DEF Registered, As, Library, Proto, Takes, GetString
    <3>2. CASE f = "get_filename"
      BY <3>2 DEF Registered, As, Library, Proto, Takes, GetFilename
    <3> QED
      BY <1>10, <3>1, <3>2
  <2> QED
    BY <1>2, <1>3, <1>10, <2>1, FetchSet, TwoArguments
<1>11. CASE f \in {"set_string"}
  <2>1. /\ Takes(f) = <<"name", "text">> /\ Library[f].answers = 0
        /\ Registered[f].calltf = <<Ensure, Expanded(1), Kept(2), Call>>
    <3>1. CASE f = "set_string"
      BY <3>1 DEF Registered, As, Library, Proto, Takes, SetString
    <3> QED
      BY <1>11, <3>1
  <2> QED
    BY <1>2, <1>3, <1>11, <2>1, FetchSet, TwoArguments
<1>12. CASE f \in {"add"}
  <2>1. /\ Takes(f) = <<"name", "text", "text">> /\ Library[f].answers # 0
        /\ Registered[f].calltf = <<Ensure, Expanded(1), Copied(2), KeptOr(3), Call, Put, Free>>
    <3>1. CASE f = "add"
      BY <3>1 DEF Registered, As, Library, Proto, Takes, Add
    <3> QED
      BY <1>12, <3>1
  <2> QED
    BY <1>2, <1>3, <1>12, <2>1, FetchSet, ThreeArguments
<1>13. CASE f \in {"load_string"}
  <2>1. /\ Takes(f) = <<"name", "text", "text">> /\ Library[f].answers # 0
        /\ Registered[f].calltf = <<Ensure, Expanded(1), Copied(2), KeptOr(3), Call, Put>>
    <3>1. CASE f = "load_string"
      BY <3>1 DEF Registered, As, Library, Proto, Takes, LoadString
    <3> QED
      BY <1>13, <3>1
  <2> QED
    BY <1>2, <1>3, <1>13, <2>1, FetchSet, ThreeArguments
<1>14. CASE f = "dump"
  <2>1. /\ Takes(f) = <<>> /\ Registered[f].calltf = <<Ensure, Call>>
        /\ Registered[f].sizetf \in Nat /\ Library[f].answers = 0
        /\ Registered[f].sizetf = 0
    BY <1>14 DEF Registered, As, Library, Proto, Takes, Dump
  <2> DEFINE P == <<Ensure, Call>>
  <2>2. /\ P \in Seq(Instructions) /\ DOMAIN P = 1 .. 2
        /\ P[1] = Ensure /\ P[2] = Call
    BY InstructionSet
  <2>3. Len(Takes(f)) = 0 /\ Takes(f) \in Seq(Kinds)
    BY <2>1, <1>3
  <2> HIDE DEF P
  <2>4. Before(f) = 1 /\ Answering(f) = 2
    BY <1>14, <2>3 DEF Before, WithoutInit, Answering
  <2>5. Program(f, P)
    BY <1>14, <1>3, <2>1, <2>2, <2>3, <2>4, InstructionSet DEF Program
  <2> QED
    BY <2>1, <2>5 DEF P
<1>15. CASE f = "init"
  <2>1. /\ Takes(f) = <<>> /\ Registered[f].calltf = <<Ensure, Put>>
        /\ Registered[f].sizetf \in Nat /\ Library[f].answers = 1
        /\ Registered[f].sizetf = 1
    BY <1>15 DEF Registered, As, Library, Proto, Takes, InitFunction
  <2> DEFINE P == <<Ensure, Put>>
  <2>2. /\ P \in Seq(Instructions) /\ DOMAIN P = 1 .. 2
        /\ P[1] = Ensure /\ P[2] = Put
    BY InstructionSet
  <2>3. Len(Takes(f)) = 0 /\ Takes(f) \in Seq(Kinds)
    BY <2>1, <1>3
  <2> HIDE DEF P
  <2>4. Before(f) = 1 /\ Answering(f) = 1
    BY <1>15, <2>3 DEF Before, WithoutInit, Answering
  <2>5. Program(f, P)
    BY <1>15, <1>3, <2>1, <2>2, <2>3, <2>4, InstructionSet DEF Program
  <2> QED
    BY <2>1, <2>5 DEF P
<1>16. CASE f = "close"
  <2>1. /\ Takes(f) = <<>> /\ Registered[f].calltf = <<Call>>
        /\ Registered[f].sizetf \in Nat /\ Library[f].answers = 0
        /\ Registered[f].sizetf = 0
    BY <1>16 DEF Registered, As, Library, Proto, Takes, Close
  <2> DEFINE P == <<Call>>
  <2>2. /\ P \in Seq(Instructions) /\ DOMAIN P = 1 .. 1
        /\ P[1] = Call
    BY InstructionSet
  <2>3. Len(Takes(f)) = 0 /\ Takes(f) \in Seq(Kinds)
    BY <2>1, <1>3
  <2> HIDE DEF P
  <2>4. Before(f) = 0 /\ Answering(f) = 1
    BY <1>16, <2>3 DEF Before, WithoutInit, Answering
  <2>5. Program(f, P)
    BY <1>16, <1>3, <2>1, <2>2, <2>3, <2>4, InstructionSet DEF Program
  <2> QED
    BY <2>1, <2>5 DEF P
<1>17. CASE f = "load"
  <2>1. /\ Takes(f) = <<"text">> /\ Registered[f].calltf = <<KeptOr(1), Call, Put>>
        /\ Registered[f].sizetf \in Nat /\ Library[f].answers = 1
        /\ Registered[f].sizetf = 1
    BY <1>17 DEF Registered, As, Library, Proto, Takes, Load
  <2> DEFINE P == <<KeptOr(1), Call, Put>>
  <2>2. /\ P \in Seq(Instructions) /\ DOMAIN P = 1 .. 3
        /\ P[1] = KeptOr(1) /\ P[2] = Call /\ P[3] = Put
    BY InstructionSet, FetchSet DEF Fetches
  <2>3. Len(Takes(f)) = 1 /\ Takes(f) \in Seq(Kinds) /\ Takes(f)[1] = "text"
    BY <2>1, <1>3
  <2> HIDE DEF P
  <2>4. Before(f) = 0 /\ Answering(f) = 2
    <3>1. Before(f) = 0 /\ f # "init"
      BY <1>17 DEF Before, WithoutInit
    <3> QED
      BY <2>3, <3>1 DEF Answering
  <2>5. P[1].op = "fetch" /\ P[1].arg = 1 /\ P[1].where = "storage"
    BY <2>2, FetchSet DEF Fetches
  <2>6. P[2].op = "call" /\ P[3].op = "put"
    BY <2>2, InstructionSet
  <2>7. Program(f, P)
    <3>1. \A i \in 1 .. Len(Takes(f)) : i = 1 /\ Before(f) + i = 1 /\ i = Len(Takes(f))
      BY <2>3, <2>4
    <3>2. Suits(Takes(f)[1], P[1].where)
      BY <1>3, <2>3, <2>5
    <3>3. \A i \in DOMAIN P : i > Answering(f) => P[i].op \in {"put", "free"}
      BY <2>2, <2>4, <2>6
    <3>4. P[Answering(f)].op = "call" /\ f # "init"
      BY <1>17, <2>4, <2>6
    <3>5. Takes(f) \in Seq({"name", "text", "word", "seed"}) /\ Len(Takes(f)) \in 0 .. 3
      BY <1>3, <2>3
    <3> QED
      BY <2>1, <2>2, <2>4, <2>5, <3>1, <3>2, <3>3, <3>4, <3>5 DEF Program
  <2> QED
    BY <2>1, <2>7 DEF P
<1> QED
  BY <1>1, <1>4, <1>5, <1>6, <1>7, <1>8, <1>9, <1>10, <1>11, <1>12, <1>13, <1>14, <1>15, <1>16, <1>17
-----------------------------------------------------------------------------
(* Numbers and positions.                                                  *)

LEMMA WordFacts ==
  /\ 0 \in Word /\ Top \in Word /\ 0 < Top
  /\ \A x \in Word : /\ Atoll(x) \in Word /\ x % Half \in Word
                     /\ x < Top => Atoll(x) = x
<1> DEFINE H == Half * Half
<1>1. H \in Nat /\ H >= Half /\ H >= 4 /\ Half \in Nat /\ Half > 1
  <2>1. Half \in Nat /\ Half >= 2
    BY VpiAssumption
  <2>2. \A a \in Nat : a >= 2 => a * a >= 2 * a
    BY Z3
  <2> QED
    BY <2>1, <2>2
<1>2. Word = 0 .. H - 1 /\ Top = H \div 2
  BY DEF Word, Top
<1> HIDE DEF H
<1>3. Top \in 1 .. H - 1
  BY <1>1, <1>2
<1>4. \A x \in Word : x % Half \in 0 .. Half - 1
  BY <1>1, <1>2
<1> QED
  BY <1>1, <1>2, <1>3, <1>4 DEF Atoll

\* What is left of a program.
LEMMA Suffix ==
  ASSUME NEW S, NEW P \in Seq(S), NEW m \in Nat, NEW l \in Nat, l = Len(P), m > 0, m <= l + 1
  PROVE  /\ SubSeq(P, m, l) \in Seq(S) /\ Len(SubSeq(P, m, l)) = l - m + 1
         /\ \A i \in 1 .. l - m + 1 : SubSeq(P, m, l)[i] = P[m + i - 1]
<1>1. \A i \in m .. l : P[i] \in S
  OBVIOUS
<1> DEFINE q == SubSeq(P, m, l)
<1>2. /\ q \in Seq(S) /\ Len(q) = IF m <= l THEN l - m + 1 ELSE 0
      /\ \A i \in 1 .. l - m + 1 : q[i] = P[m + i - 1]
  BY <1>1, SubSeqProperties
<1> HIDE DEF q
<1>3. Len(q) = l - m + 1
  BY <1>2
<1> QED
  BY <1>2, <1>3 DEF q

LEMMA Left ==
  ASSUME NEW S, NEW P \in Seq(S), NEW k \in 0 .. Len(P)
  PROVE  /\ SubSeq(P, k + 1, Len(P)) # <<>> =>
              /\ k < Len(P) /\ k + 1 \in DOMAIN P
              /\ Head(SubSeq(P, k + 1, Len(P))) = P[k + 1]
              /\ Tail(SubSeq(P, k + 1, Len(P))) = SubSeq(P, k + 2, Len(P))
         /\ SubSeq(P, 1, Len(P)) = P
         /\ SubSeq(P, Len(P) + 1, Len(P)) = <<>>
<1>1. PICK l \in Nat : l = Len(P)
  OBVIOUS
<1>2. DOMAIN P = 1 .. l /\ k \in Nat /\ k <= l
  BY <1>1
<1>3. SubSeq(P, 1, l) = P
  <2> DEFINE q == SubSeq(P, 1, l)
  <2>1. q \in Seq(S) /\ Len(q) = l - 1 + 1 /\ \A i \in 1 .. l - 1 + 1 : q[i] = P[1 + i - 1]
    BY <1>1, Suffix
  <2> HIDE DEF q
  <2>2. Len(q) = l /\ \A i \in 1 .. l : q[i] = P[i]
    BY <1>1, <2>1
  <2>3. q = P
    BY <1>1, <2>1, <2>2, SeqEqual
  <2> QED
    BY <2>3 DEF q
<1>4. SubSeq(P, l + 1, l) = <<>>
  BY <1>1, SubSeqEmpty
<1>5. ASSUME SubSeq(P, k + 1, l) # <<>>
      PROVE  /\ k < l /\ Head(SubSeq(P, k + 1, l)) = P[k + 1]
             /\ Tail(SubSeq(P, k + 1, l)) = SubSeq(P, k + 2, l)
  <2>1. k < l
    BY <1>1, <1>2, <1>4, <1>5
  <2>2. PICK m \in Nat, n \in Nat : m = k + 1 /\ n = k + 2 /\ n = m + 1 
            /\ m > 0 /\ n > 0 /\ m <= l /\ n <= l + 1
    BY <1>1, <1>2, <2>1
  <2> DEFINE q == SubSeq(P, m, l)
             r == SubSeq(P, n, l)
  <2>3. q \in Seq(S) /\ Len(q) = l - m + 1 /\ \A i \in 1 .. l - m + 1 : q[i] = P[m + i - 1]
    BY <1>1, <2>2, Suffix
  <2>4. r \in Seq(S) /\ Len(r) = l - n + 1 /\ \A i \in 1 .. l - n + 1 : r[i] = P[n + i - 1]
    BY <1>1, <2>2, Suffix
  <2>5. q # <<>>
    BY <1>5, <2>2
  <2> HIDE DEF q, r
  <2>6. Head(q) = P[m]
    BY <1>1, <2>2, <2>3, <2>5
  <2>7. /\ Tail(q) \in Seq(S) /\ Len(Tail(q)) = Len(q) - 1
        /\ \A i \in 1 .. Len(Tail(q)) : Tail(q)[i] = q[i + 1]
    BY <2>3, <2>5, HeadTailProperties
  <2>8. Len(Tail(q)) = l - n + 1
    <3>1. Len(q) - 1 = l - n + 1
      BY <1>1, <2>2, <2>3
    <3> QED
      BY <2>7, <3>1
  <2>9. ASSUME NEW i \in 1 .. l - n + 1
        PROVE  Tail(q)[i] = r[i]
    <3>1. i + 1 \in 1 .. l - m + 1 /\ m + (i + 1) - 1 = n + i - 1
      BY <1>1, <2>2
    <3>2. PICK j \in 1 .. l - m + 1 : j = i + 1
      BY <3>1
    <3>3. q[j] = P[m + j - 1]
      BY <2>3
    <3>4. Tail(q)[i] = q[j]
      BY <2>7, <2>8, <3>2
    <3>5. r[i] = P[n + i - 1]
      BY <2>4
    <3> QED
      BY <3>1, <3>2, <3>3, <3>4, <3>5
  <2>10. Tail(q) = r
    BY <2>4, <2>7, <2>8, <2>9, SeqEqual
  <2> QED
    BY <2>1, <2>2, <2>6, <2>10 DEF q, r
<1>6. k < l => k + 1 \in DOMAIN P
  BY <1>1, <1>2
<1> QED
  BY <1>1, <1>3, <1>4, <1>5, <1>6

\* The instruction at a place of a program tells where it is.
LEMMA PlaceOf ==
  ASSUME NEW f, NEW P, Program(f, P), NEW j \in DOMAIN P
  PROVE  /\ P[j].op = "init" => j = 1 /\ Before(f) = 1
         /\ P[j].op = "fetch" =>
              /\ j - Before(f) \in 1 .. Len(Takes(f)) /\ P[j].arg = j - Before(f)
              /\ j < Answering(f) /\ f # "init"
              /\ Suits(Takes(f)[j - Before(f)], P[j].where)
              /\ P[j].where = "buffer" => P[j].arg = 1
              /\ P[j].where = "heap" => P[j].arg = 2
              /\ P[j].where = "storage" => P[j].arg = Len(Takes(f))
         /\ P[j].op = "call" => j = Answering(f) /\ f # "init"
         /\ P[j].op \in {"put", "free"} => j > Answering(f)
<1>1. /\ Len(Takes(f)) \in 0 .. 3 /\ Before(f) \in {0, 1} /\ j \in 1 .. Len(P)
      /\ Answering(f) = IF f = "init" THEN 1 ELSE Before(f) + Len(Takes(f)) + 1
  BY DEF Program, Before, Answering
<1>2. f = "init" => Before(f) = 1 /\ Len(Takes(f)) = 0
  BY DEF Before, WithoutInit, Takes, Library, Proto
<1>3. CASE j = 1 /\ Before(f) = 1
  BY <1>1, <1>2, <1>3 DEF Program
<1>4. CASE j > Before(f) /\ j < Answering(f)
  <2>1. f # "init" /\ j - Before(f) \in 1 .. Len(Takes(f)) /\ Before(f) + (j - Before(f)) = j
    BY <1>1, <1>2, <1>4
  <2>2. LET i == j - Before(f)
        IN  /\ P[j].op = "fetch" /\ P[j].arg = i /\ Suits(Takes(f)[i], P[j].where)
            /\ P[j].where = "buffer" => i = 1
            /\ P[j].where = "heap" => i = 2
            /\ P[j].where = "storage" => i = Len(Takes(f))
    BY <2>1 DEF Program
  <2> QED
    BY <1>4, <2>1, <2>2
<1>5. CASE j = Answering(f) /\ f # "init"
  BY <1>1, <1>5 DEF Program
<1>6. CASE j > Answering(f)
  BY <1>6 DEF Program
<1> QED
  BY <1>1, <1>2, <1>3, <1>4, <1>5, <1>6
-----------------------------------------------------------------------------
(* Arguments and answers.                                                  *)

Code == Registered[asked.name].calltf
ArgSet == [where : Places, number : Word]

CallOK ==
  /\ asked \in Calling
  /\ \A i \in DOMAIN asked.args : asked.args[i] \in Domain(asked.name, i)
  /\ asked.name = "set_seed" => 1 \in DOMAIN asked.args

\* Argument i has been fetched, and what it leads to is still what it was.
Holds(i) ==
  LET x == asked.args[i]
      kind == Takes(asked.name)[i]
  IN  \/ /\ i \notin DOMAIN asked.args
         /\ args[i] = IF kind \in {"word", "seed"} THEN Passed("number", 0) ELSE Literal
      \/ /\ i \in DOMAIN asked.args
         /\ \/ kind \in {"word", "seed"} /\ args[i] = Passed("number", x)
            \/ /\ kind = "name" /\ i = 1
               /\ args[i] = Passed("buffer", x) /\ buffer = ExpandName(x)
            \/ /\ kind = "text" /\ i = 2
               /\ args[i] = Passed("heap", x) /\ heap = String(x, NULL)
            \/ /\ kind = "text" /\ i = Len(Takes(asked.name))
               /\ args[i] = Passed("storage", x) /\ storage = String(x, NULL)

\* Before the function has its answer it has fetched the arguments it has come to, and
\* the design has not been answered.
At(k) ==
  /\ program = SubSeq(Code, k + 1, Len(Code))
  /\ k < Answering(asked.name) =>
       /\ Len(args) = IF k <= Before(asked.name) THEN 0 ELSE k - Before(asked.name)
       /\ \A i \in DOMAIN args : Holds(i)
       /\ given = NULL
  /\ k >= Answering(asked.name) /\ Library[asked.name].answers # 0 =>
       result.bits = Library[asked.name].answers

Running ==
  /\ args \in Seq(ArgSet)
  /\ \E k \in 0 .. Len(Code) : At(k)

\* What the library has seen and what the design has been given.
Delivered ==
  /\ received # NULL => /\ received.name = asked.name
                        /\ Len(received.args) = Len(Takes(asked.name))
                        /\ Small => \A i \in DOMAIN Takes(asked.name) : received.args[i] = Wanted(i)
  /\ given # NULL => /\ given.bits <= Registered[asked.name].sizetf
                     /\ asked.name # "find_file" => given = result

Stored ==
  /\ {storage, buffer, heap} \subseteq Strings /\ initted \in BOOLEAN
  /\ library \in [ran : {"no", "lazy", "argv"}, answer : 0 .. 1]

LEMMA CodeFacts ==
  ASSUME CallOK
  PROVE  /\ asked.name \in Names /\ asked.args \in Seq(Texts \cup Word)
         /\ Code \in Seq(Instructions) /\ Program(asked.name, Code)
         /\ Len(Takes(asked.name)) \in 0 .. 3
         /\ DOMAIN Takes(asked.name) = 1 .. Len(Takes(asked.name))
         /\ \A i \in DOMAIN Takes(asked.name) : Takes(asked.name)[i] \in Kinds
         /\ Library[asked.name].answers \in Nat /\ Registered[asked.name].sizetf \in Nat
<1>1. asked.name \in Names /\ asked.args \in Seq(Texts \cup Word)
  BY DEF CallOK, Calling
<1>2. Program(asked.name, Code)
  BY <1>1, Programs DEF Code
<1>3. /\ Code \in Seq(Instructions) /\ Len(Takes(asked.name)) \in 0 .. 3
      /\ Takes(asked.name) \in Seq(Kinds)
  BY <1>2 DEF Program, Kinds
<1> QED
  BY <1>1, <1>2, <1>3, Signatures

\* Where the instruction that is due stands.
LEMMA Stepping ==
  ASSUME CallOK, Running, NEW op, Doing(op)
  PROVE  \E k \in 0 .. Len(Code) :
           /\ At(k) /\ k + 1 \in DOMAIN Code /\ Code[k + 1] = Head(program) /\ Head(program).op = op
           /\ program' = SubSeq(Code, (k + 1) + 1, Len(Code)) /\ k + 1 \in 0 .. Len(Code)
<1>1. Code \in Seq(Instructions)
  BY CodeFacts
<1>2. PICK k \in 0 .. Len(Code) : At(k)
  BY DEF Running
<1>3. /\ program # <<>> /\ Head(program).op = op /\ program' = Tail(program)
      /\ program = SubSeq(Code, k + 1, Len(Code))
  BY <1>2 DEF Doing, Idle, At
<1>4. /\ k < Len(Code) /\ k + 1 \in DOMAIN Code /\ Head(program) = Code[k + 1]
      /\ Tail(program) = SubSeq(Code, k + 2, Len(Code))
  BY <1>1, <1>3, Left
<1>5. (k + 1) + 1 = k + 2 /\ k + 1 \in 0 .. Len(Code)
  BY <1>1, <1>4
<1> QED
  BY <1>2, <1>3, <1>4, <1>5

LEMMA InitRunning == Init => CallOK /\ Running /\ Delivered /\ Stored
<1> SUFFICES ASSUME Init PROVE CallOK /\ Running /\ Delivered /\ Stored
  OBVIOUS
<1>1. "close" \in Names
  BY DEF Names, Registered
<1>2. CallOK
  BY <1>1 DEF Init, CallOK, Calling
<1>3. /\ Code = <<Call>> /\ Library["close"].answers = 0 /\ Takes("close") = <<>>
      /\ Answering("close") = 1 /\ asked.name = "close"
  <2>1. asked.name = "close" /\ Code = Close
    BY DEF Init, Code, Registered, As
  <2>2. Library["close"].answers = 0 /\ Takes("close") = <<>>
    BY DEF Library, Proto, Takes
  <2>3. Before("close") = 0 /\ Len(Takes("close")) = 0
    BY <2>2 DEF Before, WithoutInit
  <2> QED
    BY <2>1, <2>2, <2>3 DEF Close, Answering
<1>4. At(1)
  <2>1. Len(Code) = 1 /\ SubSeq(Code, 2, 1) = <<>>
    BY <1>3
  <2>2. program = SubSeq(Code, 1 + 1, Len(Code))
    BY <2>1 DEF Init
  <2> QED
    BY <1>3, <2>2 DEF At
<1>5. Running
  BY <1>3, <1>4 DEF Init, Running
<1>6. Delivered /\ Stored
  <2>1. Nothing \in Strings
    BY DEF Nothing, String, Strings
  <2>2. [ran |-> "no", answer |-> 0] \in [ran : {"no", "lazy", "argv"}, answer : 0 .. 1]
    OBVIOUS
  <2>3. Stored
    BY <2>1, <2>2 DEF Init, Stored
  <2>4. Delivered
    BY DEF Init, Delivered
  <2> QED
    BY <2>3, <2>4
<1> QED
  BY <1>2, <1>5, <1>6

LEMMA SequenceOf ==
  ASSUME NEW S, NEW n \in Nat, NEW g \in [1 .. n -> S]
  PROVE  g \in Seq(S) /\ DOMAIN g = 1 .. n
OBVIOUS

\* A design may call any function with arguments of its types.
LEMMA AskRunning ==
  ASSUME CallOK, Running, Delivered, Stored, NEW f \in Names, Ask(f)
  PROVE  CallOK' /\ Running' /\ Delivered' /\ Stored'
<1>1. PICK as \in Asking(f) : asked' = [name |-> f, args |-> as]
  BY DEF Ask
<1>2. PICK n \in Mandatory(f) .. Len(Takes(f)) + 1 : as \in [1 .. n -> Texts \cup Word]
  BY DEF Asking
<1>3. as \in Seq(Texts \cup Word) /\ DOMAIN as = 1 .. n
  <2>1. n \in Int
    OBVIOUS
  <2>2. CASE n \in Nat
    BY <1>2, <2>2, SequenceOf
  <2>3. CASE n \notin Nat
    <3>1. 1 .. n = 1 .. 0
      BY <2>1, <2>3
    <3>2. as \in [1 .. 0 -> Texts \cup Word]
      BY <1>2, <3>1
    <3>3. as \in Seq(Texts \cup Word)
      BY <3>2
    <3> QED
      BY <1>2, <3>3
  <2> QED
    BY <2>1, <2>2, <2>3
<1>10. \A i \in DOMAIN as : as[i] \in Domain(f, i)
  BY <1>1 DEF Asking
<1>4. f = "set_seed" => 1 \in DOMAIN as
  <2> SUFFICES ASSUME f = "set_seed" PROVE 1 \in DOMAIN as
    OBVIOUS
  <2>1. Registered[f].calltf = <<Ensure, Number(1), Call>>
    BY DEF Registered, As, SetSeed
  <2> DEFINE P == <<Ensure, Number(1), Call>>
  <2>2. DOMAIN P = 1 .. 3 /\ P[1].op = "init" /\ P[2].op = "fetch" /\ ~P[2].optional /\ P[3].op = "call"
    BY DEF Ensure, Number, Fetch, Call
  <2> HIDE DEF P
  <2>3. {j \in DOMAIN P : P[j].op = "fetch" /\ ~P[j].optional} = {2}
    BY <2>2
  <2>4. Mandatory(f) = Cardinality({2})
    BY <2>1, <2>3 DEF Mandatory, P
  <2>5. Mandatory(f) = 1
    BY <2>4, FS_Singleton
  <2> QED
    BY <1>3, <2>5
<1>5. CallOK'
  BY <1>1, <1>3, <1>4, <1>10 DEF CallOK, Calling
<1>6. Code' = Registered[f].calltf /\ Code' \in Seq(Instructions) /\ Program(f, Code')
  BY <1>1, Programs DEF Code, Program
<1>7. At(0)'
  <2>1. program' = SubSeq(Code', 1, Len(Code'))
    BY <1>6, Left DEF Ask
  <2>2. Answering(f) \in Nat /\ Answering(f) > 0 /\ Before(f) \in {0, 1}
    BY <1>6 DEF Program, Answering, Before
  <2>3. args' = <<>> /\ given' = NULL
    BY DEF Ask
  <2> QED
    BY <1>1, <2>1, <2>2, <2>3 DEF At
<1>8. Running'
  <2>1. 0 \in 0 .. Len(Code')
    BY <1>6
  <2>2. args' \in Seq(ArgSet)
    BY DEF Ask
  <2> QED
    BY <1>7, <2>1, <2>2 DEF Running
<1>9. Delivered' /\ Stored'
  BY DEF Ask, Delivered, Stored
<1> QED
  BY <1>5, <1>8, <1>9

LEMMA SameCall ==
  ASSUME asked' = asked
  PROVE  /\ Code' = Code /\ (CallOK => CallOK') /\ Small' = Small
         /\ \A t : ExpandName(t)' = ExpandName(t)
         /\ \A i : Wanted(i)' = Wanted(i)
<1>1. \A t : ExpandName(t)' = ExpandName(t)
  BY DEF ExpandName, Parameter
<1>2. \A i : Wanted(i)' = Wanted(i)
  BY <1>1 DEF Wanted, Takes
<1> QED
  BY <1>1, <1>2 DEF Code, CallOK, Small, Calling, Domain, Takes

LEMMA SuitsFacts ==
  ASSUME NEW kind \in Kinds, NEW w, Suits(kind, w)
  PROVE  \/ kind \in {"word", "seed"} /\ w = "number"
         \/ kind = "name" /\ w = "buffer"
         \/ kind = "text" /\ w \in {"storage", "heap"}
BY DEF Kinds, Suits

\* What is delivered stays delivered, until the design calls again.
LEMMA DeliveredStays ==
  ASSUME Delivered, asked' = asked, received' = received, given' = NULL \/ UNCHANGED <<given, result>>
  PROVE  Delivered'
BY SameCall DEF Delivered

LEMMA InitRunningStep ==
  ASSUME CallOK, Running, Delivered, Stored, RunInit
  PROVE  CallOK' /\ Running' /\ Delivered' /\ Stored'
<1> DEFINE f == asked.name
<1>1. /\ Doing("init") /\ UNCHANGED <<asked, storage, buffer, heap, args, received, given>>
      /\ result'.bits = 1
  BY DEF RunInit
<1>2. PICK k \in 0 .. Len(Code) :
        /\ At(k) /\ k + 1 \in DOMAIN Code /\ Code[k + 1].op = "init"
        /\ program' = SubSeq(Code, (k + 1) + 1, Len(Code)) /\ k + 1 \in 0 .. Len(Code)
  BY <1>1, Stepping
<1>3. k + 1 = 1 /\ Before(f) = 1
  BY <1>2, CodeFacts, PlaceOf
<1>4. k = 0 /\ Answering(f) \in Nat /\ Answering(f) > 0 /\ (f # "init" => Answering(f) >= 2)
  BY <1>2, <1>3, CodeFacts DEF Answering
<1>5. Len(args) = 0 /\ given = NULL
  BY <1>2, <1>3, <1>4 DEF At
<1>6. f = "init" => Library[f].answers = 1
  BY DEF Library, Proto
<1>7. At(k + 1)'
  <2>1. DOMAIN args = {}
    BY <1>5 DEF Running
  <2> QED
    BY <1>1, <1>2, <1>3, <1>4, <1>5, <1>6, <2>1, SameCall DEF At
<1>8. Running'
  BY <1>1, <1>2, <1>7, SameCall DEF Running
<1>9. Stored'
  <2>1. \E a \in 0 .. 1 : library' \in {library, [ran |-> "argv", answer |-> a]}
    BY DEF RunInit
  <2>2. initted' = TRUE
    BY DEF RunInit
  <2> QED
    BY <1>1, <2>1, <2>2 DEF Stored
<1> QED
  BY <1>1, <1>5, <1>8, <1>9, SameCall, DeliveredStays

LEMMA FetchAt ==
  ASSUME NEW f, NEW P, Program(f, P), NEW j \in DOMAIN P, P[j].op = "fetch"
  PROVE  /\ j - Before(f) \in 1 .. Len(Takes(f)) /\ P[j].arg = j - Before(f)
         /\ j < Answering(f) /\ Suits(Takes(f)[j - Before(f)], P[j].where)
         /\ P[j].where = "buffer" => P[j].arg = 1
         /\ P[j].where = "heap" => P[j].arg = 2
         /\ P[j].where = "storage" => P[j].arg = Len(Takes(f))
BY PlaceOf

\* The argument that is fetched follows those that have been.
LEMMA FetchPlace ==
  ASSUME CallOK, Running, Doing("fetch")
  PROVE  LET f == asked.name
             i == Head(program).arg
             w == Head(program).where
         IN  /\ i \in 1 .. Len(Takes(f)) /\ Len(args) = i - 1 /\ given = NULL
             /\ \A h \in 1 .. i - 1 : Holds(h)
             /\ Takes(f)[i] \in Kinds /\ Suits(Takes(f)[i], w)
             /\ w \in {"number", "storage", "buffer", "heap"}
             /\ w = "buffer" => i = 1
             /\ w = "heap" => i = 2
             /\ w = "storage" => i = Len(Takes(f))
             /\ Before(f) + i \in 0 .. Len(Code) /\ Before(f) + i < Answering(f)
             /\ program' = SubSeq(Code, (Before(f) + i) + 1, Len(Code))
<1> DEFINE f == asked.name
           b == Before(f)
<1>1. PICK k \in 0 .. Len(Code) :
        /\ At(k) /\ k + 1 \in DOMAIN Code /\ Code[k + 1] = Head(program) /\ Head(program).op = "fetch"
        /\ program' = SubSeq(Code, (k + 1) + 1, Len(Code)) /\ k + 1 \in 0 .. Len(Code)
  BY Stepping
<1>2. PICK j \in 0 .. Len(Code) : j = k + 1
  BY <1>1
<1>3. Program(f, Code) /\ j \in DOMAIN Code /\ Code[j] = Head(program) /\ Code[j].op = "fetch"
  BY <1>1, <1>2, CodeFacts
<1>4. /\ j - b \in 1 .. Len(Takes(f)) /\ Head(program).arg = j - b
      /\ j < Answering(f) /\ Suits(Takes(f)[j - b], Head(program).where)
      /\ Head(program).where = "buffer" => Head(program).arg = 1
      /\ Head(program).where = "heap" => Head(program).arg = 2
      /\ Head(program).where = "storage" => Head(program).arg = Len(Takes(f))
  BY <1>3, FetchAt
<1>5. b \in {0, 1} /\ Answering(f) \in Nat /\ Len(Takes(f)) \in Nat
  BY CodeFacts DEF Before, Answering
<1>6. Head(program).where \in {"number", "storage", "buffer", "heap"}
  <2>1. Head(program) \in Instructions /\ Head(program).op = "fetch"
    BY <1>1, CodeFacts
  <2>2. Head(program) \notin {Ensure, Call, Put, Free}
    BY <2>1, InstructionSet
  <2>3. PICK i \in 1 .. 3, w \in {"number", "storage", "buffer", "heap"}, o \in BOOLEAN :
          Head(program) = Fetch(i, w, o)
    BY <2>1, <2>2 DEF Instructions
  <2> QED
    BY <2>3 DEF Fetch
<1>7. PICK i \in Nat : i = Head(program).arg /\ j = b + i /\ i \in 1 .. Len(Takes(f)) /\ k = b + i - 1
  BY <1>2, <1>4, <1>5
<1>8. Len(args) = i - 1 /\ given = NULL /\ \A h \in DOMAIN args : Holds(h)
  <2>1. k < Answering(f) /\ k >= b
    BY <1>2, <1>4, <1>5, <1>7
  <2>2. Len(args) = IF k <= b THEN 0 ELSE k - b
    BY <1>1, <2>1 DEF At
  <2>3. given = NULL /\ \A h \in DOMAIN args : Holds(h)
    BY <1>1, <2>1 DEF At
  <2> QED
    BY <1>5, <1>7, <2>1, <2>2, <2>3
<1>9. DOMAIN args = 1 .. i - 1
  BY <1>8 DEF Running
<1>10. Takes(f)[i] \in Kinds /\ Suits(Takes(f)[i], Head(program).where)
  <2>1. j - b = i
    BY <1>5, <1>7
  <2> QED
    BY <1>4, <1>7, <2>1, CodeFacts
<1>11. program' = SubSeq(Code, (b + i) + 1, Len(Code)) /\ b + i \in 0 .. Len(Code) /\ b + i < Answering(f)
  BY <1>1, <1>2, <1>4, <1>7
<1> QED
  BY <1>4, <1>6, <1>7, <1>8, <1>9, <1>10, <1>11

\* An argument more.
LEMMA FetchRunning ==
  ASSUME CallOK, Running, Doing("fetch"), UNCHANGED <<asked, given>>,
         NEW a \in ArgSet, args' = Append(args, a),
         \A h \in 1 .. Head(program).arg : Holds(h)'
  PROVE  Running'
<1> DEFINE f == asked.name
           i == Head(program).arg
<1>0. PICK k \in Nat : k = Before(f) + i
  BY FetchPlace, CodeFacts DEF Before
<1>1. /\ i \in 1 .. Len(Takes(f)) /\ Len(args) = i - 1 /\ given = NULL
      /\ k \in 0 .. Len(Code) /\ k < Answering(f)
      /\ program' = SubSeq(Code, k + 1, Len(Code))
  BY <1>0, FetchPlace
<1>2. Before(f) \in {0, 1} /\ Answering(f) \in Nat
  BY CodeFacts DEF Before, Answering
<1>3. args' \in Seq(ArgSet) /\ Len(args') = i /\ DOMAIN args' = 1 .. i
  BY <1>1, CodeFacts DEF Running
<1>4. Len(args') = IF k <= Before(f) THEN 0 ELSE k - Before(f)
  <2>1. i \in Nat /\ i >= 1
    BY <1>1, CodeFacts
  <2> QED
    BY <1>0, <1>2, <1>3, <2>1
<1>5. ~(k >= Answering(f))
  BY <1>1, <1>2, CodeFacts
<1>6. \A h \in DOMAIN args' : Holds(h)'
  BY <1>3
<1>7. At(k)'
  <2>1. Code' = Code /\ asked' = asked /\ given' = NULL
    BY <1>1, SameCall
  <2> QED
    BY <1>1, <1>4, <1>5, <1>6, <2>1 DEF At
<1>8. Code' = Code
  BY SameCall
<1> QED
  BY <1>1, <1>3, <1>7, <1>8 DEF Running

LEMMA ArgumentTyped ==
  ASSUME CallOK, NEW i \in DOMAIN asked.args
  PROVE  /\ asked.args[i] \in Texts \cup Word
         /\ i \in 1 .. Len(Takes(asked.name)) =>
              IF Takes(asked.name)[i] \in {"name", "text"} THEN asked.args[i] \in Texts
                                                            ELSE asked.args[i] \in Word
<1>1. asked.args[i] \in Domain(asked.name, i) /\ asked.args[i] \in Texts \cup Word
  BY CodeFacts DEF CallOK
<1> QED
  BY <1>1, CodeFacts DEF Domain

LEMMA ExpandedTyped ==
  ASSUME CallOK, NEW t \in Texts
  PROVE  ExpandName(t) \in Strings
<1>1. Parameter(3) \in Word \cup Texts
  <2>1. CASE 3 \in DOMAIN asked.args
    BY <2>1, ArgumentTyped, WordFacts DEF Parameter
  <2>2. CASE 3 \notin DOMAIN asked.args
    BY <2>2, WordFacts DEF Parameter
  <2> QED
    BY <2>1, <2>2
<1> QED
  BY <1>1 DEF ExpandName, String, Strings

LEMMA FetchArgumentRunning ==
  ASSUME CallOK, Running, Delivered, Stored, FetchArgument
  PROVE  CallOK' /\ Running' /\ Delivered' /\ Stored'
<1>1. PICK i, w, x : /\ i = Head(program).arg /\ w = Head(program).where /\ x = asked.args[i]
  OBVIOUS
<1>2. /\ Doing("fetch") /\ i \in DOMAIN asked.args
      /\ storage' = IF w = "number" THEN String(NULL, x) ELSE String(x, NULL)
      /\ buffer' = IF w = "buffer" THEN ExpandName(x) ELSE buffer
      /\ heap' = IF w = "heap" THEN storage' ELSE heap
      /\ args' = Append(args, Passed(w, x))
      /\ UNCHANGED <<asked, initted, library, received, result, given>>
  BY <1>1 DEF FetchArgument
<1>3. /\ i \in 1 .. Len(Takes(asked.name)) /\ Len(args) = i - 1 /\ given = NULL
      /\ \A h \in 1 .. i - 1 : Holds(h)
      /\ Takes(asked.name)[i] \in Kinds /\ Suits(Takes(asked.name)[i], w)
      /\ w \in {"number", "storage", "buffer", "heap"}
      /\ w = "buffer" => i = 1
      /\ w = "heap" => i = 2
      /\ w = "storage" => i = Len(Takes(asked.name))
  BY <1>1, <1>2, FetchPlace
<1> DEFINE kind == Takes(asked.name)[i]
<1>4. \/ kind \in {"word", "seed"} /\ w = "number" /\ x \in Word
      \/ kind = "name" /\ w = "buffer" /\ x \in Texts
      \/ kind = "text" /\ w \in {"storage", "heap"} /\ x \in Texts
  BY <1>1, <1>2, <1>3, SuitsFacts, ArgumentTyped
<1>5. Passed(w, x) \in ArgSet
  BY <1>3, <1>4, WordFacts DEF Passed, ArgSet, Places
<1>6. args \in Seq(ArgSet) /\ DOMAIN args = 1 .. i - 1 /\ Len(Takes(asked.name)) \in 0 .. 3
  BY <1>3, CodeFacts DEF Running
<1>7. args'[i] = Passed(w, x) /\ \A h \in 1 .. i - 1 : args'[h] = args[h]
  BY <1>2, <1>3, <1>5, <1>6
<1>8. \A h \in 1 .. i : Holds(h)'
  <2>1. Holds(i)'
    <3>1. Takes(asked.name)' = Takes(asked.name) /\ ExpandName(x)' = ExpandName(x)
      BY <1>2, SameCall DEF Takes
    <3> QED
      BY <1>1, <1>2, <1>3, <1>4, <1>7, <3>1 DEF Holds
  <2>2. ASSUME NEW h \in 1 .. i - 1
        PROVE  Holds(h)'
    <3>1. Holds(h) /\ args'[h] = args[h] /\ h # i /\ h # Len(Takes(asked.name)) /\ h \in Nat /\ h < i
      BY <1>3, <1>6, <1>7
    <3>2. /\ h = 1 => buffer' = buffer
          /\ h = 2 => heap' = heap
      BY <1>2, <1>3, <3>1
    <3>3. asked' = asked /\ Takes(asked.name)' = Takes(asked.name)
          /\ \A t : ExpandName(t)' = ExpandName(t)
      BY <1>2, SameCall DEF Takes
    <3> QED
      BY <3>1, <3>2, <3>3 DEF Holds
  <2>3. \A h \in 1 .. i : h = i \/ h \in 1 .. i - 1
    BY <1>3
  <2> QED
    BY <2>1, <2>2, <2>3
<1>9. Running'
  BY <1>1, <1>2, <1>5, <1>8, FetchRunning
<1>10. Stored'
  <2>1. storage' \in Strings
    BY <1>2, <1>4 DEF String, Strings
  <2>2. w = "buffer" => buffer' \in Strings
    BY <1>2, <1>4, ExpandedTyped
  <2> QED
    BY <1>2, <2>1, <2>2 DEF Stored
<1> QED
  BY <1>2, <1>9, <1>10, SameCall, DeliveredStays

LEMMA FetchDefaultRunning ==
  ASSUME CallOK, Running, Delivered, Stored, FetchDefault
  PROVE  CallOK' /\ Running' /\ Delivered' /\ Stored'
<1>1. PICK i, w, a : /\ i = Head(program).arg /\ w = Head(program).where
                     /\ a = IF w = "number" THEN Passed("number", 0) ELSE Literal
  OBVIOUS
<1>2. /\ Doing("fetch") /\ i \notin DOMAIN asked.args /\ args' = Append(args, a)
      /\ UNCHANGED <<asked, storage, buffer, heap, initted, library, received, result, given>>
  BY <1>1 DEF FetchDefault
<1>3. /\ i \in 1 .. Len(Takes(asked.name)) /\ Len(args) = i - 1
      /\ \A h \in 1 .. i - 1 : Holds(h)
      /\ Takes(asked.name)[i] \in Kinds /\ Suits(Takes(asked.name)[i], w)
  BY <1>1, <1>2, FetchPlace
<1>4. w = "number" <=> Takes(asked.name)[i] \in {"word", "seed"}
  BY <1>3, SuitsFacts
<1>5. a \in ArgSet
  BY <1>1, WordFacts DEF Passed, Literal, ArgSet, Places
<1>6. args \in Seq(ArgSet) /\ DOMAIN args = 1 .. i - 1 /\ Len(Takes(asked.name)) \in 0 .. 3
  BY <1>3, CodeFacts DEF Running
<1>7. args'[i] = a /\ \A h \in 1 .. i - 1 : args'[h] = args[h]
  BY <1>2, <1>3, <1>5, <1>6
<1>8. \A h \in 1 .. i : Holds(h)'
  <2>1. asked' = asked /\ Takes(asked.name)' = Takes(asked.name)
        /\ \A t : ExpandName(t)' = ExpandName(t)
    BY <1>2, SameCall DEF Takes
  <2>2. Holds(i)'
    BY <1>1, <1>2, <1>4, <1>7, <2>1 DEF Holds
  <2>3. ASSUME NEW h \in 1 .. i - 1
        PROVE  Holds(h)'
    <3>1. Holds(h) /\ args'[h] = args[h]
      BY <1>3, <1>7
    <3> QED
      BY <1>2, <2>1, <3>1 DEF Holds
  <2>4. \A h \in 1 .. i : h = i \/ h \in 1 .. i - 1
    BY <1>3
  <2> QED
    BY <2>2, <2>3, <2>4
<1>9. Running'
  BY <1>1, <1>2, <1>5, <1>8, FetchRunning
<1> QED
  BY <1>2, <1>9, SameCall, DeliveredStays DEF Stored

\* A seed is the one argument of one function.
LEMMA SeedTaken ==
  ASSUME NEW f \in Names, NEW i \in DOMAIN Takes(f)
  PROVE  /\ Takes(f)[i] = "seed" <=> f = "set_seed"
         /\ f = "set_seed" => i = 1
<1>1. f \in {"exists", "get_value", "set_value", "get_string", "iterate", "iterator_next",
            "iterator_get_string", "set_string", "add", "load_string", "load_file",
            "load_file_if_exists", "find_file", "get_filename", "get_dynamic_value",
            "set_seed", "eval", "dump", "save", "init", "close", "load"}
  BY DEF Names, Registered
<1>2. CASE f \in {"exists", "load_file", "load_file_if_exists", "find_file", "iterate", "eval", "save"}
  <2>1. Takes(f) = <<"name">>
    BY <1>2 DEF Takes, Library, Proto
  <2> QED
    BY <1>2, <2>1
<1>3. CASE f \in {"get_value", "get_dynamic_value", "set_value"}
  <2>1. Takes(f) = <<"name", "word">>
    BY <1>3 DEF Takes, Library, Proto
  <2> QED
    BY <1>3, <2>1
<1>4. CASE f \in {"get_string", "get_filename", "set_string"}
  <2>1. Takes(f) = <<"name", "text">>
    BY <1>4 DEF Takes, Library, Proto
  <2> QED
    BY <1>4, <2>1
<1>5. CASE f \in {"iterator_next", "iterator_get_string"}
  <2>1. Takes(f) = <<"word">>
    BY <1>5 DEF Takes, Library, Proto
  <2> QED
    BY <1>5, <2>1
<1>6. CASE f \in {"add", "load_string"}
  <2>1. Takes(f) = <<"name", "text", "text">>
    BY <1>6 DEF Takes, Library, Proto
  <2> QED
    BY <1>6, <2>1
<1>7. CASE f \in {"dump", "init", "close"}
  <2>1. Takes(f) = <<>>
    BY <1>7 DEF Takes, Library, Proto
  <2> QED
    BY <1>7, <2>1
<1>8. CASE f \in {"load"}
  <2>1. Takes(f) = <<"text">>
    BY <1>8 DEF Takes, Library, Proto
  <2> QED
    BY <1>8, <2>1
<1>9. CASE f \in {"set_seed"}
  <2>1. Takes(f) = <<"seed">>
    BY <1>9 DEF Takes, Library, Proto
  <2> QED
    BY <1>9, <2>1
<1> QED
  BY <1>1, <1>2, <1>3, <1>4, <1>5, <1>6, <1>7, <1>8, <1>9

\* What the library finds through an argument that is whole.
LEMMA SeenIsWanted ==
  ASSUME CallOK, NEW i \in 1 .. Len(Takes(asked.name)), Holds(i), Small
  PROVE  Narrowed(Seen(args[i])) = Wanted(i)
<1> DEFINE kind == Takes(asked.name)[i]
           x == asked.args[i]
<1>1. /\ kind \in Kinds /\ asked.name \in Names
      /\ i \in DOMAIN Takes(asked.name)
  BY CodeFacts
<1>2. kind = "seed" <=> asked.name = "set_seed"
  BY <1>1, SeedTaken
<1>3. CASE i \notin DOMAIN asked.args
  <2>1. args[i] = IF kind \in {"word", "seed"} THEN Passed("number", 0) ELSE Literal
    BY <1>3 DEF Holds
  <2>2. asked.name # "set_seed"
    BY <1>1, <1>3, SeedTaken DEF CallOK
  <2>3. Atoll(0) = 0
    BY WordFacts
  <2> QED
    BY <1>2, <1>3, <2>1, <2>2, <2>3 DEF Narrowed, Seen, Wanted, Passed, Literal, Kinds
<1>4. CASE i \in DOMAIN asked.args /\ kind \in {"word", "seed"}
  <2>1. args[i] = Passed("number", x)
    BY <1>4 DEF Holds
  <2>2. x \in Word /\ x < Top
    BY <1>4, ArgumentTyped DEF Small
  <2>3. Seen(args[i]) = x
    BY <2>1, <2>2, WordFacts DEF Seen, Passed
  <2> QED
    BY <1>2, <1>4, <2>3 DEF Narrowed, Wanted
<1>5. CASE i \in DOMAIN asked.args /\ kind \in {"name", "text"}
  <2>1. \/ kind = "name" /\ Seen(args[i]) = ExpandName(x)
        \/ kind = "text" /\ Seen(args[i]) = String(x, NULL)
    BY <1>5 DEF Holds, Seen, Passed
  <2> QED
    BY <1>2, <1>5, <2>1 DEF Narrowed, Wanted
<1> QED
  BY <1>1, <1>3, <1>4, <1>5 DEF Kinds

\* When the library is called every argument is there.
LEMMA AllFetched ==
  ASSUME CallOK, Running, Doing("call")
  PROVE  LET n == Len(Takes(asked.name))
         IN  /\ Len(args) = n /\ DOMAIN args = 1 .. n /\ \A i \in 1 .. n : Holds(i)
             /\ given = NULL
             /\ Answering(asked.name) \in 0 .. Len(Code) /\ asked.name # "init"
             /\ program' = SubSeq(Code, Answering(asked.name) + 1, Len(Code))
<1> DEFINE f == asked.name
           n == Len(Takes(f))
<1>1. PICK k \in 0 .. Len(Code) :
        /\ At(k) /\ k + 1 \in DOMAIN Code /\ Code[k + 1].op = "call"
        /\ program' = SubSeq(Code, (k + 1) + 1, Len(Code)) /\ k + 1 \in 0 .. Len(Code)
  BY Stepping
<1>2. /\ n \in 0 .. 3 /\ Before(f) \in {0, 1}
      /\ Answering(f) = IF f = "init" THEN 1 ELSE Before(f) + n + 1
  BY CodeFacts DEF Before, Answering
<1>3. k + 1 = Answering(f) /\ f # "init"
  BY <1>1, CodeFacts, PlaceOf
<1>4. k = Before(f) + n /\ k < Answering(f)
  BY <1>1, <1>2, <1>3
<1>5. Len(args) = n /\ given = NULL /\ \A i \in DOMAIN args : Holds(i)
  <2>1. /\ Len(args) = IF k <= Before(f) THEN 0 ELSE k - Before(f)
        /\ given = NULL /\ \A i \in DOMAIN args : Holds(i)
    BY <1>1, <1>4 DEF At
  <2>2. Len(args) = n
    BY <1>2, <1>4, <2>1
  <2> QED
    BY <2>1, <2>2
<1>6. DOMAIN args = 1 .. n
  BY <1>5 DEF Running
<1> QED
  BY <1>1, <1>3, <1>5, <1>6

LEMMA CallRunning ==
  ASSUME CallOK, Running, Delivered, Stored, CallLibrary
  PROVE  CallOK' /\ Running' /\ Delivered' /\ Stored'
<1> DEFINE f == asked.name
           n == Len(Takes(f))
<1>1. /\ Doing("call") /\ UNCHANGED <<asked, buffer, args, initted, given>>
      /\ received' = [name |-> f, args |-> [i \in DOMAIN args |-> Narrowed(Seen(args[i]))]]
      /\ {storage', heap'} \subseteq {storage, heap, TornString}
      /\ \E a \in 0 .. 1 : library' \in {library, [ran |-> "lazy", answer |-> a]}
      /\ Library[f].answers # 0 => result' \in Answers(Library[f].answers)
  BY DEF CallLibrary
<1>2. PICK k \in 0 .. Len(Code) : k = Answering(f) /\ program' = SubSeq(Code, k + 1, Len(Code))
  BY <1>1, AllFetched
<1>3. n \in 0 .. 3 /\ DOMAIN Takes(f) = 1 .. n /\ Answering(f) \in Nat
  BY CodeFacts DEF Before, Answering
<1>4. given = NULL /\ \A i \in 1 .. n : Holds(i)
  BY <1>1, AllFetched
<1>5. DOMAIN args = 1 .. n
  BY <1>1, AllFetched
<1>6. At(k)'
  <2>1. Library[f].answers # 0 => result'.bits = Library[f].answers
    BY <1>1 DEF Answers
  <2>2. ~(k < Answering(f)) /\ Code' = Code
    BY <1>1, <1>2, <1>3, SameCall
  <2> QED
    BY <1>1, <1>2, <2>1, <2>2 DEF At
<1>7. Running'
  BY <1>1, <1>2, <1>6, SameCall DEF Running
<1>8. Delivered'
  <2>1. received'.name = f /\ Len(received'.args) = n
    BY <1>1, <1>3, <1>5
  <2>2. ASSUME Small, NEW i \in 1 .. n
        PROVE  received'.args[i] = Wanted(i)
    <3>1. received'.args[i] = Narrowed(Seen(args[i]))
      BY <1>1, <1>5
    <3> QED
      BY <1>4, <1>5, <2>2, <3>1, SeenIsWanted
  <2>3. given' = NULL /\ asked' = asked
    BY <1>1, <1>4
  <2>4. Takes(f)' = Takes(f) /\ Small' = Small /\ \A i : Wanted(i)' = Wanted(i)
    BY <1>1, SameCall DEF Takes
  <2> QED
    BY <1>3, <2>1, <2>2, <2>3, <2>4 DEF Delivered
<1>9. Stored'
  <2>1. TornString \in Strings
    BY DEF TornString, String, Strings
  <2>2. library' \in [ran : {"no", "lazy", "argv"}, answer : 0 .. 1]
    BY <1>1 DEF Stored
  <2> QED
    BY <1>1, <2>1, <2>2 DEF Stored
<1> QED
  BY <1>1, <1>7, <1>8, <1>9, SameCall

\* What comes after the answer leaves it.
LEMMA AfterRunning ==
  ASSUME CallOK, Running, NEW op \in {"put", "free"}, Doing(op), UNCHANGED <<asked, args, result>>
  PROVE  CallOK' /\ Running'
<1>1. PICK k \in 0 .. Len(Code) :
        /\ At(k) /\ k + 1 \in DOMAIN Code /\ Code[k + 1].op \in {"put", "free"}
        /\ program' = SubSeq(Code, (k + 1) + 1, Len(Code)) /\ k + 1 \in 0 .. Len(Code)
  BY Stepping
<1>2. k + 1 > Answering(asked.name) /\ Answering(asked.name) \in Nat
  BY <1>1, CodeFacts, PlaceOf DEF Before, Answering
<1>3. ~(k + 1 < Answering(asked.name)) /\ k >= Answering(asked.name) /\ Code' = Code
  BY <1>1, <1>2, SameCall
<1>4. At(k + 1)'
  BY <1>1, <1>3 DEF At
<1> QED
  BY <1>1, <1>4, SameCall DEF Running

LEMMA PutRunning ==
  ASSUME CallOK, Running, Delivered, Stored, PutAnswer
  PROVE  CallOK' /\ Running' /\ Delivered' /\ Stored'
<1> DEFINE f == asked.name
           bits == Registered[f].sizetf
<1>1. /\ Doing("put")
      /\ given' = IF result.bits <= bits THEN result ELSE [bits |-> bits, value |-> TornString]
      /\ UNCHANGED <<asked, storage, buffer, heap, args, initted, library, received, result>>
  BY DEF PutAnswer, Fits
<1>2. PICK k \in 0 .. Len(Code) :
        At(k) /\ k + 1 \in DOMAIN Code /\ Code[k + 1].op = "put"
  BY <1>1, Stepping
<1>3. k + 1 > Answering(f) /\ Answering(f) \in Nat /\ bits \in Nat
  BY <1>2, CodeFacts, PlaceOf DEF Before, Answering
<1>4. f # "find_file" => Library[f].answers \in 1 .. bits
  BY <1>2, CodeFacts DEF Program
<1>5. f # "find_file" => result.bits \in 1 .. bits
  BY <1>2, <1>3, <1>4 DEF At
<1>6. given'.bits <= bits /\ (f # "find_file" => given' = result)
  BY <1>1, <1>3, <1>5
<1>7. Delivered'
  BY <1>1, <1>6, SameCall DEF Delivered
<1> QED
  BY <1>1, <1>7, AfterRunning DEF Stored

LEMMA FreeRunning ==
  ASSUME CallOK, Running, Delivered, Stored, FreeCopy
  PROVE  CallOK' /\ Running' /\ Delivered' /\ Stored'
<1>1. /\ Doing("free") /\ heap' = TornString
      /\ UNCHANGED <<asked, storage, buffer, args, initted, library, received, result, given>>
  BY DEF FreeCopy
<1>2. Stored'
  BY <1>1 DEF Stored, TornString, String, Strings
<1> QED
  BY <1>1, <1>2, AfterRunning, DeliveredStays

CallsRun == CallOK /\ Running /\ Delivered /\ Stored

LEMMA NextRunning == CallsRun /\ [Next]_vars => CallsRun'
<1> SUFFICES ASSUME CallsRun, [Next]_vars PROVE CallsRun'
  OBVIOUS
<1>1. CASE UNCHANGED vars
  <2>1. \A k : At(k)' = At(k)
    BY <1>1 DEF vars, At, Code, Holds, Takes, ExpandName, Parameter
  <2> QED
    BY <1>1, <2>1, SameCall, DeliveredStays DEF vars, CallsRun, Running, Stored, Code
<1> QED
  BY <1>1, AskRunning, InitRunningStep, FetchArgumentRunning, FetchDefaultRunning, CallRunning,
     PutRunning, FreeRunning DEF Next, CallsRun

LEMMA CallsAlwaysRun == Spec => []CallsRun
<1>1. Init => CallsRun
  BY InitRunning DEF CallsRun
<1> QED
  BY <1>1, NextRunning, PTL DEF Spec

\* Strings, flags and arguments have their types in every call of every function, and no
\* answer is longer than what its function reserves.
THEOREM VpiTypeCorrect == Spec => []TypeOK
<1>1. CallsRun => TypeOK
  <2> SUFFICES ASSUME CallsRun PROVE TypeOK
    OBVIOUS
  <2>1. \A i \in DOMAIN args : args[i] \in ArgSet
    BY DEF CallsRun, Running
  <2> QED
    BY <2>1 DEF CallsRun, CallOK, Delivered, Stored, TypeOK, ArgSet, Places
<1> QED
  BY <1>1, CallsAlwaysRun, PTL

\* Each of the 22 functions passes the library what the design passed, in its place (the
\* comment on expandName, the strdups of add and load_string): a name is fetched first, a
\* copy is made of what another argument would overwrite, and only the last stays in
\* storage.
THEOREM ArgumentsReachTheLibrary == Spec => []ArgumentsIntact
<1>1. CallsRun => ArgumentsIntact
  BY DEF CallsRun, Delivered, ArgumentsIntact
<1> QED
  BY <1>1, CallsAlwaysRun, PTL

\* What the library answers is what the design gets, but for the path of
\* $sknobs_find_file (the sizetf functions of sknobsvpi.c).
THEOREM AnswersReachTheDesign == Spec => []AnswersWhole
<1>1. CallsRun => AnswersWhole
  BY DEF CallsRun, Delivered, AnswersWhole
<1> QED
  BY <1>1, CallsAlwaysRun, PTL
-----------------------------------------------------------------------------
(* The one call that writes into what it is passed.                        *)

\* What is fetched is whole.
LEMMA FetchedIsWhole ==
  ASSUME NEW x \in Texts \cup Word
  PROVE  String(NULL, x) # TornString /\ String(x, NULL) # TornString
BY VpiAssumption DEF String, TornString, Word

\* The text vpi_sknobs_load_string passes is a copy, if it is there.
LEMMA TextCopied ==
  ASSUME CallOK, Running, Doing("call"), asked.name = "load_string"
  PROVE  args[2].where # "storage"
<1>1. Takes("load_string") = <<"name", "text", "text">>
  BY DEF Takes, Library, Proto
<1>2. Len(Takes("load_string")) = 3 /\ Takes("load_string")[2] = "text"
  BY <1>1
<1>3. Holds(2)
  BY <1>2, AllFetched
<1> QED
  BY <1>2, <1>3 DEF Holds, Passed, Literal

LEMMA NextKept == CallsRun /\ StorageKept /\ [Next]_vars => StorageKept'
<1> SUFFICES ASSUME CallsRun, StorageKept, [Next]_vars PROVE StorageKept'
  OBVIOUS
<1>1. CASE FetchArgument
  <2> DEFINE x == asked.args[Head(program).arg]
  <2>1. storage' \in {String(NULL, x), String(x, NULL)} /\ Head(program).arg \in DOMAIN asked.args
    BY <1>1 DEF FetchArgument
  <2>2. x \in Texts \cup Word
    BY <2>1, ArgumentTyped DEF CallsRun
  <2> HIDE DEF x
  <2> QED
    BY <2>1, <2>2, FetchedIsWhole DEF StorageKept
<1>2. CASE CallLibrary
  <2>1. Doing("call")
    BY <1>2 DEF CallLibrary
  <2>2. asked.name = "load_string" => args[2].where # "storage"
    BY <2>1, TextCopied DEF CallsRun
  <2>3. storage' = storage
    BY <1>2, <2>2 DEF CallLibrary
  <2> QED
    BY <2>3 DEF StorageKept
<1>3. CASE ~FetchArgument /\ ~CallLibrary
  <2>1. storage' = storage
    BY <1>3 DEF Next, vars, Ask, RunInit, FetchDefault, PutAnswer, FreeCopy
  <2> QED
    BY <2>1 DEF StorageKept
<1> QED
  BY <1>1, <1>2, <1>3

\* sknobs_load_string tokenizes the text it is passed: never the simulator's own.
THEOREM SimulatorsStringKept == Spec => []StorageKept
<1>1. Init => StorageKept
  BY VpiAssumption DEF Init, StorageKept, Nothing, TornString, String
<1> QED
  BY <1>1, NextKept, CallsAlwaysRun, PTL DEF Spec
=============================================================================
