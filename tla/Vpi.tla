--------------------------------- MODULE Vpi ---------------------------------
(***************************************************************************)
(* The Verilog binding.  Each system function is a short program over the  *)
(* places a C string can be in: vpi_get_value leaves every string in one   *)
(* storage of the simulator's, expandName leaves every name in one static  *)
(* buffer, and what the library is passed are pointers to these.  The      *)
(* library itself is its prototypes and whether it has been initialised.   *)
(***************************************************************************)
EXTENDS Integers, Sequences, FiniteSets

CONSTANTS
  Texts,      \* string arguments
  Numbered,   \* those that hold a %d
  Torn,       \* what is left of a string that is tokenized, freed or cut
  Half,       \* values of an int; a long long has Half * Half
  NULL

VARIABLES
  asked,      \* the call of the design: function and arguments
  program,    \* what is left of the function
  storage,    \* the simulator's string
  buffer,     \* the binding's static buffer
  heap,       \* the block strdup returned
  args,       \* collected for the library: where each argument is, or a number
  initted,    \* the static flag of vpi_sknobs_init
  library,    \* how sknobs_init ran, and its answer
  received,   \* the last call of the library, as the library sees it
  result,     \* its answer
  given       \* what the design gets

vars == <<asked, program, storage, buffer, heap, args, initted, library,
          received, result, given>>

ASSUME VpiAssumption ==
  /\ Half \in Nat /\ Half > 1
  /\ Numbered \subseteq Texts /\ NULL \notin Texts
  /\ Torn \notin Texts \cup (0 .. Half * Half - 1) \cup {NULL}

Word == 0 .. Half * Half - 1
Top == (Half * Half) \div 2     \* the first word that is no long long

\* A string, with what was printed for its %d.
String(t, n) == [text |-> t, number |-> n]
Strings == [text : Texts \cup {Torn, NULL}, number : Word \cup Texts \cup {NULL}]
-----------------------------------------------------------------------------
(* The functions: the arguments are fetched in order, and those that may   *)
(* be missing have a default.                                              *)

Fetch(i, where, optional) ==
  [op |-> "fetch", arg |-> i, where |-> where, optional |-> optional]
Expanded(i) == Fetch(i, "buffer", FALSE)
Kept(i) == Fetch(i, "storage", FALSE)
KeptOr(i) == Fetch(i, "storage", TRUE)
Copied(i) == Fetch(i, "heap", FALSE)
Number(i) == Fetch(i, "number", FALSE)
NumberOr(i) == Fetch(i, "number", TRUE)
Ensure == [op |-> "init"]
Call == [op |-> "call"]
Put == [op |-> "put"]
Free == [op |-> "free"]

\* Faults: an initialisation left out, and a copy.
DumpEarly == <<Call>>
AddKept == <<Ensure, Expanded(1), Kept(2), KeptOr(3), Call, Put, Free>>
LoadStringKept == <<Ensure, Expanded(1), Kept(2), KeptOr(3), Call, Put>>

Exists == <<Ensure, Expanded(1), Call, Put>>
GetValue == <<Ensure, Expanded(1), NumberOr(2), Call, Put>>
SetValue == <<Ensure, Expanded(1), Number(2), Call>>
GetString == <<Ensure, Expanded(1), KeptOr(2), Call, Put>>
Iterate == <<Ensure, Expanded(1), Call, Put>>
IteratorNext == <<Ensure, Number(1), Call, Put>>
IteratorGetString == <<Ensure, Number(1), Call, Put>>
SetString == <<Ensure, Expanded(1), Kept(2), Call>>
InitFunction == <<Ensure, Put>>
Close == <<Call>>
Add == <<Ensure, Expanded(1), Copied(2), KeptOr(3), Call, Put, Free>>
Load == <<KeptOr(1), Call, Put>>
LoadString == <<Ensure, Expanded(1), Copied(2), KeptOr(3), Call, Put>>
LoadFile == <<Ensure, Expanded(1), Call, Put>>
LoadFileIfExists == <<Ensure, Expanded(1), Call, Put>>
FindFile == <<Ensure, Expanded(1), Call, Put>>
GetFilename == <<Ensure, Expanded(1), KeptOr(2), Call, Put>>
GetDynamicValue == <<Ensure, Expanded(1), NumberOr(2), Call, Put>>
SetSeed == <<Ensure, Number(1), Call>>
Eval == <<Ensure, Expanded(1), Call, Put>>
Dump == <<Ensure, Call>>
Save == <<Ensure, Expanded(1), Call>>

\* The function of a name, and the bits its sizetf reserves for the answer.  The
\* fault reserves one for every answer.
AsFlag(calltf, sizetf) == [calltf |-> calltf, sizetf |-> 1]
As(calltf, sizetf) == [calltf |-> calltf, sizetf |-> sizetf]
Registered == [
  exists |-> As(Exists, 1), get_value |-> As(GetValue, 64),
  set_value |-> As(SetValue, 0), get_string |-> As(GetString, 8192 * 8),
  iterate |-> As(Iterate, 64), iterator_next |-> As(IteratorNext, 1),
  iterator_get_string |-> As(IteratorGetString, 8192 * 8),
  set_string |-> As(SetString, 0), init |-> As(InitFunction, 1),
  close |-> As(Close, 0), add |-> As(Add, 1), load |-> As(Load, 1),
  load_string |-> As(LoadString, 1), load_file |-> As(LoadFile, 1),
  load_file_if_exists |-> As(LoadFileIfExists, 1), find_file |-> As(FindFile, 1),
  get_filename |-> As(GetFilename, 8192 * 8),
  get_dynamic_value |-> As(GetDynamicValue, 64), set_seed |-> As(SetSeed, 0),
  eval |-> As(Eval, 64), dump |-> As(Dump, 0), save |-> As(Save, 0)]
Names == DOMAIN Registered

(* The library's side: what each function takes and answers, and whether   *)
(* it calls check_sknobs_init ("maybe": only if it meets a knob).          *)
Proto(takes, answers, checks) == [takes |-> takes, answers |-> answers, checks |-> checks]
Library == [
  exists |-> Proto(<<"name">>, 1, "yes"), get_value |-> Proto(<<"name", "word">>, 64, "yes"),
  set_value |-> Proto(<<"name", "word">>, 0, "yes"),
  get_string |-> Proto(<<"name", "text">>, 8192 * 8, "yes"),
  iterate |-> Proto(<<"name">>, 64, "yes"), iterator_next |-> Proto(<<"word">>, 1, "no"),
  iterator_get_string |-> Proto(<<"word">>, 8192 * 8, "no"),
  set_string |-> Proto(<<"name", "text">>, 0, "yes"), init |-> Proto(<<>>, 1, "yes"),
  close |-> Proto(<<>>, 0, "no"), add |-> Proto(<<"name", "text", "text">>, 1, "no"),
  load |-> Proto(<<"text">>, 1, "maybe"),
  load_string |-> Proto(<<"name", "text", "text">>, 1, "yes"),
  load_file |-> Proto(<<"name">>, 1, "yes"),
  load_file_if_exists |-> Proto(<<"name">>, 1, "yes"),
  find_file |-> Proto(<<"name">>, 8192 * 8, "yes"),
  get_filename |-> Proto(<<"name", "text">>, 8192 * 8, "yes"),
  get_dynamic_value |-> Proto(<<"name", "word">>, 64, "yes"),
  set_seed |-> Proto(<<"seed">>, 0, "yes"), eval |-> Proto(<<"name">>, 64, "no"),
  dump |-> Proto(<<>>, 0, "yes"), save |-> Proto(<<"name">>, 0, "yes")]
Takes(f) == Library[f].takes

\* The calls a design may make: optional arguments may be missing, and those
\* after the function's own are numbers for %d.
Mandatory(f) ==
  Cardinality({j \in DOMAIN Registered[f].calltf :
                 Registered[f].calltf[j].op = "fetch" /\ ~Registered[f].calltf[j].optional})
Domain(f, i) == IF i \in DOMAIN Takes(f) /\ Takes(f)[i] \in {"name", "text"} THEN Texts ELSE Word
Asking(f) ==
  {as \in UNION {[1 .. n -> Texts \cup Word] : n \in Mandatory(f) .. Len(Takes(f)) + 1} :
     \A i \in DOMAIN as : as[i] \in Domain(f, i)}
-----------------------------------------------------------------------------
Nothing == String(NULL, NULL)
TornString == String(Torn, NULL)
Idle == program = <<>>
Answers(bits) == [bits : {bits}, value : IF bits = 1 THEN 0 .. 1 ELSE IF bits = 64 THEN Word
                                         ELSE {String(t, NULL) : t \in Texts}]
Calling == [name : Names, args : Seq(Texts \cup Word)]

Init ==
  /\ asked = [name |-> "close", args |-> <<>>] /\ program = <<>> /\ args = <<>>
  /\ storage = Nothing /\ buffer = Nothing /\ heap = Nothing
  /\ initted = FALSE /\ library = [ran |-> "no", answer |-> 0]
  /\ received = NULL /\ result = NULL /\ given = NULL

Ask(f) ==
  /\ Idle
  /\ \E as \in Asking(f) : asked' = [name |-> f, args |-> as]
  /\ program' = Registered[f].calltf /\ args' = <<>>
  /\ received' = NULL /\ result' = NULL /\ given' = NULL
  /\ UNCHANGED <<storage, buffer, heap, initted, library>>

\* The step that is due.
Doing(op) == ~Idle /\ Head(program).op = op /\ program' = Tail(program)

\* vpi_sknobs_init answers 1 to all calls but the first; so does sknobs_init to the
\* simulator's arguments, if the library has been initialised without them.
RunInit ==
  /\ Doing("init") /\ initted' = TRUE
  /\ \E a \in 0 .. 1 :
       library' = IF initted \/ library.ran # "no" THEN library
                  ELSE [ran |-> "argv", answer |-> a]
  /\ result' = [bits |-> 1,
                value |-> IF initted \/ library.ran # "no" THEN 1 ELSE library'.answer]
  /\ UNCHANGED <<asked, storage, buffer, heap, args, received, given>>

\* atoll and strtoll stop at the largest long long.
Atoll(n) == IF n < Top THEN n ELSE Top - 1

\* A %d takes the third parameter as an int, 0 if there is none.
Parameter(i) ==
  IF i \notin DOMAIN asked.args THEN 0
  ELSE IF asked.args[i] \in Texts THEN asked.args[i] ELSE asked.args[i] % Half
ExpandName(t) == String(t, IF t \in Numbered THEN Parameter(3) ELSE NULL)

\* What is passed for an argument that has been fetched.
Passed(where, x) == [where |-> where, number |-> IF where = "number" THEN Atoll(x) ELSE 0]
Literal == [where |-> "literal", number |-> 0]

\* The value of an argument is in the simulator's storage from now on.
FetchArgument ==
  /\ Doing("fetch") /\ Head(program).arg \in DOMAIN asked.args
  /\ LET where == Head(program).where
         x == asked.args[Head(program).arg]
     IN  /\ storage' = IF where = "number" THEN String(NULL, x) ELSE String(x, NULL)
         /\ buffer' = IF where = "buffer" THEN ExpandName(x) ELSE buffer
         /\ heap' = IF where = "heap" THEN storage' ELSE heap
         /\ args' = Append(args, Passed(where, x))
  /\ UNCHANGED <<asked, initted, library, received, result, given>>

\* The default of a number is 0, and that of a string is empty.  The fault has none.
DefaultForgotten ==
  /\ Doing("fetch") /\ Head(program).arg \notin DOMAIN asked.args
  /\ UNCHANGED <<asked, storage, buffer, heap, args, initted, library, received, result, given>>
FetchDefault ==
  /\ Doing("fetch") /\ Head(program).arg \notin DOMAIN asked.args
  /\ args' = Append(args, IF Head(program).where = "number" THEN Passed("number", 0) ELSE Literal)
  /\ UNCHANGED <<asked, storage, buffer, heap, initted, library, received, result, given>>

\* What the library finds where an argument points to.
Seen(a) ==
  IF a.where = "number" THEN a.number
  ELSE CASE a.where = "storage" -> storage [] a.where = "buffer" -> buffer
         [] a.where = "heap" -> heap [] OTHER -> Nothing
\* A seed is an int.
Narrowed(x) == IF asked.name = "set_seed" THEN x % Half ELSE x

\* sknobs_load_string writes into the text it is passed.
CallLibrary ==
  /\ Doing("call")
  /\ received' = [name |-> asked.name, args |-> [i \in DOMAIN args |-> Narrowed(Seen(args[i]))]]
  /\ IF asked.name = "load_string"
     THEN /\ storage' = IF args[2].where = "storage" THEN TornString ELSE storage
          /\ heap' = IF args[2].where = "heap" THEN TornString ELSE heap
     ELSE UNCHANGED <<storage, heap>>
  /\ \E lazy \in BOOLEAN, a \in 0 .. 1 :
       /\ Library[asked.name].checks # "maybe" => lazy = (Library[asked.name].checks = "yes")
       /\ library' = IF lazy /\ library.ran = "no" THEN [ran |-> "lazy", answer |-> a] ELSE library
  /\ IF Library[asked.name].answers = 0 THEN UNCHANGED result
     ELSE result' \in Answers(Library[asked.name].answers)
  /\ UNCHANGED <<asked, buffer, args, initted, given>>

\* vpi_put_value: what does not fit into the bits of the answer is cut off.
Fits(r) == r.bits <= Registered[asked.name].sizetf
PutAnswer ==
  /\ Doing("put")
  /\ given' = IF Fits(result) THEN result
              ELSE [bits |-> Registered[asked.name].sizetf, value |-> TornString]
  /\ UNCHANGED <<asked, storage, buffer, heap, args, initted, library, received, result>>

FreeCopy ==
  /\ Doing("free") /\ heap' = TornString
  /\ UNCHANGED <<asked, storage, buffer, args, initted, library, received, result, given>>

Next ==
  \/ \E f \in Names : Ask(f)
  \/ RunInit \/ FetchArgument \/ FetchDefault \/ CallLibrary \/ PutAnswer \/ FreeCopy

Spec == Init /\ [][Next]_vars
-----------------------------------------------------------------------------
(* Properties.                                                             *)

\* Every string is one, every answer has the bits its function promises.
TypeOK ==
  /\ asked \in Calling /\ {storage, buffer, heap} \subseteq Strings
  /\ initted \in BOOLEAN
  /\ library \in [ran : {"no", "lazy", "argv"}, answer : 0 .. 1]
  /\ \A i \in DOMAIN args : /\ args[i].where \in {"number", "literal", "storage", "buffer", "heap"}
                            /\ args[i].number \in Word
  /\ received # NULL => /\ received.name = asked.name
                        /\ Len(received.args) = Len(Takes(asked.name))
  /\ given # NULL => given.bits <= Registered[asked.name].sizetf

\* What the library must see of the design's arguments, i of which are there.
Wanted(i) ==
  LET kind == Takes(asked.name)[i]
      x == asked.args[i]
  IN  IF i \notin DOMAIN asked.args THEN IF kind = "word" THEN 0 ELSE Nothing
      ELSE IF kind = "name" THEN ExpandName(x)
      ELSE IF kind = "text" THEN String(x, NULL)
      ELSE IF kind = "seed" THEN x % Half ELSE x
Small == \A i \in DOMAIN asked.args : asked.args[i] \in Word => asked.args[i] < Top

\* The library sees the strings and the numbers the design passed, each in its
\* place, although all of them came through one storage and one buffer (the
\* comment on expandName, the strdups of add and load_string).
ArgumentsIntact ==
  received # NULL /\ Small =>
    \A i \in DOMAIN Takes(asked.name) : received.args[i] = Wanted(i)

\* The simulator's string is never written to (vpi_sknobs_load_string_calltf).
StorageKept == storage # TornString

\* Nothing is asked of a library that was not initialised, except to close or
\* to load the command line, and the binding leaves it to no function but
\* $sknobs_load to have the library initialise itself, without the command line
\* (vpi_sknobs_init, the comment in vpi_sknobs_load_calltf).
InitialisedFirst ==
  [][/\ CallLibrary /\ asked.name \notin {"close", "load"} => library'.ran # "no"
     /\ library.ran = "no" /\ library'.ran = "lazy" => asked.name = "load"]_vars

\* The design gets the library's answers whole: numbers, strings, flags.
AnswersWhole ==
  given # NULL /\ asked.name # "find_file" => given = result
=============================================================================
