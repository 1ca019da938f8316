# A model of sknobs

sknobs is a single-threaded C library that gives a simulation its parameters
("knobs"): it collects `+pattern=value` knobs from files, the environment and
the command line into one list, and answers lookups of names. This directory
models its core, `src/c/sknobs.c`, and its Verilog binding in TLA+, checks the
models with TLC on small instances and proves the most important properties
with TLAPS. Line numbers without a file are those of `src/c/sknobs.c`.

## 1. The system

| Part | State | Operations | Interacts with |
|---|---|---|---|
| knob list | `sknob_list`, `last_knob` | `sknobs_add`, `find_last`, `exists`, `get_string`, `set_string`, `set_value`, `dump` | every lookup opens an iterator |
| iterator ring | `sknobs_iterators[10]`, `sknobs_current_iterator` | `sknobs_iterate`, `get_next`, `iterator_next`, `iterator_get_string`, `iterator_get_value` | shared by the client and by all lookups |
| saved values | hash table `saved_sknob_values` | `get_value`, `get_dynamic_value` | evaluates what the list holds, once |
| evaluation | `eval_buffer`, the random state | `choose_from_weighted_list`, `sknobs_eval` | called by lookups and, for `-f a,b`, by the loader |
| loader | the C stack, `filename_buffer`, `eval_buffer` | `sknobs_load`, `load_string`, `load_file`, `load_file_if_exists`, `load_dashf`, `add_string` | mutually recursive; adds to the list, looks up the search path |
| search path | the knobs `sknobs.search_path` | `find_file`, `get_filename` | an iterator over the list; answers in a static buffer |
| seed | `sknobs_set_seed_flag`, the generators | `set_seed`, `set_seed_from_string` | adds the knob `seed` |
| startup | `sknobs_init_flag`, `sknobs_init_return_value`, `buffer` | `sknobs_init`, `check_sknobs_init` | called lazily from inside almost every other function |
| save and restore | the file `sknobs.save` | `sknobs_save`, `sknobs_init` | written by one run, loaded by the next |
| tokenizer | none | `sknobs_uncomment`, `strtok` in `load_string` | feeds the loader |
| close | none | `sknobs_close` | frees list and saved values |
| Verilog VPI | a name buffer, the simulator's string, a flag | 22 system functions | fetch arguments, call the library, put the answer |
| other bindings | none | one entry per library call | DPI, Python, Perl, Tcl |

Nothing runs in parallel. What is hard is the sharing behind an interface that
looks functional: an iterator is a slot of a ring that every lookup also draws
from; a comment is a pointer into a static buffer; a lookup may be the call
that initialises the library; a file is loaded in the middle of another; a
returned string belongs to a knob or to a buffer; what `get_value` has answered
once must outlive what is written later, and the process.

What makes each part correct:

* *list*: the last match wins, and what is written under a name is read back;
* *ring*: an iterator yields its own name's knobs, all of them, and never traps;
  a loop over it ends;
* *saved values*: an answer stays until the database is closed;
* *evaluation*: an element is drawn in proportion to its weight, a range is
  respected, the arrays are not left;
* *loader*: loading is textual inclusion in reading order, it ends, and every
  knob carries the name of its source;
* *seed*: the numbers drawn are those of the seed asked for, once;
* *startup*: the sources are one text, obeyed once, before it is needed; the
  answer is remembered;
* *save and restore*: the next process answers as this one did;
* *tokenizer*: comments go, and nothing else;
* *strings*: a string a client may still read is what it was;
* *binding*: the library sees what the design passed, and the design gets the
  answer.

## 2. Modules

| Module | What it is | Code |
|---|---|---|
| `KnobMap` | abstract: a map from names to strings, and a number pinned per name | what `KnobStore` promises its client |
| `KnobStore` | list, hash table and ring of slots; one action per call | 131-173, 270-586, 808-833, 1269-1305 |
| `KnobStoreProofs` | theorems about `KnobStore`; it implements `KnobMap` | |
| `IteratorLoop` | the client's loop over an iterator with lookups in its body | 270-336, the Python `get_all_strings` |
| `HeldStrings`, `HeldStringsProofs` | who owns the strings a client holds | 466-500, 797-833 |
| `Evaluate` | choice from a weighted list, ranges, wrapping sums | 179-265, 843-848 |
| `LoopProofs` | theorems about the two loops above, of `IteratorLoop` and of `Evaluate` | |
| `Extrema` | least and greatest elements of sets of numbers (proved lemmas) | |
| `KnobFiles` | vocabulary of the loader: tokens, their knobs, the disk | 738-793, 866-947 |
| `Expansion` | abstract: loading is textual inclusion | |
| `Loader`, `LoaderProofs` | the recursive functions as an explicit stack, with the static buffers | 797-1008 |
| `Uncomment` | the comment remover, character by character | 625-678 |
| `Sources` | vocabulary of the startup: statements, what a source may hold and what one call is, environments; hypotheses of the theorems | 1014-1265 |
| `SourceText` | abstract: all the sources are one text, obeyed once | |
| `Startup`, `StartupProofs` | `sknobs_init`, lazy initialisation, the seed, close | 682-736, 1014-1290 |
| `SaveRestore` | `sknobs_save` and the processes that start from its file | 588-622, 1099-1116 |
| `FileProofs` | theorems about `SaveRestore` and `Uncomment`: what is in a file, and what is read of it | |
| `Vpi`, `VpiProofs` | the Verilog binding | `src/verilog/sknobsvpi.c` |
| `MC...` | the constants of an instance | |

`KnobStore` implements `KnobMap`, `Loader` implements `Expansion` and `Startup`
implements `SourceText`, each by `INSTANCE ... WITH` a refinement mapping. The
parts meet in the constants: `Evaluate` says which numbers the `Eval` of
`KnobStore` and `SaveRestore` allows; `Loader` says how one source is
tokenized and searched for, `Startup` takes it as the statements that are left
after that; `Uncomment` yields the files `Loader` reads; `Vpi` sees the library
as its prototypes and the time at which it is initialised.

### How state and actions correspond to the code

*KnobStore.* `list` is the linked list from the head to `last_knob`; a pointer
to a knob is its position, 0 the null pointer, -1 a pointer to a knob that
`sknobs_close` has freed. `iters[s]` is a slot of the ring and `cur` the next
to be handed out. `saved[b]` is a hash chain, newest entry first. `handle` is
the client's own view of the iterators it holds: what name it asked for, which
knob it was last given, and how many slots have been handed out since (`age`).
A call is one step, because nothing interrupts it; what the steps interleave is
several open iterators with every other call. Every lookup is whole: it takes
a slot, walks to the end (which leaves the slot at null) and makes every open
iterator older. Matching (`fnmatch`, `regexec`) is the constant relation
`Match`, hashing the constant function `Hash`.

*IteratorLoop.* The same ring, with the client's program in `pc` and one step
per call, so that the loop can be asked to end. The list does not change.

*HeldStrings.* A pointer is `own` text, a `knob`'s value, the buffer `found`,
or `freed`; `Read` is what it leads to now and `meant` what it led to when it
was obtained. `origin` and `fresh` are history: what a string may belong to and
which strings the two rules of section 3 still let the client read. `set_string`
frees the old value before it copies the new one, and a search writes every
path it tries into the buffer, as the code does.

*Evaluate.* An expression is a sequence of elements with a weight and a number
or range. `total`, `a` and the draw `w` are words modulo `Modulus`. The
behaviours that leave C's defined semantics are final states of their own:
`overrun` (more elements than the arrays hold), `null` (no element), `stray`
(read past the last element), `trap` (division by 0).

*Loader.* One frame of `stack` per activation of `sknobs_load`, with its index
`at`, its `argState` and its comment *pointer*: to a text nobody changes, to
`filename_buffer`, or to a position in `eval_buffer`. `sknobs_add` copies what
the pointer leads to at that moment (`Read`). `origin` is a history variable:
the source each knob was really read from, and whether its file had included
another before (`fresh`). `load_string` and `load_file` only wrap
`sknobs_load`, so their effect is in the step that pushes the frame.

*Uncomment.* One character a step; `lbuffer` is blanked in place. The
definition it is held against (`Openings`) jumps from where a comment opens to
its end. Its specification is `ScanSpec`, and that of `IteratorLoop` `LoopSpec`.

*Startup.* `phase` is the place in `sknobs_init`, `load` the statements that
the client's call and the initialisation have still to obey: `check_sknobs_init`
may begin the second in the middle of the first. A statement is one step,
except where the code keeps something across `check_sknobs_init` or across a
call that fills the same buffer: a file name chosen into `eval_buffer`, a seed
printed into `buffer`, the head of the list in `sknobs_dump`. `gen` is the seed
of the generators and how many numbers have been drawn; `result` and `flag` are
the two static variables that remember the initialisation. `world` is the
environment and the disk.

*SaveRestore.* `file` is `sknobs.save`: the knobs in the order of the list,
then the pinned values in any order, as the hash table gives them. Nothing in it
is quoted. `Scan` says which tokens a line comes apart into, and where it leaves
a block comment, if it begins inside one or not; `Text` puts the lines together,
so that a comment may reach from one value into another. `Restart` ends the
process at any point and begins the next, which obeys the tokens one a step, in
the states of `sknobs_load`: a knob, `define+` and `undefine+` with the knob they
add besides, the first seed that counts, a plain argument, `-f` and the token it
takes, `-pli` and the token it swallows, a lone `+`, and a name that is refused
and ends the load. `process` is `restored` when the whole file has been loaded
and nothing has been written since.

*Vpi.* A system function is a short program: initialise, fetch an argument
into one of the places a C string can be in, call the library, put the answer,
free the copy. `Registered` is the table of these programs with the bits their
`sizetf` reserves; `Library` has the prototypes. `received` is what the library
finds through its pointers when it is called, `given` what the design gets.

### Abstractions

* Strings are model values, or short sequences of them. Lengths, and with them
  the assertions about truncated names, are left out.
* The names of a list `-f a,b` are taken to be equally long, so that a pointer
  into `eval_buffer` is a position in the list the buffer holds.
* `Loader` begins after `sknobs_init` has seeded the generators, so `+seed=`
  is dropped there, as `sknobs_set_seed` does. The choice from a `-f` list is
  any of its names: weights are `Evaluate`'s subject.
* A file is a sequence of tokens; a file whose block comment is not closed
  exists but cannot be loaded.
* `sknobs_get_filename` is `sknobs_get_string` followed by
  `sknobs_find_file`, and needs an action of its own only in `HeldStrings`.
  `FindFile` in `KnobStore` is its lookup; which path results is `FoundFile`
  in `Loader`.
* After `sknobs_close` the client holds no iterator: it would be a dangling
  pointer.
* In `SaveRestore` what a pinned number prints as evaluates to that number. The
  delimiters are the default ones (with `crnl` the comment line above each knob
  would stay as a token of blanks, a plain argument more), and the comment of a
  knob, the name of a file, contains neither a newline nor `*/`. What a file comes
  to that a value includes with `-f` is a constant (`Loads`). The knobs of the
  search path, which `sknobs_init` adds before it chooses a seed, are left out.
* In `Vpi` a name holds at most one `%d`, which consumes a number, and the
  numbers are words of twice the width of an int.

## 3. Runs

| Run | Properties | Bounds |
|---|---|---|
| `KnobStore` | types, `SavedTableOK`, `PinnedUntilClose`, `PlainNamesReadTheirWrites`, `ImplementsMap` | list of 3, two names that collide, a literal, a glob, a bad expression; two fixed values and a range |
| `KnobIterators` | `IteratorPrivate`, `YieldsItsName`, `NeverPastEnd`, `WalkIsComplete` | ring of 3, two iterators, list of 3 |
| `KnobStolenSlot` | violated: `YieldsItsName` | ring of 2, an iterator kept for 3 slots |
| `KnobLocked` | violated: `LockedValueWins` | as `KnobStore`, with a locked value |
| `IteratorLoop` | `LoopEnds`, `SeesEveryMatch` | ring of 5, 3 knobs, 2 of them matching, 2 lookups a turn: as many as leave a slot |
| `HeldStrings` | `StringsStay`, `ValuesAreWhole` | 2 pointers, 4 names of which two share a knob and one has none, 2 directories, paths of 2 parts |
| `Evaluate` | types, `PickStaysInList`, `DrawnInShare`, `ResultInRange`, `AnswerableIsAnswered` | words of 3 bits, lists of up to 4 with arrays of 3, every range |
| `Loader` | types, `Provenance`, `ImplementsExpansion`, `LoadEnds` | all command lines of up to 2 tokens out of 15 and those of 3 with an inclusion; 6 files in two directories; a load begins while the list has fewer than 3 knobs |
| `Uncomment` | `CommentsRemoved`, `ClosedIsAccepted` | every text of up to 7 slashes, stars, newlines and other characters |
| `Startup` | types, `DrawsAsAsked`, `SeedIsReported`, `AnswerRemembered`, `EveryDirectoryRead`, `SeedKept`, `ImplementsText`, `InitEnds` | 41 environments, 3 command lines, 3 calls; 2 or 3 directories, lists of 2 files, 2 seeds and one out of range |
| `SaveRestore` | `NumbersSurvive`, `StringsSurvive` | 2 names, a glob and the seed, 4 knobs, one save, any number of restarts; values with a range, none, and one for each thing that can follow a blank: a number, a knob, `-f`, `-pli`, `+`, `define+`, a name that is refused, a comment opened and one closed |
| `Vpi` | types, `ArgumentsIntact`, `StorageKept`, `InitialisedFirst`, `AnswersWhole` | all 22 functions, strings with and without `%d`, words of 4 bits |

What they show:

* **KnobStore.** Whatever is added, written, pinned and closed, a client that
  knows nothing of patterns, chains and slots sees a map. The names collide,
  so that chains are searched; `odd` is a name such as `cpu[0]` that does not
  match itself; the ring has one slot, since lookups alone use it. Three knobs
  are enough for a literal before, between and after a glob.
* **KnobIterators.** The client follows one rule: it drops an iterator once
  `Reach` slots have been handed out since. With `Reach = MaxIterators` the
  slot stays its own, the knobs it is given match, and the walk misses none,
  although lookups, writes and a second iterator use the same ring. A ring of 3
  lets two iterators and a lookup meet in every order.
* **KnobStolenSlot.** Without the rule (`Reach = MaxIterators + 1`) a client
  is given another name's knob.
* **IteratorLoop.** The usual loop ends, and has then seen every match, if its
  turns together take fewer slots than the ring has. The matches are 2 of 3
  knobs, so two turns take four of the five slots and the instance is at its
  limit.
* **HeldStrings.** A client may keep the strings it is given and pass them on
  by two rules: it writes no knob with a string that may be the knob's own, and
  it searches for no path a search may have returned. A string is then good
  until the next write to a name that shares the knob, or the next search. What
  a string may belong to includes the default that was passed, because it may be
  what was returned.
* **Evaluate.** For all weights, those whose sum wraps included, the loop stays
  inside the list and the draw lies in the chosen element's share. The answer
  comes unless the sum is 0 modulo the word or a range is empty.
* **Loader.** Nested, random and failing inclusions, a search path that grows
  during the load, and every error path come to the same as obeying the
  expanded text from beginning to end. The disk has files included from two
  places, a name found in two directories, one found in none, one that cannot
  be uncommented and one that is longer than `MaxArgv`.
* **Uncomment.** Seven characters hold two comments that touch, one that hides
  the beginning of another, and each kind cut off by the end.
* **Startup.** However the program begins, with `sknobs_init` or with a call
  that needs it, the sources are obeyed as one text, no directory is left out or
  read twice,
  seeds in files come too late, and the numbers drawn are those of the seed
  asked for. The environments have random and failing inclusions in the home
  directory, in each directory of the walk and in `SKNOBS`, a saved database,
  a seed in range and one out of range, and a delimiter flavor the library does
  not know. Three calls are enough for one before the initialisation, the one
  that triggers it, and one after it.
* **SaveRestore.** If every saved value stays within its line, at worst cut
  short and followed by plain arguments, the numbers that were given out come
  back and so does every string that is left alone. The instance also loads the
  files in which one does not: a value such as `x -pli` swallows the line after
  it, `x +n=5` sets another name, an opened comment takes with it what comes
  before the next `*/`; the two properties say nothing of these (item 8 of
  section 5). Four knobs, the seed first, are enough for a value that comes apart
  between two others, and the pinned numbers come behind them.
* **Vpi.** Arguments reach the library in their places although all of them
  pass through one storage and one buffer; a copy is made exactly where it is
  needed.

**Preconditions.** Some properties say when they hold, because the code does
not do better; section 5 has the rest of each. `DrawsAsAsked`,
`EveryDirectoryRead` and `ImplementsText` are about an environment the library
can use (`Usable`: a known delimiter flavor, and a seed asked for, by the last
`+seed=` of the command line or else by `SEED`, that is in range or none), and
`AnswerRemembered` about a known flavor: a late `sknobs_init` without arguments
answers what the first one did, and one with arguments an error, whatever was
stored. `EveryDirectoryRead` does not say in which order. Three hypotheses
about clients and saved databases stand in `Sources`, and `MCStartup` asserts
that the instance has them (`HypothesesHold`): the calls made before the
initialisation choose no file (`NoEarlyChoice`), an initialised library's
client adds no knob named `seed` with `sknobs_add` (`SeedLeftAlone`), nor does
it write to one with `sknobs_set_value` or `sknobs_set_string`, calls the model
of the startup does not have, and a saved database has the seed it was made
with, before anything but knobs (`SavedWithSeed`). The theorems name the ones
they need. A source (`Source`) never adds a knob named `seed`, because
`sknobs_add_string` makes it a seed, and a client's call is one function
(`OneCall`): these are facts about the code, not hypotheses.
`PlainNamesReadTheirWrites` is about names that match themselves. Both
properties of `SaveRestore` are about files that begin with a seed in range and
whose every line is the knob it was written for and otherwise plain arguments
(`Tame`). A name's string, and its number if it has not been asked for, come
back if its own line is read as it was written (`Kept`): the value has no
delimiter or comment and is not empty. Both are also about names without
special characters (`NamesArePlain`, which `MCSaveRestore` asserts of the
instance): a pinned name is written as a pattern, and no such name is `seed` or
one of the library's other knobs. `ArgumentsIntact` is about numbers below
2^63. `AnswersWhole` leaves out `$sknobs_find_file`.

`VIEW` and symmetry: `StateView` leaves out `reply`, which no guard reads (each
step is still checked with the reply it gives). `WalkView` also leaves out the
slots no open iterator designates, which are overwritten before they are read,
and the saved values, which only decide whether `get_value` takes a slot; the
step of a first `get_value` takes one in any case. `FileView` leaves out the
database of a process that can save no more and is not a restored one: only a
restart can follow that a property looks at, and it empties the database. The
two handles are interchangeable; no run with symmetry checks liveness.

`CHECK_DEADLOCK FALSE` is used where the program really stops: after a failed
assertion or a null pointer, when an evaluation, a file or a loop is done, when
an initialisation from a saved database has failed, and at the bounds on loads,
calls and saves.

**Fairness.** `Evaluate` and `IteratorLoop` assume weak fairness of their next
step, `Loader` and `Startup` of `Step`, the library's own code, not of the
client's calls: a function that has been called is delayed by nothing, since
there is one thread. In `IteratorLoop` the client is part of that thread. The
other modules have no fairness, since a client need not call anything.

## 4. Proofs

All theorems hold for every value of the constants that satisfies the named
assumptions next to them. A theorem about a property of section 3 proves that
property, with the preconditions in it.

| Module | Theorem | Says |
|---|---|---|
| `KnobStoreProofs` | `StoreTypeCorrect` | `TypeOK` of `KnobStore` |
| | `IteratorsArePrivate`, `IteratorsYieldTheirName`, `IteratorsNeverPastEnd`, `WalksAreComplete` | the four properties of `KnobIterators`, for `Reach <= MaxIterators` |
| | `SavedTableCorrect`, `ValuesArePinned` | the hash table |
| | `StoreImplementsMap`, `WritesAreRead` | `ImplementsMap`, `PlainNamesReadTheirWrites` |
| `LoopProofs` | `LoopSeesEveryMatch` | `SeesEveryMatch`, if `RingSuffices` |
| | `EvaluateTypeCorrect`, `SelectionInBounds`, `SelectionProportional`, `RangeRespected` | evaluation at every word size |
| `LoaderProofs` | `LoaderTypeCorrect`, `KnobsCarryTheirSource` | the loader at any depth of inclusion |
| | `LoadingIsInclusion` | `ImplementsExpansion` |
| `HeldStringsProofs` | `HeldTypeCorrect`, `HeldStringsStay`, `WrittenValuesAreWhole` | strings, for any names, search path and number of pointers |
| `FileProofs` | `SaveTypeCorrect` | types of `SaveRestore`, whatever the values come apart into |
| | `NumbersAreKept`, `StringsAreKept` | `NumbersSurvive`, `StringsSurvive`, if `NamesArePlain` |
| | `ScanTypeCorrect`, `CommentsAreRemoved`, `ClosedTextsAreAccepted` | types of `Uncomment`, `CommentsRemoved`, `ClosedIsAccepted`, for texts of any length |
| | `OpenTextsAreReported` | an open comment goes unreported only in a text that ends in a star |
| `StartupProofs` | `StartupTypeCorrect` | `TypeOK` of `Startup` |
| | `GeneratorsAreSeededOnce`, `AnswersAreRemembered`, `DirectoriesAreRead` | `SeedKept`, `AnswerRemembered`, `EveryDirectoryRead` in any environment, for any calls |
| | `ReportedSeedIsUsed` | `SeedIsReported`, if `SeedLeftAlone` |
| | `DrawsFollowTheSeed` | `DrawsAsAsked`, if `NoEarlyChoice` and `SavedWithSeed` |
| | `StartupIsOneText` | `ImplementsText`, if `NoEarlyChoice` |
| `VpiProofs` | `VpiTypeCorrect`, `LibraryIsInitialisedFirst`, `SimulatorsStringKept` | `TypeOK` of `Vpi`, `InitialisedFirst`, `StorageKept` |
| | `ArgumentsReachTheLibrary`, `AnswersReachTheDesign` | `ArgumentsIntact`, `AnswersWhole` |

*The ring.* `IteratorPrivate` alone is not inductive: it does not say why the
next slot handed out is nobody's. `SlotAge` does: an open iterator's slot lies
exactly `age + 1` places behind `cur` around the ring, so it comes up again
only after `MaxIterators` others; `AgesDiffer` keeps two iterators apart.
`WalkOK` says what a walk has seen is every match up to where it stands, which
`Max` and `Min` over the matches carry to the next one; the lemmas `HitsKept`
and `WalkKept` say an added or rewritten knob leaves the passed part alone. The
assumption `Reach <= MaxIterators` is stated in the theorems: it is the
client's rule, and `KnobStolenSlot` shows that it is needed.

*The map.* `ValueOf` is the value a list gives to a name, as an operator of the
list alone. `AppendedValue` and `RewrittenValue` say what a knob more and a knob
rewritten do to it, `SavePins` what a new entry does to a chain; from these each
call of the database is one step of the map. The invariant needed is only the
type invariant, before and after the step.

*The loop.* `SeesEveryMatch` is about the end of the loop; `Walk` says where it
is: the client's slot is still its own, `Taken` slots have been handed out
since, and what was seen is every match up to the knob the slot stands at. The
slot stays the client's because `Taken` never reaches the size of the ring:
that is `RingSuffices`, the number of matches times the lookups of a turn is
less than `MaxIterators`. The instance is at this limit, and item 2 of section 5
is what happens beyond it.

*Evaluation.* `SumsOK` says what the summing loop has computed, `LoopOK` that
the selection loop recomputes the same wrapped sums: at the last element it
meets `total`, which the draw is below, so it has stopped by then.

*The loader.* `OwnNames`: an activation that has included nothing reads its own
name through its pointer, and one that waits for another and can still say so
was given a text. Overwriting the buffers then harms only activations that
have stopped claiming anything. Cyclic inclusion is no exception: safety does
not need the recursion to end.

*Inclusion.* `Remaining` recurses over the stack and `Statements` over the
tokens of an activation. What such a function is at each place (`ReadingFacts`,
`UptoFacts`) is proved by contradiction: of the places where it would not exist,
or not be a sequence of lines, one is the first, and it can be built from the
next (`LeastNatural` in `Extrema`). After that a step is local: `PendingTurns`
and `TokenTaken` say a token is one line, none, or the first half of one,
`Pushed` that a new activation is read before its callers, `PendingEnds` that an
activation at its end has nothing left, or a `-f` without a name, which is a line
nobody can obey. The invariant is `TypeOK` and `StackOK`: no activation is past
its end, and there is one exactly while a load runs. The file found is the one
the name stands for (`FoundStands`). Nothing is asked of the disk: files that
include themselves are expanded for ever by both.

*Strings.* `StringsStay` does not say why a write harms only the knob's own
readers. The strengthening does: a fresh pointer that leads to a knob has a
name of that knob among its origins, one that leads to the buffer has
`search`, and none is freed. `ValuesAreWhole` follows because what a client
writes is fresh, and so is not freed and not the knob's own.

*Startup, the answer.* `AnswerStored`: where the flavor is known, the client's
last answer is the first or the error that late arguments are answered with, and
between calls the first is the stored one. The steps fall into those that tell the
client nothing and those that end an initialisation.

*Startup, names and seeds.* `Shape` is what the other invariants stand on: the
types, which activation may be running in which phase and what its text can still
hold (`Structure`), and that `argv` is a source. On top of it, one invariant a
property:

* `ChosenStands`, which `Drawing` and the text need: a name that has been
  chosen is still where it was chosen, because the only call that could choose
  another in between is the initialisation it triggers, and before that nothing
  chooses;
* `SeedChosen`: in a usable environment the generators are seeded when the
  walk begins, so that no file can seed them and print into the buffer with the
  path; `Walked`: therefore the directories read are 1 to `dir`;
* `Reporting`: if the generators have a seed, the last knob that matches `seed`
  has it, or an activation is just about to write it;
* `Drawing`: what was drawn are the first numbers of the generators' seed, and
  that seed is the client's own, if it set one before, the one asked for, or the
  saved database's.

*Startup, one text.* `Unread` is the text that an initialisation has not read
yet, put together from the phase. `Remains` says what each phase leaves, and
`RemainsFacts` that each reads a part of it and leaves the rest to the next; the
recursion of `Dirs` over the directories is dealt with as that of the loader is.
A step of `Startup` then begins the text, takes a statement off its front, puts
a file's statements there, ends it, or only moves a part of it from the phase to
`load`, which `SourceText` does not see. The invariant is `Sound`, made of those
above and `OnPath`. `NoEarlyChoice` is needed: item 7 of section 5 is what happens
without it.

*The binding.* `Initialising`: a function that runs on a library nobody has
initialised is `$sknobs_close`, `$sknobs_load`, or about to initialise it; all
but these two begin that way (`FunctionsInitialise`). For the arguments each of
the 22 functions is shown to be a `Program`: it fetches them in order, only the
first goes to the name buffer, only the second is copied to the heap, and only
the last stays in the simulator's storage. `CallsRun` says at every position of
such a program which arguments have been fetched and still are what they were
(`Holds`, `At`), what the library has seen and what the design was given
(`Delivered`). That a text is copied before it is tokenized (`SimulatorsStringKept`)
follows from the same.

*The saved file.* `FileKeeps` says what the file says: of every name with a number
its last token is that number, of every other one left alone the last token is its
string, if the file is tame. It speaks of `Text(file.lines)` and not of a process,
so only a save has to establish it. `Text` is a recursion over the lines, dealt
with as those of the loader are (`UpTo`); a tame line more (`GrownFollows`,
`GrownMeans`) leaves no comment open and is the last word on the names it matches,
whatever follows its first delimiter, so that the file says of a name what the last
of its lines does (`FileReads`), and `LinesFacts` says which that is behind the
pinned numbers: their own name's and no other, which is where `NamesArePlain` is
needed. `Loading` carries this over the steps of the load: the knobs read so far
and the tokens still to come together say what the file says (`Ahead`), only knobs
and plain arguments are to come, and until the first token, a seed in range, has
been taken, no seed has (`SeedFirst`): a later one would rewrite that knob, which
matches no name, and the first can only be added. At the end nothing is ahead, and
`Ahead` is the list. The order in which the hash table gives the numbers does not
enter, nor how many saves and restarts there have been; a file that is not tame,
and a load that fails, make no process `restored` of which anything is claimed.

*Comments.* `At(b, O)` says where the machine stands in terms of the definition:
the comments that begin at `O` are over, the jumps have come to place `b`, and
`OpeningsFrom(text)[b]` is what they will still find. Outside comments the machine
is at `b`, or one further after a slash; in a comment it began at `b` and nothing
read since ends it, where `/*/` is the case to get right. A character read then
either leaves `b` alone or moves it by `MoveOn`, one unfolding of the recursion,
so that nothing has to be proved about the jumps as a whole. At the end nothing is
left to find (`NoneBeyond`), which gives both properties, and
`OpenTextsAreReported`: the code's test for `BLOCK` alone misses exactly the texts
that end in the state `STAR`.

Only model-checked: the liveness properties `AnswerableIsAnswered`, `LoadEnds`,
`LoopEnds` and `InitEnds`, since liveness is beyond the prover. Every other
property of the passing runs is a theorem.

## 5. Where the code differs from what is said or expected of it

Shown by a run:

1. Locked values (README.md:35-40) are not implemented: `find_last` always
   takes the last match (`KnobLocked`).
2. An iterator kept across ten lookups is another's (line 274,
   `KnobStolenSlot`). Three relatives, kept out by the client's rule in the
   other runs: `assert(knob)` (405) ends the process when a lookup has reset
   the slot between next and get; a loop whose body takes exactly as many slots
   as the ring has starts over each time round and never ends (290).

Preconditions of passing runs:

3. A value set under a name with glob characters is added as a pattern and not
   found under the name (488).
4. "only one to choose from" tests the sum of the weights, not their number: in
   a list with weights 0 and 1 the first element is always chosen (214).
   `r - l + 1` is 0 for a range such as `5~4` and is divided by (264).
5. A bad `SKNOBS_DELIMITER_FLAVOR` fails the first call only
   (`AnswerRemembered` leaves this flavor out); later calls find
   an initialised, empty library, and the first string it tokenizes reads a
   null pointer (1081).
6. With `SEED` out of range no seed is chosen, because the answer is dropped
   (1162). The first `+seed=` of a knobsrc file is then taken, and printed into
   the buffer whose path the walk over the directories is following (1208), so
   that files are left out.
7. When a load that chooses a file is the first call of a program, the
   initialisation it triggers overwrites the name it has chosen (813, 848), and
   another file is loaded. The model does the same (`NameAt`); `ImplementsText`
   and `DrawsAsAsked` would not hold, and take `NoEarlyChoice` instead.
   `sknobs_dump` as the first call shows nothing, because it has taken the head
   of the list before (570).
8. A saved value with a delimiter is split, and what follows is loaded like any
   other token (866-911): `x +n=5` sets the knob `n`, `x -f a` includes a file,
   `x -pli` swallows the line that comes next, `x +=` ends the load with an error.
   An empty value and none at all come back as `1`; an opening comment takes the
   lines up to the next `*/` with it or makes the file unreadable (607-616). Saved
   names are read back as patterns.
9. `set_string` with the knob's own string copies freed memory (484), and
   `find_file`, given its own earlier answer and finding nothing, returns the
   buffer with the last path it has tried (832).
10. In the binding, numbers from 2^63 on arrive as 2^63-1 (`sknobsvpi.c:190`);
    the number for a `%d` is taken from a fixed place in the argument list, which
    is not the place after the function's own arguments for most functions
    (`sknobsvpi.c:24, 37`); `$sknobs_find_file` reserves one bit for a path
    (`sknobsvpi.c:721`); `$sknobs_init` answers 1 to every call but the first,
    and to the first too if the library has initialised itself before (`sknobsvpi.c:63`).

A disagreement with the documentation that the models follow the code in:
README.md:61-62 says of the knobsrc files "starting with CWD read all *.knobsrc
files. Then work up file hierarchy to /", but `sknobs_init` reads them from the
root down and the current directory last (1203-1219), so that its values win.
`SourceText`, and with it `ImplementsText`, takes the order of the code;
`EveryDirectoryRead` takes none.

In the models as the code has it, without a property: the environment as a whole
becomes knobs before `SKNOBS`; `SKNOBS` is tokenized in place although a copy was made for it (1247); a block
comment that ends in `*` at the end of a file is not reported (671); after its
first `-f` a file's knobs carry another file's name as their comment
(`Provenance` excludes exactly these).

## 6. Not modelled

* `strtok` and the numbers `strtoull` reads: the models take tokens. They have
  no control of their own but the state of `strtok`, which no call keeps across
  another.
* `sknobs_expand_string` is not called by the library: both call sites are
  commented out (408, 472).
* The DPI, Perl and Tcl bindings are prototypes; the Python functions other than
  `get_all_strings` parse, call and convert, without state.
* Exits because `/dev/urandom` or an output file cannot be opened, allocation
  failure, and the copy `$sknobs_load_string` does not free.
* A `%` before a character other than `d` in a name of the VPI binding, which
  fails an assertion.
* Patterns among the saved names that match more than themselves.
* The vendored py3c headers, build files, tests and sample knob files, which have
  no program logic.

## 7. Extending it

The order of the work was `KnobStore` with `KnobMap`, `Evaluate`, `Loader` with
`Expansion`, `Startup` with `SourceText`, `SaveRestore`, `Uncomment`,
`IteratorLoop`, `HeldStrings`, `Vpi`. Every invariant and action property and
all three refinements are proved. What would add most next: `strtok`, so that a
delimiter flavor is more than a function on values in `SaveRestore` and
`Loader`, and the names of the VPI binding with a `%` before another character.
