------------------------------ MODULE MCStartup -------------------------------
(* A handful of environments and command lines.                            *)
EXTENDS Startup, TLC

CONSTANTS k, glob, seed, path,       \* patterns; glob is "s*"
          one, two, s1, s2, huge,    \* values; huge is out of range
          fa, fb, none, nofile       \* file names; none cannot be loaded

MCPatterns == {k, glob, seed, path}
MCValues == {one, two, s1, s2, huge}
MCSeeds == {s1, s2}
MCFileNames == {fa, fb, none}

k1 == Knob("knob", k, one)
g2 == Knob("knob", glob, two)
Wrong == Do("fail", Unset)
List == Choose(<<fa, fb>>)
MCContents == fa :> <<k1>> @@ fb :> <<Do("seed", s2), Choose(<<fa>>)>>

Plain == [flavor |-> "good", restore |-> FALSE, saved |-> <<>>, path |-> <<one, two>>,
          SEED |-> Unset, home |-> <<>>, knobsrc |-> << <<>>, <<k1>> >>,
          environ |-> <<k1>>, SKNOBS |-> <<>>]

MCWorlds ==
  [flavor : {"good"}, restore : {FALSE}, saved : {<<>>}, path : {<<one, two>>},
   SEED : {Unset, s1}, home : {<<>>, <<List>>, <<Wrong>>},
   knobsrc : {<< <<k1>>, <<g2>> >>, << <<List>>, <<>>, <<Do("seed", s2), k1>> >>,
              << <<Choose(<<none>>)>>, <<k1>> >>},
   environ : {<<k1>>}, SKNOBS : {<<>>, <<g2, List>>}]
  \cup {[Plain EXCEPT !.restore = TRUE, !.saved = s] :
          s \in {<<k1, Do("seed", s2), Do("seed", s1)>>, <<g2, Do("seed", s2), Wrong>>}}
  \cup {[Plain EXCEPT !.flavor = "bad"],
        [Plain EXCEPT !.SEED = huge],
        [Plain EXCEPT !.SEED = huge, !.knobsrc = << <<Do("seed", s1)>>, <<k1>>, <<k1>> >>]}

\* The command line may ask for a seed more than once, and too late a file does.
MCCommandLines == {<<>>, <<Do("seed", s1)>>, <<Do("seed", s1), List, Do("seed", s2)>>}

MCCalls == {<<Do("string", Unset), List>>, <<g2, Wrong>>, <<Do("set", s2)>>,
            <<Do("dump", Unset)>>}
MCEarlyCalls == {<<Knob("add", glob, one)>>, <<Knob("add", seed, one)>>, <<Do("look", Unset)>>,
                 <<Do("set", s2)>>, <<Knob("add", k, one), Do("seed", s2)>>,
                 <<Do("dump", Unset)>>}

\* The hypotheses of the theorems about Startup hold here.
ASSUME HypothesesHold == NoEarlyChoice /\ SeedLeftAlone /\ SavedWithSeed
=============================================================================
