---------------------------- MODULE MCSaveRestore -----------------------------
(* Two names, one of which a glob matches too, and values of which the     *)
(* loader makes more than it was given.  Each of these is "1" and, behind  *)
(* a blank, something else.                                                *)
EXTENDS SaveRestore, TLC

CONSTANTS k, m, glob, gone,           \* glob is "k*", gone "undefine+k"
          seed, defines, undefines, files,
          one, two, range, open, end, \* "1", "2", "1~2", "1 /*", and "1 */ 2"
          words, knob, dashf, pli,    \* "1 2", "1 +k=2", "1 -f", "1 -pli",
          plus, wrong, define         \* "1 +", "1 +=", "1 +define+k=2"

Strange == {open, end, words, knob, dashf, pli, plus, wrong, define}
MCValues == {one, two, range, NULL} \cup Strange
MCAdded == [pattern : {m}, value : Strange] \cup
           {Line(k, range), Line(k, words), Line(k, two), Line(glob, range),
            Line(glob, NULL), Line(gone, one), Line(seed, two)}
MCMatch == {<<k, k>>, <<m, m>>, <<glob, k>>}
MCNumbers == 1 .. 2
MCEval == two :> {2} @@ range :> {1, 2} @@ [v \in {one} \cup Strange |-> {1}]
MCDecimal == 1 :> one @@ 2 :> two
MCSown == two :> two @@ [v \in {one, range} \cup Strange |-> one]

Tok(kd, p, v) == [kind |-> kd, pattern |-> p, value |-> v, text |-> v]
Of(l) == Tok(IF l.pattern = gone THEN "undefine" ELSE "knob", l.pattern,
             IF l.value \in {two, range} THEN l.value ELSE one)
Plain == Tok("file", files, two)
Bad == Tok("wrong", k, two)
Behind ==
  end :> <<Plain>> @@ words :> <<Plain>> @@ knob :> <<Tok("knob", k, two)>>
  @@ dashf :> <<Tok("-f", files, two)>> @@ pli :> <<Tok("-pli", files, two)>>
  @@ plus :> <<Tok("+", k, two)>> @@ wrong :> <<Bad>>
  @@ define :> <<Tok("define", k, two)>> @@ [v \in MCValues |-> <<>>]

MCTokens == {Of(l) : l \in KnobSet} \cup UNION {Range(Behind[v]) : v \in MCValues}
MCScan ==
  [o \in BOOLEAN |-> [l \in KnobSet |->
     IF o THEN [tokens |-> IF l.value = end THEN <<Plain>> ELSE <<>>, open |-> l.value # end]
     ELSE [tokens |-> <<Of(l)>> \o Behind[l.value], open |-> l.value = open]]]

\* A list of files comes to a knob, or to nothing that can be read.
MCLoads == [t \in MCTokens |-> {<<Tok("knob", k, two)>>, <<Bad>>}]

\* A process that has written the last file, or read one and gone on, can only be
\* followed by the next, which begins with an empty list.
FileView ==
  <<IF process = "running" /\ atSave.saves = MaxSaves THEN <<>> ELSE <<list, pinned, seeded>>,
    file, process, unread, argState, atSave>>

ASSUME HypothesisHolds == NamesArePlain
=============================================================================
