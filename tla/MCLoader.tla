------------------------------ MODULE MCLoader -------------------------------
(* A small disk and every short command line.                              *)
EXTENDS Loader, TLC

CONSTANTS a, b, c, long, none,       \* names that follow -f
          d1, d2, one, two,          \* values
          path, glob, k, bad,        \* patterns; glob is "*"
          defines, undefines, files, \* patterns the library adds
          cmd, file, empty           \* comments

MCFileNames == {a, b, c, long, none}
MCValues == {d1, d2, one, two}
MCPatterns == {path, glob, k, bad, defines, undefines, files}

\* -f, -f a, b  and so on; "a,b" and "b" are the names when they follow -f.
MCTokens == {"-f", "-f c", "a,b", "b", "long", "-pli", "+", "+k=1", "+k=2",
             "+bad=1", "+define+k=1", "+undefine+k", "+seed=1",
             "+path=d2", "+*=d2"}

MCKind == [t \in Tokens |->
  CASE t \in {"-f", "-pli", "+"} -> t
    [] t = "-f c" -> "-f list"
    [] t \in {"a,b", "b", "long"} -> "file"
    [] t = "+define+k=1" -> "define"
    [] t = "+undefine+k" -> "undefine"
    [] t = "+seed=1" -> "seed"
    [] OTHER -> "knob"]

MCPattern == [t \in Tokens |->
  CASE t = "+bad=1" -> bad [] t = "+path=d2" -> path [] t = "+*=d2" -> glob
    [] OTHER -> k]
MCValue == [t \in Tokens |->
  CASE t \in {"+path=d2", "+*=d2"} -> d2 [] t = "+k=2" -> two [] OTHER -> one]
MCText == [t \in Tokens |-> one]
MCAlternatives == [t \in Tokens |->
  CASE t = "-f c" -> <<c>> [] t = "a,b" -> <<a, b>> [] t = "b" -> <<b>>
    [] t = "long" -> <<long>> [] OTHER -> <<none>>]

MCContents ==
  <<d1, a>> :> <<"+k=1", "-f", "b", "+k=2">> @@
  <<d2, a>> :> <<"+k=2">> @@
  <<d2, b>> :> <<"+k=2", "-f c", "+k=1">> @@
  <<NoDir, c>> :> <<"+k=2", "-f", "a,b">> @@
  <<d2, c>> :> <<"+define+k=1">> @@
  <<d1, long>> :> <<"+k=1", "+k=1", "+k=1", "+k=1", "+k=1">>

\* b in the current directory has a block comment that is not closed.
MCExisting == DOMAIN MCContents \cup {<<NoDir, b>>}

\* No file of the disk reaches itself; c reaches a, which reaches b, unless b
\* is found in d2, whose c is found there too.
MCCommandLines == UNION {[1 .. n -> Tokens] : n \in 0 .. 2}
                  \cup {<<t, "-f", l>> : t \in Tokens, l \in {"a,b", "b"}}
                  \cup {<<"-f", l, t>> : t \in Tokens, l \in {"a,b", "b"}}
                  \cup {<<"+k=1", "+k=1", "+k=1", "+k=1", "+k=2">>}

MCBoot == <<[pattern |-> path, value |-> d1, comment |-> <<NoDir, cmd>>]>>
=============================================================================
