------------------------------ MODULE Uncomment ------------------------------
(***************************************************************************)
(* sknobs_uncomment: a machine of five states that blanks the comments of  *)
(* a knob file in place, one character a step, against a definition that   *)
(* jumps from the beginning of a comment to its end.                       *)
(***************************************************************************)
EXTENDS Integers, Sequences, FiniteSetsExt

CONSTANTS
  Other,      \* characters that mean nothing to comments
  MaxLength   \* bound on the length of a file

Slash == "/"
Star == "*"
Newline == "newline"
Blank == " "
Chars == Other \cup {Slash, Star, Newline, Blank}

ASSUME CharsAssumption ==
  /\ Other \cap {Slash, Star, Newline, Blank} = {}
  /\ MaxLength \in Nat

VARIABLES
  text,     \* history: the file as it was read
  lbuffer,  \* the same, being blanked
  p,        \* the position of the next character
  state,    \* one of NORMAL, SLASH, BLOCK, STAR and LINE
  reply     \* "none" until it returns: 0 ("closed") or 1 ("open")

scanVars == <<text, lbuffer, p, state, reply>>
-----------------------------------------------------------------------------
ScanInit ==
  /\ \E n \in 0 .. MaxLength : text \in [1 .. n -> Chars \ {Blank}]
  /\ lbuffer = text /\ p = 1 /\ state = "NORMAL" /\ reply = "none"

\* The state after character c.
NextState(s, c) ==
  CASE s = "NORMAL" -> IF c = Slash THEN "SLASH" ELSE s
    [] s = "SLASH" -> IF c = Star THEN "BLOCK" ELSE IF c = Slash THEN "LINE" ELSE "NORMAL"
    [] s = "BLOCK" -> IF c = Star THEN "STAR" ELSE s
    [] s = "STAR" -> IF c = Slash THEN "NORMAL" ELSE IF c # Star THEN "BLOCK" ELSE s
    [] s = "LINE" -> IF c = Newline THEN "NORMAL" ELSE s

\* Fault of Blanked: the slash that opens a comment stays.
BlankedHere(s, c) ==
  IF s \in {"BLOCK", "STAR"} \/ NextState(s, c) \in {"BLOCK", "LINE"} THEN {p} ELSE {}

\* The characters it blanks on the way: the second of two that open a comment
\* takes the first with it; a line comment keeps its newline.
Blanked(s, c) ==
  IF s = "SLASH" /\ c \in {Star, Slash} THEN {p - 1, p}
  ELSE IF s \in {"BLOCK", "STAR"} \/ (s = "LINE" /\ c # Newline) THEN {p}
  ELSE {}

Read ==
  /\ p <= Len(lbuffer)
  /\ lbuffer' = [i \in DOMAIN lbuffer |->
                   IF i \in Blanked(state, lbuffer[p]) THEN Blank ELSE lbuffer[i]]
  /\ state' = NextState(state, lbuffer[p])
  /\ p' = p + 1
  /\ UNCHANGED <<text, reply>>

\* Fault of LeftOpen: a slash at the end of the file counts as a comment.
LeftOpenSlash(s) == s \in {"BLOCK", "SLASH"}

\* Only the state BLOCK counts as a comment that is not closed.
LeftOpen(s) == s = "BLOCK"

Return ==
  /\ p > Len(lbuffer) /\ reply = "none"
  /\ reply' = IF LeftOpen(state) THEN "open" ELSE "closed"
  /\ UNCHANGED <<text, lbuffer, p, state>>

ScanNext == Read \/ Return

ScanSpec == ScanInit /\ [][ScanNext]_scanVars
-----------------------------------------------------------------------------
(* Where the comments of a text are: commentEnd[i] is the position after   *)
(* the last character of the comment that begins at i, or i if none does;  *)
(* a block comment that is not closed ends after the end of the text.      *)
Opens(t, i, c) == i < Len(t) /\ t[i] = Slash /\ t[i + 1] = c
First(t, at) == IF at = {} THEN Len(t) + 1 ELSE Min(at)

CommentEnd(t, i) ==
  IF Opens(t, i, Slash) THEN First(t, {j \in i .. Len(t) : t[j] = Newline})
  ELSE IF Opens(t, i, Star)
       THEN First(t, {j \in i + 3 .. Len(t) : t[j] = Slash /\ t[j - 1] = Star}) + 1
  ELSE i

\* Where the comments begin, from position i on.
Openings(t) ==
  LET from[i \in 1 .. Len(t) + 2] ==
        IF i > Len(t) THEN {}
        ELSE IF CommentEnd(t, i) = i THEN from[i + 1] ELSE {i} \cup from[CommentEnd(t, i)]
  IN  from[1]

\* The positions inside comments.
Comments(t) == DOMAIN t \cap UNION {i .. CommentEnd(t, i) - 1 : i \in Openings(t)}

Unclosed(t) == \E i \in Openings(t) : CommentEnd(t, i) = Len(t) + 2

\* What is left is the file with its comments blanked and nothing else changed,
\* for comments that touch, hide one another or run into the end of the file
\* (sknobs_uncomment).
CommentsRemoved ==
  reply # "none" =>
    lbuffer = [i \in DOMAIN text |-> IF i \in Comments(text) THEN Blank ELSE text[i]]

\* A load fails for no file whose comments are all closed (sknobs_load_file gives
\* up on a file that cannot be uncommented).
ClosedIsAccepted == reply = "open" => Unclosed(text)

=============================================================================
