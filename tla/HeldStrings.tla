----------------------------- MODULE HeldStrings -----------------------------
(***************************************************************************)
(* The strings a client holds.  get_string returns a pointer to the knob's *)
(* own value, which the next write to the knob frees; find_file returns a  *)
(* static buffer, which the next search overwrites, or else the pointer it *)
(* was given.  A client may pass on what it holds, by two rules: it writes *)
(* no knob with a string that may be the knob's own, and searches for no   *)
(* path that a search may have returned.                                   *)
(***************************************************************************)
EXTENDS Integers, Sequences, FiniteSetsExt

CONSTANTS
  Names,      \* names that have a knob or will never have one
  None,
  Owner,      \* Owner[n]: the name the last knob to match n is stored under, or None
  Chars,      \* what strings are made of
  Texts,      \* values and file names
  Dirs,       \* the search path
  Disk,       \* the paths that exist: a directory before what was searched for
  Torn,       \* what is read from freed memory
  Variables,  \* of the client
  MaxPath     \* bound: longer paths are not searched for

VARIABLES
  value,    \* knob->value
  found,    \* filename_buffer
  held,     \* the client's pointers: "own" text, a "knob", "found", or "freed"
  meant,    \* history: what each led to when it was obtained
  origin,   \* history: the names it may belong to, and "search"
  fresh     \* history: the variables the client may still read

vars == <<value, found, held, meant, origin, fresh>>

Stored == {Owner[n] : n \in Names} \ {None}
Strings == Seq(Chars)

ASSUME StringsAssumption ==
  /\ Texts \subseteq Strings /\ Texts # {} /\ Dirs \in Strings /\ Torn \notin Strings
  /\ Owner \in [Names -> Names \cup {None}] /\ None \notin Names
  /\ "search" \notin Names /\ MaxPath \in Nat

Read(p) == IF p[1] = "own" THEN p[2] ELSE IF p[1] = "knob" THEN value[p[2]]
           ELSE IF p[1] = "found" THEN found ELSE Torn

TypeOK ==
  /\ value \in [Stored -> Strings] /\ found \in Strings
  /\ held \in [Variables -> ({"own"} \X Strings) \cup ({"knob"} \X Stored)
                            \cup {<<"found", 0>>, <<"freed", 0>>}]
  /\ meant \in [Variables -> Strings]
  /\ origin \in [Variables -> SUBSET (Names \cup {"search"})]
  /\ fresh \subseteq Variables

Init ==
  /\ value \in [Stored -> Texts] /\ found = <<>>
  /\ \E t \in Texts : /\ held = [v \in Variables |-> <<"own", t>>]
                      /\ meant = [v \in Variables |-> t]
  /\ origin = [v \in Variables |-> {}] /\ fresh = Variables

\* Variable v gets pointer p, which may belong to the origins os, while those
\* that lapse are no longer to be read.
Get(v, p, t, os, lapsed) ==
  /\ held' = [held EXCEPT ![v] = p] /\ meant' = [meant EXCEPT ![v] = t]
  /\ origin' = [origin EXCEPT ![v] = os]
  /\ fresh' = {u \in fresh : origin[u] \cap lapsed = {}} \cup {v}

Write(v, t) ==
  Get(v, <<"own", t>>, t, {}, {}) /\ UNCHANGED <<value, found>>

\* The knob's string, or the default's pointer.
StringOf(n, w) == IF Owner[n] = None THEN held[w] ELSE <<"knob", Owner[n]>>

\* Fault: the string is expanded into one static buffer (sknobs_expand_string).
GetStringExpanded(v, n, w) ==
  /\ w \in fresh /\ found' = Read(StringOf(n, w))
  /\ Get(v, <<"found", 0>>, Read(StringOf(n, w)), origin[w] \cup {n}, {})
  /\ UNCHANGED value
GetString(v, n, w) ==
  /\ w \in fresh
  /\ Get(v, StringOf(n, w), Read(StringOf(n, w)), origin[w] \cup {n}, {})
  /\ UNCHANGED <<value, found>>

\* The names that read the same knob as n.
Sharing(n) == {m \in Names : Owner[m] = Owner[n]}

\* The string is freed, and then the new one is read.  The fault does not copy
\* the new one.
SetStringShared(n, w) ==
  /\ w \in fresh /\ Owner[n] # None
  /\ origin[w] \cap Sharing(n) = {}
  /\ value' = [value EXCEPT ![Owner[n]] = Torn]
  /\ UNCHANGED <<found, held, meant, origin, fresh>>
SetString(n, w) ==
  LET mine == <<"knob", Owner[n]>>
  IN  /\ w \in fresh /\ Owner[n] # None
      /\ origin[w] \cap Sharing(n) = {}
      /\ value' = [value EXCEPT ![Owner[n]] = IF held[w] = mine THEN Torn ELSE Read(held[w])]
      /\ held' = [v \in Variables |-> IF held[v] = mine THEN <<"freed", 0>> ELSE held[v]]
      /\ fresh' = {v \in fresh : origin[v] \cap Sharing(n) = {}}
      /\ UNCHANGED <<found, meant, origin>>

Hits(x) == {i \in DOMAIN Dirs : <<Dirs[i]>> \o x \in Disk}
\* The buffer as the search for x leaves it.
Tried(x) == IF Hits(x) # {} THEN <<Dirs[Min(Hits(x))]>> \o x
            ELSE IF Dirs = <<>> THEN found ELSE <<Dirs[Len(Dirs)]>> \o x

\* sknobs_find_file of pointer p; it keeps a copy of what p leads to.
Search(v, p, os) ==
  LET x == Read(p)
      to == IF Hits(x) = {} THEN p ELSE <<"found", 0>>
  IN  /\ Len(x) <= MaxPath
      /\ "search" \notin os
      /\ found' = Tried(x)
      /\ Get(v, to, IF Hits(x) = {} THEN x ELSE Tried(x),
             os \cup {"search"}, {"search"})
      /\ UNCHANGED value

FindFile(v, w) == w \in fresh /\ Search(v, held[w], origin[w])
GetFilename(v, n, w) == w \in fresh /\ Search(v, StringOf(n, w), origin[w] \cup {n})

Next ==
  \E v, w \in Variables :
    \/ \E t \in Texts : Write(v, t)
    \/ \E n \in Names : GetString(v, n, w) \/ SetString(n, w) \/ GetFilename(v, n, w)
    \/ FindFile(v, w)

Spec == Init /\ [][Next]_vars
-----------------------------------------------------------------------------
(* Properties.                                                             *)

\* A string stays what it was until the next search, if a search may have
\* returned it, and until the next write to a name that reads a knob it may belong
\* to (sknobs_get_string, sknobs_find_file).
StringsStay == \A v \in fresh : Read(held[v]) = meant[v]

\* What is written is what was passed, never freed memory (sknobs_set_string).
ValuesAreWhole == \A n \in Stored : value[n] # Torn
=============================================================================
