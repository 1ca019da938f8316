------------------------------- MODULE KnobMap -------------------------------
(***************************************************************************)
(* What the client of sknobs is promised once the library is initialised:  *)
(* a map from names to value strings, and for every name a number that     *)
(* get_value fixes once and for all.  No pattern, list, hash chain or      *)
(* iterator is visible here; module KnobStore implements this map.         *)
(***************************************************************************)
EXTENDS Integers

CONSTANTS
  Names,     \* the names a client asks for
  Values,    \* the value strings of knobs
  NULL,      \* C's null pointer: a knob without a value
  Unset,     \* no knob, or no number pinned
  Numbers,   \* the 64-bit numbers of the instance
  Eval,      \* Eval[v]: the numbers the expression v may evaluate to
  Decimal    \* Decimal[x]: x printed with %lld

VARIABLES
  binding,   \* name -> value string, NULL or Unset
  pinned,    \* name -> number saved by get_value, or Unset
  reply      \* the last call and its answer

vars == <<binding, pinned, reply>>

Answer(call, n, r) == [call |-> call, name |-> n, result |-> r]

BrowseCalls == {"iterate", "iterator_next", "iterator_get", "dump",
                "find_file"}

Number(n, d) ==
  IF binding[n] \in {NULL, Unset} THEN {d} ELSE Eval[binding[n]]

Bound(S, v) == [n \in Names |-> IF n \in S THEN v ELSE binding[n]]
-----------------------------------------------------------------------------
Init ==
  /\ binding \in [Names -> Values \cup {NULL, Unset}]
  /\ pinned = [n \in Names |-> Unset]
  /\ reply = Answer("init", NULL, 0)

\* A knob is added: it gives one value to the names its pattern matches.
Add ==
  /\ reply'.call = "add"
  /\ \E S \in SUBSET Names, v \in Values \cup {NULL} : binding' = Bound(S, v)
  /\ UNCHANGED pinned

\* A bound name takes the value written, and only names that shared its value
\* may take it too; an unbound name is written as if its text were a pattern.
Set(n, v) ==
  \E S \in SUBSET Names :
    /\ binding[n] # Unset => n \in S /\ \A m \in S : binding[m] = binding[n]
    /\ binding' = Bound(S, v)
    /\ UNCHANGED pinned

SetString(n, v) ==
  /\ reply' = Answer("set_string", n, v)
  /\ Set(n, v)

SetValue(n, x) ==
  /\ reply' = Answer("set_value", n, x)
  /\ Set(n, Decimal[x])

GetString(n, d) ==
  /\ reply' = Answer("get_string", n, IF binding[n] = Unset THEN d ELSE binding[n])
  /\ UNCHANGED <<binding, pinned>>

Exists(n) ==
  /\ reply' = Answer("exists", n, IF binding[n] = Unset THEN 0 ELSE 1)
  /\ UNCHANGED <<binding, pinned>>

GetDynamicValue(n, d) ==
  /\ \E x \in Number(n, d) : reply' = Answer("get_dynamic_value", n, x)
  /\ UNCHANGED <<binding, pinned>>

GetValue(n, d) ==
  /\ \E x \in IF pinned[n] = Unset THEN Number(n, d) ELSE {pinned[n]} :
       /\ reply' = Answer("get_value", n, x)
       /\ pinned' = [pinned EXCEPT ![n] = x]
  /\ UNCHANGED binding

\* Walking over knobs with an iterator, or printing them, changes nothing.
Browse ==
  /\ reply'.call \in BrowseCalls
  /\ UNCHANGED <<binding, pinned>>

Close ==
  /\ reply' = Answer("close", NULL, 0)
  /\ binding' = [n \in Names |-> Unset]
  /\ pinned' = [n \in Names |-> Unset]

Next ==
  \/ Add
  \/ Browse
  \/ Close
  \/ \E n \in Names :
       \/ Exists(n)
       \/ \E v \in Values : SetString(n, v)
       \/ \E x \in Numbers : SetValue(n, x)
       \/ \E d \in Values \cup {NULL} : GetString(n, d)
       \/ \E d \in Numbers : GetDynamicValue(n, d) \/ GetValue(n, d)

Spec == Init /\ [][Next]_vars
=============================================================================
