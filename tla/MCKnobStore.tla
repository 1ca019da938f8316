----------------------------- MODULE MCKnobStore -----------------------------
(* Values of the constants of KnobStore for TLC.                           *)
EXTENDS KnobStore, TLC

CONSTANTS plain, odd,         \* names; odd is a text such as "cpu[0]"
          glob, bad,          \* "*" and an expression regcomp rejects
          zero, one, two,     \* the strings "0", "1" and "2"
          range, lock         \* the strings "1~2" and "=1"

\* Every name matches itself as a pattern but odd; glob matches both.
MCMatch == {<<plain, plain>>, <<glob, plain>>, <<glob, odd>>}

MCDecimal == [x \in Numbers |-> CASE x = 0 -> zero [] x = 1 -> one [] x = 2 -> two]
MCEval == [v \in Values |-> CASE v \in {zero, lock} -> {0}
                               [] v = one -> {1}
                               [] v = two -> {2}
                               [] v = range -> {1, 2}]

\* The names collide, in the last bucket.
MCHash == [n \in Names |-> Buckets - 1]

MCBoot == <<[pattern |-> plain, value |-> one]>>
MCLongBoot == <<[pattern |-> plain, value |-> one], [pattern |-> glob, value |-> one]>>

Interchangeable == Permutations(Handles)

\* No guard reads the reply: states that differ only there need not be told
\* apart, and every step is still checked with the reply it gives.
StateView == <<list, saved, iters, cur, handle, status>>

\* For walks: no step reads a slot that no open iterator designates before it
\* is handed out again, and the pinned values only decide whether get_value
\* takes a slot, as get_dynamic_value always does.
Held == {handle[h].slot : h \in {g \in Handles : handle[g].open}}
WalkView == <<list, [s \in Held |-> iters[s]], cur, handle, status>>
=============================================================================
