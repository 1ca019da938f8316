----------------------------- MODULE MCEvaluate ------------------------------
(* Expressions over words of three bits.                                   *)
EXTENDS Evaluate

CONSTANTS Weights, LongestList

Single(weight, k) == [weight |-> weight, low |-> k % Modulus, high |-> NoBound]
Lists == UNION {[1 .. n -> Weights] : n \in 0 .. LongestList}
WeightedLists == {[k \in 1 .. Len(l) |-> Single(l[k], k)] : l \in Lists}

\* One range with weight 1, and beside a number with weight 1.
Range(l, h) == [weight |-> 1, low |-> l, high |-> h]
Ranges == {<<Range(l, h)>> : l \in Word, h \in Word}
Pairs == {<<Single(1, 5), Range(l, h)>> : l \in Word, h \in Word}

MCExprs == WeightedLists \cup Ranges \cup Pairs
=============================================================================
