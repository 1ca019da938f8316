------------------------------ MODULE Evaluate -------------------------------
(***************************************************************************)
(* How a knob expression becomes a number: choose_from_weighted_list picks *)
(* one element of "a:wa,b:wb,...", sknobs_eval turns it, "x" or "l~r",     *)
(* into a number.  The same choice picks the file of a -f list.  Numbers   *)
(* are unsigned long long: sums and differences wrap at Modulus.           *)
(***************************************************************************)
EXTENDS Integers, Sequences

CONSTANTS
  Modulus,     \* 2^64 in C
  MaxChoices,  \* MAX_CHOICES, the size of the arrays choices and weights
  Exprs,       \* the expressions, split on "," and each element on ":" and "~"
  NoBound      \* the upper bound of an element that is no range

Word == 0 .. Modulus - 1
Element == [weight : Word, low : Word, high : Word \cup {NoBound}]

ASSUME WordAssumption ==
  /\ Modulus \in Nat /\ Modulus >= 2
  /\ MaxChoices \in Nat \ {0}
  /\ Exprs \subseteq Seq(Element)
  /\ NoBound \notin Word

VARIABLES
  pc,      \* where the two functions are, or how they went wrong
  caller,  \* sknobs_eval or sknobs_load_dashf
  expr,    \* the expression being evaluated
  total,   \* total
  sums,    \* history: the values total has had, one per element
  w,       \* the random draw
  a,       \* running sum of the selection loop
  j,       \* elements the selection loop has taken; the last is the choice
  result   \* what sknobs_eval returns

vars == <<pc, caller, expr, total, sums, w, a, j, result>>

Steps == {"split", "sum", "pick", "chosen"}
Faults == {"overrun",   \* writes past choices[MAX_CHOICES - 1]
           "null",      \* no element at all: strtok gave NULL
           "stray",     \* reads past the last element
           "trap"}      \* x % 0

TypeOK ==
  /\ pc \in Steps \cup Faults \cup {"done"}
  /\ caller \in {"eval", "dashf"}
  /\ expr \in Exprs
  /\ total \in Word
  /\ sums \in Seq(Word)
  /\ w \in Word
  /\ a \in Word
  /\ j \in Nat
  /\ result \in Word
-----------------------------------------------------------------------------
\* Faults of the arithmetic: a sum that does not wrap, a width one too large.
PlainSum(x, y) == x + y

\* Unsigned arithmetic on words.
Plus(x, y) == IF x + y < Modulus THEN x + y ELSE x + y - Modulus
Minus(x, y) == IF x >= y THEN x - y ELSE x - y + Modulus

WidthPlusOne(e) == Plus(Plus(Minus(e.high, e.low), 1), 1)

\* r-l+1
Width(e) == Plus(Minus(e.high, e.low), 1)

\* The values of r % n for a random word r.
DrawInclusive(n) == 0 .. n
Draw(n) == 0 .. n - 1

Init ==
  /\ pc = "split"
  /\ caller \in {"eval", "dashf"}
  /\ expr \in Exprs
  /\ total = 0
  /\ sums = <<>>
  /\ w = 0
  /\ a = 0
  /\ j = 0
  /\ result = 0

\* Splitting on commas, one pointer per element into choices[MAX_CHOICES].
Split ==
  /\ pc = "split"
  /\ pc' = IF Len(expr) > MaxChoices THEN "overrun"
           ELSE IF expr = <<>> THEN "null" ELSE "sum"
  /\ UNCHANGED <<caller, expr, total, sums, w, a, j, result>>

Sum ==
  /\ pc = "sum"
  /\ Len(sums) < Len(expr)
  /\ total' = Plus(total, expr[Len(sums) + 1].weight)
  /\ sums' = Append(sums, total')
  /\ UNCHANGED <<pc, caller, expr, w, a, j, result>>

Summed == pc = "sum" /\ Len(sums) = Len(expr)

\* "special case if there is only one to choose from"
OnlyOne ==
  /\ Summed
  /\ total = 1
  /\ pc' = "chosen"
  /\ j' = 1
  /\ UNCHANGED <<caller, expr, total, sums, w, a, result>>

DrawWeight ==
  /\ Summed
  /\ total # 1
  /\ IF total = 0
       THEN pc' = "trap" /\ UNCHANGED w
       ELSE pc' = "pick" /\ w' \in Draw(total)
  /\ UNCHANGED <<caller, expr, total, sums, a, j, result>>

\* The condition of the selection loop, and its mistake by one.
MoreStrict == a < w
More == a <= w

Pick ==
  /\ pc = "pick"
  /\ More
  /\ j' = j + 1
  /\ IF j' > Len(expr)
       THEN pc' = "stray" /\ UNCHANGED a
       ELSE a' = Plus(a, expr[j'].weight) /\ UNCHANGED pc
  /\ UNCHANGED <<caller, expr, total, sums, w, result>>

Picked ==
  /\ pc = "pick"
  /\ ~More
  /\ pc' = "chosen"
  /\ UNCHANGED <<caller, expr, total, sums, w, a, j, result>>

\* sknobs_load_dashf takes the element as a file name.
ReturnName ==
  /\ pc = "chosen"
  /\ caller = "dashf"
  /\ pc' = "done"
  /\ UNCHANGED <<caller, expr, total, sums, w, a, j, result>>

Whole(e) == e.low = 0 /\ e.high = Modulus - 1

\* sknobs_eval: one number, or a random one of a range.
ReturnNumber ==
  LET e == expr[j]
  IN  /\ pc = "chosen"
      /\ caller = "eval"
      /\ IF e.high = NoBound
           THEN pc' = "done" /\ result' = e.low
         ELSE IF Whole(e)
           THEN pc' = "done" /\ result' \in Word
         ELSE IF Width(e) = 0
           THEN pc' = "trap" /\ UNCHANGED result
         ELSE pc' = "done" /\ \E x \in Draw(Width(e)) : result' = Plus(e.low, x)
      /\ UNCHANGED <<caller, expr, total, sums, w, a, j>>

Next ==
  \/ Split
  \/ Sum
  \/ OnlyOne
  \/ DrawWeight
  \/ Pick
  \/ Picked
  \/ ReturnName
  \/ ReturnNumber

Spec == Init /\ [][Next]_vars

\* Nothing but its own code delays the call.
FairSpec == Spec /\ WF_vars(Next)
-----------------------------------------------------------------------------
(* Properties.                                                             *)

\* The sum of the first k weights, as the summing loop computed it.
Prefix(k) == IF k = 0 THEN 0 ELSE sums[k]

\* The selection loop never reads past the last element, although nothing in it
\* looks at count: not even when the sum of the weights has wrapped.
PickStaysInList == pc # "stray"

\* The draw lies in the chosen element's share of the total.  The shares follow
\* one another, so the element is chosen for exactly weight of the draws when
\* the weights do not wrap, and never when its weight is 0 (README.md:20).
DrawnInShare ==
  pc \in {"chosen", "done"} /\ total # 1 =>
    j # 0 /\ Prefix(j - 1) <= w /\ w < Prefix(j)

\* A number from a range a~b lies between a and b inclusive (README.md:18).
ResultInRange ==
  pc = "done" /\ caller = "eval" /\ expr[j].high # NoBound =>
    LET e == expr[j] IN e.low <= e.high => e.low <= result /\ result <= e.high

\* The expressions for which the code has an answer.
Answerable(e) ==
  /\ Len(e) \in 1 .. MaxChoices
  /\ \A k \in 1 .. Len(e) : e[k].high # NoBound => Whole(e[k]) \/ Width(e[k]) # 0

\* They are answered, however their weights wrap, unless the sum comes to 0.
AnswerableIsAnswered == Answerable(expr) => <>(pc = "done" \/ (pc = "trap" /\ total = 0))
=============================================================================
