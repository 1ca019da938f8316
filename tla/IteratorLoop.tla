----------------------------- MODULE IteratorLoop -----------------------------
(***************************************************************************)
(* The loop every client writes,                                           *)
(*   it = iterate(Mine); while (next(it)) { get(it); Body lookups }        *)
(* over the ring of iterator slots.  The list does not change meanwhile.   *)
(***************************************************************************)
EXTENDS Integers, FiniteSetsExt

CONSTANTS
  MaxIterators,
  Knobs,      \* length of the list
  Names,      \* names the body may look up
  Mine,       \* the name of the loop
  Matching,   \* Matching[n]: the knobs whose pattern matches n
  Body        \* slots a turn of the body takes

VARIABLES
  slots,   \* sknobs_iterators
  cur,     \* sknobs_current_iterator
  it,      \* the client's iterator
  at,      \* where the client is
  left,    \* lookups left in this turn
  seen     \* knobs the client was given

loopVars == <<slots, cur, it, at, left, seen>>

Slots == 0 .. MaxIterators - 1

ASSUME LoopAssumption ==
  /\ MaxIterators \in Nat \ {0} /\ Knobs \in Nat /\ Body \in Nat
  /\ Mine \in Names /\ Matching \in [Names -> SUBSET (1 .. Knobs)]

\* Faults: the last slot is never used; a match is found again.
TakeShort(n) ==
  /\ slots' = [slots EXCEPT ![cur] = [name |-> n, knob |-> 0]]
  /\ cur' = (cur + 1) % (MaxIterators - 1)
HitAgain(s) ==
  LET after == {k \in Matching[slots[s].name] : k >= slots[s].knob}
  IN  IF after = {} THEN 0 ELSE Min(after)

\* A slot for an iterator or a lookup; a lookup ends with the knob at null.
Take(n) ==
  /\ slots' = [slots EXCEPT ![cur] = [name |-> n, knob |-> 0]]
  /\ cur' = (cur + 1) % MaxIterators
Hit(s) ==
  LET after == {k \in Matching[slots[s].name] : k > slots[s].knob}
  IN  IF after = {} THEN 0 ELSE Min(after)

LoopInit ==
  /\ slots = [s \in Slots |-> [name |-> Mine, knob |-> 0]] /\ cur \in Slots
  /\ it = 0 /\ at = "start" /\ left = 0 /\ seen = {}

Iterate == at = "start" /\ Take(Mine) /\ it' = cur /\ at' = "next" /\ UNCHANGED <<left, seen>>

IteratorNext ==
  /\ at = "next"
  /\ slots' = [slots EXCEPT ![it].knob = Hit(it)]
  /\ at' = IF Hit(it) = 0 THEN "done" ELSE "get"
  /\ UNCHANGED <<cur, it, left, seen>>

\* Its assertion holds: next has just found a knob.
IteratorGet ==
  /\ at = "get"
  /\ at' = "body" /\ seen' = seen \cup {slots[it].knob} /\ left' = Body
  /\ UNCHANGED <<slots, cur, it>>

LookUp ==
  /\ at = "body" /\ left > 0 /\ left' = left - 1
  /\ \E n \in Names : Take(n)
  /\ UNCHANGED <<it, at, seen>>

EndOfBody == at = "body" /\ left = 0 /\ at' = "next" /\ UNCHANGED <<slots, cur, it, left, seen>>

LoopNext == Iterate \/ IteratorNext \/ IteratorGet \/ LookUp \/ EndOfBody
\* The client and the library are one thread, which goes on.
LoopSpec == LoopInit /\ [][LoopNext]_loopVars /\ WF_loopVars(LoopNext)
-----------------------------------------------------------------------------
\* The loop ends, if all its turns together take fewer slots than the ring has
\* (sknobs_get_next, MAX_ITERATORS).
LoopEnds == <>(at = "done")

\* It has then been given every match of its name, and no other knob.
SeesEveryMatch == at = "done" => seen = Matching[Mine]
=============================================================================
