----------------------------- MODULE ScreenCalls -----------------------------
(***************************************************************************)
(* The requests of one screen: buttons start them, the service or the      *)
(* shell acts on them at some later moment, and the answers arrive in any  *)
(* order.  No screen waits for one request before it sends another, except *)
(* where it disables a button.  A screen's own modules say what a request  *)
(* does and what its answer changes.                                       *)
(***************************************************************************)
EXTENDS Integers, Sequences, SequencesExt, FiniteSets, Lists

CONSTANTS
  MaxPresses,  \* bound: buttons pressed that start a request
  MaxFaults    \* bound: requests that fail before or after they are acted on

ASSUME CallConstants == MaxPresses \in Nat /\ MaxFaults \in Nat

VARIABLES
  calls,       \* requests under way: [op, arg, ans, n], n the press that led to it
  presses, faults  \* bookkeeping: bounded by MaxPresses and MaxFaults

callVars == <<calls, presses, faults>>

Unanswered == [ok |-> FALSE, done |-> FALSE, data |-> <<>>]
Ok(data)   == [ok |-> TRUE, done |-> TRUE, data |-> data]
Failed     == [ok |-> FALSE, done |-> TRUE, data |-> <<>>]

Call(op, arg) == [op |-> op, arg |-> arg, ans |-> Unanswered, n |-> 0]
By(cs, n)     == {[c EXCEPT !.n = n] : c \in cs}
Of(op)        == {c \in calls : c.op = op}

CallsInit(cs) == calls = cs /\ presses = 0 /\ faults = 0   \* those a screen starts with

\* A button that starts requests.
Press(cs) == /\ presses < MaxPresses /\ presses' = presses + 1
             /\ calls' = calls \cup By(cs, presses')
             /\ UNCHANGED faults

\* The answer of c is heard, and requests follow it.
Heard(c, cs) == c \in calls /\ c.ans.done /\ calls' = (calls \ {c}) \cup By(cs, c.n)
                /\ UNCHANGED <<presses, faults>>

Answered(c, ans) == calls' = (calls \ {c}) \cup {[c EXCEPT !.ans = ans]}
Serves(c, ans)   == c \in calls /\ ~c.ans.done /\ Answered(c, ans) /\ UNCHANGED <<presses, faults>>
Fails(c)         == /\ c \in calls /\ ~c.ans.done /\ faults < MaxFaults
                    /\ faults' = faults + 1 /\ Answered(c, Failed) /\ UNCHANGED presses

\* A page of a list.
Page(all, offset, size) ==
  [items |-> SubSeq(all, offset + 1, IF offset + size < Len(all) THEN offset + size ELSE Len(all)),
   more  |-> Len(all) > offset + size]
Without(list, id) == Select(list, {n \in DOMAIN list : list[n].id # id})
Ids(list)         == {list[n].id : n \in DOMAIN list}
=============================================================================
