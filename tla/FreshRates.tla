---------------------------- MODULE FreshRates ----------------------------
(***************************************************************************)
(* What GET /api/quotes promises about the exchange rate it quotes, without *)
(* saying how: each request is asked once and then ends once - with a rate *)
(* that was not too old at the moment it was chosen, with an error, or not *)
(* at all when the instance that held it went away.  A chosen rate is never *)
(* exchanged for another one on the way out.                               *)
(***************************************************************************)
EXTENDS Integers

CONSTANTS Requests, \* request slots
          MaxAge    \* a chosen rate is younger than this

VARIABLES now,   \* time
          stage, \* stage[q]: how far request q is
          at     \* at[q]: when the upstream quoted the rate chosen for q

vars == <<now, stage, at>>

Stages == {"free", "asked", "chosen", "quoted", "failed", "lost"}

Init == /\ now = 0
        /\ stage = [q \in Requests |-> "free"]
        /\ at = [q \in Requests |-> -1]

Move(q, from, to) == /\ stage[q] = from
                     /\ stage' = [stage EXCEPT ![q] = to]

Ask(q) == Move(q, "free", "asked") /\ UNCHANGED <<now, at>>

\* The rate is settled, and on its way or already answered.
Choose(q) == /\ Move(q, "asked", "chosen") \/ Move(q, "asked", "quoted")
             /\ \E a \in (now - MaxAge + 1) .. now :
                   a >= 0 /\ at' = [at EXCEPT ![q] = a]
             /\ UNCHANGED now

Quote(q) == Move(q, "chosen", "quoted") /\ UNCHANGED <<now, at>>

Fail(q) == Move(q, "asked", "failed") /\ UNCHANGED <<now, at>>

\* An instance goes away and takes its unfinished requests with it.
Lose == /\ \E S \in SUBSET {q \in Requests : stage[q] \in {"asked", "chosen"}} :
             /\ stage' = [q \in Requests |-> IF q \in S THEN "lost" ELSE stage[q]]
             /\ at' = [q \in Requests |-> IF q \in S THEN -1 ELSE at[q]]
        /\ UNCHANGED now

Pass == now' = now + 1 /\ UNCHANGED <<stage, at>>

Next == \/ \E q \in Requests : Ask(q) \/ Choose(q) \/ Quote(q) \/ Fail(q)
        \/ Lose
        \/ Pass

Spec == Init /\ [][Next]_vars
=============================================================================
