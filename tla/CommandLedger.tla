--------------------------- MODULE CommandLedger ---------------------------
(***************************************************************************)
(* What the remote commands promise, with no thread, batch, configuration  *)
(* or fault in it: one command at a time is carried out, and then answered *)
(* with how that went, or its answer is forgotten and it stays as it was.  *)
(* An answer once given is final, and an answered command is over.         *)
(***************************************************************************)
EXTENDS Naturals, Sequences

VARIABLES
    answers,    \* the answer to each command so far, or "pending"
    effects,    \* how often each has had its effect
    hand,       \* the command carried out and not yet answered; 0: none
    result      \* how that went; "failed" while there is none

vars == <<answers, effects, hand, result>>

Init == answers = <<>> /\ effects = <<>> /\ hand = 0 /\ result = "failed"

Submit ==
    /\ answers' = Append(answers, "pending")
    /\ effects' = Append(effects, 0)
    /\ UNCHANGED <<hand, result>>

\* A success has its effect; a failure may have had it all the same.
Execute(i) ==
    /\ hand = 0 /\ answers[i] = "pending"
    /\ hand' = i
    /\ \/ effects' = [effects EXCEPT ![i] = @ + 1] /\ result' \in {"success", "failed"}
       \/ UNCHANGED effects /\ result' = "failed"
    /\ UNCHANGED answers

Answer ==
    /\ hand # 0
    /\ answers' = [answers EXCEPT ![hand] = result]
    /\ hand' = 0 /\ result' = "failed"
    /\ UNCHANGED effects

Forget ==
    /\ hand # 0
    /\ hand' = 0 /\ result' = "failed"
    /\ UNCHANGED <<answers, effects>>

Next == Submit \/ (\E i \in DOMAIN answers : Execute(i)) \/ Answer \/ Forget

Spec == Init /\ [][Next]_vars
=============================================================================
