---------------------------- MODULE SoundSolver ----------------------------
(***************************************************************************)
(* What check_equivalence of solver/engine.py promises, whatever schedule   *)
(* it runs: one question gets one answer, the answer is sound, and it comes.*)
(* EquivalenceCheck relies on nothing more: its cases are answered by a     *)
(* single step of this specification each.                                  *)
(***************************************************************************)
EXTENDS Obligations

VARIABLES
    question,   \* the context asked about
    reply       \* the answer as a sequence, empty while there is none

vars == <<question, reply>>

Init ==
    /\ question \in Contexts
    /\ reply = <<>>

Reply ==
    /\ reply = <<>>
    /\ reply' \in {<<answer>> : answer \in SoundAnswers(question)}
    /\ UNCHANGED question

Safety == Init /\ [][Reply]_vars

Spec == Safety /\ WF_vars(Reply)
=============================================================================
