---------------------------- MODULE MemoisedFork ----------------------------
(***************************************************************************)
(* What the EVMFork seen by SimulationUseCase promises, with the node's    *)
(* calls and Redis left out: a call is answered by a run of its own, or by *)
(* an answer that some run gave to the same question and that is younger   *)
(* than the lifetime of such answers.                                      *)
(***************************************************************************)
EXTENDS Integers

CONSTANTS
  Call,
  Lifetime(_),      \* how long answers to a question live; 0 means for ever
  Admissible(_, _)  \* what a run may answer to a question

VARIABLES
  asked,   \* [Call -> question]
  status,  \* [Call -> {"asking", "running", "done", "failed"}]
  answer,  \* [Call -> answer]: of meaning once the call is done
  memo     \* set of [question, answer, age]

vars == <<asked, status, answer, memo>>

Init ==
  /\ status = [c \in Call |-> "asking"]
  /\ memo = {}

Become(c, s) == status' = [status EXCEPT ![c] = s]

\* c is shown x; written on answer' so that TLC need not enumerate answers.
Show(c, x) == answer' = [answer EXCEPT ![c] = x]

\* Nothing usable is remembered, or the memory cannot be reached.
Run(c) ==
  /\ status[c] = "asking"
  /\ Become(c, "running")
  /\ UNCHANGED <<asked, answer, memo>>

\* The question makes no sense.
Refuse(c) ==
  /\ status[c] = "asking"
  /\ Become(c, "failed")
  /\ UNCHANGED <<asked, answer, memo>>

Replay(c) ==
  /\ status[c] = "asking"
  /\ \E e \in memo : e.question = asked[c] /\ Show(c, e.answer)
  /\ Become(c, "done")
  /\ UNCHANGED <<asked, memo>>

\* A run ends; its answer may be remembered, in the place of older ones.
Answer(c) ==
  /\ status[c] = "running"
  /\ Show(c, answer'[c])
  /\ Admissible(asked[c], answer'[c])
  /\ Become(c, "done")
  /\ memo' \subseteq memo \cup
       {[question |-> asked[c], answer |-> answer'[c], age |-> 0]}
  /\ UNCHANGED asked

\* Time passes: what has reached its lifetime is forgotten.
Older(e) == [e EXCEPT !.age = @ + 1]

Age ==
  /\ memo' = {e \in memo : Lifetime(e.question) = 0}
             \cup {Older(e) : e \in {x \in memo :
                                       /\ Lifetime(x.question) # 0
                                       /\ x.age + 1 < Lifetime(x.question)}}
  /\ UNCHANGED <<asked, status, answer>>

Forget ==
  /\ memo' \subseteq memo
  /\ UNCHANGED <<asked, status, answer>>

Next ==
  \/ \E c \in Call : Run(c) \/ Refuse(c) \/ Replay(c) \/ Answer(c)
  \/ Age
  \/ Forget

Spec == Init /\ [][Next]_vars
=============================================================================
