---------------------------- MODULE WorkSharing ----------------------------
(***************************************************************************)
(* What the servers between the nodes promise, without servers, addresses  *)
(* or messages: a node asks; the answer is a refusal, or a task that nobody*)
(* else has; the node that was given a task executes it, and its result    *)
(* goes back once.                                                         *)
(***************************************************************************)
CONSTANTS
  Node, Task,
  Open, Refused, Idle   \* three values that are no tasks

VARIABLES
  want,    \* what a node waits for: Idle, Open, Refused, or the task given to it
  state,   \* each task: "new", "given", "running", "done", "back"
  holder,  \* [Task -> SUBSET Node]: who executes it
  over     \* the run has ended

vars == <<want, state, holder, over>>

TypeOK ==
  /\ want \in [Node -> {Idle, Open, Refused} \cup Task]
  /\ state \in [Task -> {"new", "given", "running", "done", "back"}]
  /\ holder \in [Task -> SUBSET Node]
  /\ over \in BOOLEAN

Init ==
  /\ want = [n \in Node |-> Idle]
  /\ state = [t \in Task |-> "new"]
  /\ holder = [t \in Task |-> {}]
  /\ over = FALSE

Ask(n) ==
  /\ ~over /\ want[n] = Idle
  /\ want' = [want EXCEPT ![n] = Open]
  /\ UNCHANGED <<state, holder, over>>

Refuse(n) ==
  /\ ~over /\ want[n] = Open
  /\ want' = [want EXCEPT ![n] = Refused]
  /\ UNCHANGED <<state, holder, over>>

Resume(n) ==
  /\ ~over /\ want[n] = Refused
  /\ want' = [want EXCEPT ![n] = Idle]
  /\ UNCHANGED <<state, holder, over>>

Give(n, t) ==
  /\ ~over /\ want[n] = Open /\ state[t] = "new"
  /\ want' = [want EXCEPT ![n] = t]
  /\ state' = [state EXCEPT ![t] = "given"]
  /\ UNCHANGED <<holder, over>>

Start(n, t) ==
  /\ ~over /\ want[n] = t
  /\ want' = [want EXCEPT ![n] = Idle]
  /\ state' = [state EXCEPT ![t] = "running"]
  /\ holder' = [holder EXCEPT ![t] = {n}]
  /\ UNCHANGED over

Finish(n, t) ==
  /\ ~over /\ holder[t] = {n}
  /\ state' = [state EXCEPT ![t] = "done"]
  /\ holder' = [holder EXCEPT ![t] = {}]
  /\ UNCHANGED <<want, over>>

Return(t) ==
  /\ ~over /\ state[t] = "done"
  /\ state' = [state EXCEPT ![t] = "back"]
  /\ UNCHANGED <<want, holder, over>>

End == /\ ~over
       /\ over' = TRUE
       /\ \E n \in Node : want' = [want EXCEPT ![n] = Idle]
       /\ UNCHANGED <<state, holder>>

Next ==
  \/ \E n \in Node : Ask(n) \/ Refuse(n) \/ Resume(n)
  \/ \E n \in Node, t \in Task : Give(n, t) \/ Start(n, t) \/ Finish(n, t)
  \/ \E t \in Task : Return(t)
  \/ End

(* Refusals and tasks arrive, tasks are finished, and results come back.     *)
Fairness ==
  /\ \A n \in Node : WF_vars(Resume(n))
  /\ \A n \in Node, t \in Task : WF_vars(Start(n, t)) /\ WF_vars(Finish(n, t))
  /\ \A t \in Task : WF_vars(Return(t))

Safe == Init /\ [][Next]_vars

Spec == Safe /\ Fairness
=============================================================================
