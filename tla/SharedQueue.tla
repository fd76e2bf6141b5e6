---------------------------- MODULE SharedQueue ----------------------------
(***************************************************************************)
(* The message queues of the Tascell server (queue.lsp): any number of     *)
(* producers (the processes that read from the sockets, or the process     *)
(* that handles messages) and one consumer per queue (the process that     *)
(* handles messages, or the one that writes to a socket; server.lsp,       *)
(* activate-proc-cmd-process and monitor-and-send-queue).                  *)
(* The consumer waits at the queue's gate: in Allegro CL the scheduler     *)
(* evaluates the condition, in SBCL sbcl-compat-mp.lsp waits on a          *)
(* condition variable.  Every step that reads or writes shared state is a  *)
(* step of its own.                                                        *)
(***************************************************************************)
EXTENDS Naturals, Sequences

CONSTANTS
  Producer,
  MaxAdds,    \* bound: messages that each producer adds
  Consumer,   \* the consumer, as a lock holder
  Free,       \* nobody holds the lock
  Lisp        \* Lisp systems that the server may run on

ASSUME QueueAssumption ==
  /\ MaxAdds \in Nat
  /\ Consumer \notin Producer
  /\ Free \notin Producer \cup {Consumer}
  /\ Lisp \subseteq {"allegro", "sbcl"}

(* nothing was taken: delete-queue returned nil *)
NIL == <<>>
Message == Producer \X (1..MaxAdds)

VARIABLES
  lisp,   \* the Lisp system of this server
  body,   \* queue-body, front first
  gate,   \* sq-gate is open
  lock,   \* holder of sq-lock
  ppc,    \* producers
  cpc,    \* consumer
  item,   \* what the consumer's delete-queue has returned
  added,  \* observer: number of messages added by each producer
  taken   \* observer: messages handled, in order

vars == <<lisp, body, gate, lock, ppc, cpc, item, added, taken>>

ConsumerLocked == {"delete", "empty", "close", "unlock"}

TypeOK ==
  /\ lisp \in Lisp
  /\ body \in Seq(Message)
  /\ gate \in BOOLEAN
  /\ lock \in Producer \cup {Consumer, Free}
  /\ ppc \in [Producer -> {"idle", "insert", "open", "unlock"}]
  /\ cpc \in {"wait", "sleep", "asleep", "while", "lock", "handle"} \cup ConsumerLocked
  /\ item \in Message \cup {NIL}
  /\ added \in [Producer -> 0..MaxAdds]
  /\ taken \in Seq(Message)

Init ==
  /\ lisp \in Lisp
  /\ body = <<>>
  /\ gate = FALSE
  /\ lock = Free
  /\ ppc = [p \in Producer |-> "idle"]
  /\ cpc = "wait"
  /\ item = NIL
  /\ added = [p \in Producer |-> 0]
  /\ taken = <<>>

-----------------------------------------------------------------------------
(* add-queue: with the lock held, insert and open the gate *)

LockToAdd(p) ==
  /\ ppc[p] = "idle" /\ added[p] < MaxAdds
  /\ lock = Free
  /\ lock' = p
  /\ ppc' = [ppc EXCEPT ![p] = "insert"]
  /\ UNCHANGED <<lisp, body, gate, cpc, item, added, taken>>

(* Mutant of insert-queue: at the front, as after a wrong rplaca. *)
InsertFront(p) ==
  /\ ppc[p] = "insert"
  /\ body' = <<<<p, added[p] + 1>>>> \o body
  /\ added' = [added EXCEPT ![p] = @ + 1]
  /\ ppc' = [ppc EXCEPT ![p] = "open"]
  /\ UNCHANGED <<lisp, gate, lock, cpc, item, taken>>

Insert(p) ==
  /\ ppc[p] = "insert"
  /\ body' = Append(body, <<p, added[p] + 1>>)
  /\ added' = [added EXCEPT ![p] = @ + 1]
  /\ ppc' = [ppc EXCEPT ![p] = "open"]
  /\ UNCHANGED <<lisp, gate, lock, cpc, item, taken>>

(* Mutant of open-gate: the state is set, nobody is woken. *)
OpenSilent(p) ==
  /\ ppc[p] = "open"
  /\ gate' = TRUE
  /\ ppc' = [ppc EXCEPT ![p] = "unlock"]
  /\ UNCHANGED <<lisp, body, lock, cpc, item, added, taken>>

(* open-gate: the state is set and whoever waits is woken *)
Open(p) ==
  /\ ppc[p] = "open"
  /\ gate' = TRUE
  /\ cpc' = IF cpc = "asleep" THEN "wait" ELSE cpc
  /\ ppc' = [ppc EXCEPT ![p] = "unlock"]
  /\ UNCHANGED <<lisp, body, lock, item, added, taken>>

UnlockAdded(p) ==
  /\ ppc[p] = "unlock"
  /\ lock' = Free
  /\ ppc' = [ppc EXCEPT ![p] = "idle"]
  /\ UNCHANGED <<lisp, body, gate, cpc, item, added, taken>>

-----------------------------------------------------------------------------
(* The consumer *)

(* process-wait returns, the gate being open *)
GateOpen ==
  /\ cpc = "wait" /\ gate
  /\ cpc' = "while"
  /\ UNCHANGED <<lisp, body, gate, lock, ppc, item, added, taken>>

(* wait-for-gate-open: the gate was seen closed, without its mutex ... *)
GateClosed ==
  /\ lisp = "sbcl"
  /\ cpc = "wait" /\ ~gate
  /\ cpc' = "sleep"
  /\ UNCHANGED <<lisp, body, gate, lock, ppc, item, added, taken>>

(* ... condition-wait *)
ConditionWait ==
  /\ cpc = "sleep"
  /\ cpc' = "asleep"
  /\ UNCHANGED <<lisp, body, gate, lock, ppc, item, added, taken>>

(* while (gate-open-p gate) *)
WhileOpen ==
  /\ cpc = "while"
  /\ cpc' = IF gate THEN "lock" ELSE "wait"
  /\ UNCHANGED <<lisp, body, gate, lock, ppc, item, added, taken>>

(* delete-queue: with the lock held, take the front element *)
LockToDelete ==
  /\ cpc = "lock" /\ lock = Free
  /\ lock' = Consumer
  /\ cpc' = "delete"
  /\ UNCHANGED <<lisp, body, gate, ppc, item, added, taken>>

Delete ==
  /\ cpc = "delete"
  /\ item' = IF body = <<>> THEN NIL ELSE Head(body)
  /\ body' = IF body = <<>> THEN body ELSE Tail(body)
  /\ cpc' = "empty"
  /\ UNCHANGED <<lisp, gate, lock, ppc, added, taken>>

(* Mutants of delete-queue: the gate is closed always, or never. *)
CloseAlways ==
  /\ cpc = "empty"
  /\ cpc' = "close"
  /\ UNCHANGED <<lisp, body, gate, lock, ppc, item, added, taken>>

CloseNever ==
  /\ cpc = "empty"
  /\ cpc' = "unlock"
  /\ UNCHANGED <<lisp, body, gate, lock, ppc, item, added, taken>>

(* ... and see whether the queue is empty now: *)
TestEmpty ==
  /\ cpc = "empty"
  /\ cpc' = IF body = <<>> THEN "close" ELSE "unlock"
  /\ UNCHANGED <<lisp, body, gate, lock, ppc, item, added, taken>>

(* close its gate then, and unlock *)
Close ==
  /\ cpc = "close"
  /\ gate' = FALSE
  /\ cpc' = "unlock"
  /\ UNCHANGED <<lisp, body, lock, ppc, item, added, taken>>

UnlockDeleted ==
  /\ cpc = "unlock"
  /\ lock' = Free
  /\ cpc' = "handle"
  /\ UNCHANGED <<lisp, body, gate, ppc, item, added, taken>>

(* proc-cmd, or the writer *)
Handle ==
  /\ cpc = "handle"
  /\ taken' = Append(taken, item)
  /\ item' = NIL
  /\ cpc' = "while"
  /\ UNCHANGED <<lisp, body, gate, lock, ppc, added>>

-----------------------------------------------------------------------------
Add(p) == LockToAdd(p) \/ Insert(p) \/ Open(p) \/ UnlockAdded(p)

Consume ==
  \/ GateOpen \/ GateClosed \/ ConditionWait \/ WhileOpen
  \/ LockToDelete \/ Delete \/ TestEmpty \/ Close \/ UnlockDeleted \/ Handle

Next == Consume \/ \E p \in Producer : Add(p)

Spec == Init /\ [][Next]_vars

(* A process that can run runs, a producer that holds the lock goes on, and *)
(* the lock is not always given to the others.                              *)
FairSpec ==
  /\ Spec
  /\ WF_vars(Consume) /\ SF_vars(LockToDelete)
  /\ \A p \in Producer : WF_vars(Insert(p) \/ Open(p) \/ UnlockAdded(p))

-----------------------------------------------------------------------------
(* Properties *)

(* Whenever the lock is free the gate is open just if the queue holds      *)
(* something: neither a message behind a closed gate, nor an open gate that *)
(* invites the consumer to an empty queue.                                  *)
GateMeansNonempty == lock = Free => (gate <=> body # <<>>)

(* The consumer that has seen the gate open, without the lock, finds an      *)
(* element when it gets the lock: delete-queue never returns nil, for which  *)
(* neither proc-cmd's destructuring-bind nor the writer has a case.          *)
NoNil ==
  /\ cpc \in {"lock", "delete"} => body # <<>>
  /\ cpc \in {"empty", "close", "unlock", "handle"} => item # NIL

(* Messages handled, being handled and waiting, in order *)
Passed == taken \o (IF item = NIL THEN <<>> ELSE <<item>>) \o body

(* Nothing is lost, duplicated or reordered: each message that a producer has *)
(* added is in Passed, and those of one producer are there in the order in     *)
(* which it has added them.                                                    *)
Fifo ==
  /\ \A i \in 1..Len(Passed) : Passed[i][2] <= added[Passed[i][1]]
  /\ \A i, j \in 1..Len(Passed) :
       i < j /\ Passed[i][1] = Passed[j][1] => Passed[i][2] < Passed[j][2]
  /\ \A p \in Producer : \A n \in 1..added[p] :
       \E i \in 1..Len(Passed) : Passed[i] = <<p, n>>

(* server.lsp l.390 and l.649: a process that waits for "something is added *)
(* to the queue" goes on when something is.  With the gates of Allegro CL   *)
(* all messages are handled.                                                *)
DeliveredByAllegro == lisp = "allegro" /\ body # <<>> ~> body = <<>>

(* With those of SBCL a message may wait for the next one, but that one *)
(* takes it along: an open-gate that finds the consumer asleep ends with *)
(* an empty queue.                                                       *)
NextAddWakes == cpc = "asleep" /\ (\E p \in Producer : ppc[p] = "open") ~> body = <<>>
=============================================================================
