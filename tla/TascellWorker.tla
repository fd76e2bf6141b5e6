--------------------------- MODULE TascellWorker ---------------------------
(***************************************************************************)
(* The workers of one Tascell node (src/sample/tcell/worker.sc): task      *)
(* requests, tasks, results and the stealing back of work by a worker that *)
(* waits for a result, running a do-two computation (src/rule/tcell.rule). *)
(*                                                                         *)
(* A command to a worker of the same node is executed by its sender        *)
(* (proc-cmd is called directly), in one critical section on the           *)
(* recipient's mutex.  Such a critical section is one action here.  A      *)
(* worker that holds its own mutex while it takes another one (to flush    *)
(* requests or to spawn) does so over several actions; see Locked.         *)
(* A broadcast on a condition variable moves the sleeping worker's pc.     *)
(***************************************************************************)
EXTENDS Integers, SequencesExt

CONSTANTS
  Worker,      \* workers (threads) of the node
  First,       \* the 0-th worker: it alone asks outside the node for work
  AlwaysFlush, \* option.always-flush-accepted-treq
  Node, Root, Leaf, Left, Right  \* the computation, as in ForkJoin

ASSUME WorkerAssumption ==
  /\ First \in Worker
  /\ AlwaysFlush \in BOOLEAN

ASSUME ComputationAssumption ==
  /\ Root \in Node
  /\ Leaf \subseteq Node
  /\ Left \in [Node \ Leaf -> Node]
  /\ Right \in [Node \ Leaf -> Node]

(* A node is one execution of a call: it has one caller, the initial task has *)
(* none, and no call is made inside itself, over however many calls.          *)
Halves(n) == IF n \in Leaf THEN {} ELSE {Left[n], Right[n]}

ASSUME CallAssumption ==
  /\ \A n \in Node : Root \notin Halves(n)
  /\ \A n \in Node \ Leaf : Left[n] # Right[n]
  /\ \A m, n \in Node : m # n => Halves(m) \cap Halves(n) = {}
  /\ \A S \in (SUBSET Node) \ {{}} : \E n \in S : \A m \in S : n \notin Halves(m)

VARIABLES
  pc,       \* where each worker is in its code
  task,     \* thr->task-top: the task stack, top at the end
  sub,      \* thr->sub: the subtask stack, top at the end; position = id
  treq,     \* thr->treq-top: accepted task requests, top at the end
  req,      \* thr->req is not null
  wnone,    \* thr->w-none
  wrack,    \* thr->w-rack
  asking,   \* recv-treq: workers the request being sent has still to be tried on
  direct,   \* rcmd.node was overwritten by OUTSIDE in recv-treq
  ackTo,    \* recipient of the rack that the sender of a rslt goes on to send
  outside,  \* what the world outside the node owes it
  runs      \* observer: how many times each node was run to its end

vars == <<pc, task, sub, treq, req, wnone, wrack, asking, direct, ackTo,
          outside, runs>>

-----------------------------------------------------------------------------
(* Addresses.  A subtask is addressed by its owner and its id; TERM is the  *)
(* empty address; the initial task came from outside and its rslt goes      *)
(* there.                                                                   *)
TERM == <<>>
OUTSIDE == <<0>>
Address == (Worker \X (Nat \ {0})) \cup {TERM, OUTSIDE}

TaskStat == {"ALLOCATED", "INITIALIZED", "STARTED", "DONE", "NONE", "SUSPENDED"}
HomeStat == {"INITIALIZED", "DONE"}

(* A do-two being executed: its node, the subtask its second half was given *)
(* away as (0: none; the code keeps a 0/1 flag, the number serves the       *)
(* properties), and whether stat2 is the half being executed here.          *)
Frame == [node : Node \ Leaf, spawned : Nat, stat2 : BOOLEAN]

(* frames is the C stack of the task from its oldest do-two to its newest;  *)
(* ret: the call that was being evaluated has returned.                     *)
Task == [stat : TaskStat, rslt : Address, body : Node, frames : Seq(Frame),
         ret : BOOLEAN]
TaskHome == [stat : HomeStat, to : Worker, body : Node]
Request == [from : Worker, waiting : Address]

TypeOK ==
  /\ pc \in [Worker -> {"enter", "nonewait", "nonewake", "flush", "ask", "reply",
                        "sleep", "nap", "run", "spawn", "rslt", "rack", "count",
                        "done", "drain", "wait"}]
  /\ task \in [Worker -> Seq(Task)]
  /\ sub \in [Worker -> Seq(TaskHome)]
  /\ treq \in [Worker -> Seq(Request)]
  /\ req \in [Worker -> BOOLEAN]
  /\ wnone \in [Worker -> Nat]
  /\ wrack \in [Worker -> Int]
  /\ asking \in [Worker -> SUBSET Worker]
  /\ direct \in [Worker -> BOOLEAN]
  /\ ackTo \in [Worker -> Worker]
  /\ outside \in [task : BOOLEAN, treq : BOOLEAN, rack : BOOLEAN]
  /\ runs \in [Node -> Nat]

-----------------------------------------------------------------------------
Top(w) == Last(task[w])
WithTop(stk, t) == [stk EXCEPT ![Len(stk)] = t]
SetStat(w, s) == task' = [task EXCEPT ![w] = WithTop(@, [Top(w) EXCEPT !.stat = s])]
Goto(w, label) == pc' = [pc EXCEPT ![w] = label]

(* Mutant: the mutex is kept while the treq is sent. *)
LockedWhileAsking(w) ==
  pc[w] \in {"enter", "nonewake", "flush", "ask", "spawn", "drain", "wait"}

(* thr->mut is held by its own worker between two actions *)
Locked(w) == pc[w] \in {"enter", "nonewake", "flush", "spawn", "drain", "wait"}

(* pthread-cond-broadcast on thr->cond: the sleeper goes on *)
Woken(label) == CASE label = "sleep" -> "reply"
                  [] label = "nonewait" -> "nonewake"
                  [] OTHER -> label

(* The newest subtask is completed: a worker that steals back gives up. *)
SubDone(w) == sub[w] # <<>> /\ Last(sub[w]).stat = "DONE"

(* Mutant: a worker that waits for a result takes any task. *)
AsksAnyAlways(w) == task[w] # <<>>

(* worker() asks anyone; wait-rslt(), called by the task below the entry to *)
(* be filled, asks the worker that executes the subtask (it steals back).   *)
AsksAny(w) == Len(task[w]) = 1
FromAddr(w) == IF sub[w] = <<>> THEN TERM ELSE <<w, Len(sub[w])>>

Init ==
  /\ pc = [w \in Worker |-> "enter"]
  /\ task = [w \in Worker |-> <<>>]
  /\ sub = [w \in Worker |-> <<>>]
  /\ treq = [w \in Worker |-> <<>>]
  /\ req = [w \in Worker |-> FALSE]
  /\ wnone = [w \in Worker |-> 0]
  /\ wrack = [w \in Worker |-> 0]
  /\ asking = [w \in Worker |-> {}]
  /\ direct = [w \in Worker |-> FALSE]
  /\ ackTo = [w \in Worker |-> First]
  /\ outside = [task |-> TRUE, treq |-> FALSE, rack |-> FALSE]
  /\ runs = [n \in Node |-> 0]

-----------------------------------------------------------------------------
(* Handlers, executed by the sender of the command (or, for a command from *)
(* outside, by the main thread) inside the recipient's mutex.              *)

(* recv-task: the entry at the top of w's stack is initialised *)
Initialized(w, rslt, body) ==
  WithTop(task[w], [Top(w) EXCEPT !.stat = "INITIALIZED", !.rslt = rslt, !.body = body])

(* Mutant of recv-none: the sleeper is not woken. *)
RecvNoneSilent(w, pcs) ==
  /\ IF wnone[w] > 0
     THEN /\ wnone' = [wnone EXCEPT ![w] = @ - 1]
          /\ UNCHANGED task
     ELSE /\ SetStat(w, "NONE")
          /\ UNCHANGED wnone
  /\ pc' = pcs

(* recv-none: an answer w no longer waits for is only counted *)
RecvNone(w, pcs) ==
  /\ IF wnone[w] > 0
     THEN /\ wnone' = [wnone EXCEPT ![w] = @ - 1]
          /\ UNCHANGED task
     ELSE /\ SetStat(w, "NONE")
          /\ UNCHANGED wnone
  /\ pc' = [pcs EXCEPT ![w] = Woken(@)]

(* have-task: v has the unfinished task whose result goes to addr *)
HaveTask(v, addr) ==
  \E i \in DOMAIN task[v] :
     /\ task[v][i].stat \in {"INITIALIZED", "SUSPENDED", "STARTED"}
     /\ task[v][i].rslt = addr

(* try-treq: v accepts the request of w *)
Accepts(v, w) ==
  /\ wrack[v] <= 0
  /\ task[v] # <<>>
  /\ IF AsksAny(w) THEN Top(v).stat \in {"STARTED", "INITIALIZED"}
               ELSE HaveTask(v, FromAddr(w))

-----------------------------------------------------------------------------
(* recv-exec-send: get a task, execute it, send its result. *)

(* w-none > 0: the answer to an abandoned request is still to come *)
AwaitNone(w) ==
  /\ pc[w] = "enter"
  /\ wnone[w] > 0
  /\ Goto(w, "nonewait")
  /\ UNCHANGED <<task, sub, treq, req, wnone, wrack, asking, direct, ackTo, outside, runs>>

(* woken in that loop: back to wait-rslt if the result has arrived *)
AwaitedNone(w) ==
  /\ pc[w] = "nonewake"
  /\ Goto(w, IF SubDone(w) THEN "wait" ELSE "enter")
  /\ UNCHANGED <<task, sub, treq, req, wnone, wrack, asking, direct, ackTo, outside, runs>>

(* Mutant: a new request is sent although an answer is still owed. *)
AllocateTaskAtOnce(w) ==
  /\ pc[w] = "enter"
  /\ task' = [task EXCEPT ![w] = Append(@,
        [stat |-> "ALLOCATED", rslt |-> TERM, body |-> Root, frames |-> <<>>, ret |-> FALSE])]
  /\ direct' = [direct EXCEPT ![w] = FALSE]
  /\ Goto(w, "flush")
  /\ UNCHANGED <<sub, treq, req, wnone, wrack, asking, ackTo, outside, runs>>

AllocateTask(w) ==
  /\ pc[w] = "enter"
  /\ wnone[w] = 0
  /\ task' = [task EXCEPT ![w] = Append(@,
        [stat |-> "ALLOCATED", rslt |-> TERM, body |-> Root, frames |-> <<>>, ret |-> FALSE])]
  /\ direct' = [direct EXCEPT ![w] = FALSE]
  /\ Goto(w, "flush")
  /\ UNCHANGED <<sub, treq, req, wnone, wrack, asking, ackTo, outside, runs>>

(* Mutant of flush-treq-with-none: a steal-back request for the task that was *)
(* just completed stays.                                                      *)
ToFlushAnyOnly(w, head) ==
  {i \in DOMAIN treq[w] : AlwaysFlush \/ treq[w][i].waiting = TERM}

(* flush-treq-with-none: the requests to be refused.  Those of workers that *)
(* steal back stay, except the ones that wait for the task just completed.  *)
ToFlush(w, head) ==
  {i \in DOMAIN treq[w] :
     AlwaysFlush \/ treq[w][i].waiting = TERM \/ (head # TERM /\ treq[w][i].waiting = head)}

Topmost(w, head) == {i \in ToFlush(w, head) : \A k \in ToFlush(w, head) : k <= i}

(* flush-treq-with-none-1 on the topmost of them *)
FlushOne(w, head) ==
  /\ \E i \in Topmost(w, head) :
       /\ ~Locked(treq[w][i].from)
       /\ RecvNone(treq[w][i].from, pc)
       /\ treq' = [treq EXCEPT ![w] = RemoveAt(@, i)]
  /\ UNCHANGED <<sub, req, wrack, asking, direct, ackTo, outside, runs>>

(* send-treq-to-initialize-task, top of its loop *)
FlushBeforeTreq(w) == pc[w] = "flush" /\ FlushOne(w, TERM)

SendTreq(w) ==
  /\ pc[w] = "flush"
  /\ ToFlush(w, TERM) = {}
  /\ SetStat(w, "ALLOCATED")
  /\ asking' = [asking EXCEPT ![w] =
        IF direct[w] THEN {} ELSE IF AsksAny(w) THEN Worker \ {w} ELSE {Last(sub[w]).to}]
  /\ Goto(w, "ask")
  /\ UNCHANGED <<sub, treq, req, wnone, wrack, direct, ackTo, outside, runs>>

(* recv-treq: the request is tried on v *)
TryTreqAccepted(w, v) ==
  /\ pc[w] = "ask"
  /\ v \in asking[w]
  /\ ~Locked(v)
  /\ Accepts(v, w)
  /\ treq' = [treq EXCEPT ![v] = Append(@,
        [from |-> w, waiting |-> IF AsksAny(w) THEN TERM ELSE FromAddr(w)])]
  /\ req' = [req EXCEPT ![v] = TRUE]
  /\ asking' = [asking EXCEPT ![w] = {}]
  /\ Goto(w, "reply")
  /\ UNCHANGED <<task, sub, wnone, wrack, direct, ackTo, outside, runs>>

TryTreqRefused(w, v) ==
  /\ pc[w] = "ask"
  /\ v \in asking[w]
  /\ ~Locked(v)
  /\ ~Accepts(v, w)
  /\ asking' = [asking EXCEPT ![w] = @ \ {v}]
  /\ UNCHANGED <<pc, task, sub, treq, req, wnone, wrack, direct, ackTo, outside, runs>>

(* nobody accepted: worker 0 asks outside, the others answer themselves *)
ForwardTreq(w) ==
  /\ pc[w] = "ask"
  /\ asking[w] = {}
  /\ AsksAny(w) /\ w = First
  /\ outside' = [outside EXCEPT !.treq = TRUE]
  /\ direct' = [direct EXCEPT ![w] = TRUE]
  /\ Goto(w, "reply")
  /\ UNCHANGED <<task, sub, treq, req, wnone, wrack, asking, ackTo, runs>>

RefuseTreq(w) ==
  /\ pc[w] = "ask"
  /\ asking[w] = {}
  /\ ~(AsksAny(w) /\ w = First)
  /\ RecvNone(w, [pc EXCEPT ![w] = "reply"])
  /\ UNCHANGED <<sub, treq, req, wrack, asking, direct, ackTo, outside, runs>>
-----------------------------------------------------------------------------
(* The answer: the loop around pthread-cond-wait, with thr->mut re-acquired. *)

(* The result has arrived first.  The answer, if still to come, is counted  *)
(* in w-none.  The entry is popped after a flush with the rslt-head that an *)
(* earlier occupant of the slot left there: any address.                    *)
GiveUp(w) ==
  /\ \E head \in {treq[w][i].waiting : i \in DOMAIN treq[w]} \cup {TERM} :
       task' = [task EXCEPT ![w] = WithTop(@, [Top(w) EXCEPT !.stat = "DONE", !.rslt = head])]
  /\ Goto(w, "drain")

(* Mutant: the abandoned request is forgotten. *)
AbandonForgotten(w) ==
  /\ pc[w] = "reply"
  /\ Top(w).stat # "INITIALIZED"
  /\ SubDone(w)
  /\ GiveUp(w)
  /\ UNCHANGED <<sub, treq, req, wnone, wrack, asking, direct, ackTo, outside, runs>>

Abandon(w) ==
  /\ pc[w] = "reply"
  /\ Top(w).stat # "INITIALIZED"
  /\ SubDone(w)
  /\ wnone' = [wnone EXCEPT ![w] = IF Top(w).stat # "NONE" THEN @ + 1 ELSE @]
  /\ GiveUp(w)
  /\ UNCHANGED <<sub, treq, req, wrack, asking, direct, ackTo, outside, runs>>

Sleep(w) ==
  /\ pc[w] = "reply"
  /\ Top(w).stat = "ALLOCATED"
  /\ ~SubDone(w)
  /\ Goto(w, "sleep")
  /\ UNCHANGED <<task, sub, treq, req, wnone, wrack, asking, direct, ackTo, outside, runs>>

(* none: wait for a moment on cond-r, unless the result has arrived *)
Nap(w) ==
  /\ pc[w] = "reply"
  /\ Top(w).stat = "NONE"
  /\ ~SubDone(w)
  /\ Goto(w, "nap")
  /\ UNCHANGED <<task, sub, treq, req, wnone, wrack, asking, direct, ackTo, outside, runs>>

(* the moment is over, or cond-r was broadcast *)
RetryTreq(w) ==
  /\ pc[w] = "nap"
  /\ ~SubDone(w)
  /\ Goto(w, "flush")
  /\ UNCHANGED <<task, sub, treq, req, wnone, wrack, asking, direct, ackTo, outside, runs>>

AbandonAfterNap(w) ==
  /\ pc[w] = "nap"
  /\ SubDone(w)
  /\ GiveUp(w)
  /\ UNCHANGED <<sub, treq, req, wnone, wrack, asking, direct, ackTo, outside, runs>>

StartTask(w) ==
  /\ pc[w] = "reply"
  /\ Top(w).stat = "INITIALIZED"
  /\ task' = [task EXCEPT ![w] = WithTop(@,
        [Top(w) EXCEPT !.stat = "STARTED", !.frames = <<>>, !.ret = FALSE])]
  /\ Goto(w, "run")
  /\ UNCHANGED <<sub, treq, req, wnone, wrack, asking, direct, ackTo, outside, runs>>

-----------------------------------------------------------------------------
(* The task body: nested do-twos. *)

(* the node about to be evaluated *)
Current(t) ==
  IF t.frames = <<>> THEN t.body
  ELSE LET f == Last(t.frames) IN IF f.stat2 THEN Right[f.node] ELSE Left[f.node]

CallLeaf(w) ==
  /\ pc[w] = "run"
  /\ ~Top(w).ret
  /\ Current(Top(w)) \in Leaf
  /\ runs' = [runs EXCEPT ![Current(Top(w))] = @ + 1]
  /\ task' = [task EXCEPT ![w] = WithTop(@, [Top(w) EXCEPT !.ret = TRUE])]
  /\ UNCHANGED <<pc, sub, treq, req, wnone, wrack, asking, direct, ackTo, outside>>

(* do-two: enter it and poll thr->req before stat1 *)
EnterDoTwo(w) ==
  /\ pc[w] = "run"
  /\ ~Top(w).ret
  /\ Current(Top(w)) \notin Leaf
  /\ task' = [task EXCEPT ![w] = WithTop(@, [Top(w) EXCEPT !.frames =
        Append(@, [node |-> Current(Top(w)), spawned |-> 0, stat2 |-> FALSE])])]
  /\ Goto(w, IF req[w] THEN "spawn" ELSE "run")
  /\ UNCHANGED <<sub, treq, req, wnone, wrack, asking, direct, ackTo, outside, runs>>

(* Backtracking goes from the newest do-two towards the root, stops at one *)
(* that has spawned, and spawns from the oldest it has visited.  A do-two  *)
(* in its second half is not on that path.                                 *)
OnPath(t, i) == ~t.frames[i].stat2

(* Mutant: each do-two spawns before it lets the older ones spawn. *)
SpawnableNewest(t) ==
  {i \in DOMAIN t.frames : /\ OnPath(t, i) /\ t.frames[i].spawned = 0
                           /\ \A j \in (i + 1)..Len(t.frames) : t.frames[j].spawned # 0}

Spawnable(t) ==
  {i \in DOMAIN t.frames : \A j \in i..Len(t.frames) : OnPath(t, j) => t.frames[j].spawned = 0}
     \cap {i \in DOMAIN t.frames : OnPath(t, i)}

Oldest(t) == {i \in Spawnable(t) : \A k \in Spawnable(t) : i <= k}

(* make-and-send-task for the topmost request, the requester's handler included *)
SpawnTask(w) ==
  /\ pc[w] = "spawn"
  /\ treq[w] # <<>>
  /\ \E i \in Oldest(Top(w)) :
     LET r == Last(treq[w]).from
         half == Right[Top(w).frames[i].node]
     IN  /\ ~Locked(r)
         /\ task' = [task EXCEPT
               ![w] = WithTop(@, [Top(w) EXCEPT !.frames[i].spawned = Len(sub[w]) + 1]),
               ![r] = Initialized(r, <<w, Len(sub[w]) + 1>>, half)]
         /\ pc' = [pc EXCEPT ![r] = Woken(@)]
         /\ sub' = [sub EXCEPT ![w] =
               Append(@, [stat |-> "INITIALIZED", to |-> r, body |-> half])]
  /\ treq' = [treq EXCEPT ![w] = Front(@)]
  /\ UNCHANGED <<req, wnone, wrack, asking, direct, ackTo, outside, runs>>

EndSpawn(w) ==
  /\ pc[w] = "spawn"
  /\ treq[w] = <<>> \/ Spawnable(Top(w)) = {}
  /\ req' = [req EXCEPT ![w] = treq[w] # <<>>]
  /\ Goto(w, "run")
  /\ UNCHANGED <<task, sub, treq, wnone, wrack, asking, direct, ackTo, outside, runs>>

(* Mutant: stat2 is executed here although it was given away. *)
RunStat2Anyway(w) ==
  /\ pc[w] = "run"
  /\ Top(w).ret /\ Top(w).frames # <<>>
  /\ LET f == Last(Top(w).frames)
     IN  /\ ~f.stat2
         /\ task' = [task EXCEPT ![w] = WithTop(@, [Top(w) EXCEPT
               !.frames = WithTop(@, [f EXCEPT !.stat2 = TRUE]), !.ret = FALSE])]
  /\ UNCHANGED <<pc, sub, treq, req, wnone, wrack, asking, direct, ackTo, outside, runs>>

(* stat1 is over and stat2 was not given away *)
RunStat2(w) ==
  /\ pc[w] = "run"
  /\ Top(w).ret /\ Top(w).frames # <<>>
  /\ LET f == Last(Top(w).frames)
     IN  /\ ~f.stat2 /\ f.spawned = 0
         /\ task' = [task EXCEPT ![w] = WithTop(@, [Top(w) EXCEPT
               !.frames = WithTop(@, [f EXCEPT !.stat2 = TRUE]), !.ret = FALSE])]
  /\ UNCHANGED <<pc, sub, treq, req, wnone, wrack, asking, direct, ackTo, outside, runs>>

(* stat1 is over and stat2 was given away: call wait-rslt *)
CallWaitRslt(w) ==
  /\ pc[w] = "run"
  /\ Top(w).ret /\ Top(w).frames # <<>>
  /\ ~Last(Top(w).frames).stat2 /\ Last(Top(w).frames).spawned # 0
  /\ Goto(w, "wait")
  /\ UNCHANGED <<task, sub, treq, req, wnone, wrack, asking, direct, ackTo, outside, runs>>

(* leave the newest do-two *)
FinishDoTwo(w, stat) ==
  /\ task' = [task EXCEPT ![w] = WithTop(@,
        [Top(w) EXCEPT !.stat = stat, !.frames = Front(@)])]
  /\ runs' = [runs EXCEPT ![Last(Top(w).frames).node] = @ + 1]

EndDoTwo(w) ==
  /\ pc[w] = "run"
  /\ Top(w).ret /\ Top(w).frames # <<>>
  /\ Last(Top(w).frames).stat2
  /\ FinishDoTwo(w, "STARTED")
  /\ UNCHANGED <<pc, sub, treq, req, wnone, wrack, asking, direct, ackTo, outside>>

-----------------------------------------------------------------------------
(* wait-rslt for the newest subtask *)

WaitRslt(w) ==
  /\ pc[w] = "wait"
  /\ ~SubDone(w)
  /\ SetStat(w, "SUSPENDED")
  /\ Goto(w, "enter")
  /\ UNCHANGED <<sub, treq, req, wnone, wrack, asking, direct, ackTo, outside, runs>>

GetRslt(w) ==
  /\ pc[w] = "wait"
  /\ SubDone(w)
  /\ sub' = [sub EXCEPT ![w] = Front(@)]
  /\ FinishDoTwo(w, "STARTED")
  /\ Goto(w, "run")
  /\ UNCHANGED <<treq, req, wnone, wrack, asking, direct, ackTo, outside>>

-----------------------------------------------------------------------------
(* The end of the task: rslt, rack, w-rack, flush, pop. *)

EndTask(w) ==
  /\ pc[w] = "run"
  /\ Top(w).ret /\ Top(w).frames = <<>>
  /\ Goto(w, "rslt")
  /\ UNCHANGED <<task, sub, treq, req, wnone, wrack, asking, direct, ackTo, outside, runs>>

(* Mutant: the result is taken to be the newest subtask's. *)
SendRsltToNewest(w) ==
  /\ pc[w] = "rslt"
  /\ Top(w).rslt # OUTSIDE
  /\ LET r == Top(w).rslt[1]
         id == Len(sub[r])
     IN  /\ ~Locked(r)
         /\ ackTo' = [ackTo EXCEPT ![w] = sub[r][id].to]
         /\ sub' = [sub EXCEPT ![r] = [@ EXCEPT ![id].stat = "DONE"]]
         /\ pc' = [pc EXCEPT ![w] = "rack", ![r] = Woken(@)]
  /\ UNCHANGED <<task, treq, req, wnone, wrack, asking, direct, outside, runs>>

(* recv-rslt in the owner of the subtask *)
SendRslt(w) ==
  /\ pc[w] = "rslt"
  /\ Top(w).rslt # OUTSIDE
  /\ LET r == Top(w).rslt[1]
         id == Top(w).rslt[2]
     IN  /\ ~Locked(r)
         /\ ackTo' = [ackTo EXCEPT ![w] = sub[r][id].to]
         /\ sub' = [sub EXCEPT ![r] = [@ EXCEPT ![id].stat = "DONE"]]
         /\ pc' = [pc EXCEPT ![w] = "rack", ![r] = IF id = Len(sub[r]) THEN Woken(@) ELSE @]
  /\ UNCHANGED <<task, treq, req, wnone, wrack, asking, direct, outside, runs>>

SendRsltOutside(w) ==
  /\ pc[w] = "rslt"
  /\ Top(w).rslt = OUTSIDE
  /\ outside' = [outside EXCEPT !.rack = TRUE]
  /\ Goto(w, "count")
  /\ UNCHANGED <<task, sub, treq, req, wnone, wrack, asking, direct, ackTo, runs>>

(* recv-rack, for the worker that executed the task *)
SendRack(w) ==
  /\ pc[w] = "rack"
  /\ wrack' = [wrack EXCEPT ![ackTo[w]] = @ - 1]
  /\ Goto(w, "count")
  /\ UNCHANGED <<task, sub, treq, req, wnone, asking, direct, ackTo, outside, runs>>

(* Mutant: the sender of a rslt does not expect the rack. *)
CountRackNot(w) ==
  /\ pc[w] = "count"
  /\ Goto(w, "done")
  /\ UNCHANGED <<task, sub, treq, req, wnone, wrack, asking, direct, ackTo, outside, runs>>

CountRack(w) ==
  /\ pc[w] = "count"
  /\ wrack' = [wrack EXCEPT ![w] = @ + 1]
  /\ Goto(w, "done")
  /\ UNCHANGED <<task, sub, treq, req, wnone, asking, direct, ackTo, outside, runs>>

TaskDone(w) ==
  /\ pc[w] = "done"
  /\ SetStat(w, "DONE")
  /\ Goto(w, "drain")
  /\ UNCHANGED <<sub, treq, req, wnone, wrack, asking, direct, ackTo, outside, runs>>

FlushAfterTask(w) == pc[w] = "drain" /\ FlushOne(w, Top(w).rslt)

(* deallocate-task, and return to worker() or to wait-rslt *)
DeallocateTask(w) ==
  /\ pc[w] = "drain"
  /\ ToFlush(w, Top(w).rslt) = {}
  /\ task' = [task EXCEPT ![w] = Front(@)]
  /\ Goto(w, IF Len(task[w]) = 1 THEN "enter" ELSE "wait")
  /\ UNCHANGED <<sub, treq, req, wnone, wrack, asking, direct, ackTo, outside, runs>>

-----------------------------------------------------------------------------
(* The outside: the initial task, refusals, the rack for the final result. *)

OutsideTask ==
  /\ outside.task /\ outside.treq
  /\ ~Locked(First)
  /\ task' = [task EXCEPT ![First] = Initialized(First, OUTSIDE, Root)]
  /\ pc' = [pc EXCEPT ![First] = Woken(@)]
  /\ outside' = [outside EXCEPT !.task = FALSE, !.treq = FALSE]
  /\ UNCHANGED <<sub, treq, req, wnone, wrack, asking, direct, ackTo, runs>>

OutsideNone ==
  /\ outside.treq
  /\ ~Locked(First)
  /\ RecvNone(First, pc)
  /\ outside' = [outside EXCEPT !.treq = FALSE]
  /\ UNCHANGED <<sub, treq, req, wrack, asking, direct, ackTo, runs>>

OutsideRack ==
  /\ outside.rack
  /\ wrack' = [wrack EXCEPT ![First] = @ - 1]
  /\ outside' = [outside EXCEPT !.rack = FALSE]
  /\ UNCHANGED <<pc, task, sub, treq, req, wnone, asking, direct, ackTo, runs>>

-----------------------------------------------------------------------------
Step(w) ==
  \/ AwaitNone(w) \/ AwaitedNone(w) \/ AllocateTask(w)
  \/ FlushBeforeTreq(w) \/ SendTreq(w)
  \/ \E v \in Worker : TryTreqAccepted(w, v) \/ TryTreqRefused(w, v)
  \/ ForwardTreq(w) \/ RefuseTreq(w)
  \/ Abandon(w) \/ Sleep(w) \/ Nap(w) \/ RetryTreq(w) \/ AbandonAfterNap(w)
  \/ StartTask(w)
  \/ CallLeaf(w) \/ EnterDoTwo(w) \/ SpawnTask(w) \/ EndSpawn(w)
  \/ RunStat2(w) \/ CallWaitRslt(w) \/ EndDoTwo(w) \/ WaitRslt(w) \/ GetRslt(w)
  \/ EndTask(w) \/ SendRslt(w) \/ SendRsltOutside(w) \/ SendRack(w) \/ CountRack(w)
  \/ TaskDone(w) \/ FlushAfterTask(w) \/ DeallocateTask(w)

Next ==
  \/ \E w \in Worker : Step(w)
  \/ OutsideTask \/ OutsideNone \/ OutsideRack

Spec == Init /\ [][Next]_vars

(* Every thread is scheduled, and a thread that locks a mutex released again *)
(* and again gets it; the initial task is submitted some time.               *)
FairSpec ==
  /\ Spec
  /\ \A w \in Worker : SF_vars(Step(w))
  /\ SF_vars(OutsideTask)
  /\ WF_vars(OutsideTask \/ OutsideNone)
-----------------------------------------------------------------------------
(* Properties *)

(* The requests of w that are still to be answered: accepted by some worker, or outside. *)
Unanswered(w) ==
  Cardinality({p \in UNION {{v} \X DOMAIN treq[v] : v \in Worker} : treq[p[1]][p[2]].from = w})
    + IF w = First /\ outside.treq THEN 1 ELSE 0

Expecting(w) == pc[w] \in {"reply", "sleep"} /\ Top(w).stat = "ALLOCATED"

(* Every request sent is answered exactly once: w-none and the state of the  *)
(* allocated entry account for all answers still to come, although a worker  *)
(* abandons requests and requests are refused at four places.                *)
ReplyAccounting ==
  \A w \in Worker : Unanswered(w) = wnone[w] + IF Expecting(w) THEN 1 ELSE 0

(* "We can guarantee that the response is none": a task is only ever written *)
(* into an entry whose owner waits for it; a request that was abandoned is    *)
(* never answered by a task, which would overwrite the task being executed.   *)
NoneGuarantee ==
  [][\A w \in Worker :
       task'[w] # task[w] /\ task'[w] # <<>> /\ Last(task'[w]).stat = "INITIALIZED"
       => Expecting(w) /\ wnone[w] = 0]_vars

Live == {"INITIALIZED", "STARTED", "SUSPENDED"}
ResultSent(v, j) == j = Len(task[v]) /\ pc[v] \in {"rack", "count", "done"}

(* A subtask not yet completed is executed by exactly one worker, the one    *)
(* recorded in its task-home, and the result of a task always finds its      *)
(* task-home: ids are stack heights and are used again and again.            *)
SubtaskLink ==
  /\ \A w \in Worker : \A i \in DOMAIN sub[w] :
       sub[w][i].stat = "INITIALIZED" =>
         LET v == sub[w][i].to
             E == {j \in DOMAIN task[v] : task[v][j].rslt = <<w, i>> /\ task[v][j].stat \in Live}
         IN  \E j \in E : E = {j} /\ ~ResultSent(v, j) /\ task[v][j].body = sub[w][i].body
  /\ \A v \in Worker : \A j \in DOMAIN task[v] :
       LET t == task[v][j]
       IN  t.stat \in Live /\ t.rslt # OUTSIDE /\ ~ResultSent(v, j) =>
             /\ t.rslt[2] \in DOMAIN sub[t.rslt[1]]
             /\ sub[t.rslt[1]][t.rslt[2]].stat = "INITIALIZED"
             /\ sub[t.rslt[1]][t.rslt[2]].to = v

(* The workers whose mutex w may want next while it holds its own *)
Wants(w) ==
  {r \in Worker :
     /\ Locked(w)
     /\ \/ pc[w] = "ask" /\ r \in asking[w]
        \/ /\ pc[w] = "spawn" /\ treq[w] # <<>> /\ Spawnable(Top(w)) # {}
           /\ r = Last(treq[w]).from
        \/ pc[w] = "flush" /\ \E i \in Topmost(w, TERM) : r = treq[w][i].from
        \/ pc[w] = "drain" /\ \E i \in Topmost(w, Top(w).rslt) : r = treq[w][i].from}

(* Workers never wait for each other's mutexes in a circle, although each   *)
(* takes another one's mutex while it holds its own and no order is kept.    *)
NoLockCycle ==
  ~ \E S \in (SUBSET Worker) \ {{}} : \A w \in S : Wants(w) \cap S # {}

(* wait-rslt takes whatever is on top of the subtask stack: it is the second *)
(* half of the very do-two that is being left.                               *)
OwnResult ==
  \A w \in Worker : pc[w] = "wait" =>
    /\ sub[w] # <<>>
    /\ Last(sub[w]).body = Right[Last(Top(w).frames).node]

(* n and all that is called in it; the calls made in it *)
Closed == {S \in SUBSET Node : \A n \in S : Halves(n) \subseteq S}
Subtree == [n \in Node |-> {m \in Node : \A S \in Closed : n \in S => m \in S}]
Below(n) == UNION {Halves(m) : m \in Subtree[n]}

(* Leapfrogging: a worker that waits for a subtask only takes tasks that are *)
(* part of it, so every task on its stack is a call made in the one below,   *)
(* and the C stack grows no deeper than that of a sequential execution.      *)
Leapfrogging ==
  \A w \in Worker : \A j \in 2..Len(task[w]) :
     task[w][j].stat \in Live => task[w][j].body \in Below(task[w][j-1].body)

(* w-rack is the racks owed to w, and the one taken before it was counted. *)
RackAccounting ==
  \A w \in Worker :
     wrack[w] = (IF w = First /\ outside.rack THEN 1 ELSE 0)
                - (IF pc[w] = "count" THEN 1 ELSE 0)

(* The node implements the abstract computation: whoever takes which half,  *)
(* every node is executed once, after its halves, and the root is finished. *)
FJ == INSTANCE ForkJoin
Computes == FJ!Spec

(* Every answer comes: a worker that sleeps until its request is answered    *)
(* (pthread-cond-wait on thr->cond, in both loops) does not sleep for ever.  *)
Answered == \A w \in Worker : pc[w] \in {"sleep", "nonewait"} ~> pc[w] \notin {"sleep", "nonewait"}
=============================================================================
