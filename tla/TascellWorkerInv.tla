-------------------------- MODULE TascellWorkerInv --------------------------
(***************************************************************************)
(* The inductive invariant of TascellWorker, in named parts.  It is what a *)
(* reader of worker.sc has to know to see that a handler executed by       *)
(* another thread finds the stacks in the state it assumes.  The runs      *)
(* check it; TascellWorkerProofs proves it inductive.                      *)
(***************************************************************************)
EXTENDS TascellWorker

(* The status of the top of the task stack at each point of the code *)
TopStat(label) ==
  CASE label = "flush" -> {"ALLOCATED", "NONE"}
    [] label \in {"ask", "sleep"} -> {"ALLOCATED"}
    [] label = "reply" -> {"ALLOCATED", "INITIALIZED", "NONE"}
    [] label = "nap" -> {"NONE"}
    [] label \in {"run", "spawn", "rslt", "rack", "count", "done"} -> {"STARTED"}
    [] label = "drain" -> {"DONE"}
    [] label = "wait" -> {"STARTED", "SUSPENDED"}
    [] OTHER -> {"SUSPENDED"}

(* Only between two tasks the stack may be empty, and only at the top can a *)
(* task be anything but suspended.                                          *)
Stacks(w) ==
  /\ task[w] = <<>> => pc[w] \in {"enter", "nonewait", "nonewake"}
  /\ task[w] # <<>> => Top(w).stat \in TopStat(pc[w])
  /\ \A j \in 1..(Len(task[w]) - 1) : task[w][j].stat = "SUSPENDED"

(* An entry without a task, and a task that is over, have no do-two; a task *)
(* that is suspended, or about to be, is in one whose half was given away.  *)
NoFrames(label) ==
  label \in {"flush", "ask", "reply", "sleep", "nap", "rslt", "rack", "count", "done", "drain"}

Frames(w) ==
  /\ NoFrames(pc[w]) => Top(w).frames = <<>>
  /\ \A j \in DOMAIN task[w] :
       task[w][j].stat = "SUSPENDED" \/ (pc[w] = "wait" /\ j = Len(task[w])) =>
         /\ task[w][j].frames # <<>>
         /\ Last(task[w][j].frames).spawned # 0

(* The subtasks of w in the order of its do-twos: the ids grow from the      *)
(* oldest frame of the bottom task to the newest frame of the top one, no id *)
(* is missing, and each stands for the second half of its do-two.            *)
Spawned(w, j, i) == task[w][j].frames[i].spawned
Before(j, i, k, l) == j < k \/ (j = k /\ i < l)

Nesting(w) ==
  /\ \A j \in DOMAIN task[w] : \A i \in DOMAIN task[w][j].frames :
       LET f == task[w][j].frames[i]
       IN  /\ f.spawned # 0 => /\ f.spawned \in DOMAIN sub[w]
                               /\ sub[w][f.spawned].body = Right[f.node]
           /\ f.stat2 => f.spawned = 0
  /\ \A j, k \in DOMAIN task[w] :
       \A i \in DOMAIN task[w][j].frames, l \in DOMAIN task[w][k].frames :
         Before(j, i, k, l) /\ Spawned(w, j, i) # 0 /\ Spawned(w, k, l) # 0
         => Spawned(w, j, i) < Spawned(w, k, l)
  /\ \A s \in DOMAIN sub[w] :
       \E j \in DOMAIN task[w] : \E i \in DOMAIN task[w][j].frames : Spawned(w, j, i) = s

(* The j-th task of v has a result to be sent inside the node. *)
Unsent(v, j) ==
  task[v][j].stat \in Live /\ task[v][j].rslt # OUTSIDE /\ ~ResultSent(v, j)

(* It has a task-home, that no other task has. *)
HasHome(v, j) ==
  LET a == task[v][j].rslt
  IN  /\ a \in Worker \X (Nat \ {0})
      /\ a[2] \in DOMAIN sub[a[1]]
      /\ sub[a[1]][a[2]].stat = "INITIALIZED"
      /\ sub[a[1]][a[2]].to = v

Homes ==
  /\ \A v \in Worker : \A j \in DOMAIN task[v] : Unsent(v, j) => HasHome(v, j)
  /\ \A v \in Worker : \A j, k \in DOMAIN task[v] :
       Unsent(v, j) /\ task[v][k].stat \in Live /\ task[v][j].rslt = task[v][k].rslt => j = k

(* A subtask that is not completed has its task. *)
Executors ==
  \A w, v \in Worker : \A i \in DOMAIN sub[w] :
     sub[w][i].stat = "INITIALIZED" /\ sub[w][i].to = v =>
       \E j \in DOMAIN task[v] : /\ Unsent(v, j)
                                 /\ task[v][j].rslt = <<w, i>>
                                 /\ task[v][j].body = sub[w][i].body

(* w-none is at most one: no request is sent while an answer is owed. *)
NoneBound(w) ==
  /\ wnone[w] \in {0, 1}
  /\ pc[w] \in {"flush", "ask", "reply", "sleep", "nap"} => wnone[w] = 0

(* v completed the task with this address and has not left it yet. *)
Leaving(v, addr) ==
  pc[v] \in {"rack", "count", "done", "drain"} /\ Top(v).rslt = addr

(* An accepted request: anyone's, or one to steal back from v, which either *)
(* still executes the subtask its sender waits for, or is leaving it.       *)
Accepted(v, q) ==
  LET w == q.from
  IN  IF q.waiting = TERM
      THEN Expecting(w) /\ Len(task[w]) = 1
      ELSE /\ IF Expecting(w) THEN q.waiting = FromAddr(w) ELSE wnone[w] = 1
           /\ \/ /\ Expecting(w)
                 /\ \E j \in DOMAIN task[v] : Unsent(v, j) /\ task[v][j].rslt = q.waiting
              \/ Leaving(v, q.waiting)

Requests ==
  /\ \A v \in Worker : \A q \in ToSet(treq[v]) : Accepted(v, q)
  /\ \A u, v \in Worker : \A i \in DOMAIN treq[u], k \in DOMAIN treq[v] :
       treq[u][i].from = treq[v][k].from => u = v /\ i = k
  /\ outside.treq =>
       /\ Expecting(First) /\ Len(task[First]) = 1
       /\ \A v \in Worker : \A i \in DOMAIN treq[v] : treq[v][i].from # First

IInv ==
  /\ TypeOK
  /\ \A w \in Worker : Stacks(w) /\ Frames(w) /\ Nesting(w) /\ NoneBound(w)
  /\ Homes /\ Executors
  /\ Requests

-----------------------------------------------------------------------------
(* What the two accountings need beyond IInv. *)

(* Whoever waits for an answer, or is owed one, has a request. *)
HasRequest(w) == \E v \in Worker : \E i \in DOMAIN treq[v] : treq[v][i].from = w
Owed(w) == Expecting(w) \/ wnone[w] = 1
ReplyInv == \A w \in Worker : Owed(w) => HasRequest(w) \/ (w = First /\ outside.treq)

(* The task that came from outside is executed by the 0-th worker, there is *)
(* one at most, and its rack is owed only once its rslt has been sent; the   *)
(* rack for any other task goes to the worker that sends it.                *)
FromOutside(w, j) == task[w][j].rslt = OUTSIDE /\ task[w][j].stat \in Live
RackInv ==
  /\ \A w \in Worker : pc[w] = "rack" => ackTo[w] = w
  /\ outside.task => ~outside.rack
  /\ \A w \in Worker : \A j \in DOMAIN task[w] : FromOutside(w, j) =>
       /\ w = First /\ ~outside.task
       /\ outside.rack => pc[w] \in {"count", "done"} /\ j = Len(task[w])
       /\ \A k \in DOMAIN task[w] : FromOutside(w, k) => k = j

-----------------------------------------------------------------------------
(* What the order of calls needs beyond IInv. *)

(* The do-twos of a task are calls made in it, and so is each task above in  *)
(* the half that was given away by the newest do-two of the one below.       *)
Within ==
  \A w \in Worker : \A j \in DOMAIN task[w] : \A i \in DOMAIN task[w][j].frames :
     task[w][j].frames[i].node \in Subtree[task[w][j].body]

Waited(t) == Right[Last(t.frames).node]
Leap ==
  \A w \in Worker : \A j, k \in DOMAIN task[w] :
     j < k /\ task[w][k].stat \in Live => task[w][k].body \in Subtree[Waited(task[w][j])]

(* An entry without a task has the body it was allocated with. *)
Unfilled(w) == task[w] # <<>> /\ Top(w).stat \in {"ALLOCATED", "NONE"}
Fresh == \A w \in Worker : Unfilled(w) => Top(w).body = Root

(* w steals back from the worker that has its newest subtask, which executes *)
(* it or has sent its result; no other subtask is taken for it meanwhile.    *)
AsksThief ==
  \A w \in Worker : pc[w] = "ask" /\ ~AsksAny(w) => asking[w] \subseteq {Last(sub[w]).to}
SentBody ==
  \A v \in Worker : pc[v] \in {"rack", "count", "done"} /\ Top(v).rslt # OUTSIDE =>
     \A w \in Worker : \A i \in DOMAIN sub[w] :
        Top(v).rslt = <<w, i>> /\ sub[w][i].to = v => sub[w][i].body = Top(v).body

(* A request to steal back a subtask that v has completed, or that its sender *)
(* no longer waits for: it was called in all that the sender has on its stack, *)
(* then and as long as v does not refuse the request.                          *)
Executes(v, addr) == \E j \in DOMAIN task[v] : Unsent(v, j) /\ task[v][j].rslt = addr
Missed(v, q) == q.waiting # TERM /\ (~Executes(v, q.waiting) \/ wnone[q.from] = 1)
Under(v, w) ==
  /\ Top(v).body # Root
  /\ \A k \in DOMAIN task[w] : task[w][k].body # Root => Top(v).body \in Below(task[w][k].body)
Late == \A v \in Worker : \A q \in ToSet(treq[v]) : Missed(v, q) => Under(v, q.from)

OrderInv == Within /\ Leap /\ Fresh /\ AsksThief /\ SentBody /\ Late
-----------------------------------------------------------------------------
(* What the refinement of ForkJoin needs beyond IInv: where each node is.  It *)
(* is called by a worker that is about to evaluate it, open in a do-two, or   *)
(* idle: not yet begun by anybody.                                            *)
Calling(w) == task[w] # <<>> /\ Top(w).stat \in Live /\ ~Top(w).ret
Open(n) ==
  \E w \in Worker : \E j \in DOMAIN task[w] : \E i \in DOMAIN task[w][j].frames :
     task[w][j].frames[i].node = n
Idle(n) ==
  /\ runs[n] = 0
  /\ ~Open(n)
  /\ \A w \in Worker : Calling(w) => Current(Top(w)) # n

(* No node is called or open twice, or after it was run. *)
CalledOnce ==
  /\ \A v, w \in Worker :
       Calling(v) /\ Calling(w) /\ Current(Top(v)) = Current(Top(w)) => v = w
  /\ \A w \in Worker : Calling(w) => runs[Current(Top(w))] = 0 /\ ~Open(Current(Top(w)))
OpenOnce ==
  \A v, w \in Worker : \A j \in DOMAIN task[v], k \in DOMAIN task[w] :
     \A i \in DOMAIN task[v][j].frames, l \in DOMAIN task[w][k].frames :
       task[v][j].frames[i].node = task[w][k].frames[l].node => v = w /\ j = k /\ i = l
OpenNotRun == \A n \in Node : Open(n) => runs[n] = 0

(* Nobody has begun a half of a do-two that nobody has begun, the second     *)
(* half of one that neither runs it nor has given it away, or the root       *)
(* before it has come from outside.                                          *)
Due(f) == ~f.stat2 /\ f.spawned = 0
Untouched ==
  /\ \A n \in Node \ Leaf : runs[n] = 0 /\ ~Open(n) => Idle(Left[n]) /\ Idle(Right[n])
  /\ \A w \in Worker : \A j \in DOMAIN task[w] : \A i \in DOMAIN task[w][j].frames :
       Due(task[w][j].frames[i]) => Idle(Right[task[w][j].frames[i].node])
  /\ outside.task => Idle(Root)

(* What has returned was run; do-twos are nested as their nodes are. *)
Half(f) == IF f.stat2 THEN Right[f.node] ELSE Left[f.node]
Sound(t) ==
  /\ t.stat \in Live /\ t.ret => runs[Current(t)] = 1
  /\ t.stat = "SUSPENDED" => t.ret
  /\ t.stat \in {"ALLOCATED", "NONE", "INITIALIZED"} => ~t.ret
  /\ \A i \in DOMAIN t.frames :
       /\ t.frames[i].stat2 => runs[Left[t.frames[i].node]] = 1
       /\ t.frames[i].node = IF i = 1 THEN t.body ELSE Half(t.frames[i - 1])
Returned(w) ==
  /\ \A j \in DOMAIN task[w] : Sound(task[w][j])
  /\ pc[w] \in {"rslt", "wait"} => Top(w).ret
  /\ \A i \in DOMAIN sub[w] : sub[w][i].stat = "DONE" => runs[sub[w][i].body] = 1

RunsInv ==
  /\ CalledOnce /\ OpenOnce /\ OpenNotRun /\ Untouched
  /\ \A w \in Worker : Returned(w)
-----------------------------------------------------------------------------
(* All that is proved of every state, for the run that checks it first: no    *)
(* task, request, subtask or node is where the code does not expect it.        *)
WholeInv == IInv /\ OrderInv /\ RunsInv
=============================================================================
