# A verification development for SC / Tascell

This directory holds TLA+ models of the concurrent parts of this repository,
TLC configurations that check them on small instances, and TLAPS proofs of
their main safety properties for every value of the constants.

Paths below are relative to the repository's root; its own sources are under
`src/`, so `worker.sc` is `src/sample/tcell/worker.sc`, `server.lsp` is
`src/sample/tcell/server.lsp`, `tcell.rule` is `src/rule/tcell.rule`.

## 1. The system

The repository holds the SC translator, a term rewriting system written in
Common Lisp that turns S-expression C dialects into C, and the runtimes of the
languages built with it. The largest of those is *Tascell*, a work-stealing
language: a computation runs on *workers* (POSIX threads) of *nodes*
(processes), nodes are connected by a tree of *Tascell servers* (Lisp
programs). No task is created until somebody asks for one: a worker that is
asked backtracks temporarily to its oldest undivided `do-two` or `do-many`,
gives away the second half of it, and goes on.

| component | where | state | operations | interacts by |
|---|---|---|---|---|
| worker runtime | `worker.sc`, `worker.sh` | per thread: task stack, subtask (task-home) stack, stack of accepted requests, `w-none`, `w-rack`, `w-bcak`, flags, two mutexes and two condition variables | `recv-exec-send`, `wait-rslt`, `send-treq-to-initialize-task`, `flush-treq-with-none`, `make-and-send-task`, the handlers `recv-treq/task/none/rslt/rack/bcst/bcak/cncl`, `broadcast-task` | the sender of a command to the same node executes its handler; commands to other nodes go over the socket |
| generated code | `tcell.rule` | one nested function per `do-two`/`do-many`/`catch` in progress, with what it has spawned | poll, backtrack, spawn, run or wait for the second half; throw, catch, leave a region abnormally | calls the worker runtime |
| addresses | `cmd-serial.sc` | none | copying, comparing, printing and reading addresses | worker, server |
| server routing | `server.lsp` | children and parent, unreplied requests, work sizes, pending ANY requests, recipients of broadcasts | `proc-treq/task/none/rslt/rack/bcst/bcak/leav` ... | sockets, message queues |
| message queues | `queue.lsp`, `sc-misc.lsp`, `sbcl-compat-mp.lsp` | list, lock, gate | `add-queue`, `delete-queue`, `wait-for-gate-open` | the server's processes |
| socket layers | `sock.c`, `sendrecv.c`, `sbcl-compat-socket.lsp` | descriptors | read, write | operating system |
| HSC collector | `src/rule/hsc.sc`, `hsc.rule` | two semispaces, roots reached through nested functions | `move`, breadth-first scan, allocation | generated code |
| MT-SC scheduler | `src/rule/multithread.sh`, `multithread.rule` | stack of threads with a state and a continuation | suspend, resume, `scheduling` | generated code |
| LW-SC | `src/rule/nestfunc.rule` | the term being rewritten | program transformation | translator |
| SC translator | `src/*.lsp` | the term being rewritten | pattern matching and rewriting | user |
| MCPP | `src/c2scpp` | vendored | | |

What is hard here is the worker runtime: a handler runs in the *sender's* thread,
on stacks that their owner believes are its own; a waiting worker asks for
work at the very worker that has its subtask; it may stop asking before the
answer comes; ids are stack heights and are used again; a worker holds its own
mutex while it takes another's. `PROJECT.json` lists these and the other
hazards line by line.

For each component, what makes it correct:

* workers: each half of the computation is executed once; a result reaches the
  `do-two` it belongs to; each request is answered exactly once, and a task
  never arrives in an entry that does not wait for one; no circle of mutexes; no
  circle of waiting workers;
* exceptions: a region is left only when its own subtasks have been waited for,
  whichever way it is left; only what was cancelled is aborted; nothing that was
  aborted is missing from a normal result;
* servers: each request has one answer, at its sender; the counts by which they
  choose whom to ask are right; nothing is kept that could be passed on;
* broadcasts: an acknowledgement means that everybody has the data; it comes;
* addresses: an answer returns to its sender; different senders differ;
* queues: the gate tells the truth, nothing lost or reordered, nobody sleeps
  beside a message;
* collector: the reachable graph is preserved, each object copied once, the
  room suffices;
* scheduler: each thread runs until it suspends itself, none is resumed twice.

## 2. Plan

Done, in this order, the most important behaviour first:

1. the workers of one node: `ForkJoin`, `TascellWorker`, `TascellWorkerInv`,
   `MCWorker`, `TascellWorkerProofs`, `TascellRunProofs`;
2. the servers' broadcasts, addresses and message queues: `TascellBroadcast`,
   `MCBroadcast`, `TascellBroadcastProofs`; `TascellAddress`, `MCAddress`,
   `TascellAddressProofs`;
   `SharedQueue`, `MCQueue`, `SharedQueueProofs`;
3. requests, tasks and results between nodes: `TascellServer`, `WorkSharing`,
   `MCServer`, `TascellServerProofs`;
4. exceptions and cancellation: `TascellCancel`, `MCCancel`,
   `TascellCancelProofs`;
5. the copying collector: `HscCollector`, `HeapGraph`, `MCHsc`,
   `HscCollectorProofs`.

Composition. `TascellServer` composes the servers, their links and the nodes as
the servers see them; `TascellBroadcast` does so for broadcasts. The queue
between a server's processes is in both an atomic FIFO, which is what
`SharedQueue` shows it to be (`Fifo`, `DeliveredByAllegro`). An address is in
`TascellServer` a path of hosts, which is sound because of `Identifies`.

Abstract specifications and the modules that implement them: `ForkJoin` by
`TascellWorker` (`Computes`), `WorkSharing` by `TascellServer` (`Implements`),
`HeapGraph` by `HscCollector` (`ImplementsGraph`).

Left, in the order of what it would add:

1. cncl between nodes, where the mutex that `cancel_lock` is about is that of the
   node's receiver;
2. the timing of retries (the doubling delay);
3. MT-SC: see section 7.

## 3. The modules

### ForkJoin

The promise of a node: every node of a computation tree is finished once,
after its two halves. `TascellWorker` is checked to implement it
(`Computes == FJ!Spec`, where the variable `runs` is an observer of both), and its
safety part is proved.

### TascellWorker

The workers of one node on a tree of `do-two`s; the initial task comes from
outside and its result goes there.

*State.* `task[w]` is `thr->task-top` with its `next` chain, `sub[w]` is
`thr->sub`, `treq[w]` is `thr->treq-top` (tops at the ends), `req`, `wnone`,
`wrack` the fields of those names. `frames` of a task is the chain of nested
functions of its `do-two`s, oldest first; the flag that a `do-two` has spawned is
the number of its subtask, which the properties need. The id of a subtask is its
height in the stack counted from 1, while the code counts from 0. `direct` is
`rcmd.node`, a local of `send-treq-to-initialize-task` that `recv-treq`
overwrites by OUTSIDE when it forwards the request (l. 1010): the
next tries then go outside at once. `asking` is the loop of `recv-treq`. `pc` gives
the place in the code where another thread may run:

| `pc` | code | own mutex |
|---|---|---|
| enter, nonewait, nonewake | `recv-exec-send`, waiting until `w-none` is 0 | held, waiting, held |
| flush | loop of `send-treq-to-initialize-task`: refuse accepted requests | held |
| ask | treq is sent: `recv-treq`, `try-treq` | free |
| reply, sleep, nap | waiting for the answer; `pthread-cond-wait`; timed wait after none | free |
| run | the task's body | free |
| spawn | `handle-req`: `make-and-send-task` during backtracking | held |
| rslt, rack, count, done | sending rslt and rack, `w-rack`, end | free |
| drain | the flush at the end of `recv-exec-send`, `deallocate-task` | held |
| wait | `wait-rslt` | held |

*Atomicity.* A handler executed by the sender of a command is one critical
section on the recipient's mutex, and takes no other mutex while it has it
(`recv-rslt` sends the rack afterwards): one action. What a worker does under
its own mutex without taking another's is one action too; where it takes
another's, each such command is an action, and `Locked` says that nobody else
gets in meanwhile. Between "reply" and its mutex nothing is assumed: the worker
may find its entry in any of the states the handlers leave.

*Reductions.* The unlocked read of `thr->req` at a polling point is one of the
values that an earlier locked read could have had, so polling is atomic with
entering the `do-two`. The strategies of `choose-treq` only order the candidates;
the model takes any order. `probability` is 1.0, so try-treq never refuses for
it. Spurious wakeups only repeat a test under the mutex. When a worker gives up
(`GiveUp`), the code flushes with the `rslt-head` that an earlier occupant of the
entry left behind (l. 592); the model takes any address a pending request has.
`wait-rslt` is always called with `stback`. Cancellation and exceptions are in
`TascellCancel`, requests from other nodes in `TascellServer`.

### TascellWorkerInv, TascellWorkerProofs, TascellRunProofs, MCWorker

The inductive invariant in named parts (`IInv`), the one about the order of calls
(`OrderInv`) and the one about what has been run (`RunsInv`); their proofs and what
follows from them (the first in `TascellWorkerProofs`, the others in `TascellRunProofs`,
see 6); and instances: a heap-numbered tree.

### TascellBroadcast, MCBroadcast, TascellBroadcastProofs

`broadcast-task` of a worker, `recv-bcst` and `recv-bcak` of the node,
`proc-bcst`, `proc-bcak`, `proc-leav` of the servers; links are FIFO per
direction, a server takes its messages from any link (one shared queue filled by
a reader per link). `entry` is `ts-bcst-recipients`, at most one entry per
worker, since a worker waits for its bcak (`tcell-bcst-wait-bcak` is 1). That the
servers form a tree is an assumption, in the form the proofs use: each host but the
worker's node has one link towards that node, no link leads both ways, and following them one
arrives there (`Towards`). The instance has two servers and four
nodes, one of which may leave.

### TascellAddress, MCAddress, TascellAddressProofs

How an address grows and shrinks on its way through servers, for two requests at
once, and the comparison of addresses. A request comes from an idle worker, with the
sender `<worker>`, or steals back, with `<worker, subtask>` (`Sender`). The instance is a tree of three servers,
every worker and subtask number from {0, 1}, so that all prefixes collide.
Forwarded ("f") addresses are never produced by nodes and are left out. That the
servers form a tree is the assumption `IsTree`.

### SharedQueue, MCQueue, SharedQueueProofs

A shared queue: every step of `add-queue` and `delete-queue` that touches shared
state is an action, as are the steps of the consumer's loop in
`activate-proc-cmd-process` and `monitor-and-send-queue`, which wait at the gate
without the lock. `lisp` chooses between the gates of Allegro CL, whose
scheduler evaluates the condition, and those of `sbcl-compat-mp.lsp`.

### TascellServer, WorkSharing, MCServer, TascellServerProofs

*Abstract.* In `WorkSharing` there are no servers: a node asks, is refused or is
given a task that nobody else has, executes it, and its result goes back once.
`TascellServer` implements it (`Implements`), and the safety part, `Sharing!Safe`, is proved.

*State.* One FIFO per directed link (`chan`), and per server what
`server.lsp` keeps: `talist` is `ts-talist` (requests of anyone that nobody could
be asked to serve), `failed` the list of the same name in `retry-treq`, `diff` and
`pdiff` are `child-` and `parent-diff-task-rslt`, `unreplied` is
`host-unreplied-treqs`, `valid` is `child-valid`. The terminal is the topmost
server's parent: `respond` stands for the closure in
`parent-auto-treq-response-func`, `taskHome` for `parent-task-home`. A node is what
its server sees of one with one worker: what it asks for, its stack of tasks, the
subtasks that are out, `w-rack`.

*Actions.* One per `proc-*` method, with its `:before`, `:after` and `:around`
methods, for the next message of any link; then `retry-treq`, request by
request, since each may go somewhere else (`phase` = "retry"), and after it the
requests that failed are put back (`phase` = "return"). `Send` drops what
goes to a child that has left (`send :around`), and `SendTreq` answers for it
(l. 881). Where the code throws dice (`most-divisible-child`, asking the
parent first) the model takes any outcome that has positive probability, and
`MayFail` says exactly when it may be that nobody is asked. A node answers a treq
with a task or with none as it likes, within what `try-treq` allows.

*Not in it*: children that connect during the run; forwarded requests; work
sizes, since the strategy that uses them is commented out.

### TascellCancel, MCCancel, TascellCancelProofs

Exceptions and cancellation between the workers of one node. A task runs
in a stack of frames, one per nested function in progress: its body, regions
(`do-two`, `do-many`) and catch blocks. `thr` has the fields of a worker that
matter here (`exiting`, `exception-tag`, `req-cncl`, and `sending`: it is in
`send-cncl-for-flagged-subtasks`, with its mutex); `task` and `home` those of
tasks and task-homes. The program is *any* program within the bounds: at each point
the running task may enter a region or a catch block, throw, or end what is open.
A task request is reduced to its result, a task that goes to an idle worker or to
one that steals back (`Asks`), since how it is passed on is the matter of
`TascellWorker`. `hole` observes work that was given up: a result of an
aborted or throwing subtask that is missing in what its region returns; a catch
block takes the hole with it.

*Atomicity.* A handler is one step, as before; the sending of cncls is one step
per message, since it locks the other worker's mutex while it has its own.

### HscCollector, HeapGraph, MCHsc, HscCollectorProofs

The heap of HSC with its two halves, `try-getmem`/`getmem` and the
breadth-first collection of `hsc.sc`, under any program of allocations, reads and writes
by the code that `hsc.rule` generates. A reference is a half and an
offset in words of `align-t`; objects are records at offsets, with a ghost name.
`todo` is the chain of `scan1` functions, `s`, `i` and `b` the scan pointer, the field
it is at and the end of the copies. When a half is given up its objects are gone,
so that a stale reference shows. `HeapGraph` is what the program sees: a graph of
objects in which nothing moves. It is restricted to what can be reached, as
unreachable objects have no effect.

## 4. The runs

| run | instance | states | shows |
|---|---|---|---|
| worker2 | 2 workers, 5 do-twos, 6 leaves | 5 000 | `RackAccounting`: `w-rack` is what is owed, although a rack may be taken before it is counted; `Computes`: implements ForkJoin, with liveness; `Answered`: no worker sleeps for ever |
| worker3 | 3 workers, 3 do-twos, 4 leaves | 278 000 | `ReplyAccounting`: requests and answers; `NoneGuarantee`: the claim of the comment at worker.sc:434; `SubtaskLink`, `OwnResult`: results and their task-homes; `NoLockCycle`; `Leapfrogging`; `WholeInv`: the three inductive invariants of section 6 |
| broadcast | 2 workers, 2 broadcasts each, 1 node may leave | 70 000 | `AckAccounting`: what a server remembers matches what is in transit; `Converges`: it gets empty, unless a node leaves; `ReturnMeansAll`: a broadcast that returns has reached everybody |
| broadcast_lost | 1 worker | 72 | violation of `WaitEnds`, finding 1 |
| address | 3 servers, 4 nodes | 83 000 | `RoundTrip`, `Identifies` |
| queue | 2 producers, 3 messages each | 14 000 | `GateMeansNonempty`, `NoNil`, `Fifo`, `DeliveredByAllegro`, `NextAddWakes` |
| server | 2 servers, 3 nodes, 1 may leave, 1 subtask | 532 000 | `RequestAccounting`: one request or answer per node that waits; `TaskAccounting`: a subtask is in one place; `CountersAgree`: types, and the two counters; `OneTaskAtATime`; `NothingForgotten`; `TaskToRequester` |
| server_batch | 2 servers, 2 nodes, 2 subtasks | 13 000 | `Implements`: WorkSharing; `BatchEnds`: without resending the run ends, whatever the dice |
| cancel | 3 workers, do-two, 2 tags | 254 000 | `CancelAccounting`, `OwnSubtasks` (with `TypeOK`), `RunsNormally`, `AbortedIfCancelled`, `NoHole`, `Terminates` |
| cancel_many | 3 workers, do-many of 2 | 254 000 | violation of `NoHole`, finding 2 |
| cancel_lock | 3 workers, do-two | 38 000 | violation of `FlaggedSent`, finding 3 |
| hsc | heap of 3 words, 4 allocations, 2 variables | 74 000 | `NoDangling`, `Tiled`, `ExactlyLive`, `FailsOnlyIfFull`, `CollectionEnds`, `ImplementsGraph` |

The type invariants of all these systems but the addresses are theorems (see 6).

*Bounds.* With two workers and eleven nodes a worker holds two tasks and two
subtasks at once, steals back, abandons a request and reuses subtask ids; with
three, a third worker competes for the task that a waiting one wants back and
mutexes could be taken in a circle of three. Two broadcasts per worker let a bcak
of the first meet the second. Over three servers the address of a stealing back has five elements,
one more than `MAXCMDC`, and that of an idle worker's request four. Three messages per producer let the queue become empty
and be filled again while the consumer is between the gate and the lock.
Two servers with the lower one as the upper one's eldest child let a request be
kept at both, be asked of the parent and of the terminal, and lose its sender on
the way; a second subtask lets two nodes compete. Three subtasks and
three workers let a worker steal back from a thief while a third one throws, and
let two cancel each other; three regions or catch blocks nest a region in a catch
block in a region. Three words hold one small and one larger object, or three small ones in
a cycle; the fourth allocation collects after a collection, and meets an exactly
full half (a heap of four words passes as well, with 570 000 states).

The bounds on behaviour are `MaxBcst`, `MaxAdds`, `MaxTask`, `MaxSub`,
`MaxEnter`, `MaxMany`, `MaxNew`, each named for what it counts, and `MaxAnswered`: how
often a server answers for one child that has left (each answer lets the same node ask
again, and counts down `unreplied`). The workers need none: the
computation is finite, retries return to earlier states.

*Deadlock.* It is checked for the workers: a worker without work asks again and
again, so some worker can always step. The other systems stop when their
messages are handled, the exit gate is open, the first task has ended, or `exit(1)`
was called; each cfg says so.

*Fairness.* Workers: strong fairness of each thread, that is, a thread that can
run again and again runs, and one that competes for a mutex which is released
again and again gets it; pthreads promise the first and, in practice, the second;
without it a polling worker may be starved by others. The outside answers a
request and has the initial task. Broadcasts: weak fairness of progress as a
whole, since nothing can go on for ever without a new broadcast. Queue: weak
fairness of the processes and strong fairness of the consumer's locking.
Servers: weak fairness of `retry-treq` and of the nodes; strong fairness of the
handling of each link's messages, since the messages of all links are in one queue, in the
order of their arrival, and the process does other things between two of them.
Nodes may finish their tasks at any time but must at some time; the dice are not fair.
Cancellation: weak fairness of each thread; programs are finite because of
`MaxEnter`. Spawning needs none: a request need not come. Collector: weak fairness
of the collection, which is sequential code.

## 5. Findings

1. *Lost bcak* (`broadcast_lost`). `broadcast-task` sends the bcst and only then,
   in a new critical section, sets `w-bcak`; a bcak handled in between resets a
   counter that is 0 and wakes nobody, and the worker waits for ever. A bcst of a
   node alone at its server is answered at once.
2. *Exceptions and `do-many`* (`cancel_many`). While it collects the results of its
   subtasks after one of them has thrown, `do-many` still steals back; the stolen
   task resets `exiting`, which belongs to the worker and not to the task, and the
   exception is forgotten: the region ends normally without the results of the
   subtasks that were aborted for it. `do-two` does not steal then (`NoHole` holds).
3. *cncl under the own mutex* (`cancel_lock`). `handle-reqs` and `wait-rslt` send
   cncl with the worker's mutex locked, and `recv-cncl` locks that of the
   other: two workers that cancel each other's tasks stop for ever. `Terminates`
   says that this is the only way in which a run does not end.

Smaller observations, each at its line in the hazards or in a comment of its module:

* `sbcl-compat-mp.lsp:107` tests the gate outside its mutex: with SBCL a message may
  wait for the next one (`NextAddWakes`, which holds, says that this one takes it along);
* `server.lsp:1243` counts children that have left among those that owe a bcak,
  and `server.lsp:854` drops their tasks: both are then waited for without end;
* `server.lsp:983` sends the task of a batch run again past `proc-task`, which does
  the counting. It counts the task (l. 983), but not the treq that the task answers: that was
  counted when it was sent (l. 893), and stays in the terminal's `unreplied-treqs`.
  `try-send-treq` (l. 1103) then never asks the terminal again, and the `exit` that is to follow
  the last repetition (comment at l. 139) is never sent. With `AutoResend = 1`
  TLC finds such an end of the run without `exit`; so `BatchEnds` claims it without resending only;
* `server.lsp:984` assumes, in a comment, that a task which is sent again may go to where
  the rack goes: with more than one node it may be another one that asked, which is then
  never answered, while the task is put into a worker that did not ask (see 6);
* `server.lsp:881` answers for a child that has left and still counts the answer: `unreplied`
  of that child gets negative, which is harmless as nobody asks it again;
* `address-equal` (`cmd-serial.sc:242`) compares `MAXCMDC` = 4 elements and then answers
  "equal"; a steal-back request over three servers has five (`Identifies`
  is about shorter ones);
* `set-cancelled` stops at the first subtask of the region it meets from the top,
  while the comment at `worker.sc:728` speaks of the newer ones than the eldest;
* a cncl for a task that has not started is wiped out at its start (`worker.sc:521`): the
  task runs to its end, and its result does not matter;
* `wait-rslt` frees, for a subtask that ended abnormally, its local `body` before it is
  set (`worker.sc:1428`);
* a heap that live objects fill to the last word counts as an overrun (`hsc.sc:158`);
  a `new` inside the initial values of another loses its object (`hsc.rule:189`);
  the wrapper `main` scans `argv` in place of `hsc-argv` (`hsc.sc:334`).

## 6. Proofs

### The workers

`TascellWorkerProofs` proves, for any set of workers, any computation, and both
values of `always-flush-accepted-treq`, from `WorkerAssumption` and
`ComputationAssumption` (which say no more than the types of the constants; not
even that the computation is finite):

| theorem | property | |
|---|---|---|
| `WorkerInvariant` | (`IInv`) | the inductive invariant |
| `WorkerTypes` | `TypeOK` | |
| `WorkerOwnResult` | `OwnResult` | the subtask popped by `wait-rslt` is the half of the `do-two` being left |
| `WorkerSubtaskLink` | `SubtaskLink` | subtasks and tasks correspond one to one |
| `WorkerNoneGuarantee` | `NoneGuarantee` | no task is written over another |

None of these properties is inductive. A handler is executed in its sender's
thread, in whatever state the recipient's stacks are; so the invariant has to say
what they look like at each point where the owner has no mutex, and why the sender
may count on it:

* `Stacks`, `Frames`: what may be on top of the task stack at each `pc`; below the
  top there are only suspended tasks, each in a `do-two` that gave its half away.
* `Nesting`: the ids of the subtasks grow from the oldest `do-two` of the bottom
  task to the newest one of the top task, and none is missing. Hence the newest
  subtask is that of the newest `do-two` that spawned, which `wait-rslt` relies
  on. It is kept by `SpawnTask` only because backtracking stops at a `do-two` that
  has spawned: all newer ones have not.
* `Homes`, `Executors`: each task whose result is not yet sent has a task-home not
  completed, its own, which names the worker; and the other way round. An id is
  used again only when its entry was popped, so after its result was received.
* `Requests`: an accepted request is the only one of its sender; a request of an
  idle worker means that it waits in an otherwise empty stack; one to steal back is
  held by the worker that executes the subtask its sender waits for, or by one
  that has sent its result and is about to flush the request. The last case is
  the one where the sender may already have given up, and it is answered by none:
  `make-and-send-task` cannot happen there.
* `NoneBound`: `w-none` is 0 or 1, and 0 while a request is out.

The proof has one lemma per action. Most steps are not noticed by other workers:
for these, `QuietStep` derives the parts that relate workers from the fact that
the worker's unsent tasks and its waiting are the same before and after. Steps
that change requests (`TryTreqAccepted`, the four places that refuse one,
`Abandon`) re-establish `Requests`; those that change subtasks (`SpawnTask`,
`SendRslt`, `GetRslt`) re-establish `Nesting`, `Homes` and `Executors`. The run
`worker3` checks `IInv` itself, with the two invariants below (`WholeInv`, which is the
theorem `WorkerWhole`).

### The counters of the workers

The last two parts of `TascellWorkerProofs` prove `ReplyAccounting` (`WorkerReplyAccounting`) and
`RackAccounting` (`WorkerRackAccounting`) from `IInv`.

`ReplyAccounting` counts: the requests of a worker that others hold are as many
as `w-none` and its waiting entry account for. `Requests` and `NoneBound` say that
there is one at most on either side, that it is recorded by the one or the other, and
that a request which is held is expected. `ReplyInv` is the converse: whoever
is owed an answer has a request somewhere. It is shown to be kept step by step, and
the two give the equality of the counts (`CountedRequests`).

`RackInv` says which rack comes from whom: inside the node it is sent by the thread that
has sent the result (it executes `recv-rslt`), to itself; the task
from outside is unique, executed by the first worker, and its rack is owed only once its result
was sent and until it is counted. So `w-rack` differs from 0 only between a
rack and its counting, in either order.

### The order of calls

The first part of `TascellRunProofs` proves `Leapfrogging` and `NoLockCycle` from `IInv` and one more
assumption, `CallAssumption`: a node of the computation is one execution of a call, so it
has one caller, the first task has none, and no call is made inside itself. Nothing is said of
the depth; the computation may still be infinite.

`OrderInv` relates what is on the stacks of different workers by the calls they stand for:

* `Within`, `Leap`: the do-twos of a task are calls made in it; every task above another is a call
  made in the half that the newest do-two of the lower one has given away (`Waited`). For the next
  task this is a fact about three workers. Whoever is asked to serve a steal-back
  request executes that half, perhaps far down its own stack (`Requests`); what it gives away is a call
  made in its topmost task, which by its own `Leap` is a call made in all of its tasks.
* `AsksThief`, `SentBody`: the worker that `wait-rslt` asks is the one that has the newest subtask, and it
  is this one whose result it has sent.
* `Late`: the other reason why a request may be in a stack: the holder has completed the task it was to be stolen
  back from (`Missed`). Then that task was called in everything the sender has, now and until the request
  is flushed, for the sender takes no task in between. A request comes to be missed by `SendRslt`
  under it, by `TryTreqAccepted` just after it, and by `Abandon` when the sender sees the result, and
  each must establish `Under`.

`Leapfrogging` follows from `Leap` (`CalledInside`). For `NoLockCycle`: a worker that holds its mutex and wants
that of a worker which holds its own can only be at the flush after a task
(`LockedBelow`): the requester is not waiting any more, so its request was missed, and by `Late` the
completed task was called in the topmost task of the requester. In a circle of such workers every task would have been
called in the next one, which `CallAssumption` excludes (`NoCircle`). So mutexes are taken in the
order of the calls, without the code ever comparing any. The argument is about `do-two` within one node; what
`cncl` does is the finding of `cancel_lock`.

### What the workers compute

The second part of `TascellRunProofs` proves `WorkerComputes`: `TascellWorker` implements `ForkJoin` but for its
fairness, that is `Spec => FJ!Init /\ [][FJ!Next]_runs`. Every step of the workers leaves `runs`
alone, or runs to its end one node that was not run before, and an inner node only after both its
halves. Only `CallLeaf`, `EndDoTwo` and `GetRslt` are steps of the second kind.

`IInv` says that the result a worker takes is that of the half it gave away, not that this half was
executed, nor that nobody else executes it. `RunsInv` says where every node of the computation is. It is
*called* by a worker that is about to evaluate it, *open* in a `do-two`, *idle* (nobody has begun it),
or run.

* `CalledOnce`, `OpenOnce`, `OpenNotRun`: no node is called by two workers, open in two places, or
  either of these after it was run.
* `Untouched`: the halves of a node that is idle or called are idle, and so is the second half of a
  `do-two` as long as the `do-two` neither runs it nor has given it away. This is what a worker that begins a
  half relies on, in `RunStat2` or, through `SpawnTask`, in another thread: `spawned`
  and `stat2` of the frame, which only its owner reads and writes, are all that keeps two workers from
  doing the same half. Before the first task arrives, the root is idle (`OutsideTask`).
* `Returned`, `Sound`: what has returned was run; a subtask marked `DONE` was run; the second half
  is only begun after the first was run; and nested `do-two`s are at nested nodes, so that
  the node which ends is a half of the one that goes on.

That the halves of different nodes are different, and the root is no half, is in
`CallAssumption`; a call shared by two callers would be run twice. The proof does not go through the
stacks action by action: `Calls` states `RunsInv` of *places* (worker, task, frame), and
a step does one of six things to them, from nothing (`CallsQuiet`) to the end of a `do-two`
(`CallsFinish`). That each node is run in the end is a liveness property, and stays with TLC (`Computes`).

### The shared queue

`SharedQueueProofs` proves `TypeOK`, `NoNil`, `GateMeansNonempty` and `Fifo` for
any set of producers, any `MaxAdds` and both Lisp systems, from
`QueueAssumption`. The inductive invariant adds to the types: whoever is inside
a critical section is the holder of the lock (`HolderOnly`); the gate lags behind
the queue only while a producer is at `open` or the consumer between taking the
last element and closing (`GateBehind`); the consumer has no element in hand
outside its critical section and handling (`ItemHeld`). That a gate seen open
without the lock still means an element when the lock is got is the part of `NoNil` that needs
the others: only the consumer closes the gate, and only with the lock.
`Fifo` is proved on the concatenation of handled, held and waiting messages,
which every step but `Insert` leaves alone.


### The broadcasts

`TascellBroadcastProofs` proves `TypeOK`, `AckAccounting` and `ReturnMeansAll` for any tree of servers
and nodes, any workers, any number of broadcasts at once and any nodes that leave.
The invariant `Wave` is local. For each worker and each link, with the ends `p`
(nearer to the worker's node) and `c`: the broadcast is absent, on its way
down from `p` to `c`, behind `c`, or its bcak is on its way up, and never in two of
these; `p` waits for `c` just if it is not absent. `Lossy` names the two
exceptions, each of them one of section 5: `c` is a node that has left, or `p` is the
worker's node, whose worker may have missed its bcak. A step moves the wave of one worker over
one link, or from one link of a server to others; for all others nothing changes.
That the server's `entry` is kept for the link towards the worker's node (`Remembered`)
is what connects the links of a server. No reachability is needed here; the tree only gives the
links a direction (`TreeAssumption`).

`ReturnMeansAll` (`BroadcastReturns`) is about all nodes of the tree at once. A set of hosts is
`Closed` if it holds, with a host, everyone next to it on the far side of the worker's node;
`Cover` is the largest closed set whose nodes all have the data. The invariant `Gathered`, again
of one link at a time, says that whoever has answered is in it: a node that acknowledges is a
closed set by itself, and a server passes on the last bcak when all those behind it are
covered (`ServerCover`). That a closed set with the worker's node in it holds everybody is the
part of `Towards` that speaks of arriving (`AllClosed`); it serves twice, when the wave is back,
and before the next one begins, to show that nothing is left of the last (`AllQuiet`): an old
answer would be taken for a new one.

### Addresses

`TascellAddressProofs` proves `RoundTrip` and `Identifies` for any tree of servers, any numbers
of workers and subtasks and any `MAXCMDC`. A head alone says nothing: every element means another
host at each server. The invariant (`Routed`) therefore says that there is a *route*, a sequence of
hosts from where the request is back to the node it came from, whose hosts the head names
one by one (`Leads`, `Spells`); `Forward` puts a host at the front of it, `Return` and `Answer` take one
off. `RoundTrip` is the end of the route.

`Identifies` takes two arguments along routes of any length. An address determines the route:
the first host at which two routes with the same address differ would have been named by the same
id at the same server, and `hostid` gives different hosts different ids (`HostWithId`). So equal addresses have
equal senders (`SameHead`); their ends may have different lengths, but not their routes, as one that
ends in a node cannot go on. Conversely, since a request is never sent back to where it
comes from, its route leads up and then down, and at each host the end of the route decides which
(`RouteHeads`, shown of the last host at which it would be otherwise); hence there is one route
between two nodes (`OneRoute`) and one address for a sender (`SameSender`). That going up ends at the
terminal (`IsTree`) excludes a host above itself (`NoCycle`) and two children of one server above one node
(`Siblings`).

### The servers

`TascellServerProofs` proves, for any tree of servers and nodes of any depth, any
number of subtasks and any nodes that leave:

| theorem | property | |
|---|---|---|
| `Invariance` | `IInv` | the inductive invariant |
| `RequestsAccounted` | `RequestAccounting` | one request or answer for each node that waits |
| `TasksAccounted` | `TaskAccounting` | a subtask is in one place |
| `ServersCount` | `CountersAgree` | types, `diff-task-rslt` and `unreplied-treqs` |
| `TerminalAskedOnce` | `OneTaskAtATime` | |
| `NoRequestForgotten` | `NothingForgotten` | |
| `TasksAreWaitedFor` | `TaskToRequester` | a task arrives at a node that wants that task |
| `ServersShareWork` | `Sharing!Safe` | the safety part of `Implements`, while no node leaves |

Their hypothesis is `AutoResend = 0`, the default (`server.lsp:136`, `:1383`), which
both runs have too. With resending, the next first task is sent to whoever executed the
last one (`server.lsp:984`) and not to the node that has asked:
`RequestAccounting`, `OneTaskAtATime` and `TaskToRequester` are then false with more than
one node. `BatchEnds` is stated for `AutoResend = 0`: a run with resending does not end, even
with one node (see 5). The other three hold in the instance of `server` with `AutoResend = 1` as well
(1 300 000 states), but are proved together with the ones that do not.

A property that counts is proved of the set of places it counts (`Positions`): a step
takes at most one message out of all sequences and puts in at most one (`Took`, `Gave`,
`Moves`), so each count changes by one at most. `Asked`, `Waiting`, `Where` are such
counts. What has to be known besides them is where a message goes, which only its address
says:

* `Routes`: the path in a message leads, link by link (`Way`), to the node it is for:
  that of a request to the one who asked, that of a task or result to the one who waits
  for its result (`WayHome`). So an answer is consumed by the node whose request it
  answers, although each server only looks at the first element.
* `MadeFor`: a task for a node that has asked a certain thief was made of a task that the thief
  has above the one asked about. This is what makes a subtask arrive at the node that still
  waits for it (`TaskToRequester`): while it is on the way, the thief cannot end what it
  was made of, since its result would not be complete.
* `FirstTask`: the terminal's three states (`respond`) and its counters, which tell when it
  is asked again; `Retried`: what `retry-treq` may leave in `talist`, which the steps after
  it must not spoil.

When a node leaves, its messages and those to it are dropped: the counts then hold as
inequalities (`OnePlace`), or for the nodes that are up.

`ServersShareWork` needs no further invariant. It has the hypothesis `Leaver = {}`, since in
`WorkSharing` no task is ever lost; the run `server_batch` has it too. The refinement
mapping looks for a message (`WantOf`, `StateOf`), and the counts say that there is at most one to be
found (`Once`), hence what it finds (`Found`: a node waits for what the one message about its
request shows, a task is where the one message or stack that has it is). A step of a server that passes a message on
changes its address only, so nobody sees it (`PassedOn`); one that refuses a request, or gives the
first task, changes what one node waits for. A node's step takes one message and sends one
(`Flows`), and is then a step of `WorkSharing`: `NodeTreqSeen` is `Give` when a task is made and `Refuse` when not,
`NodeTaskSeen` is `Start`, `NodeFinishSeen` is `Finish`, `NodeRsltSeen` is `Return`. That a new task
has a number that no other has ever had (`OutIsNotNew`) is the invariant's bound `id <= used`.

### Cancellation

`TascellCancelProofs` proves `TypeOK` with `OwnSubtasks`, `CancelAccounting` and
`AbortedIfCancelled` for any number of workers, subtasks, frames and tags, and for do-two and
do-many. The invariant is about two stacks of a worker, the tasks and the subtasks. A
region may be left at any depth while its subtasks are still out, with others of older regions
below and of newer tasks above them; that `wait-rslt` always takes a subtask of the region it is
called for follows from the order of the two stacks (`Nested`: subtasks lie in the order of
their owners, and of the regions of one owner) and from the counts in the frames
(`Counted`: each region has as many as `spn` says). `CancelReason` says why
somebody backtracks: it was sent a cncl, or holds an exception of a subtask.

Its second part proves `RunsNormally` and `NoHole` from `Kind \subseteq
{"two"}`: with do-many both are false (finding 2). `ExitingAsDone` ties `exiting`, which
belongs to the worker, to what its top task is doing; `HoleReason`, `FlagReason` and
`HoleCancelled` say that work is only given up where nobody will ask for it: the task was
cancelled, or an exception of a subtask, or its own, is about to leave the frame that misses
something (`Doomed`). The first task is never cancelled (`RootSafe`), so what it returns
is whole.

### The collector

`HscCollectorProofs` proves all of the collector's safety properties for any size of the
heap, any variables and any kinds of objects: `TypeOK`, `Tiled` (with the bound `Room` on the copies), `NoDangling`, `ExactlyLive`,
`FailsOnlyIfFull` and the refinement `ImplementsGraph`. The first invariant, `IInv`, is that of
Cheney's two fingers: what lies below the scan pointer refers to copies only; what lies
between it and the end of the copies may still refer to the old half; objects of the old half
refer to the old half, and their forwarding pointers to copies; the variables in
`todo` refer to the old half and the others to the new one. At `Flip` there is nothing
between the pointers, hence nothing refers to the half that is given up. `MoveSpec` says
once what `move` does to all that, for the three cases in which it is
called; the tiling is what makes the scan pointer meet an object each time.

The second, `LInv`, is about names and about what is live. `NameInv`: within a half no two objects
have one name; every copy is where a forwarding pointer leads; and a copy is a `Replica`
of its original, with fields that name the same objects whichever of them have been moved. `AllLive(h)`:
a set of objects of half `h` that holds what the variables refer to in `h`, and is closed under
references within `h`, holds all of `h`. It is kept for the new half while it grows, since a copy
is made for a reference in a variable or in an earlier copy (`AllLiveGrow`), and it passes to
the old half at `Flip`. Being reachable is defined by closed sets
(`LiveObjects` is the least one, `Reach` in `HeapGraph` likewise), so that
these proofs need no induction over paths.

* `ExactlyLive`: at "retry" the new half is empty and `AllLive(old)` holds, and names do not repeat.
* `FailsOnlyIfFull`: by injections between words and offsets. Two words of live objects lie at two places of
  the old half, in their originals, which do not overlap; each offset below `b` lies in a copy
  (`Covered`, the last object that starts no later), each offset above it in the object that did not
  fit, whose name no copy has.
* `ImplementsGraph`: `GraphOf(mem, old)` is the graph of names in the half in use. What the program
  sees is what it reaches of that graph (`AbsInv`). A scan step leaves the graph as it is;
  `Flip` leaves a part of it that is closed and holds the variables, and such a
  part has the same reachable objects (`ReachPart`). That lemma also makes each read, write and
  allocation a step of `HeapGraph`, which starts from the reachable part only.

## 7. What is only model-checked, what is not modelled

Out of the prover's reach, and left to TLC: liveness under fairness (`Computes`, `Answered`, `Converges`,
`DeliveredByAllegro`, `NextAddWakes`, `BatchEnds`, `Terminates`, `CollectionEnds`, the
fair part of `Implements`). Of `Computes` only the fair part is left: that every node is run in the end.

Not modelled:

* cncl between nodes; children that connect during a run; `dreq`/`data`, which the
  compiler's output does not use; `do-many*`, `dynamic-wind` and guards, which add
  nothing to how a region is left; profiling and command lines;
* the timing of retries, and the sizes of the free lists, `worker.sc:359`
  (the stacks of the models are unbounded);
* `worker.sc:929`, where a node's number is taken for a worker's: it shows only where the
  workers of a node and a node's siblings are in one model;
* the socket layers: `sock.c`, `sendrecv.c` and their Lisp counterpart read and write bytes; links are FIFO
  channels, and a closed connection is `Leave`;
* MT-SC: the scheduler (`multithread.sh`) is forty lines, but what it resumes are the
  nested functions that `multithread.rule` makes of a program, on a C stack that its
  nested calls share; a model would be one of the translation. Two places in it are
  listed as hazards;
* LW-SC, HSC's and Tascell's type and setting rules, the SC translator: sequential rewriting of
  terms, without a state to interleave and over data that TLC cannot enumerate usefully;
* MCPP (`src/c2scpp`): vendored; the `*-lw.c`, `*.c~` and similar files are output of the translator.

The implementation is in the `.sc`, `.lsp`, `.rule` and `.sh` files. Nearly all
`.c` and `.h` files of the repository are vendored (MCPP with its tests) or generated,
so that almost none of their lines is in the map.
