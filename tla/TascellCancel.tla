---------------------------- MODULE TascellCancel ----------------------------
(***************************************************************************)
(* Exceptions and cancellation in one computation node (worker.sc and the  *)
(* code that tcell.rule generates for do-two, do-many, throw and catch).   *)
(*                                                                         *)
(* A task runs inside a stack of frames: its body, parallel regions whose  *)
(* subtasks other workers may take, and catch blocks.  A throw backtracks  *)
(* through the frames to a catch of its tag, waiting in every region for   *)
(* the subtasks spawned there.  A subtask that ends with an exception      *)
(* raises its owner's cancellation count, and flags the subtasks that the  *)
(* exception makes useless; a cncl message raises the count of a running   *)
(* subtask.  A worker looks at count and flags when it enters a region.    *)
(*                                                                         *)
(* How a task request finds its victim is the matter of TascellWorker:     *)
(* here a task goes to any idle worker, or to one that is stealing back.   *)
(* The program run is any program within the bounds.                       *)
(***************************************************************************)
EXTENDS Integers, FiniteSets, SequencesExt

CONSTANTS
  Worker,
  Main,      \* the worker that runs the first task
  Kind,      \* the parallel regions the program uses: "two", "many"
  Tag,       \* exception tags: positive numbers
  MaxSub,    \* bound: subtasks spawned in a run
  MaxEnter,  \* bound: regions and catch blocks entered in a run
  MaxMany    \* bound: subtasks that one do-many can give away

ASSUME CancelAssumption ==
  /\ Main \in Worker
  /\ Kind \subseteq {"two", "many"}
  /\ Tag \subseteq Nat \ {0}
  /\ MaxSub \in Nat /\ MaxEnter \in Nat /\ MaxMany \in Nat

Root == 0
Task == 0..MaxSub

VARIABLES
  thr,     \* per worker: its stacks of tasks and subtasks (the top is last),
           \* exiting, exception-tag, req-cncl, and whether it is sending cncl
  task,    \* per task: stat, cancellation, frames, and what it is doing
  home,    \* per task: the task-home its owner keeps for it (region and hole
           \* are observers: the frame that spawned it, and whether work is missing)
  spawned, \* the number of subtasks spawned
  entered  \* the number of regions and catch blocks entered

vars == <<thr, task, home, spawned, entered>>

Frame == [kind : {"body", "catch", "two", "many"}, tag : Tag \cup {0},
          spn : Nat,         \* subtasks spawned by the region, not yet waited for
          hole : BOOLEAN]    \* observer: work in it was given up
NewFrame(k, g) == [kind |-> k, tag |-> g, spn |-> 0, hole |-> FALSE]

TypeOK ==
  /\ thr \in [Worker -> [tasks : Seq(Task), sub : Seq(Task),
                         exiting : {"normal", "exception", "cancel"},
                         tag : Tag \cup {0}, req_cncl : BOOLEAN,
                         sending : BOOLEAN]]
  /\ task \in [Task -> [stat : {"none", "initialized", "started", "done"},
                        pc : {"run", "wait", "unwind"}, cancellation : Nat,
                        frames : Seq(Frame)]]
  /\ home \in [Task -> [stat : {"none", "initialized", "done", "exception",
                                "aborted"},
                        owner : Task, eldest : Task, msg_cncl : 0..2,
                        tag : Tag \cup {0}, region : Nat, hole : BOOLEAN]]
  /\ spawned \in 0..MaxSub /\ entered \in 0..MaxEnter

NoTask == [stat |-> "none", pc |-> "run", cancellation |-> 0, frames |-> <<>>]
NoHome == [stat |-> "none", owner |-> Root, eldest |-> Root,
           msg_cncl |-> 0, tag |-> 0, region |-> 0, hole |-> FALSE]
Started(k) == [k EXCEPT !.stat = "started", !.cancellation = 0,
                        !.frames = <<NewFrame("body", 0)>>]

Init ==
  /\ thr = [w \in Worker |-> [tasks |-> IF w = Main THEN <<Root>> ELSE <<>>,
                              sub |-> <<>>, exiting |-> "normal", tag |-> 0,
                              req_cncl |-> FALSE, sending |-> FALSE]]
  /\ task = [t \in Task |-> IF t = Root THEN Started(NoTask) ELSE NoTask]
  /\ home = [t \in Task |-> IF t = Root THEN [NoHome EXCEPT !.stat = "initialized"]
                                        ELSE NoHome]
  /\ spawned = 0 /\ entered = 0

-----------------------------------------------------------------------------
Busy(w) == thr[w].tasks # <<>> /\ ~thr[w].sending
Top(w) == Last(thr[w].tasks)
TopFrame(t) == Last(task[t].frames)
Executor(t) == CHOOSE w \in Worker : t \in ToSet(thr[w].tasks)
HomeOf(t) == CHOOSE w \in Worker : t \in ToSet(thr[w].sub)
Unlocked(w) == ~thr[w].sending   \* thr->mut is held only while cncls are sent
Running(w) == Busy(w) /\ task[Top(w)].stat = "started" /\ task[Top(w)].pc = "run"
NoneLeftButOne(f) == f.spn <= 1   \* mutant
NoneLeft(f) == f.spn = 0     \* the subtasks of the region have been waited for
\* in wait-rslt, called by the region that is ending or being left
WaitsFor(w) == /\ Busy(w) /\ task[Top(w)].stat = "started"
               /\ task[Top(w)].pc \in {"wait", "unwind"}
               /\ TopFrame(Top(w)).spn > 0
EndedDone(s) == home[s].stat \in {"done", "exception"}   \* mutant
Ended(s) == home[s].stat \in {"done", "exception", "aborted"}

\* mutant: every subtask of owner
ToCancelAll(w, owner, eldest) ==
  {s \in ToSet(thr[w].sub) : home[s].owner = owner /\ home[s].stat = "initialized"
                             /\ home[s].msg_cncl = 0}

\* set-cancelled: flags the running subtasks of owner, from the top of the stack
\* down to the first one of the region whose eldest subtask is eldest
ToCancel(w, owner, eldest) ==
  LET sub == thr[w].sub
      seen(i) == \A j \in i + 1..Len(sub) : home[sub[j]].eldest # eldest
  IN  {sub[i] : i \in {i \in DOMAIN sub :
         seen(i) /\ home[sub[i]].owner = owner
                 /\ home[sub[i]].stat = "initialized" /\ home[sub[i]].msg_cncl = 0}}
Everything == -1    \* the null pointer given for eldest

Flagged(h, S) == [s \in Task |-> IF s \in S THEN [h[s] EXCEPT !.msg_cncl = 1] ELSE h[s]]
RaiseFlag(k, S) == [k EXCEPT !.req_cncl = @ \/ S # {}]
ToSend(w) == {s \in ToSet(thr[w].sub) : home[s].msg_cncl = 1 /\ home[s].stat = "initialized"}

\* frames with the top one gone; what was given up in it is missing in the next
Leave(fs, hole) ==
  LET below == Front(fs)
  IN  [below EXCEPT ![Len(below)].hole = @ \/ Last(fs).hole \/ hole]

-----------------------------------------------------------------------------
(* The program.                                                            *)

\* do-two, do-many and catch are entered
Enter(w, k, g) ==
  /\ Running(w) /\ entered < MaxEnter
  /\ task' = [task EXCEPT ![Top(w)].frames = Append(@, NewFrame(k, g))]
  /\ entered' = entered + 1
  /\ UNCHANGED <<thr, home, spawned>>

\* throw: handle-exception
Throw(w, g) ==
  /\ Running(w)
  /\ thr' = [thr EXCEPT ![w].exiting = "exception", ![w].tag = g]
  /\ task' = [task EXCEPT ![Top(w)].pc = "unwind"]
  /\ UNCHANGED <<home, spawned, entered>>

\* the end of a catch block, or of a region that has nothing left to wait for: what
\* was not given away the worker has done itself.  A do-many goes on throwing
EndFrame(w) ==
  LET t == Top(w) IN
  /\ Busy(w) /\ task[t].stat = "started" /\ task[t].pc \in {"run", "wait"}
  /\ TopFrame(t).kind # "body" /\ NoneLeft(TopFrame(t))
  /\ task' = [task EXCEPT
       ![t].frames = Leave(@, FALSE),
       ![t].pc = IF TopFrame(t).kind = "many" /\ thr[w].exiting = "exception"
                 THEN "unwind" ELSE "run"]
  /\ UNCHANGED <<thr, home, spawned, entered>>

\* the end of the statement of a region that has given work away: wait-rslt
StartWait(w) ==
  /\ Running(w) /\ TopFrame(Top(w)).spn > 0
  /\ task' = [task EXCEPT ![Top(w)].pc = "wait"]
  /\ UNCHANGED <<thr, home, spawned, entered>>

-----------------------------------------------------------------------------
(* handle-reqs, called when a region is entered.                           *)

\* the nested functions ask the older regions first; one that has spawned already
\* does not pass the request on
CanSpawn(f) == \/ f.kind = "two" /\ f.spn = 0
               \/ f.kind = "many" /\ f.spn < MaxMany
SpawnFrame(t) ==
  LET region == {i \in DOMAIN task[t].frames : task[t].frames[i].kind \in {"two", "many"}}
      open == {i \in region : CanSpawn(task[t].frames[i])}
      blocked(i) == \E j \in region : j > i /\ task[t].frames[j].spn > 0
  IN  {i \in open : ~blocked(i) /\ \A j \in open : ~blocked(j) => i <= j}

\* wait-rslt, while an exception is being thrown, cancels what it waits for
Useless(w) == LET s == Last(thr[w].sub) IN
  IF thr[w].exiting = "exception" THEN ToCancel(w, Top(w), home[s].eldest) ELSE {}
MustCancel(w) == thr[w].exiting = "exception" /\ Useless(w) \cup ToSend(w) # {}

\* who may be asking worker w: an idle worker, or one that steals back from w
Asks(v, w) ==
  \/ thr[v].tasks = <<>>
  \/ /\ WaitsFor(v) /\ task[Top(v)].pc = "wait"
     /\ ~MustCancel(v) /\ ~Ended(Last(thr[v].sub)) /\ Last(thr[v].sub) \in ToSet(thr[w].tasks)

\* handle-req, the nested function of the region, make-and-send-task and recv-task
Spawn(w, v) ==
  LET t == Top(w)
      s == spawned + 1 IN
  /\ Running(w) /\ v # w /\ Asks(v, w) /\ spawned < MaxSub
  /\ task[t].cancellation = 0
  /\ \E i \in SpawnFrame(t) :
       LET f == task[t].frames[i] IN
       /\ task' = [task EXCEPT ![t].frames[i].spn = @ + 1,
                               ![s].stat = "initialized"]
       /\ home' = [home EXCEPT ![s] =
            [NoHome EXCEPT !.stat = "initialized", !.owner = t, !.region = i,
               !.eldest = IF f.spn = 0 THEN s ELSE home[Last(thr[w].sub)].eldest]]
  /\ thr' = [thr EXCEPT ![w].sub = Append(@, s), ![w].exiting = "normal",
                        ![v].tasks = Append(@, s)]
  /\ spawned' = s
  /\ UNCHANGED entered

\* handle-req-cncl takes the worker's lock and keeps it until the cncls are sent
PollCncl(w) ==
  /\ Running(w) /\ thr[w].req_cncl
  /\ thr' = [thr EXCEPT ![w].sending = TRUE]
  /\ UNCHANGED <<task, home, spawned, entered>>

\* handle-cancellation
Cancel(w) ==
  /\ Running(w) /\ task[Top(w)].cancellation > 0 /\ ~thr[w].req_cncl
  /\ thr' = [thr EXCEPT ![w].exiting = "cancel"]
  /\ task' = [task EXCEPT ![Top(w)].pc = "unwind"]
  /\ UNCHANGED <<home, spawned, entered>>

\* send-cncl-for-flagged-subtasks, from the top of the stack down, one message at a
\* time; recv-cncl, which takes the lock of the other worker, finds the task there:
\* its result would have needed the lock of this one
SendCncl(w) ==
  LET s == Max(ToSend(w))
      v == Executor(s)
      S == ToCancel(v, s, Everything) IN
  /\ thr[w].sending /\ ToSend(w) # {} /\ Unlocked(v)
  /\ task' = [task EXCEPT ![s].cancellation = @ + 1]
  /\ home' = [Flagged(home, S) EXCEPT ![s].msg_cncl = 2]
  /\ thr' = [thr EXCEPT ![v] = RaiseFlag(@, S)]
  /\ UNCHANGED <<spawned, entered>>

\* handle-reqs resets req-cncl and goes on to handle-cancellation; wait-rslt does not
SendEnd(w) ==
  LET t == Top(w)
      polled == task[t].pc = "run"
      cancelled == polled /\ task[t].cancellation > 0 IN
  /\ thr[w].sending /\ ToSend(w) = {}
  /\ thr' = [thr EXCEPT ![w].sending = FALSE,
                        ![w].req_cncl = @ /\ ~polled,
                        ![w].exiting = IF cancelled THEN "cancel" ELSE @]
  /\ task' = [task EXCEPT ![t].pc = IF cancelled THEN "unwind" ELSE @]
  /\ UNCHANGED <<home, spawned, entered>>

-----------------------------------------------------------------------------
(* wait-rslt, and the nested functions when a region is left abnormally.   *)

WaitCancel(w) ==
  /\ WaitsFor(w) /\ ~Ended(Last(thr[w].sub)) /\ MustCancel(w)
  /\ home' = Flagged(home, Useless(w))
  /\ thr' = [thr EXCEPT ![w] = [RaiseFlag(@, Useless(w)) EXCEPT !.sending = TRUE]]
  /\ UNCHANGED <<task, spawned, entered>>

\* what an exception of the subtask does to exiting, and to the owner's count;
\* do-two then goes on throwing it
ExitingAfterCancel(e, thrown) == IF thrown /\ e # "cancel" THEN "exception" ELSE e  \* mutant
ExitingAfter(e, thrown) == IF thrown THEN "exception" ELSE e
TakeFlagNever(c, thrown) == c        \* mutant
TakeFlag(c, thrown) == IF thrown THEN c - 1 ELSE c
AfterGetRun(thrown) == "run"         \* mutant
AfterGet(thrown) == IF thrown THEN "unwind" ELSE "run"

\* the result is there: the end of wait-rslt and what the caller does with it
WaitEnd(w) ==
  LET t == Top(w)
      s == Last(thr[w].sub)
      thrown == home[s].stat = "exception"
      lost == home[s].stat # "done" \/ home[s].hole
      fs == [task[t].frames EXCEPT ![Len(task[t].frames)].spn = @ - 1]
      collected == task[t].pc = "wait" /\ Last(fs).kind = "two" IN
  /\ WaitsFor(w) /\ Ended(s)
  /\ thr' = [thr EXCEPT ![w].sub = Front(@),
                        ![w].exiting = ExitingAfter(@, thrown),
                        ![w].tag = IF thrown THEN home[s].tag ELSE @]
  /\ task' = [task EXCEPT
       ![home[s].owner].cancellation = TakeFlag(@, thrown),
       ![t].frames = IF collected THEN Leave(fs, lost)
                     ELSE [fs EXCEPT ![Len(fs)].hole = @ \/ lost],
       ![t].pc = IF collected THEN AfterGet(thrown) ELSE @]
  /\ UNCHANGED <<home, spawned, entered>>

\* backtracking reaches a catch block, or a region without subtasks left
Unwind(w) ==
  LET t == Top(w)
      f == TopFrame(t)
      caught == f.kind = "catch" /\ thr[w].exiting = "exception" /\ f.tag = thr[w].tag IN
  /\ Busy(w) /\ task[t].pc = "unwind" /\ f.kind # "body" /\ NoneLeft(f)
  /\ task' = [task EXCEPT ![t].frames = Front(@),
                          ![t].pc = IF caught THEN "run" ELSE @]
  /\ thr' = [thr EXCEPT ![w].exiting = IF caught THEN "normal" ELSE @]
  /\ UNCHANGED <<home, spawned, entered>>

-----------------------------------------------------------------------------
(* recv-exec-send: the task a worker received starts, and ends.            *)

Start(w) ==
  LET t == Top(w) IN
  /\ Busy(w) /\ task[t].stat = "initialized"
  /\ task' = [task EXCEPT ![t] = Started(@)]
  /\ UNCHANGED <<thr, home, spawned, entered>>

\* the reason is what the worker was doing; send-command and recv-rslt
Outcome(e) == CASE e = "normal" -> "done" [] e = "exception" -> "exception"
                [] e = "cancel" -> "aborted"

Finish(w) ==
  LET t == Top(w)
      o == home[t].owner
      why == Outcome(thr[w].exiting)
      v == HomeOf(t)
      S == IF t # Root /\ why = "exception"
           THEN ToCancel(v, o, home[t].eldest) \ {t} ELSE {} IN
  /\ Busy(w) /\ task[t].stat = "started"
  /\ TopFrame(t).kind = "body"
  /\ t # Root => Unlocked(v)
  /\ home' = [Flagged(home, S) EXCEPT ![t].stat = why, ![t].tag = thr[w].tag,
                                      ![t].hole = TopFrame(t).hole]
  /\ task' = [task EXCEPT ![t].stat = "done",
                          ![o].cancellation = IF t # Root /\ why = "exception"
                                              THEN @ + 1 ELSE @]
  /\ thr' = LET ended == [thr EXCEPT ![w].tasks = Front(@), ![w].exiting = "normal"]
            IN  IF t = Root THEN ended ELSE [ended EXCEPT ![v] = RaiseFlag(@, S)]
  /\ UNCHANGED <<spawned, entered>>

-----------------------------------------------------------------------------
Step(w) ==
  \/ \E k \in Kind : Enter(w, k, 0)
  \/ \E g \in Tag : Enter(w, "catch", g) \/ Throw(w, g)
  \/ EndFrame(w) \/ StartWait(w)
  \/ PollCncl(w) \/ Cancel(w) \/ SendCncl(w) \/ SendEnd(w)
  \/ WaitCancel(w) \/ WaitEnd(w) \/ Unwind(w)
  \/ Start(w) \/ Finish(w)

Done == home[Root].stat # "initialized"

Next == \/ \E w \in Worker : Step(w)
        \/ \E w, v \in Worker : Spawn(w, v)

Spec == Init /\ [][Next]_vars
\* the threads are scheduled fairly; the programs considered are finite
FairSpec == Spec /\ \A w \in Worker : WF_vars(Step(w))

-----------------------------------------------------------------------------
SubtasksOf(t) == {s \in Task : home[s].owner = t /\ \E w \in Worker : s \in ToSet(thr[w].sub)}

\* A task's cancellation count is the number of its subtasks that ended with an
\* exception and have not been waited for, and the cncl it has received; a cncl that
\* comes before the task starts is forgotten.  So a task that survives an exception
\* (catch) is not cancelled again for it, and one whose subtask threw is.
CancelAccounting ==
  \A t \in Task : task[t].stat = "started" =>
    LET thrown == Cardinality({s \in SubtasksOf(t) : home[s].stat = "exception"})
        cncl == IF home[t].msg_cncl = 2 THEN 1 ELSE 0
    IN  task[t].cancellation \in thrown..thrown + cncl

\* The subtask stack of a worker holds exactly what the regions still open of its
\* tasks have spawned, region by region and in their order, whichever way regions were
\* left: wait-rslt, which takes the newest, waits for a subtask of the region it is
\* called for, and no result comes for a task that has gone.
OwnSubtasks ==
  /\ TypeOK
  /\ \A w \in Worker : \A s \in ToSet(thr[w].sub) :
       /\ home[s].owner \in ToSet(thr[w].tasks)
       /\ home[s].region \in DOMAIN task[home[s].owner].frames
  /\ \A t \in Task : \A i \in DOMAIN task[t].frames : task[t].stat = "started" =>
       Cardinality({s \in SubtasksOf(t) : home[s].region = i}) = task[t].frames[i].spn
  /\ \A w \in Worker : WaitsFor(w) =>
       LET s == Last(thr[w].sub) IN
       home[s].owner = Top(w) /\ home[s].region = Len(task[Top(w)].frames)

\* A worker that is running a task is not also throwing an exception.
RunsNormally == \A w \in Worker : Running(w) => thr[w].exiting = "normal"

\* Only a task that was sent a cncl ends as aborted: the count that a subtask's
\* exception raises makes its owner backtrack, and becomes the exception on the way.
AbortedIfCancelled ==
  \A t \in Task : home[t].stat = "aborted" => home[t].msg_cncl = 2

\* If the first task ends normally no work is missing from its result, but for what
\* a catch block gave up: results of aborted subtasks, which do-two passes over, are
\* only missing where an exception is going to be thrown.
NoHole == home[Root].stat = "done" => ~home[Root].hole

\* Whatever is thrown and cancelled, the run comes to an end, unless two workers
\* lock each other out, each sending a cncl to the other: no result, flag or message
\* that a worker waits for is lost.
SendsTo(v, w) == thr[v].sending /\ ToSend(v) # {} /\ Executor(Max(ToSend(v))) = w
LockCycle == \E v, w \in Worker : SendsTo(v, w) /\ SendsTo(w, v)
Terminates == <>(Done \/ LockCycle)

\* A subtask that is flagged is sent a cncl, or ends before that.
FlaggedSent ==
  \A s \in Task : home[s].msg_cncl = 1 ~> home[s].msg_cncl = 2 \/ Ended(s)

=============================================================================
