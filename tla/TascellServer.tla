--------------------------- MODULE TascellServer ---------------------------
(***************************************************************************)
(* Requests, tasks and results on their way through a tree of Tascell      *)
(* servers (server.lsp).  A computation node asks for a task (treq any);   *)
(* its server asks one of its hosts in its place, or keeps the request in  *)
(* treq-any-list and tries again after the next messages; the answer, task *)
(* or none, takes the same way back, and so do the result of the task and  *)
(* the rack for it.  The topmost server's parent is a terminal, which in   *)
(* a batch run sends the first task, sends it again, and exits, each in    *)
(* answer to a treq.  A node is what its server sees of a node with one    *)
(* worker; TascellWorker has what goes on inside.                          *)
(***************************************************************************)
EXTENDS Integers, SequencesExt, FiniteSetsExt

CONSTANTS
  Node,         \* computation nodes
  Server,       \* Tascell servers
  Term,         \* the terminal, parent of the topmost server
  Parent,       \* [Server -> Server \cup {Term}]
  Children,     \* [Server -> Seq(Node \cup Server)], the eldest first
  Leaver,       \* nodes that may close their connection
  AutoResend,   \* auto-resend-task
  MaxTask,      \* bound: subtasks that the nodes make in all
  MaxAnswered   \* bound: requests answered for a child that has left

Host == Node \cup Server \cup {Term}
ChildrenOf(s) == Range(Children[s])
Links(s) == ChildrenOf(s) \cup {Parent[s]}
Eldest(s) == Head(Children[s])
Top == CHOOSE s \in Server : Parent[s] = Term

ASSUME TreeAssumption ==
  /\ Term \notin Node \cup Server /\ Node \cap Server = {}
  /\ Parent \in [Server -> Server \cup {Term}]
  /\ Children \in [Server -> Seq(Node \cup Server)]
  /\ \E s \in Server : \A t \in Server : Parent[t] = Term <=> t = s
  /\ \A s \in Server : IsInjective(Children[s]) /\ Children[s] # <<>>
  /\ \A s, t \in Server : t \in ChildrenOf(s) <=> Parent[t] = s
  /\ \A n \in Node : \E s \in Server : {t \in Server : n \in ChildrenOf(t)} = {s}
  /\ IsFiniteSet(Node) /\ IsFiniteSet(Server) /\ Leaver \subseteq Node
  /\ AutoResend \in Nat /\ MaxTask \in Nat /\ MaxAnswered \in Nat

ServerOf(n) == CHOOSE s \in Server : n \in ChildrenOf(s)
Edge == LET down == {p \in Server \X Host : p[2] \in Links(p[1])}
        IN  down \cup {<<p[2], p[1]>> : p \in down}

SubTask == 1..MaxTask
RootTask == {0 - k : k \in 0..AutoResend}  \* the k-th sending has rslt-head k
Task == SubTask \cup RootTask
ANY == <<Term, Term>>                    \* the treq-head "any"
AnyTask == 0                             \* what a request is for: anyone's task ...
NoTask == -1                             \* or there is no request

VARIABLES
  chan,      \* messages on their way, per directed link, in order
  phase,     \* the proc-cmd process waits for a message, or after one retries
             \* requests, and returns those that failed again to the list
  talist,    \* ts-talist: requests that nobody could be asked to serve
  failed,    \* retry-treq's failed-list
  diff,      \* child-diff-task-rslt, per server and child
  pdiff,     \* parent-diff-task-rslt
  unreplied, \* host-unreplied-treqs, per server and host
  valid,     \* child-valid, of the nodes
  respond,   \* parent-auto-treq-response-func of the terminal
  taskHome,  \* parent-task-home of the terminal: where the rack goes
  exited,    \* ts-exit-gate of the topmost server is open
  ask,       \* what a node's unanswered treq is for: NoTask, AnyTask or a subtask
  stack,     \* tasks that a node executes, each with the address for its rslt
  sub,       \* subtasks that a node waits for, with the address of the thief
  wrack,     \* w-rack of a node's worker
  up,        \* the node has not closed its connection
  used       \* subtasks made so far

serverVars == <<phase, talist, failed, diff, pdiff, unreplied, valid>>
termVars == <<respond, taskHome, exited>>
nodeVars == <<ask, stack, sub, wrack, up, used>>
vars == <<chan, serverVars, termVars, nodeVars>>

Path == Seq(Host)
Msg == [kind : {"treq"}, to : Path, from : Path, by : Node, for : {AnyTask} \cup SubTask]
       \cup [kind : {"none"}, to : Path, by : Node]
       \cup [kind : {"task"}, to : Path, from : Path, by : Node, id : Task]
       \cup [kind : {"rslt"}, to : Path, id : Task]
       \cup [kind : {"rack"}, to : Path, id : Task]
       \cup [kind : {"leav"}]
Request == [from : Host, head : Path, by : Node]

TypeOK ==
  /\ chan \in [Edge -> Seq(Msg)]
  /\ phase \in [Server -> {"wait", "retry", "return"}]
  /\ talist \in [Server -> Seq(Request)]
  /\ failed \in [Server -> Seq(Request)]
  /\ diff \in [Server -> [Node \cup Server -> Int]]
  /\ pdiff \in [Server -> Int]
  /\ unreplied \in [Server -> [Host -> Int]]
  /\ valid \in [Node -> BOOLEAN]
  /\ respond \in {"nil", "initial", "resend", "exit"}
  /\ taskHome \in SUBSET [to : Host, head : Path, no : 0..AutoResend]
  /\ exited \in BOOLEAN
  /\ ask \in [Node -> {NoTask, AnyTask} \cup SubTask]
  /\ stack \in [Node -> Seq([id : Task, back : Path])]
  /\ sub \in [Node -> Seq([id : SubTask, thief : Path, depth : Nat])]
  /\ wrack \in [Node -> Int]
  /\ up \in [Node -> BOOLEAN]
  /\ used \in 0..MaxTask

Init ==
  /\ chan = [e \in Edge |-> <<>>]
  /\ phase = [s \in Server |-> "wait"]
  /\ talist = [s \in Server |-> <<>>]
  /\ failed = [s \in Server |-> <<>>]
  /\ diff = [s \in Server |-> [h \in Node \cup Server |-> 0]]
  /\ pdiff = [s \in Server |-> 0]
  /\ unreplied = [s \in Server |-> [h \in Host |-> 0]]
  /\ valid = [n \in Node |-> TRUE]
  /\ respond = "initial"
  /\ taskHome = {}
  /\ exited = FALSE
  /\ ask = [n \in Node |-> NoTask]
  /\ stack = [n \in Node |-> <<>>]
  /\ sub = [n \in Node |-> <<>>]
  /\ wrack = [n \in Node |-> 0]
  /\ up = [n \in Node |-> TRUE]
  /\ used = 0

-----------------------------------------------------------------------------
(* Addresses and sending *)

(* head-push: the address of a message from h, as the next host sees it *)
HeadPush(h, path) == <<h>> \o path

treq(to, from, by, for) == [kind |-> "treq", to |-> to, from |-> from, by |-> by, for |-> for]
none(to, by) == [kind |-> "none", to |-> to, by |-> by]
task(to, from, by, id) == [kind |-> "task", to |-> to, from |-> from, by |-> by, id |-> id]
rslt(to, id) == [kind |-> "rslt", to |-> to, id |-> id]
rack(to, id) == [kind |-> "rack", to |-> to, id |-> id]
leav == [kind |-> "leav"]

Invalid(h) == h \in Node /\ ~valid[h]

(* send, with its :around method: what goes to a child that has left is     *)
(* dropped.  What goes to the terminal is only printed.                     *)
Send(c, s, h, m) ==
  IF Invalid(h) \/ h = Term THEN c ELSE [c EXCEPT ![<<s, h>>] = Append(@, m)]

Receives(a, b) == chan[<<a, b>>] # <<>>
Received(a, b) == Head(chan[<<a, b>>])
Taken(a, b) == [chan EXCEPT ![<<a, b>>] = Tail(@)]

(* Mutant: a child that has left is sent the request like any other. *)
SendTreqUnchecked(c, s, h, to, r, for) ==
  /\ chan' = IF Invalid(h) THEN c ELSE Send(c, s, h, treq(to, r.head, r.by, for))
  /\ unreplied' = [unreplied EXCEPT ![s][h] = @ + 1]
  /\ UNCHANGED <<diff, pdiff, respond, exited>>

(* send-treq to h for the request r.  A child that has left is answered for  *)
(* with none.  A treq that is sent counts as unreplied; one that reaches the *)
(* terminal calls the response function, once: it puts the first task into   *)
(* the server's own queue, or sends the task again, past proc-task, or exits.*)
SendTreq(c, s, h, to, r, for) ==
  IF Invalid(h)
  THEN /\ unreplied[s][h] > -MaxAnswered
       /\ chan' = Send(c, s, Head(r.head), none(Tail(r.head), r.by))
       /\ unreplied' = [unreplied EXCEPT ![s][h] = @ - 1]
       /\ UNCHANGED <<diff, pdiff, respond, exited>>
  ELSE /\ unreplied' = [unreplied EXCEPT ![s][h] = @ + 1]
       /\ IF h # Term
          THEN /\ chan' = Send(c, s, h, treq(to, r.head, r.by, for))
               /\ UNCHANGED <<diff, pdiff, respond, exited>>
          ELSE LET home == CHOOSE t \in taskHome : TRUE
               IN  /\ respond' = "nil"
                   /\ exited' = (respond = "exit")
                   /\ chan' = CASE respond = "initial" ->
                                     [c EXCEPT ![<<Term, s>>] = Append(@, task(r.head, <<>>, r.by, 0))]
                                [] respond = "resend" ->
                                     Send(c, s, home.to, task(home.head, <<Term>>, r.by, -home.no))
                                [] OTHER -> c
                   /\ IF respond = "resend"
                      THEN /\ diff' = [diff EXCEPT ![s][home.to] = @ + 1]
                           /\ pdiff' = [pdiff EXCEPT ![s] = @ + 1]
                      ELSE UNCHANGED <<diff, pdiff>>

-----------------------------------------------------------------------------
(* Whom a request for anyone's task may go to: try-send-treq-any *)

(* Mutant: the request that waits for the terminal's answer is forgotten. *)
MayAskParentAgain(s) == Parent[s] = Term => pdiff[s] <= 0

(* try-send-treq :around, for the terminal: one request at a time, and only *)
(* when the tasks it gave have been done                                    *)
MayAskParent(s) == Parent[s] = Term => pdiff[s] <= 0 /\ unreplied[s][Term] <= 0

(* most-divisible-child: any child that was sent more tasks than it has     *)
(* returned results; try-send-treq :around, for a child, asks for the same  *)
Divisible(s, from) == {c \in ChildrenOf(s) : c # from /\ diff[s][c] > 0}

(* The first alternative is taken at random, one time in ts-n-children. *)
AsksParentFirst(s, from) == Parent[s] # Term /\ Parent[s] # from
AlwaysAsksParent(s, from) == AsksParentFirst(s, from) /\ Len(Children[s]) = 1

ElectedToAsk(s, from) ==
  Divisible(s, from) = {} /\ from = Eldest(s) /\ MayAskParent(s)

Targets(s, from) ==
  IF AlwaysAsksParent(s, from) THEN {Parent[s]}
  ELSE Divisible(s, from)
       \cup (IF AsksParentFirst(s, from) \/ ElectedToAsk(s, from) THEN {Parent[s]} ELSE {})

(* it may be that nobody is asked *)
MayFail(s, from) ==
  ~AlwaysAsksParent(s, from) /\ Divisible(s, from) = {} /\ ~ElectedToAsk(s, from)

(* push-treq-any: the eldest child's first, the others' second *)
Push(s, list, r) ==
  IF r.from = Eldest(s) \/ list = <<>> THEN <<r>> \o list
  ELSE <<Head(list), r>> \o Tail(list)

(* refuse-treq: keep the request, or answer none if it is kept already *)
RefuseTreq(c, s, r) ==
  LET known == \E i \in DOMAIN talist[s] : talist[s][i].from = r.from /\ talist[s][i].head = r.head
  IN  /\ chan' = IF known THEN Send(c, s, r.from, none(Tail(r.head), r.by)) ELSE c
      /\ talist' = IF known THEN talist ELSE [talist EXCEPT ![s] = Push(s, @, r)]
      /\ UNCHANGED <<diff, pdiff, unreplied, respond, exited>>

-----------------------------------------------------------------------------
(* The server's handlers.  A message from h has been read and queued; after  *)
(* each message that is handled retry-treq runs.                             *)

Handles(s, h, kind) ==
  /\ phase[s] = "wait"
  /\ Receives(h, s) /\ Received(h, s).kind = kind
  /\ phase' = [phase EXCEPT ![s] = "retry"]

(* proc-treq *)
ProcTreq(s, h) ==
  LET m == Received(h, s)
      r == [from |-> h, head |-> HeadPush(h, m.from), by |-> m.by]
  IN  /\ Handles(s, h, "treq")
      /\ IF m.to = ANY
         THEN \/ \E t \in Targets(s, h) : SendTreq(Taken(h, s), s, t, ANY, r, AnyTask)
                                          /\ UNCHANGED talist
              \/ MayFail(s, h) /\ RefuseTreq(Taken(h, s), s, r)
         ELSE /\ SendTreq(Taken(h, s), s, Head(m.to), Tail(m.to), r, m.for)
              /\ UNCHANGED talist
      /\ UNCHANGED <<failed, valid, taskHome, nodeVars>>

(* Mutant: answers are not counted. *)
RepliedByNobody(s, h) == unreplied

(* proc-task and proc-none :before *)
RepliedBy(s, h) == [unreplied EXCEPT ![s][h] = @ - 1]

(* proc-task with its :before methods, and the :after method of the terminal *)
ProcTask(s, h) ==
  LET m == Received(h, s)
      to == Head(m.to)
  IN  /\ Handles(s, h, "task")
      /\ chan' = Send(Taken(h, s), s, to, task(Tail(m.to), HeadPush(h, m.from), m.by, m.id))
      /\ unreplied' = RepliedBy(s, h)
      /\ pdiff' = IF h = Parent[s] THEN [pdiff EXCEPT ![s] = @ + 1] ELSE pdiff
      /\ diff' = IF to \in ChildrenOf(s) THEN [diff EXCEPT ![s][to] = @ + 1] ELSE diff
      /\ taskHome' = IF h = Term THEN {[to |-> to, head |-> Tail(m.to), no |-> 0]} ELSE taskHome
      /\ UNCHANGED <<talist, failed, valid, respond, exited, nodeVars>>

(* proc-none *)
ProcNone(s, h) ==
  LET m == Received(h, s)
  IN  /\ Handles(s, h, "none")
      /\ chan' = Send(Taken(h, s), s, Head(m.to), none(Tail(m.to), m.by))
      /\ unreplied' = RepliedBy(s, h)
      /\ UNCHANGED <<talist, failed, diff, pdiff, valid, termVars, nodeVars>>

(* Mutant: results of child servers are not counted. *)
ReturnedByNode(s, h) == IF h \in Node THEN [diff EXCEPT ![s][h] = @ - 1] ELSE diff

(* proc-rslt :before *)
ReturnedBy(s, h) == IF h \in ChildrenOf(s) THEN [diff EXCEPT ![s][h] = @ - 1] ELSE diff

(* the rslt-head of the terminal's task counts how often it was sent *)
SendAgain(home) == home.no < AutoResend

(* proc-rslt, and send-rslt's :after methods: for a terminal the rack is sent *)
(* at once, and the response to the next treq is to send the task again, with *)
(* the next rslt-head, or to exit.                                            *)
ProcRslt(s, h) ==
  LET m == Received(h, s)
      to == Head(m.to)
  IN  /\ Handles(s, h, "rslt")
      /\ diff' = ReturnedBy(s, h)
      /\ pdiff' = IF to = Parent[s] THEN [pdiff EXCEPT ![s] = @ - 1] ELSE pdiff
      /\ IF to # Term
         THEN chan' = Send(Taken(h, s), s, to, rslt(Tail(m.to), m.id)) /\ UNCHANGED termVars
         ELSE LET home == CHOOSE t \in taskHome : TRUE
                  again == SendAgain(home)
              IN  /\ chan' = Send(Taken(h, s), s, home.to, rack(home.head, m.id))
                  /\ respond' = IF again THEN "resend" ELSE "exit"
                  /\ taskHome' = IF again THEN {[home EXCEPT !.no = @ + 1]} ELSE {}
                  /\ UNCHANGED exited
      /\ UNCHANGED <<talist, failed, unreplied, valid, nodeVars>>

(* proc-rack *)
ProcRack(s, h) ==
  LET m == Received(h, s)
  IN  /\ Handles(s, h, "rack")
      /\ chan' = Send(Taken(h, s), s, Head(m.to), rack(Tail(m.to), m.id))
      /\ UNCHANGED <<talist, failed, diff, pdiff, unreplied, valid, termVars, nodeVars>>

(* proc-leav: invalidate-child *)
ProcLeav(s, h) ==
  /\ Handles(s, h, "leav")
  /\ chan' = Taken(h, s)
  /\ valid' = [valid EXCEPT ![h] = FALSE]
  /\ UNCHANGED <<talist, failed, diff, pdiff, unreplied, termVars, nodeVars>>

(* Mutant, the obsolete version of retry-treq: the first failure ends it. *)
RetryOneObsolete(s) ==
  LET r == Head(talist[s])
  IN  /\ phase[s] = "retry" /\ talist[s] # <<>>
      /\ \/ /\ \E t \in Targets(s, r.from) : SendTreq(chan, s, t, ANY, r, AnyTask)
            /\ talist' = [talist EXCEPT ![s] = Tail(@)]
            /\ UNCHANGED phase
         \/ /\ MayFail(s, r.from)
            /\ phase' = [phase EXCEPT ![s] = "wait"]
            /\ UNCHANGED <<chan, talist, unreplied, diff, pdiff, respond, exited>>
      /\ UNCHANGED <<failed, valid, taskHome, nodeVars>>

(* Mutant: a request that could be passed on is put back all the same. *)
RetryOneTwice(s) ==
  LET r == Head(talist[s])
  IN  /\ phase[s] = "retry" /\ talist[s] # <<>>
      /\ talist' = [talist EXCEPT ![s] = Tail(@)]
      /\ failed' = [failed EXCEPT ![s] = <<r>> \o @]
      /\ \/ \E t \in Targets(s, r.from) : SendTreq(chan, s, t, ANY, r, AnyTask)
         \/ /\ MayFail(s, r.from)
            /\ UNCHANGED <<chan, unreplied, diff, pdiff, respond, exited>>
      /\ UNCHANGED <<phase, valid, taskHome, nodeVars>>

(* retry-treq: every request in treq-any-list is popped and tried again ...  *)
RetryOne(s) ==
  LET r == Head(talist[s])
  IN  /\ phase[s] = "retry" /\ talist[s] # <<>>
      /\ talist' = [talist EXCEPT ![s] = Tail(@)]
      /\ \/ \E t \in Targets(s, r.from) : SendTreq(chan, s, t, ANY, r, AnyTask)
                                          /\ UNCHANGED failed
         \/ /\ MayFail(s, r.from)
            /\ failed' = [failed EXCEPT ![s] = <<r>> \o @]
            /\ UNCHANGED <<chan, unreplied, diff, pdiff, respond, exited>>
      /\ UNCHANGED <<phase, valid, taskHome, nodeVars>>

(* ... until none is left *)
AllRetried(s) == phase[s] = "retry" /\ talist[s] = <<>>

(* Mutant: the requests that failed again are not put back. *)
RetryEndDrop(s) ==
  /\ AllRetried(s)
  /\ phase' = [phase EXCEPT ![s] = "wait"]
  /\ failed' = [failed EXCEPT ![s] = <<>>]
  /\ UNCHANGED <<chan, talist, diff, pdiff, unreplied, valid, termVars, nodeVars>>

(* ... and those that failed again are put back, one after the other *)
RetryEnd(s) ==
  /\ AllRetried(s) \/ phase[s] = "return"
  /\ IF failed[s] = <<>>
     THEN /\ phase' = [phase EXCEPT ![s] = "wait"]
          /\ UNCHANGED <<talist, failed>>
     ELSE /\ phase' = [phase EXCEPT ![s] = IF Len(failed[s]) = 1 THEN "wait" ELSE "return"]
          /\ talist' = [talist EXCEPT ![s] = Push(s, @, Head(failed[s]))]
          /\ failed' = [failed EXCEPT ![s] = Tail(@)]
  /\ UNCHANGED <<chan, diff, pdiff, unreplied, valid, termVars, nodeVars>>

-----------------------------------------------------------------------------
(* The node, with one worker *)

NodeSends(n, c, m) == [c EXCEPT ![<<n, ServerOf(n)>>] = Append(@, m)]
NodeTaken(n) == Taken(ServerOf(n), n)
NodeReceives(n, kind) ==
  /\ up[n] /\ Receives(ServerOf(n), n)
  /\ Received(ServerOf(n), n).kind = kind

(* the subtasks of the task on top of the stack that are still out *)
OwnSubs(n) == {i \in DOMAIN sub[n] : sub[n][i].depth = Len(stack[n])}
WaitsForSub(n) == ask[n] \in {sub[n][i].id : i \in DOMAIN sub[n]}

(* recv-exec-send: an idle worker asks anyone, one that waits for a result   *)
(* asks the thief; never before the answer to its last treq has come         *)
NodeAsk(n) ==
  /\ up[n] /\ ask[n] = NoTask
  /\ IF stack[n] = <<>>
     THEN /\ ask' = [ask EXCEPT ![n] = AnyTask]
          /\ chan' = NodeSends(n, chan, treq(ANY, <<>>, n, AnyTask))
     ELSE LET last == Last(sub[n])
          IN  /\ OwnSubs(n) # {}
              /\ ask' = [ask EXCEPT ![n] = last.id]
              /\ chan' = NodeSends(n, chan, treq(last.thief, <<>>, n, last.id))
  /\ UNCHANGED <<serverVars, termVars, stack, sub, wrack, up, used>>

(* try-treq *)
MayAccept(n, m) ==
  /\ wrack[n] = 0 /\ stack[n] # <<>>
  /\ IF m.for = AnyTask THEN ~WaitsForSub(n)
     ELSE m.for \in {stack[n][i].id : i \in DOMAIN stack[n]}

(* recv-treq, and the do-two or the flush that answers an accepted request *)
NodeTreq(n) ==
  LET m == Received(ServerOf(n), n)
      id == used + 1
  IN  /\ NodeReceives(n, "treq")
      /\ \/ /\ MayAccept(n, m) /\ used < MaxTask
            /\ used' = id
            /\ sub' = [sub EXCEPT ![n] =
                         Append(@, [id |-> id, thief |-> m.from, depth |-> Len(stack[n])])]
            /\ chan' = NodeSends(n, NodeTaken(n), task(m.from, <<>>, m.by, id))
         \/ /\ chan' = NodeSends(n, NodeTaken(n), none(m.from, m.by))
            /\ UNCHANGED <<sub, used>>
      /\ UNCHANGED <<serverVars, termVars, ask, stack, wrack, up>>

(* recv-task *)
NodeTask(n) ==
  LET m == Received(ServerOf(n), n)
  IN  /\ NodeReceives(n, "task")
      /\ ask' = [ask EXCEPT ![n] = NoTask]
      /\ stack' = [stack EXCEPT ![n] = Append(@, [id |-> m.id, back |-> m.from])]
      /\ chan' = NodeTaken(n)
      /\ UNCHANGED <<serverVars, termVars, sub, wrack, up, used>>

(* recv-none *)
NodeNone(n) ==
  /\ NodeReceives(n, "none")
  /\ ask' = [ask EXCEPT ![n] = NoTask]
  /\ chan' = NodeTaken(n)
  /\ UNCHANGED <<serverVars, termVars, stack, sub, wrack, up, used>>

(* recv-exec-send: the task on top of the stack ends when its subtasks have *)
NodeFinish(n) ==
  /\ up[n] /\ stack[n] # <<>> /\ OwnSubs(n) = {}
  /\ chan' = NodeSends(n, chan, rslt(Last(stack[n]).back, Last(stack[n]).id))
  /\ stack' = [stack EXCEPT ![n] = Front(@)]
  /\ wrack' = [wrack EXCEPT ![n] = @ + 1]
  /\ UNCHANGED <<serverVars, termVars, ask, sub, up, used>>

(* Mutant: the state of the subtask is not changed. *)
SubsKept(n, i) == sub[n]

(* search-task-home-by-id has found the i-th subtask: it is done *)
SubsWithout(n, i) == RemoveAt(sub[n], i)

(* recv-rslt *)
NodeRslt(n) ==
  LET m == Received(ServerOf(n), n)
      i == CHOOSE j \in DOMAIN sub[n] : sub[n][j].id = m.id
  IN  /\ NodeReceives(n, "rslt")
      /\ sub' = [sub EXCEPT ![n] = SubsWithout(n, i)]
      /\ chan' = NodeSends(n, NodeTaken(n), rack(sub[n][i].thief, m.id))
      /\ UNCHANGED <<serverVars, termVars, ask, stack, wrack, up, used>>

(* recv-rack *)
NodeRack(n) ==
  /\ NodeReceives(n, "rack")
  /\ wrack' = [wrack EXCEPT ![n] = @ - 1]
  /\ chan' = NodeTaken(n)
  /\ UNCHANGED <<serverVars, termVars, ask, stack, sub, up, used>>

(* the connection is closed: the server's reader turns the end of file into leav *)
Leave(n) ==
  /\ n \in Leaver /\ up[n]
  /\ up' = [up EXCEPT ![n] = FALSE]
  /\ chan' = NodeSends(n, chan, leav)
  /\ UNCHANGED <<serverVars, termVars, ask, stack, sub, wrack, used>>

-----------------------------------------------------------------------------
Proc(s, h) ==
  \/ ProcTreq(s, h) \/ ProcTask(s, h) \/ ProcNone(s, h) \/ ProcRslt(s, h) \/ ProcRack(s, h)
  \/ h \in Node /\ ProcLeav(s, h)
Retry(s) == RetryOne(s) \/ RetryEnd(s)

NodeRecv(n) == NodeTreq(n) \/ NodeTask(n) \/ NodeNone(n) \/ NodeRslt(n) \/ NodeRack(n)
NodeStep(n) == NodeRecv(n) \/ NodeAsk(n) \/ NodeFinish(n)

(* When the exit gate is open the server is cleaned up and every process ends. *)
Next ==
  /\ ~exited
  /\ \/ \E s \in Server : Retry(s) \/ \E h \in Links(s) : Proc(s, h)
     \/ \E n \in Node : NodeStep(n) \/ Leave(n)

Spec == Init /\ [][Next]_vars

-----------------------------------------------------------------------------
(* Properties *)

(* in how many places of the sequences c[x], for x in at, there is a P *)
Places(at, c, P(_)) ==
  Cardinality(UNION {{x} \X {i \in DOMAIN c[x] : P(c[x][i])} : x \in at})

Sent(a, b, kinds) == Places({<<a, b>>}, chan, LAMBDA m : m.kind \in kinds)
OnTheWay(P(_)) == Places(Edge, chan, P)
Kept(n) == Places(Server, talist, LAMBDA r : r.by = n) + Places(Server, failed, LAMBDA r : r.by = n)

(* Every node that waits for an answer has one request, or one answer, on   *)
(* its way or kept by a server, and no other node has any: none of them is  *)
(* lost, answered twice, or answered to another node, over any number of    *)
(* servers and retries.                                                     *)
RequestAccounting ==
  ~exited =>
    \A n \in {m \in Node : up[m]} :
      OnTheWay(LAMBDA m : m.kind \in {"treq", "none", "task"} /\ m.by = n) + Kept(n)
        = IF ask[n] = NoTask THEN 0 ELSE 1

(* recv-task assumes that the worker it finds in the address still waits: it *)
(* is idle and has asked anyone, or the subtask for which it asked the thief  *)
(* is still out (worker.sc l.425: else the answer is a none).                 *)
TaskToRequester ==
  [][\A n \in Node : Len(stack'[n]) > Len(stack[n]) =>
        (ask[n] = AnyTask /\ stack[n] = <<>>) \/ WaitsForSub(n)]_vars

(* A subtask that somebody waits for is in one place -- on its way, executed, *)
(* or its result on its way back -- and a task nobody waits for in none,     *)
(* unless a node has taken it along when it left.                           *)
TaskAccounting ==
  (\A n \in Node : up[n]) => \A id \in SubTask :
    LET waiting == Places(Node, sub, LAMBDA t : t.id = id)
        running == Places(Node, stack, LAMBDA t : t.id = id)
    IN  /\ waiting <= 1
        /\ waiting = running + OnTheWay(LAMBDA m : m.kind \in {"task", "rslt"} /\ m.id = id)

(* diff-task-rslt, by which the server chooses whom to ask, agrees with what  *)
(* the child has, and with the child server's own count of its parent's tasks.*)
(* It is never negative, which proc-rslt warns of.                            *)
Diffs ==
  \A s \in Server : \A c \in ChildrenOf(s) \ Leaver :
    diff[s][c] = Sent(s, c, {"task"}) + Sent(c, s, {"rslt"})
                   + IF c \in Node THEN Len(stack[c]) ELSE pdiff[c]

(* l.111: unreplied-treqs is the number of treqs sent less that of the tasks *)
(* and nones received: for a node, those that it has not answered.           *)
Unreplied ==
  \A s \in Server : \A n \in ChildrenOf(s) \cap Node :
    up[n] => unreplied[s][n] = Sent(s, n, {"treq"}) + Sent(n, s, {"none", "task"})

(* The variables keep their types, and the two counters by which a server  *)
(* chooses whom to ask agree with what is on the links and with the hosts'  *)
(* own state.                                                               *)
CountersAgree == TypeOK /\ Diffs /\ Unreplied

(* l.1094: the terminal is asked for one task at a time, when the tasks it    *)
(* gave have been done.                                                       *)
OneTaskAtATime == unreplied[Top][Term] + pdiff[Top] <= 1

(* While a server waits for messages it keeps no request that it could pass *)
(* on: no child has a task to divide, and the terminal need not be asked.   *)
NothingForgotten ==
  \A s \in Server : phase[s] = "wait" =>
    \A i \in DOMAIN talist[s] : MayFail(s, talist[s][i].from)

(* Threads go on.  Messages are handled in the order in which they arrived,   *)
(* so none waits for ever while others are handled, although the process does *)
(* something else in between: strong fairness per link.                      *)
FairSpec ==
  /\ Spec
  /\ \A s \in Server : /\ WF_vars(~exited /\ Retry(s))
                       /\ \A h \in Links(s) : SF_vars(~exited /\ Proc(s, h))
  /\ \A n \in Node : /\ WF_vars(~exited /\ NodeRecv(n))
                     /\ WF_vars(~exited /\ NodeAsk(n))
                     /\ WF_vars(~exited /\ NodeFinish(n))

(* A batch run without resending ends: the first task is done, its result is  *)
(* returned, and the server asks the terminal once more, which makes it exit. *)
(* With resending it never does: the task that is sent again goes past        *)
(* proc-task, so that one treq to the terminal stays unreplied (l.893) and    *)
(* try-send-treq does not ask it again (l.1103).                              *)
BatchEnds == AutoResend = 0 => <>exited

(* The servers implement WorkSharing.  What a node waits for is found from the *)
(* messages on their way, and where a task is from messages and stacks.       *)
OneRoot == SubTask \cup {0}
Messages(kind) == UNION {{m \in Range(chan[e]) : m.kind = kind} : e \in Edge}
GivenTo(n) == {m.id : m \in {t \in Messages("task") : t.by = n}}
HolderOf(id) == {n \in Node : \E i \in DOMAIN stack[n] : stack[n][i].id = id}
WantOf(n) ==
  IF ask[n] = NoTask THEN -3
  ELSE IF GivenTo(n) # {} THEN CHOOSE id \in GivenTo(n) : TRUE
  ELSE IF \E m \in Messages("none") : m.by = n THEN -2
  ELSE IF (\E m \in Messages("treq") : m.by = n) \/ Kept(n) > 0 THEN -1 ELSE -3
IsNew(id) == IF id = 0 THEN respond = "initial" ELSE id > used
StateOf(id) ==
  IF IsNew(id) THEN "new"
  ELSE IF HolderOf(id) # {} THEN "running"
  ELSE IF \E m \in Messages("task") : m.id = id THEN "given"
  ELSE IF \E m \in Messages("rslt") : m.id = id THEN "done" ELSE "back"

Sharing == INSTANCE WorkSharing WITH
  Task <- OneRoot, Open <- -1, Refused <- -2, Idle <- -3,
  want <- [n \in Node |-> WantOf(n)],
  state <- [id \in OneRoot |-> StateOf(id)],
  holder <- [id \in OneRoot |-> HolderOf(id)],
  over <- exited

Implements == Sharing!Spec
=============================================================================
