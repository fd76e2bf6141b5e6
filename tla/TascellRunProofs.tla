-------------------------- MODULE TascellRunProofs --------------------------
(***************************************************************************)
(* Proofs about TascellWorker that rest on what is called in what.         *)
(*                                                                         *)
(* First the order of calls: whatever a worker takes while it waits is     *)
(* called in what it waits for.  Then what is run: the workers implement   *)
(* ForkJoin, each node of the computation being finished once at most,     *)
(* and only after its two halves, whoever runs a half.                     *)
(***************************************************************************)
EXTENDS TascellWorkerProofs

(***************************************************************************)
(* The order of calls                                                      *)
(***************************************************************************)
LEMMA HalvesOf ==
  ASSUME NEW n \in Node
  PROVE  Halves(n) \in SUBSET Node
  BY ComputationAssumption DEF ComputationAssumption, Halves

LEMMA SubtreeOf ==
  ASSUME NEW n \in Node
  PROVE  /\ Subtree[n] \in SUBSET Node /\ n \in Subtree[n]
         /\ \A m \in Subtree[n] : Halves(m) \subseteq Subtree[n]
<1>1. Subtree[n] = {m \in Node : \A S \in Closed : n \in S => m \in S}
  BY DEF Subtree
<1>2. ASSUME NEW m \in Subtree[n], NEW h \in Halves(m) PROVE h \in Subtree[n]
  <2>1. m \in Node /\ h \in Node
    BY <1>1, HalvesOf
  <2>2. ASSUME NEW S \in Closed, n \in S PROVE h \in S
    BY <1>1, <2>2 DEF Closed
  <2> QED
    BY <1>1, <2>1, <2>2
<1> QED
  BY <1>1, <1>2

LEMMA SubtreeInside ==
  ASSUME NEW n \in Node, NEW m \in Subtree[n], NEW k \in Subtree[m]
  PROVE  k \in Subtree[n]
<1>1. m \in Node
  BY SubtreeOf
<1>2. Subtree[n] \in Closed
  BY SubtreeOf DEF Closed
<1>3. \A S \in Closed : m \in S => k \in S
  BY <1>1 DEF Subtree
<1> QED
  BY <1>2, <1>3

LEMMA CallOf ==
  ASSUME NEW n \in Node, NEW m \in Subtree[n], m \notin Leaf
  PROVE  /\ Left[m] \in Subtree[n] /\ Right[m] \in Subtree[n]
         /\ \A k \in Subtree[Right[m]] : k \in Below(n)
<1>1. Halves(m) \subseteq Subtree[n] /\ Left[m] \in Halves(m) /\ Right[m] \in Halves(m)
  BY SubtreeOf DEF Halves
<1>2. Below(n) \in Closed
  <2>1. \A h \in Below(n) : h \in Subtree[n]
    BY SubtreeOf DEF Below
  <2>2. ASSUME NEW h \in Below(n) PROVE Halves(h) \subseteq Below(n)
    BY <2>1 DEF Below
  <2>3. Below(n) \in SUBSET Node
    BY <2>1, SubtreeOf
  <2> QED
    BY <2>2, <2>3 DEF Closed
<1>3. Right[m] \in Below(n) /\ Right[m] \in Node
  BY <1>1, SubtreeOf DEF Below
<1> QED
  BY <1>1, <1>2, <1>3 DEF Subtree

(* what is called somewhere in n, but is not n, has its caller there *)
LEMMA CallerOf ==
  ASSUME NEW n \in Node, NEW m \in Subtree[n], m # n
  PROVE  m \in Below(n)
<1>1. {n} \cup Below(n) \in Closed
  <2>1. \A h \in Below(n) : h \in Subtree[n]
    BY SubtreeOf DEF Below
  <2>2. \A h \in {n} \cup Below(n) : h \in Subtree[n] /\ Halves(h) \subseteq Below(n)
    BY <2>1, SubtreeOf DEF Below
  <2>3. {n} \cup Below(n) \in SUBSET Node
    BY <2>2, SubtreeOf
  <2> QED
    BY <2>2, <2>3 DEF Closed
<1>2. \A S \in Closed : n \in S => m \in S
  BY DEF Subtree
<1> QED
  BY <1>1, <1>2

LEMMA BelowInside ==
  ASSUME NEW n \in Node, NEW m \in Below(n)
  PROVE  /\ m \in Node /\ m # Root
         /\ \E c \in Subtree[n] : m \in Halves(c)
<1>1. PICK c \in Subtree[n] : m \in Halves(c)
  BY DEF Below
<1>2. c \in Node
  BY SubtreeOf
<1> QED
  BY <1>1, <1>2, HalvesOf, CallAssumption DEF CallAssumption

LEMMA NoCircle ==
  ASSUME NEW B \in SUBSET Node, B # {}, \A b \in B : \E c \in B : b \in Below(c)
  PROVE  FALSE
<1>1. PICK M \in SUBSET Node : M = UNION {Subtree[b] : b \in B}
  BY SubtreeOf
<1>2. M # {}
  BY <1>1, SubtreeOf
<1>3. PICK n \in M : \A m \in M : n \notin Halves(m)
  BY <1>2, CallAssumption DEF CallAssumption
<1>4. PICK b \in B : n \in Subtree[b]
  BY <1>1
<1>5. \E c \in B : n \in Below(c)
  <2>1. CASE n = b
    BY <2>1
  <2>2. CASE n # b
    BY <1>4, <2>2, CallerOf
  <2> QED
    BY <2>1, <2>2
<1>6. PICK c \in B : n \in Below(c)
  BY <1>5
<1>7. PICK m \in Subtree[c] : n \in Halves(m)
  BY <1>6, BelowInside
<1>8. m \in M
  BY <1>1
<1> QED
  BY <1>3, <1>7, <1>8

(* What the order of calls says of the stack of one worker *)
Ordered(w) ==
  /\ \A j \in DOMAIN task[w] : \A i \in DOMAIN task[w][j].frames :
       task[w][j].frames[i].node \in Subtree[task[w][j].body]
  /\ \A j, k \in DOMAIN task[w] :
       j < k /\ task[w][k].stat \in Live => task[w][k].body \in Subtree[Waited(task[w][j])]
  /\ Unfilled(w) => Top(w).body = Root

LEMMA OrderedOf ==
  ASSUME Within, Leap, Fresh
  PROVE  \A w \in Worker : Ordered(w)
  BY DEF Within, Leap, Fresh, Ordered

(* The half given away by a suspended task is called in it. *)
LEMMA WaitedOf ==
  ASSUME IInv, NEW w \in Worker, Ordered(w), NEW j \in DOMAIN task[w], j # Len(task[w])
  PROVE  /\ task[w][j].body \in Node /\ Waited(task[w][j]) \in Subtree[task[w][j].body]
         /\ Waited(task[w][j]) \in Node /\ Waited(task[w][j]) # Root
         /\ task[w][j].stat \in Live
         /\ \A m \in Subtree[Waited(task[w][j])] : m \in Below(task[w][j].body)
<1>1. TypeOK /\ Stacks(w) /\ Frames(w)
  BY DEF IInv
<1>2. task[w][j] \in Task /\ j \in 1..Len(task[w]) /\ Len(task[w]) \in Nat
  BY <1>1, StackTypes
<1>3. task[w][j].stat = "SUSPENDED" /\ task[w][j].frames # <<>>
  BY <1>1, <1>2 DEF Stacks, Frames
<1>4. PICK fs \in Seq(Frame) : fs = task[w][j].frames
  BY <1>2 DEF Task
<1>5. Last(fs) \in Frame /\ Len(fs) \in DOMAIN fs /\ Last(fs) = fs[Len(fs)]
  BY <1>3, <1>4, LastOf
<1>6. PICK n \in Node : n = Last(fs).node
  BY <1>5 DEF Frame
<1>7. n \notin Leaf /\ Waited(task[w][j]) = Right[n]
  BY <1>4, <1>5, <1>6 DEF Frame, Waited
<1>8. n \in Subtree[task[w][j].body] /\ task[w][j].body \in Node
  BY <1>2, <1>4, <1>5, <1>6 DEF Ordered, Task
<1>9. /\ Right[n] \in Subtree[task[w][j].body]
      /\ \A m \in Subtree[Right[n]] : m \in Below(task[w][j].body)
  BY <1>7, <1>8, CallOf
<1>10. Right[n] \in Node
  BY <1>8, <1>9, SubtreeOf
<1>11. Right[n] \in Below(task[w][j].body)
  BY <1>9, <1>10, SubtreeOf
<1>12. Right[n] # Root
  BY <1>8, <1>11, BelowInside
<1> QED
  BY <1>3, <1>7, <1>8, <1>9, <1>10, <1>12 DEF Live

(* What is called in the half that a task waits for is called in all the *)
(* halves that the tasks below it wait for.                              *)
LEMMA StackOrder ==
  ASSUME IInv, NEW w \in Worker, Ordered(w), NEW j \in DOMAIN task[w], j # Len(task[w]),
         NEW m \in Subtree[Waited(task[w][j])],
         NEW k \in DOMAIN task[w], k <= j
  PROVE  m \in Subtree[Waited(task[w][k])] /\ m \in Below(task[w][k].body)
<1>1. j \in 1..Len(task[w]) /\ k \in 1..Len(task[w]) /\ Len(task[w]) \in Nat
  BY StackTypes DEF IInv
<1>2. k # Len(task[w])
  BY <1>1
<1>3. m \in Subtree[Waited(task[w][k])]
  <2>1. CASE k = j
    BY <2>1
  <2>2. CASE k # j
    <3>1. k < j
      BY <1>1, <2>2
    <3>2. task[w][j].stat \in Live /\ task[w][j].body \in Node
          /\ Waited(task[w][j]) \in Subtree[task[w][j].body]
      BY WaitedOf
    <3>3. task[w][j].body \in Subtree[Waited(task[w][k])]
      BY <3>1, <3>2 DEF Ordered
    <3>4. Waited(task[w][k]) \in Node
      BY <1>2, WaitedOf
    <3>5. m \in Subtree[task[w][j].body]
      BY <3>2, SubtreeInside
    <3> QED
      BY <3>3, <3>4, <3>5, SubtreeInside
  <2> QED
    BY <2>1, <2>2
<1> QED
  BY <1>2, <1>3, WaitedOf

(* The newest subtask of a worker whose top entry has no do-two is the one *)
(* that the task below waits for.                                          *)
LEMMA WaitedSub ==
  ASSUME IInv, NEW w \in Worker, task[w] # <<>>, Top(w).frames = <<>>, sub[w] # <<>>
  PROVE  /\ Len(task[w]) \in Nat /\ Len(task[w]) - 1 \in DOMAIN task[w]
         /\ Len(sub[w]) \in DOMAIN sub[w] /\ Last(sub[w]) = sub[w][Len(sub[w])]
         /\ Last(sub[w]).body = Waited(task[w][Len(task[w]) - 1])
<1>1. /\ TypeOK /\ Stacks(w) /\ Frames(w) /\ Nesting(w)
  BY DEF IInv
<1>2. PICK n \in Nat : n = Len(sub[w])
  BY <1>1, StackTypes
<1>3. DOMAIN sub[w] = 1..n /\ n \in DOMAIN sub[w] /\ Last(sub[w]) = sub[w][n]
  BY <1>1, <1>2, StackTypes, LastOf
<1>4. PICK p \in Nat : p = Len(task[w])
  BY <1>1, StackTypes
<1>5. DOMAIN task[w] = 1..p /\ Top(w) = task[w][p]
  BY <1>1, <1>4, TopOf
<1>6. PICK j \in DOMAIN task[w] : \E i \in DOMAIN task[w][j].frames : Spawned(w, j, i) = n
  BY <1>1, <1>3 DEF Nesting
<1>7. PICK i \in DOMAIN task[w][j].frames : Spawned(w, j, i) = n
  BY <1>6
<1>8. j # p
  BY <1>5, <1>7
<1>9. PICK m \in Nat : m = p - 1
  BY <1>5, <1>6, <1>8
<1>10. m \in DOMAIN task[w] /\ m # p /\ j <= m
  BY <1>5, <1>6, <1>8, <1>9
<1>11. task[w][m] \in Task /\ task[w][m].frames # <<>> /\ Last(task[w][m].frames).spawned # 0
  <2>1. task[w][m] \in Task
    BY <1>1, <1>10, StackTypes
  <2>2. m \in 1..(Len(task[w]) - 1)
    BY <1>4, <1>5, <1>9, <1>10
  <2> QED
    BY <1>1, <1>10, <2>1, <2>2 DEF Stacks, Frames
<1>12. PICK fs \in Seq(Frame) : fs = task[w][m].frames
  BY <1>11 DEF Task
<1>13. PICK l \in Nat : l = Len(fs)
  BY <1>12, LenProperties
<1>14. DOMAIN fs = 1..l /\ l \in DOMAIN fs /\ Last(fs) = fs[l]
  BY <1>11, <1>12, <1>13, LastOf
<1>15. fs[l].spawned \in 1..n /\ fs[l].spawned # 0
       /\ sub[w][fs[l].spawned].body = Right[fs[l].node]
  BY <1>1, <1>3, <1>10, <1>11, <1>12, <1>14, NestingFrame
<1>16. fs[l].spawned = n
  <2>1. CASE j = m /\ i = l
    BY <1>7, <1>12, <2>1 DEF Spawned
  <2>2. CASE ~(j = m /\ i = l)
    <3>1. j \in 1..p /\ (j = m => i \in 1..l)
      BY <1>5, <1>6, <1>7, <1>12, <1>14
    <3>2. Before(j, i, m, l)
      BY <1>10, <2>2, <3>1 DEF Before
    <3>3. l \in DOMAIN task[w][m].frames /\ Spawned(w, m, l) = fs[l].spawned
      BY <1>12, <1>14 DEF Spawned
    <3>4. n # 0
      BY <1>3
    <3>5. n < fs[l].spawned
      BY <1>1, <1>7, <1>10, <1>15, <3>2, <3>3, <3>4, NestingOrder
    <3> QED
      BY <1>15, <3>5
  <2> QED
    BY <2>1, <2>2
<1>17. Waited(task[w][m]) = Right[fs[l].node]
  BY <1>12, <1>14 DEF Waited
<1> QED
  BY <1>2, <1>3, <1>4, <1>9, <1>10, <1>15, <1>16, <1>17

(* ... so it is called in all the tasks of the stack. *)
LEMMA UnderNewest ==
  ASSUME IInv, NEW w \in Worker, Ordered(w), task[w] # <<>>, Top(w).frames = <<>>,
         sub[w] # <<>>, Unfilled(w)
  PROVE  /\ Last(sub[w]).body # Root
         /\ \A k \in DOMAIN task[w] : task[w][k].body # Root =>
              Last(sub[w]).body \in Below(task[w][k].body)
<1>1. PICK b : b = Last(sub[w]).body
  OBVIOUS
<1>2. PICK p \in Nat : p = Len(task[w])
  BY StackTypes DEF IInv
<1>3. PICK m \in DOMAIN task[w] : m = p - 1 /\ b = Waited(task[w][m])
  BY <1>1, <1>2, WaitedSub
<1>4. DOMAIN task[w] = 1..p /\ Top(w) = task[w][p] /\ Top(w).body = Root
  BY <1>2, TopOf DEF IInv, Ordered
<1>5. b # Root /\ b \in Node /\ m # Len(task[w])
  <2>1. m # Len(task[w])
    BY <1>2, <1>3
  <2> QED
    BY <1>3, <2>1, WaitedOf
<1>6. ASSUME NEW k \in DOMAIN task[w], task[w][k].body # Root
      PROVE  b \in Below(task[w][k].body)
  <2>1. k <= m
    BY <1>2, <1>3, <1>4, <1>6
  <2>2. b \in Subtree[Waited(task[w][m])]
    BY <1>3, <1>5, SubtreeOf
  <2> QED
    BY <1>5, <2>1, <2>2, StackOrder
<1> QED
  BY <1>1, <1>5, <1>6

(* A task whose result is still to be sent is the half its task-home records. *)
LEMMA HomeBody ==
  ASSUME IInv, NEW v \in Worker, NEW j \in DOMAIN task[v], Unsent(v, j)
  PROVE  \E x \in Worker, y \in Nat \ {0} :
           /\ task[v][j].rslt = <<x, y>> /\ y \in DOMAIN sub[x] /\ sub[x][y].to = v
           /\ sub[x][y].body = task[v][j].body
<1>1. Homes /\ Executors
  BY DEF IInv
<1>2. PICK x \in Worker, y \in Nat \ {0} :
        /\ task[v][j].rslt = <<x, y>> /\ y \in DOMAIN sub[x]
        /\ sub[x][y].stat = "INITIALIZED" /\ sub[x][y].to = v
  BY <1>1, HomeOf
<1>3. Executor(v, x, y)
  BY <1>1, <1>2, ExecutorOf
<1>4. PICK k \in DOMAIN task[v] : /\ Unsent(v, k) /\ task[v][k].rslt = <<x, y>>
                                  /\ task[v][k].body = sub[x][y].body
  BY <1>3 DEF Executor
<1>5. j = k
  BY <1>1, <1>2, <1>4, HomeOnly DEF Unsent
<1> QED
  BY <1>2, <1>4, <1>5

-----------------------------------------------------------------------------
(***************************************************************************)
(* What a step keeps of one worker, and what of the order that preserves   *)
(***************************************************************************)
Sending(label) == label \in {"rack", "count", "done"}
Ends(label) == Sending(label) \/ label = "drain"

(* The result that v has sent is the same, the task v has completed is the *)
(* same, and w has no new task.                                            *)
SentStays(v) ==
  Sending(pc'[v]) /\ Top(v)'.rslt # OUTSIDE =>
    /\ Sending(pc[v]) /\ Top(v)'.rslt = Top(v).rslt /\ Top(v)'.body = Top(v).body
TopStays(v) ==
  Ends(pc[v]) /\ Ends(pc'[v]) => Top(v)'.body = Top(v).body
BodiesStay(w) ==
  \A k \in DOMAIN task'[w] : task'[w][k].body # Root =>
    k \in DOMAIN task[w] /\ task'[w][k].body = task[w][k].body

(* w asks whom it asked, or the right one; the subtasks of those that have *)
(* sent a result are the same                                              *)
AskStays(w) ==
  pc'[w] = "ask" /\ ~AsksAny(w)' =>
    \/ asking'[w] \subseteq {Last(sub'[w]).to}
    \/ /\ pc[w] = "ask" /\ Len(task'[w]) = Len(task[w])
       /\ asking'[w] \subseteq asking[w] /\ Last(sub'[w]).to = Last(sub[w]).to
SubStays(w) ==
  \A i \in DOMAIN sub'[w] : Sending(pc'[sub'[w][i].to]) =>
    /\ i \in DOMAIN sub[w] /\ sub'[w][i].to = sub[w][i].to
    /\ sub'[w][i].body = sub[w][i].body

(* No request comes to have been abandoned while its holder executes the *)
(* subtask that it is to steal back.                                     *)
NoneStays(v, q) ==
  wnone'[q.from] = 1 => wnone[q.from] = 1 \/ ~Executes(v, q.waiting)

LEMMA NoneKept ==
  ASSUME TypeOK, \A x \in Worker : wnone'[x] = 1 => wnone[x] = 1,
         \A v \in Worker : \A q \in ToSet(treq'[v]) : q \in ToSet(treq[v])
  PROVE  \A v \in Worker : \A q \in ToSet(treq'[v]) : NoneStays(v, q)
<1>1. ASSUME NEW v \in Worker, NEW q \in ToSet(treq'[v]) PROVE q.from \in Worker
  BY <1>1, RequestType
<1> QED
  BY <1>1 DEF NoneStays

LEMMA MissedLeaving ==
  ASSUME IInv, NEW v \in Worker, NEW q \in ToSet(treq[v]), Missed(v, q)
  PROVE  Leaving(v, q.waiting) /\ Accepted(v, q)
<1>1. Accepted(v, q) /\ q.from \in Worker /\ NoneBound(q.from)
  BY RequestType DEF IInv, Requests, Local
<1>2. CASE ~Executes(v, q.waiting)
  BY <1>1, <1>2 DEF Missed, Accepted, Executes
<1>3. CASE wnone[q.from] = 1
  <2>1. ~Expecting(q.from)
    BY <1>1, <1>3 DEF NoneBound, Expecting
  <2> QED
    BY <1>1, <2>1 DEF Missed, Accepted
<1> QED
  BY <1>2, <1>3 DEF Missed

LEMMA LateStays ==
  ASSUME IInv', NEW v \in Worker, NEW q \in ToSet(treq'[v]),
         Missed(v, q)', q.from \in Worker,
         Leaving(v, q.waiting), Under(v, q.from), TopStays(v), BodiesStay(q.from)
  PROVE  Under(v, q.from)'
<1>1. Accepted(v, q)' /\ NoneBound(q.from)'
  BY DEF IInv, Requests, Local
<1>2. Leaving(v, q.waiting)'
  <2>1. CASE ~Executes(v, q.waiting)'
    BY <1>1, <2>1 DEF Missed, Accepted, Executes
  <2>2. CASE wnone'[q.from] = 1
    <3>1. ~Expecting(q.from)'
      BY <1>1, <2>2 DEF NoneBound, Expecting
    <3> QED
      BY <1>1, <3>1 DEF Missed, Accepted
  <2> QED
    BY <2>1, <2>2 DEF Missed
<1>3. Top(v)'.body = Top(v).body
  BY <1>2 DEF Leaving, TopStays, Ends, Sending
<1>4. /\ Top(v).body # Root
      /\ \A k \in DOMAIN task[q.from] : task[q.from][k].body # Root =>
           Top(v).body \in Below(task[q.from][k].body)
  BY DEF Under
<1>5. ASSUME NEW k \in DOMAIN task'[q.from], task'[q.from][k].body # Root
      PROVE  Top(v)'.body \in Below(task'[q.from][k].body)
  <2>1. k \in DOMAIN task[q.from] /\ task'[q.from][k].body = task[q.from][k].body
    BY <1>5 DEF BodiesStay
  <2> QED
    BY <1>3, <1>4, <1>5, <2>1
<1>6. ASSUME NEW b, NEW s, b = Top(v)'.body, s = task'[q.from], b # Root,
             \A k \in DOMAIN s : s[k].body # Root => b \in Below(s[k].body)
      PROVE  Under(v, q.from)'
  BY <1>6 DEF Under
<1> QED
  BY <1>3, <1>4, <1>5, <1>6

LEMMA LateKept ==
  ASSUME IInv, IInv', Late, \A v \in Worker : StillRun(v) /\ TopStays(v),
         \A v \in Worker : \A q \in ToSet(treq'[v]) :
           q \in ToSet(treq[v]) /\ BodiesStay(q.from),
         \A v \in Worker : \A q \in ToSet(treq'[v]) : NoneStays(v, q)
  PROVE  Late'
<1>1. ASSUME NEW v \in Worker, NEW q \in ToSet(treq'[v]), Missed(v, q)'
      PROVE  Under(v, q.from)'
  <2>1. q \in ToSet(treq[v]) /\ BodiesStay(q.from) /\ StillRun(v) /\ TopStays(v)
        /\ NoneStays(v, q)
    OBVIOUS
  <2>2. Executes(v, q.waiting) => Executes(v, q.waiting)'
    BY <2>1 DEF Executes, StillRun
  <2>3. Missed(v, q)
    BY <1>1, <2>1, <2>2 DEF Missed, NoneStays
  <2>4. Under(v, q.from)
    BY <2>1, <2>3 DEF Late
  <2>5. Leaving(v, q.waiting)
    BY <2>1, <2>3, MissedLeaving
  <2>6. q.from \in Worker
    BY <2>1, RequestType DEF IInv
  <2> QED
    BY <1>1, <2>1, <2>4, <2>5, <2>6, LateStays
<1> QED
  BY <1>1 DEF Late

LEMMA OrderAt ==
  ASSUME \A w \in Worker : Ordered(w)'
  PROVE  Within' /\ Leap' /\ Fresh'
  BY DEF Within, Leap, Fresh, Ordered

LEMMA AsksKept ==
  ASSUME AsksThief, \A w \in Worker : AskStays(w)
  PROVE  AsksThief'
<1>1. ASSUME NEW w \in Worker, pc'[w] = "ask", ~AsksAny(w)'
      PROVE  asking'[w] \subseteq {Last(sub'[w]).to}
  BY <1>1 DEF AsksThief, AskStays, AsksAny
<1> QED
  BY <1>1 DEF AsksThief

LEMMA SentKept ==
  ASSUME SentBody, \A w \in Worker : SentStays(w) /\ SubStays(w)
  PROVE  SentBody'
<1>1. ASSUME NEW v \in Worker, Sending(pc'[v]), Top(v)'.rslt # OUTSIDE,
             NEW w \in Worker, NEW i \in DOMAIN sub'[w],
             Top(v)'.rslt = <<w, i>>, sub'[w][i].to = v
      PROVE  sub'[w][i].body = Top(v)'.body
  <2>1. Sending(pc[v]) /\ Top(v)'.rslt = Top(v).rslt /\ Top(v)'.body = Top(v).body
    BY <1>1 DEF SentStays
  <2>2. /\ i \in DOMAIN sub[w] /\ sub'[w][i].to = sub[w][i].to
        /\ sub'[w][i].body = sub[w][i].body
    BY <1>1 DEF SubStays
  <2> QED
    BY <1>1, <2>1, <2>2 DEF SentBody, Sending
<1> QED
  BY <1>1 DEF SentBody, Sending

(* All but two kinds of steps *)
Keeps(w) ==
  Ordered(w)' /\ StillRun(w) /\ TopStays(w) /\ AskStays(w) /\ SentStays(w) /\ SubStays(w)

LEMMA OrderKept ==
  ASSUME IInv, IInv', OrderInv, \A w \in Worker : Keeps(w),
         \A v \in Worker : \A q \in ToSet(treq'[v]) :
           q \in ToSet(treq[v]) /\ BodiesStay(q.from),
         \A v \in Worker : \A q \in ToSet(treq'[v]) : NoneStays(v, q)
  PROVE  OrderInv'
<1>1. /\ Late /\ AsksThief /\ SentBody
      /\ \A w \in Worker : Ordered(w)' /\ StillRun(w) /\ TopStays(w)
      /\ \A w \in Worker : AskStays(w) /\ SentStays(w) /\ SubStays(w)
  BY DEF OrderInv, Keeps
<1>2. Late'
  BY <1>1, LateKept
<1>3. Within' /\ Leap' /\ Fresh' 
  BY <1>1, OrderAt
<1>4. AsksThief' /\ SentBody'
  BY <1>1, AsksKept, SentKept
<1> QED
  BY <1>2, <1>3, <1>4 DEF OrderInv

-----------------------------------------------------------------------------
(* A worker whose stacks are the same *)
LEMMA IdleKeeps ==
  ASSUME NEW w \in Worker, Ordered(w), task'[w] = task[w], DOMAIN sub'[w] = DOMAIN sub[w],
         \A i \in DOMAIN sub[w] : /\ sub'[w][i].to = sub[w][i].to
                                  /\ sub'[w][i].body = sub[w][i].body,
         Last(sub'[w]).to = Last(sub[w]).to,
         pc'[w] = "ask" => pc[w] = "ask", asking'[w] \subseteq asking[w],
         Sending(pc'[w]) => Sending(pc[w]) \/ Top(w).rslt = OUTSIDE
  PROVE  Keeps(w) /\ BodiesStay(w)
<1>1. Top(w)' = Top(w)
  BY DEF Top
<1>2. Ordered(w)' /\ BodiesStay(w)
  BY <1>1 DEF Ordered, Unfilled, BodiesStay
<1>3. StillRun(w)
  <2>1. ASSUME NEW j \in DOMAIN task[w], Unsent(w, j) PROVE Unsent(w, j)'
    <3>1. /\ task[w][j].stat \in Live /\ task[w][j].rslt # OUTSIDE
          /\ ~(j = Len(task[w]) /\ Sending(pc[w]))
      BY <2>1 DEF Unsent, ResultSent, Sending
    <3>2. ~(j = Len(task[w]) /\ Sending(pc'[w]))
      BY <3>1 DEF Top, Last
    <3> QED
      BY <3>1, <3>2 DEF Unsent, ResultSent, Sending
  <2> QED
    BY <2>1 DEF StillRun
<1>4. TopStays(w) /\ AskStays(w) /\ SentStays(w) /\ SubStays(w)
  BY <1>1 DEF TopStays, AskStays, SentStays, SubStays
<1> QED
  BY <1>2, <1>3, <1>4 DEF Keeps

LEMMA OtherKeeps ==
  ASSUME NEW w \in Worker, Ordered(w), task'[w] = task[w], sub'[w] = sub[w],
         asking'[w] \subseteq asking[w], pc'[w] \in {pc[w], Woken(pc[w])}
  PROVE  Keeps(w) /\ BodiesStay(w)
  BY IdleKeeps DEF Woken, Sending

(* A worker whose entry on top is replaced by one for the same call *)
Turned(w, t) ==
  /\ t \in Task /\ t.body = Top(w).body
  /\ t.stat \in Live => Top(w).stat \in Live
  /\ t.stat \in {"ALLOCATED", "NONE"} => Top(w).stat \in {"ALLOCATED", "NONE"}
  /\ Top(w).stat \in Live => pc[w] = "done" \/ (t.stat \in Live /\ t.rslt = Top(w).rslt)
  /\ \A i \in DOMAIN t.frames : t.frames[i].node \in Subtree[t.body]

LEMMA TopKeeps ==
  ASSUME TypeOK, NEW w \in Worker, Ordered(w), task[w] # <<>>, NEW t, NewTop(w, t),
         Turned(w, t), ~Sending(pc'[w])
  PROVE  Ordered(w)' /\ StillRun(w) /\ TopStays(w) /\ SentStays(w) /\ BodiesStay(w)
<1> USE DEF Turned
<1>1. PICK n \in Nat : n = Len(task[w])
  BY TopOf
<1>2. DOMAIN task[w] = 1..n /\ Top(w) = task[w][n] /\ n \in DOMAIN task[w]
  BY <1>1, TopOf
<1>3. /\ DOMAIN task'[w] = 1..n /\ Len(task'[w]) = n /\ task'[w][n] = t /\ Top(w)' = t
      /\ \A j \in 1..n : j # n => task'[w][j] = task[w][j]
  BY <1>1, <1>2 DEF NewTop
<1>4. Ordered(w)'
  <2>1. ASSUME NEW j \in DOMAIN task'[w], NEW i \in DOMAIN task'[w][j].frames
        PROVE  task'[w][j].frames[i].node \in Subtree[task'[w][j].body]
    <3>1. CASE j = n
      BY <1>3, <2>1, <3>1
    <3>2. CASE j # n
      BY <1>2, <1>3, <2>1, <3>2 DEF Ordered
    <3> QED
      BY <3>1, <3>2
  <2>2. ASSUME NEW j \in DOMAIN task'[w], NEW k \in DOMAIN task'[w], j < k,
               task'[w][k].stat \in Live
        PROVE  task'[w][k].body \in Subtree[Waited(task'[w][j])]
    <3>1. task'[w][j] = task[w][j] /\ j \in DOMAIN task[w] /\ k \in DOMAIN task[w]
      BY <1>2, <1>3, <2>2
    <3>2. task[w][k].stat \in Live /\ task'[w][k].body = task[w][k].body
      BY <1>2, <1>3, <2>2
    <3> QED
      BY <2>2, <3>1, <3>2 DEF Ordered
  <2>3. Unfilled(w)' => Top(w)'.body = Root
    BY <1>3 DEF Ordered, Unfilled
  <2> QED
    BY <2>1, <2>2, <2>3 DEF Ordered
<1>5. StillRun(w)
  <2>1. ASSUME NEW j \in DOMAIN task[w], Unsent(w, j)
        PROVE  /\ j \in DOMAIN task'[w] /\ Unsent(w, j)'
               /\ task'[w][j].rslt = task[w][j].rslt /\ task'[w][j].body = task[w][j].body
    <3>1. task[w][j].stat \in Live /\ task[w][j].rslt # OUTSIDE
      BY <2>1 DEF Unsent
    <3>2. task'[w][j].stat \in Live /\ task'[w][j].rslt = task[w][j].rslt
          /\ task'[w][j].body = task[w][j].body
      <4>1. CASE j = n
        <5>1. pc[w] # "done"
          BY <1>1, <2>1, <4>1 DEF Unsent, ResultSent
        <5> QED
          BY <1>2, <1>3, <3>1, <4>1, <5>1
      <4>2. CASE j # n
        BY <1>2, <1>3, <3>1, <4>2
      <4> QED
        BY <4>1, <4>2
    <3>3. Unsent(w, j)'
      BY <3>1, <3>2 DEF Unsent, ResultSent, Sending
    <3> QED
      BY <1>2, <1>3, <3>2, <3>3
  <2> QED
    BY <2>1 DEF StillRun
<1>6. TopStays(w) /\ SentStays(w)
  BY <1>3 DEF TopStays, SentStays
<1>7. BodiesStay(w)
  BY <1>2, <1>3 DEF BodiesStay
<1> QED
  BY <1>4, <1>5, <1>6, <1>7

LEMMA TopWithin ==
  ASSUME TypeOK, NEW w \in Worker, Ordered(w), task[w] # <<>>
  PROVE  \A i \in DOMAIN Top(w).frames : Top(w).frames[i].node \in Subtree[Top(w).body]
  BY TopOf DEF Ordered

-----------------------------------------------------------------------------
(***************************************************************************)
(* The actions keep the order of calls                                     *)
(***************************************************************************)
LEMMA MoveOrder ==
  ASSUME IInv, IInv', OrderInv, task' = task, sub' = sub, treq' = treq, wnone' = wnone,
         \A w \in Worker : /\ pc'[w] = "ask" => pc[w] = "ask"
                           /\ asking'[w] \subseteq asking[w]
                           /\ Sending(pc'[w]) => Sending(pc[w]) \/ Top(w).rslt = OUTSIDE
  PROVE  OrderInv'
<1>1. \A w \in Worker : Ordered(w)
  BY OrderedOf DEF OrderInv
<1>2. \A w \in Worker : Keeps(w) /\ BodiesStay(w)
  BY <1>1, IdleKeeps
<1>3. \A v \in Worker : \A q \in ToSet(treq'[v]) : q \in ToSet(treq[v]) /\ BodiesStay(q.from)
  BY <1>2, RequestType DEF IInv
<1>4. \A v \in Worker : \A q \in ToSet(treq'[v]) : NoneStays(v, q)
  BY <1>3, NoneKept DEF IInv
<1> QED
  BY <1>2, <1>3, <1>4, OrderKept

LEMMA QuietMoves ==
  ASSUME IInv, IInv', OrderInv, NEW w \in Worker,
         \/ AwaitNone(w) \/ AwaitedNone(w) \/ ForwardTreq(w) \/ Sleep(w) \/ Nap(w)
         \/ RetryTreq(w) \/ EndSpawn(w) \/ CallWaitRslt(w) \/ EndTask(w)
         \/ SendRsltOutside(w) \/ SendRack(w) \/ CountRack(w)
         \/ \E u \in Worker : TryTreqRefused(w, u)
  PROVE  OrderInv'
<1>1. TypeOK
  BY DEF IInv
<1>2. task' = task /\ sub' = sub /\ treq' = treq /\ wnone' = wnone
  BY DEF AwaitNone, AwaitedNone, ForwardTreq, Sleep, Nap, RetryTreq, EndSpawn, CallWaitRslt,
     EndTask, SendRsltOutside, SendRack, CountRack, TryTreqRefused
<1>3. \A v \in Worker : asking'[v] \subseteq asking[v]
  <2>1. CASE asking' = asking
    BY <2>1
  <2>2. CASE \E u \in Worker : TryTreqRefused(w, u)
    BY <1>1, <2>2 DEF TryTreqRefused, TypeOK
  <2> QED
    BY <2>1, <2>2 DEF AwaitNone, AwaitedNone, ForwardTreq, Sleep, Nap, RetryTreq, EndSpawn,
       CallWaitRslt, EndTask, SendRsltOutside, SendRack, CountRack
<1>4. ASSUME NEW v \in Worker
      PROVE  /\ pc'[v] = "ask" => pc[v] = "ask"
             /\ Sending(pc'[v]) => Sending(pc[v]) \/ Top(v).rslt = OUTSIDE
  <2>1. CASE pc' = pc
    BY <2>1
  <2>2. ASSUME NEW l, l # "ask", Sending(l) => Sending(pc[w]) \/ Top(w).rslt = OUTSIDE,
               pc' = [pc EXCEPT ![w] = l]
        PROVE  /\ pc'[v] = "ask" => pc[v] = "ask"
               /\ Sending(pc'[v]) => Sending(pc[v]) \/ Top(v).rslt = OUTSIDE
    BY <1>1, <2>2 DEF TypeOK
  <2>3. CASE \E u \in Worker : TryTreqRefused(w, u)
    BY <2>1, <2>3 DEF TryTreqRefused
  <2>4. CASE \/ AwaitNone(w) \/ AwaitedNone(w) \/ ForwardTreq(w) \/ Sleep(w) \/ Nap(w)
             \/ RetryTreq(w) \/ EndSpawn(w) \/ CallWaitRslt(w) \/ EndTask(w)
    <3>1. PICK l \in {"nonewait", "wait", "enter", "reply", "sleep", "nap", "flush", "run", "rslt"} :
            pc' = [pc EXCEPT ![w] = l]
      BY <2>4 DEF AwaitNone, AwaitedNone, ForwardTreq, Sleep, Nap, RetryTreq, EndSpawn,
         CallWaitRslt, EndTask, Goto
    <3> QED
      BY <2>2, <3>1 DEF Sending
  <2>5. CASE SendRsltOutside(w) \/ SendRack(w) \/ CountRack(w)
    <3>1. PICK l \in {"count", "done"} : pc' = [pc EXCEPT ![w] = l]
      BY <2>5 DEF SendRsltOutside, SendRack, CountRack, Goto
    <3>2. Sending(pc[w]) \/ Top(w).rslt = OUTSIDE
      BY <2>5 DEF SendRsltOutside, SendRack, CountRack, Sending
    <3> QED
      BY <2>2, <3>1, <3>2
  <2> QED
    BY <2>3, <2>4, <2>5
<1> QED
  BY <1>2, <1>3, <1>4, MoveOrder

LEMMA QuietOutside ==
  ASSUME IInv, IInv', OrderInv, OutsideRack \/ UNCHANGED vars
  PROVE  OrderInv'
<1>1. UNCHANGED <<pc, task, sub, treq, wnone, asking>>
  BY DEF OutsideRack, vars
<1> QED
  BY <1>1, MoveOrder

(* The entry on top is replaced; a request may be removed. *)
LEMMA TopOrder ==
  ASSUME IInv, IInv', OrderInv, NEW w \in Worker, task[w] # <<>>, NEW t, Turned(w, t),
         task' = [task EXCEPT ![w] = WithTop(task[w], t)],
         \A v \in Worker \ {w} : sub'[v] = sub[v], SubStays(w), AskStays(w),
         \A v \in Worker \ {w} : asking'[v] = asking[v] /\ pc'[v] \in {pc[v], Woken(pc[v])},
         \A v \in Worker : \A q \in ToSet(treq'[v]) : q \in ToSet(treq[v]),
         \A v \in Worker : \A q \in ToSet(treq'[v]) : NoneStays(v, q),
         ~Sending(pc'[w])
  PROVE  OrderInv'
<1>1. TypeOK /\ \A v \in Worker : Ordered(v)
  BY OrderedOf DEF OrderInv, IInv
<1>2. NewTop(w, t) /\ \A v \in Worker \ {w} : task'[v] = task[v]
  BY <1>1, TopReplaced DEF Turned
<1>3. Keeps(w) /\ BodiesStay(w)
  BY <1>1, <1>2, TopKeeps DEF Keeps
<1>4. \A v \in Worker \ {w} : Keeps(v) /\ BodiesStay(v)
  BY <1>1, <1>2, OtherKeeps
<1>5. \A v \in Worker : \A q \in ToSet(treq'[v]) : q \in ToSet(treq[v]) /\ BodiesStay(q.from)
  <2>1. ASSUME NEW v \in Worker, NEW q \in ToSet(treq'[v])
        PROVE  q \in ToSet(treq[v]) /\ q.from \in Worker
    BY <1>1, RequestType
  <2> QED
    BY <2>1, <1>3, <1>4
<1> QED
  BY <1>3, <1>4, <1>5, OrderKept

(* The steps of a task that goes on with its do-twos *)
LEMMA RunOrder ==
  ASSUME IInv, IInv', OrderInv, NEW w \in Worker,
         CallLeaf(w) \/ EnterDoTwo(w) \/ RunStat2(w) \/ EndDoTwo(w) \/ GetRslt(w)
  PROVE  OrderInv'
<1>1. pc[w] \in {"run", "wait"}
  BY DEF CallLeaf, EnterDoTwo, RunStat2, EndDoTwo, GetRslt
<1>2. /\ TypeOK /\ task[w] # <<>> /\ Top(w) \in Task /\ Top(w).frames \in Seq(Frame)
      /\ Top(w).stat \in {"STARTED", "SUSPENDED"} /\ Ordered(w)
  BY <1>1, AtTop, OrderedOf DEF TopStat, OrderInv
<1>3. PICK fs \in Seq(Frame) : fs = Top(w).frames
  BY <1>2
<1>4. PICK b \in Node : b = Top(w).body
  BY <1>2 DEF Task
<1>5. \A i \in DOMAIN fs : fs[i].node \in Subtree[b]
  BY <1>2, <1>3, <1>4, TopWithin
<1>6. /\ treq' = treq /\ asking' = asking /\ wnone' = wnone
      /\ \A v \in Worker \ {w} : pc'[v] = pc[v]
      /\ pc'[w] \in {"run", "spawn"}
  BY <1>1, <1>2 DEF CallLeaf, EnterDoTwo, RunStat2, EndDoTwo, GetRslt, Goto, TypeOK
<1>7. /\ \A v \in Worker \ {w} : sub'[v] = sub[v]
      /\ SubStays(w)
  <2>1. CASE sub' = sub
    BY <2>1 DEF SubStays
  <2>2. CASE sub' = [sub EXCEPT ![w] = Front(sub[w])] /\ sub[w] # <<>>
    <3>1. PICK s \in Seq(TaskHome) : s = sub[w]
      BY <1>2, StackTypes
    <3>2. sub'[w] = Front(s) /\ \A v \in Worker \ {w} : sub'[v] = sub[v]
      BY <1>2, <2>2, <3>1 DEF TypeOK
    <3>3. s # <<>>
      BY <2>2, <3>1
    <3>4. \A i \in DOMAIN Front(s) : i \in DOMAIN s /\ Front(s)[i] = s[i]
      BY <3>3, FrontOf
    <3> QED
      BY <3>1, <3>2, <3>4 DEF SubStays
  <2> QED
    BY <2>1, <2>2 DEF CallLeaf, EnterDoTwo, RunStat2, EndDoTwo, GetRslt, SubDone
<1>8. ASSUME NEW t, t \in Task, t.stat \in Live, t.rslt = Top(w).rslt, t.body = b,
             \A i \in DOMAIN t.frames : t.frames[i].node \in Subtree[b],
             task' = [task EXCEPT ![w] = WithTop(task[w], t)]
      PROVE  OrderInv'
  <2>1. Turned(w, t)
    BY <1>2, <1>4, <1>8 DEF Turned, Live
  <2>2. ~Sending(pc'[w]) /\ AskStays(w)
    BY <1>6 DEF Sending, AskStays
  <2>3. \A v \in Worker : \A q \in ToSet(treq'[v]) : NoneStays(v, q)
    BY <1>2, <1>6, NoneKept
  <2> QED
    BY <1>2, <1>6, <1>7, <1>8, <2>1, <2>2, <2>3, TopOrder
<1>9. CASE CallLeaf(w)
  <2>1. PICK t : t = [Top(w) EXCEPT !.ret = TRUE]
    OBVIOUS
  <2>2. /\ t \in Task /\ t.stat \in Live /\ t.rslt = Top(w).rslt /\ t.body = b /\ t.frames = fs
    BY <1>2, <1>3, <1>4, <2>1 DEF Task, Live
  <2>3. task' = [task EXCEPT ![w] = WithTop(task[w], t)]
    BY <1>9, <2>1 DEF CallLeaf
  <2> QED
    BY <1>5, <1>8, <2>2, <2>3
<1>10. CASE EnterDoTwo(w)
  <2>1. PICK f : f = [node |-> Current(Top(w)), spawned |-> 0, stat2 |-> FALSE]
    OBVIOUS
  <2>2. f \in Frame /\ f.node = Current(Top(w))
    BY <1>2, <1>10, <2>1, CurrentNode DEF Frame, EnterDoTwo
  <2>3. Current(Top(w)) \in Subtree[b]
    <3>1. CASE fs = <<>>
      BY <1>3, <1>4, <3>1, SubtreeOf DEF Current
    <3>2. CASE fs # <<>>
      <4>1. Len(fs) \in DOMAIN fs /\ Last(fs) = fs[Len(fs)] /\ Last(fs) \in Frame
        BY <3>2, LastOf
      <4>2. PICK n \in Node \ Leaf : n = Last(fs).node
        BY <4>1 DEF Frame
      <4>3. Left[n] \in Subtree[b] /\ Right[n] \in Subtree[b]
        BY <1>4, <1>5, <4>1, <4>2, CallOf
      <4> QED
        BY <1>3, <3>2, <4>2, <4>3 DEF Current
    <3> QED
      BY <3>1, <3>2
  <2>4. PICK u : u = Append(fs, f)
    OBVIOUS
  <2>5. u \in Seq(Frame) /\ Len(fs) \in Nat /\ DOMAIN u = 1..(Len(fs) + 1) /\ DOMAIN fs = 1..Len(fs)
    BY <2>2, <2>4, AppendOf
  <2>6. u[Len(fs) + 1] = f
    BY <2>2, <2>4, AppendOf
  <2>7. \A i \in DOMAIN fs : u[i] = fs[i]
    BY <2>2, <2>4, AppendOf
  <2>8. \A i \in DOMAIN u : u[i].node \in Subtree[b]
    <3>1. ASSUME NEW i \in DOMAIN u PROVE i = Len(fs) + 1 \/ i \in DOMAIN fs
      BY <2>5
    <3> QED
      BY <1>5, <2>2, <2>3, <2>6, <2>7, <3>1
  <2>9. PICK t : t = [Top(w) EXCEPT !.frames = u]
    OBVIOUS
  <2>10. t \in Task /\ t.stat \in Live /\ t.rslt = Top(w).rslt /\ t.body = b /\ t.frames = u
    BY <1>2, <1>4, <2>5, <2>9 DEF Task, Live
  <2>11. task' = [task EXCEPT ![w] = WithTop(task[w], t)]
    BY <1>3, <1>10, <2>1, <2>4, <2>9 DEF EnterDoTwo
  <2> QED
    BY <1>8, <2>8, <2>10, <2>11
<1>11. CASE RunStat2(w)
  <2>1. fs # <<>>
    BY <1>3, <1>11 DEF RunStat2
  <2>2. PICK f : f = [Last(fs) EXCEPT !.stat2 = TRUE]
    OBVIOUS
  <2>3. /\ f.node = Last(fs).node /\ Last(fs) = fs[Len(fs)]
        /\ Len(fs) \in DOMAIN fs /\ DOMAIN fs = 1..Len(fs) /\ f \in Frame
    <3>1. /\ Last(fs) \in Frame /\ Last(fs) = fs[Len(fs)]
          /\ Len(fs) \in DOMAIN fs /\ DOMAIN fs = 1..Len(fs)
      BY <2>1, LastOf
    <3> QED
      BY <2>2, <3>1 DEF Frame
  <2>4. PICK u : u = WithTop(fs, f)
    OBVIOUS
  <2>5. u \in Seq(Frame) /\ DOMAIN u = 1..Len(fs)
    BY <2>1, <2>3, <2>4, WithTopOf
  <2>6. u[Len(fs)] = f
    <3>1. f \in Frame
      BY <2>3
    <3> QED
      BY <2>1, <2>4, <3>1, WithTopOf
  <2>7. ASSUME NEW i \in DOMAIN fs, i # Len(fs) PROVE u[i] = fs[i]
    <3>1. f \in Frame
      BY <2>3
    <3> QED
      BY <2>1, <2>4, <2>7, <3>1, WithTopAt
  <2>8. \A i \in DOMAIN u : u[i].node \in Subtree[b]
    BY <1>5, <2>3, <2>5, <2>6, <2>7
  <2>9. PICK t : t = [Top(w) EXCEPT !.frames = u, !.ret = FALSE]
    OBVIOUS
  <2>10. t \in Task /\ t.stat \in Live /\ t.rslt = Top(w).rslt /\ t.body = b /\ t.frames = u
    BY <1>2, <1>4, <2>5, <2>9 DEF Task, Live
  <2>11. task' = [task EXCEPT ![w] = WithTop(task[w], t)]
    BY <1>3, <1>11, <2>2, <2>4, <2>9 DEF RunStat2
  <2> QED
    BY <1>8, <2>8, <2>10, <2>11
<1>12. CASE EndDoTwo(w) \/ GetRslt(w)
  <2>1. fs # <<>>
    BY <1>3, <1>12, NewestSub DEF EndDoTwo, GetRslt
  <2>2. PICK u : u = Front(fs)
    OBVIOUS
  <2>3. u \in Seq(Frame) /\ \A i \in DOMAIN u : i \in DOMAIN fs /\ u[i] = fs[i]
    BY <2>1, <2>2, FrontOf
  <2>4. PICK t : t = [Top(w) EXCEPT !.stat = "STARTED", !.frames = u]
    OBVIOUS
  <2>5. t \in Task /\ t.stat \in Live /\ t.rslt = Top(w).rslt /\ t.body = b /\ t.frames = u
    BY <1>2, <1>4, <2>3, <2>4 DEF Task, Live, TaskStat
  <2>6. task' = [task EXCEPT ![w] = WithTop(task[w], t)]
    BY <1>3, <1>12, <2>2, <2>4 DEF EndDoTwo, GetRslt, FinishDoTwo
  <2> QED
    BY <1>5, <1>8, <2>3, <2>5, <2>6
<1> QED
  BY <1>9, <1>10, <1>11, <1>12

(* A request that its sender abandons is not one to steal back a subtask that *)
(* is still executed: the result has arrived.                                 *)
LEMMA AnswerStays ==
  ASSUME IInv, NEW w \in Worker,
         \/ SendTreq(w) \/ Abandon(w) \/ AbandonAfterNap(w) \/ StartTask(w)
         \/ WaitRslt(w) \/ TaskDone(w)
  PROVE  \A v \in Worker : \A q \in ToSet(treq'[v]) : NoneStays(v, q)
<1>1. treq' = treq /\ TypeOK
  BY DEF SendTreq, Abandon, AbandonAfterNap, StartTask, WaitRslt, TaskDone, IInv
<1>2. CASE wnone' = wnone
  BY <1>1, <1>2, NoneKept
<1>3. CASE Abandon(w)
  <2>1. pc[w] = "reply" /\ SubDone(w) /\ task[w] # <<>> /\ wnone[w] = 0
        /\ Top(w).stat \in {"ALLOCATED", "NONE"} /\ Top(w).frames = <<>>
    BY <1>3, AtTop DEF Abandon, TopStat, NoFrames
  <2>2. \A x \in Worker \ {w} : wnone'[x] = wnone[x]
    BY <1>1, <1>3 DEF Abandon, TypeOK
  <2>3. Top(w).stat = "NONE" => wnone'[w] = 0
    BY <1>1, <1>3, <2>1 DEF Abandon, TypeOK
  <2>4. ASSUME NEW v \in Worker, NEW q \in ToSet(treq'[v]) PROVE NoneStays(v, q)
    <3>1. Accepted(v, q) /\ q.from \in Worker
      BY <1>1, <2>4, RequestType DEF IInv, Requests
    <3>2. CASE q.from # w \/ Top(w).stat = "NONE"
      BY <2>2, <2>3, <3>1, <3>2 DEF NoneStays
    <3>3. CASE q.from = w /\ Top(w).stat = "ALLOCATED"
      <4>1. Expecting(w)
        BY <2>1, <3>3 DEF Expecting
      <4>2. q.waiting # TERM
        BY <1>1, <2>1, <3>1, <3>3, DoneSubBelow DEF Accepted
      <4>3. q.waiting = FromAddr(w)
        BY <3>1, <3>3, <4>1, <4>2 DEF Accepted
      <4>4. ~Executes(v, q.waiting)
        BY <2>1, <4>3, DoneSubNotRun DEF Executes
      <4> QED
        BY <4>4 DEF NoneStays
    <3> QED
      BY <2>1, <3>2, <3>3
  <2> QED
    BY <2>4
<1> QED
  BY <1>2, <1>3 DEF SendTreq, AbandonAfterNap, StartTask, WaitRslt, TaskDone

(* The steps that set the status of the entry on top *)
LEMMA StatusOrder ==
  ASSUME IInv, IInv', OrderInv, NEW w \in Worker,
         \/ SendTreq(w) \/ Abandon(w) \/ AbandonAfterNap(w) \/ StartTask(w)
         \/ WaitRslt(w) \/ TaskDone(w)
  PROVE  OrderInv'
<1>1. pc[w] \in {"flush", "reply", "nap", "wait", "done"}
  BY DEF SendTreq, Abandon, AbandonAfterNap, StartTask, WaitRslt, TaskDone
<1>2. /\ TypeOK /\ task[w] # <<>> /\ Top(w) \in Task /\ Top(w).stat \in TopStat(pc[w])
      /\ Ordered(w)
  BY <1>1, AtTop, OrderedOf DEF OrderInv
<1>3. /\ treq' = treq /\ sub' = sub
      /\ \A v \in Worker \ {w} : asking'[v] = asking[v]
      /\ \A v \in Worker \ {w} : pc'[v] = pc[v]
  BY <1>2 DEF SendTreq, Abandon, AbandonAfterNap, StartTask, WaitRslt, TaskDone, GiveUp,
     Goto, TypeOK
<1>4. ~Sending(pc'[w])
  BY <1>2 DEF SendTreq, Abandon, AbandonAfterNap, StartTask, WaitRslt, TaskDone, GiveUp,
     Goto, TypeOK, Sending
<1>5. AskStays(w)
  <2>1. CASE SendTreq(w)
    <3>1. asking'[w] = (IF direct[w] THEN {} ELSE IF AsksAny(w) THEN Worker \ {w}
                        ELSE {Last(sub[w]).to})
      BY <1>2, <2>1 DEF SendTreq, TypeOK
    <3>2. Len(task'[w]) = Len(task[w])
      <4>1. PICK s : SetStat(w, s) /\ s \in TaskStat
        BY <2>1 DEF SendTreq, TaskStat
      <4>2. PICK t : t = [Top(w) EXCEPT !.stat = s]
        OBVIOUS
      <4>3. t \in Task /\ task' = [task EXCEPT ![w] = WithTop(task[w], t)]
        BY <1>2, <4>1, <4>2 DEF SetStat, Task
      <4> QED
        BY <1>2, <4>3, TopReplaced DEF NewTop
    <3> QED
      BY <1>3, <3>1, <3>2 DEF AskStays, AsksAny
  <2>2. CASE ~SendTreq(w)
    <3>1. pc'[w] # "ask"
      BY <1>2, <2>2 DEF Abandon, AbandonAfterNap, StartTask, WaitRslt, TaskDone, GiveUp,
         Goto, TypeOK
    <3> QED
      BY <3>1 DEF AskStays
  <2> QED
    BY <2>1, <2>2
<1>6. ASSUME NEW t, Turned(w, t), task' = [task EXCEPT ![w] = WithTop(task[w], t)]
      PROVE  OrderInv'
  <2>1. SubStays(w)
    BY <1>3 DEF SubStays
  <2>2. \A v \in Worker : \A q \in ToSet(treq'[v]) : NoneStays(v, q)
    BY AnswerStays
  <2> QED
    BY <1>2, <1>3, <1>4, <1>5, <1>6, <2>1, <2>2, TopOrder
<1>7. \A i \in DOMAIN Top(w).frames : Top(w).frames[i].node \in Subtree[Top(w).body]
  BY <1>2, TopWithin
<1>8. CASE SendTreq(w) \/ WaitRslt(w) \/ TaskDone(w)
  <2>1. PICK s \in {"ALLOCATED", "SUSPENDED", "DONE"} :
          /\ SetStat(w, s)
          /\ s = "ALLOCATED" => pc[w] = "flush"
          /\ s = "SUSPENDED" => pc[w] = "wait"
          /\ s = "DONE" => pc[w] = "done"
    BY <1>8 DEF SendTreq, WaitRslt, TaskDone
  <2>2. PICK t : t = [Top(w) EXCEPT !.stat = s]
    OBVIOUS
  <2>3. /\ t \in Task /\ t.stat = s /\ t.body = Top(w).body /\ t.rslt = Top(w).rslt
        /\ t.frames = Top(w).frames
    BY <1>2, <2>1, <2>2 DEF Task, TaskStat
  <2>4. Turned(w, t)
    BY <1>2, <1>7, <2>1, <2>3 DEF Turned, TopStat, Live
  <2>5. task' = [task EXCEPT ![w] = WithTop(task[w], t)]
    BY <2>1, <2>2 DEF SetStat
  <2> QED
    BY <1>6, <2>4, <2>5
<1>9. CASE Abandon(w) \/ AbandonAfterNap(w)
  <2>1. PICK h \in {treq[w][i].waiting : i \in DOMAIN treq[w]} \cup {TERM} :
          task' = [task EXCEPT ![w] =
                    WithTop(task[w], [Top(w) EXCEPT !.stat = "DONE", !.rslt = h])]
    BY <1>9 DEF Abandon, AbandonAfterNap, GiveUp
  <2>2. h \in Address
    BY <1>2, StackTypes DEF Request, Address
  <2>3. PICK t : t = [Top(w) EXCEPT !.stat = "DONE", !.rslt = h]
    OBVIOUS
  <2>4. t \in Task /\ t.stat = "DONE" /\ t.body = Top(w).body /\ t.frames = Top(w).frames
    BY <1>2, <2>2, <2>3 DEF Task, TaskStat
  <2>5. Top(w).stat \notin Live
    BY <1>2, <1>9 DEF Abandon, AbandonAfterNap, TopStat, Live
  <2>6. Turned(w, t)
    BY <1>7, <2>4, <2>5 DEF Turned, Live
  <2>7. task' = [task EXCEPT ![w] = WithTop(task[w], t)]
    BY <2>1, <2>3
  <2> QED
    BY <1>6, <2>6, <2>7
<1>10. CASE StartTask(w)
  <2>1. PICK t : t = [Top(w) EXCEPT !.stat = "STARTED", !.frames = <<>>, !.ret = FALSE]
    OBVIOUS
  <2>2. /\ t \in Task /\ t.stat = "STARTED" /\ t.body = Top(w).body /\ t.rslt = Top(w).rslt
        /\ t.frames = <<>>
    BY <1>2, <2>1, EmptySeq DEF Task, TaskStat
  <2>3. Turned(w, t)
    BY <1>10, <2>2 DEF Turned, StartTask, Live
  <2>4. task' = [task EXCEPT ![w] = WithTop(task[w], t)]
    BY <1>10, <2>1 DEF StartTask
  <2> QED
    BY <1>6, <2>3, <2>4
<1> QED
  BY <1>8, <1>9, <1>10

(* recv-none, in each of the four places that refuse a request *)
LEMMA NoneOrder ==
  ASSUME IInv, IInv', OrderInv, NEW r \in Worker,
         \/ task' = task
         \/ SetStat(r, "NONE") /\ task[r] # <<>> /\ Top(r).stat = "ALLOCATED",
         pc'[r] \in {"reply", pc[r], Woken(pc[r])},
         Top(r).stat = "ALLOCATED" => pc'[r] = "reply" \/ task' = task,
         sub' = sub, asking' = asking, \A v \in Worker \ {r} : pc'[v] = pc[v],
         \A x \in Worker : wnone'[x] = 1 => wnone[x] = 1,
         \A v \in Worker : \A q \in ToSet(treq'[v]) : q \in ToSet(treq[v])
  PROVE  OrderInv'
<1>1. TypeOK /\ \A v \in Worker : Ordered(v)
  BY OrderedOf DEF IInv, OrderInv
<1>5. \A v \in Worker : \A q \in ToSet(treq'[v]) : NoneStays(v, q)
  BY <1>1, NoneKept
<1>2. ASSUME NEW v \in Worker
      PROVE  /\ pc'[v] = "ask" => pc[v] = "ask"
             /\ Sending(pc'[v]) => Sending(pc[v])
  BY <1>2 DEF Woken, Sending
<1>3. CASE task' = task
  <2>1. ASSUME NEW v \in Worker PROVE Keeps(v) /\ BodiesStay(v)
    BY <1>1, <1>2, <1>3, IdleKeeps
  <2>2. ASSUME NEW v \in Worker, NEW q \in ToSet(treq'[v])
        PROVE  q \in ToSet(treq[v]) /\ BodiesStay(q.from)
    BY <1>1, <2>1, RequestType
  <2> QED
    BY <1>5, <2>1, <2>2, OrderKept
<1>4. CASE SetStat(r, "NONE") /\ task[r] # <<>> /\ Top(r).stat = "ALLOCATED" /\ task' # task
  <2>1. PICK t : t = [Top(r) EXCEPT !.stat = "NONE"]
    OBVIOUS
  <2>2. Top(r) \in Task
    BY <1>1, <1>4, TopOf
  <2>3. /\ t \in Task /\ t.stat = "NONE" /\ t.body = Top(r).body /\ t.frames = Top(r).frames
    BY <2>1, <2>2 DEF Task, TaskStat
  <2>4. \A i \in DOMAIN Top(r).frames : Top(r).frames[i].node \in Subtree[Top(r).body]
    BY <1>1, <1>4, TopWithin
  <2>5. Turned(r, t)
    BY <1>4, <2>3, <2>4 DEF Turned, Live
  <2>6. task' = [task EXCEPT ![r] = WithTop(task[r], t)]
    BY <1>4, <2>1 DEF SetStat
  <2>7. ~Sending(pc'[r]) /\ AskStays(r) /\ SubStays(r)
    BY <1>4 DEF Sending, AskStays, SubStays
  <2> QED
    BY <1>4, <1>5, <2>5, <2>6, <2>7, TopOrder
<1> QED
  BY <1>3, <1>4

LEMMA RefuseOrder ==
  ASSUME IInv, IInv', OrderInv, NEW w \in Worker, RefuseTreq(w)
  PROVE  OrderInv'
<1>1. TypeOK /\ task[w] # <<>> /\ Top(w).stat = "ALLOCATED" /\ wnone[w] = 0 /\ pc[w] = "ask"
  BY AtTop DEF RefuseTreq, TopStat
<1>2. RecvNone(w, [pc EXCEPT ![w] = "reply"])
      /\ UNCHANGED <<sub, treq, req, wrack, asking, direct, ackTo, outside>>
  BY DEF RefuseTreq
<1>3. SetStat(w, "NONE")
  BY <1>1, <1>2 DEF RecvNone
<1>4. pc'[w] = "reply" /\ \A v \in Worker \ {w} : pc'[v] = pc[v]
  BY <1>1, <1>2 DEF RecvNone, TypeOK, Woken
<1>5. \A x \in Worker : wnone'[x] = 1 => wnone[x] = 1
  BY <1>1, <1>2 DEF RecvNone, TypeOK
<1> QED
  BY <1>1, <1>2, <1>3, <1>4, <1>5, NoneOrder

LEMMA RefusedOrder ==
  ASSUME IInv, IInv', OrderInv, NEW r \in Worker, RecvNone(r, pc),
         Expecting(r) \/ wnone[r] = 1, sub' = sub, asking' = asking,
         \A v \in Worker : \A q \in ToSet(treq'[v]) : q \in ToSet(treq[v])
  PROVE  OrderInv'
<1>1. TypeOK
  BY DEF IInv
<1>5. \A x \in Worker : wnone'[x] = 1 => wnone[x] = 1
  <2>1. NoneBound(r)
    BY DEF IInv, Local
  <2> QED
    BY <1>1, <2>1 DEF RecvNone, TypeOK, NoneBound
<1>2. pc'[r] = Woken(pc[r]) /\ \A v \in Worker \ {r} : pc'[v] = pc[v]
  BY <1>1 DEF RecvNone, TypeOK
<1>3. CASE wnone[r] = 1
  <2>1. task' = task
    BY <1>3 DEF RecvNone
  <2> QED
    BY <1>2, <1>5, <2>1, NoneOrder
<1>4. CASE wnone[r] # 1
  <2>1. Expecting(r) /\ pc[r] \in {"reply", "sleep"} /\ Top(r).stat = "ALLOCATED"
    BY <1>4 DEF Expecting
  <2>2. task[r] # <<>> /\ wnone[r] = 0
    BY <2>1, AtTop
  <2>3. SetStat(r, "NONE")
    BY <2>2 DEF RecvNone
  <2>4. pc'[r] = "reply"
    BY <1>2, <2>1 DEF Woken
  <2> QED
    BY <1>2, <1>5, <2>1, <2>2, <2>3, <2>4, NoneOrder
<1> QED
  BY <1>3, <1>4

LEMMA FlushOrder ==
  ASSUME IInv, IInv', OrderInv, NEW w \in Worker, FlushBeforeTreq(w) \/ FlushAfterTask(w)
  PROVE  OrderInv'
<1>1. TypeOK
  BY DEF IInv
<1>2. PICK i \in DOMAIN treq[w] :
        /\ RecvNone(treq[w][i].from, pc)
        /\ treq' = [treq EXCEPT ![w] = RemoveAt(@, i)]
  BY DEF FlushBeforeTreq, FlushAfterTask, FlushOne, Topmost, ToFlush
<1>3. sub' = sub /\ asking' = asking
  BY DEF FlushBeforeTreq, FlushAfterTask, FlushOne
<1>4. PICK r \in Worker : r = treq[w][i].from
  BY <1>1, StackTypes DEF Request
<1>5. Expecting(r) \/ wnone[r] = 1
  <2>1. treq[w][i] \in ToSet(treq[w])
    BY ElementsOf
  <2> QED
    BY <1>1, <1>4, <2>1, NoRequest DEF IInv
<1>6. PICK s \in Seq(Request) : s = treq[w]
  BY <1>1, StackTypes
<1>7. PICK u : u = RemoveAt(s, i)
  OBVIOUS
<1>8. treq'[w] = u /\ \A v \in Worker \ {w} : treq'[v] = treq[v]
  BY <1>1, <1>2, <1>6, <1>7 DEF TypeOK
<1>9. DOMAIN s = 1..Len(s) /\ Len(s) \in Nat /\ i \in 1..Len(s)
  BY <1>6, LenProperties
<1>10. DOMAIN u = 1..(Len(s) - 1)
  BY <1>7, <1>9, RemoveAtOf
<1>11. ASSUME NEW k \in 1..(Len(s) - 1) PROVE u[k] = s[IF k < i THEN k ELSE k + 1]
  BY <1>7, <1>9, <1>11, RemoveAtOf
<1>12. ASSUME NEW q \in ToSet(u) PROVE q \in ToSet(s)
  <2>1. PICK k \in DOMAIN u : q = u[k]
    BY ElementsOf
  <2>2. PICK l \in 1..Len(s) : q = s[l]
    <3>1. CASE k < i
      BY <1>9, <1>10, <1>11, <2>1, <3>1
    <3>2. CASE ~(k < i)
      <4>1. k + 1 \in 1..Len(s) /\ q = s[k + 1]
        BY <1>9, <1>10, <1>11, <2>1, <3>2
      <4> QED
        BY <4>1
    <3> QED
      BY <3>1, <3>2
  <2> QED
    BY <1>9, <2>2, ElementsOf
<1>13. ASSUME NEW v \in Worker, NEW q \in ToSet(treq'[v]) PROVE q \in ToSet(treq[v])
  BY <1>6, <1>8, <1>12, <1>13
<1> QED
  BY <1>2, <1>3, <1>4, <1>5, <1>13, RefusedOrder

LEMMA OutsideNoneOrder ==
  ASSUME IInv, IInv', OrderInv, OutsideNone
  PROVE  OrderInv'
<1>1. First \in Worker /\ Expecting(First)
  BY WorkerAssumption DEF WorkerAssumption, OutsideNone, IInv, Requests
<1>2. RecvNone(First, pc) /\ sub' = sub /\ asking' = asking /\ treq' = treq
  BY DEF OutsideNone
<1> QED
  BY <1>1, <1>2, RefusedOrder

(* allocate-task, deallocate-task *)
LEMMA AllocateOrder ==
  ASSUME IInv, IInv', OrderInv, NEW w \in Worker, AllocateTask(w)
  PROVE  OrderInv'
<1>1. TypeOK /\ \A v \in Worker : Ordered(v)
  BY OrderedOf DEF IInv, OrderInv
<1>2. PICK s \in Seq(Task) : s = task[w]
  BY <1>1, StackTypes
<1>3. PICK t : t = [stat |-> "ALLOCATED", rslt |-> TERM, body |-> Root, frames |-> <<>>,
                    ret |-> FALSE]
  OBVIOUS
<1>4. t \in Task /\ t.stat = "ALLOCATED" /\ t.body = Root /\ t.frames = <<>>
  <2>1. <<>> \in Seq(Frame) /\ Root \in Node
    BY EmptySeq, ComputationAssumption DEF ComputationAssumption
  <2> QED
    BY <1>3, <2>1 DEF Task, TaskStat, Address
<1>5. task'[w] = Append(s, t) /\ \A v \in Worker \ {w} : task'[v] = task[v]
  BY <1>1, <1>2, <1>3 DEF AllocateTask, TypeOK
<1>6. PICK n \in Nat : n = Len(s)
  BY <1>2, LenProperties
<1>7. DOMAIN task[w] = 1..n /\ DOMAIN task'[w] = 1..(n + 1) /\ Len(task'[w]) = n + 1
  BY <1>2, <1>4, <1>5, <1>6, AppendOf
<1>8. task'[w][n + 1] = t /\ Top(w)' = t
  <2>1. Append(s, t)[Len(s) + 1] = t
    BY <1>4, AppendOf
  <2>2. Last(Append(s, t)) = t
    BY <1>4, AppendOf
  <2> QED
    BY <1>5, <1>6, <2>1, <2>2 DEF Top
<1>9. ASSUME NEW j \in 1..n PROVE task'[w][j] = task[w][j]
  BY <1>2, <1>4, <1>5, <1>7, <1>9, AppendOf
<1>10. /\ sub' = sub /\ treq' = treq /\ asking' = asking /\ wnone' = wnone /\ pc[w] = "enter"
       /\ pc'[w] = "flush" /\ \A v \in Worker \ {w} : pc'[v] = pc[v]
  BY <1>1 DEF AllocateTask, Goto, TypeOK
<1>11. Ordered(w)'
  <2>1. ASSUME NEW j \in DOMAIN task'[w], NEW i \in DOMAIN task'[w][j].frames
        PROVE  task'[w][j].frames[i].node \in Subtree[task'[w][j].body]
    <3>1. j # n + 1
      BY <1>4, <1>8, <2>1, EmptySeq
    <3>2. j \in 1..n
      BY <1>7, <2>1, <3>1
    <3> QED
      BY <1>1, <1>7, <1>9, <2>1, <3>2 DEF Ordered
  <2>2. ASSUME NEW j \in DOMAIN task'[w], NEW k \in DOMAIN task'[w], j < k,
               task'[w][k].stat \in Live
        PROVE  task'[w][k].body \in Subtree[Waited(task'[w][j])]
    <3>1. k # n + 1
      BY <1>4, <1>8, <2>2 DEF Live
    <3>2. j \in 1..n /\ k \in 1..n
      BY <1>7, <2>2, <3>1
    <3> QED
      BY <1>1, <1>7, <1>9, <2>2, <3>2 DEF Ordered
  <2>3. Top(w)'.body = Root
    BY <1>4, <1>8
  <2> QED
    BY <2>1, <2>2, <2>3 DEF Ordered
<1>12. StillRun(w)
  <2>1. ASSUME NEW j \in DOMAIN task[w], Unsent(w, j)
        PROVE  /\ j \in DOMAIN task'[w] /\ Unsent(w, j)'
               /\ task'[w][j].rslt = task[w][j].rslt /\ task'[w][j].body = task[w][j].body
    BY <1>7, <1>9, <1>10, <2>1 DEF Unsent, ResultSent
  <2> QED
    BY <2>1 DEF StillRun
<1>13. /\ TopStays(w) /\ AskStays(w) /\ SentStays(w) /\ SubStays(w)
  BY <1>10 DEF TopStays, AskStays, SentStays, SubStays, Sending, Ends
<1>14. BodiesStay(w)
  <2>1. ASSUME NEW k \in DOMAIN task'[w], task'[w][k].body # Root
        PROVE  k \in DOMAIN task[w] /\ task'[w][k].body = task[w][k].body
    <3>1. k # n + 1
      BY <1>4, <1>8, <2>1
    <3> QED
      BY <1>7, <1>9, <2>1, <3>1
  <2> QED
    BY <2>1 DEF BodiesStay
<1>15. \A v \in Worker : Keeps(v) /\ BodiesStay(v)
  BY <1>1, <1>5, <1>10, <1>11, <1>12, <1>13, <1>14, OtherKeeps DEF Keeps
<1>16. ASSUME NEW v \in Worker, NEW q \in ToSet(treq'[v])
       PROVE  q \in ToSet(treq[v]) /\ BodiesStay(q.from)
  BY <1>1, <1>10, <1>15, RequestType
<1>17. \A v \in Worker : \A q \in ToSet(treq'[v]) : NoneStays(v, q)
  BY <1>1, <1>10, <1>16, NoneKept
<1> QED
  BY <1>15, <1>16, <1>17, OrderKept

LEMMA DeallocateOrder ==
  ASSUME IInv, IInv', OrderInv, NEW w \in Worker, DeallocateTask(w)
  PROVE  OrderInv'
<1>1. /\ TypeOK /\ Stacks(w) /\ task[w] # <<>> /\ Top(w).stat = "DONE" /\ pc[w] = "drain"
      /\ \A v \in Worker : Ordered(v)
  BY AtTop, OrderedOf DEF IInv, OrderInv, DeallocateTask, TopStat
<1>2. PICK s \in Seq(Task) : s = task[w]
  BY <1>1, StackTypes
<1>3. PICK u : u = Front(s)
  OBVIOUS
<1>4. task'[w] = u /\ \A v \in Worker \ {w} : task'[v] = task[v]
  BY <1>1, <1>2, <1>3 DEF DeallocateTask, TypeOK
<1>5. PICK n \in Nat \ {0} : n = Len(s)
  BY <1>1, <1>2, FrontOf
<1>6. u \in Seq(Task) /\ Len(u) = n - 1 /\ DOMAIN u = 1..(n - 1) /\ DOMAIN s = 1..n
      /\ \A j \in DOMAIN u : u[j] = s[j]
  BY <1>1, <1>2, <1>3, <1>5, FrontOf
<1>7. \A j \in 1..(n - 1) : s[j].stat = "SUSPENDED"
  BY <1>1, <1>2, <1>5 DEF Stacks
<1>8. /\ sub' = sub /\ treq' = treq /\ asking' = asking /\ wnone' = wnone
      /\ pc'[w] \in {"enter", "wait"} /\ \A v \in Worker \ {w} : pc'[v] = pc[v]
  BY <1>1 DEF DeallocateTask, Goto, TypeOK
<1>9. Ordered(w)'
  <2>1. ASSUME NEW j \in DOMAIN task'[w], NEW i \in DOMAIN task'[w][j].frames
        PROVE  task'[w][j].frames[i].node \in Subtree[task'[w][j].body]
    <3>1. j \in DOMAIN task[w] /\ task'[w][j] = task[w][j]
      BY <1>2, <1>4, <1>6, <2>1
    <3> QED
      BY <1>1, <2>1, <3>1 DEF Ordered
  <2>2. ASSUME NEW j \in DOMAIN task'[w], NEW k \in DOMAIN task'[w], j < k,
               task'[w][k].stat \in Live
        PROVE  task'[w][k].body \in Subtree[Waited(task'[w][j])]
    <3>1. /\ j \in DOMAIN task[w] /\ task'[w][j] = task[w][j]
          /\ k \in DOMAIN task[w] /\ task'[w][k] = task[w][k]
      BY <1>2, <1>4, <1>6, <2>2
    <3> QED
      BY <1>1, <2>2, <3>1 DEF Ordered
  <2>3. ~Unfilled(w)'
    <3>1. CASE u = <<>>
      BY <1>4, <3>1 DEF Unfilled
    <3>2. CASE u # <<>>
      <4>1. Last(u) = u[Len(u)] /\ Len(u) \in DOMAIN u
        BY <1>6, <3>2, LastOf
      <4>2. Top(w)' = Last(u) /\ Last(u).stat = "SUSPENDED"
        BY <1>4, <1>6, <1>7, <4>1 DEF Top
      <4> QED
        BY <4>2 DEF Unfilled
    <3> QED
      BY <3>1, <3>2
  <2> QED
    BY <2>1, <2>2, <2>3 DEF Ordered
<1>10. StillRun(w)
  <2>1. ASSUME NEW j \in DOMAIN task[w], Unsent(w, j)
        PROVE  /\ j \in DOMAIN task'[w] /\ Unsent(w, j)'
               /\ task'[w][j].rslt = task[w][j].rslt /\ task'[w][j].body = task[w][j].body
    <3>1. j # n
      BY <1>1, <1>2, <1>5, <2>1, TopOf DEF Unsent, Live
    <3>2. j \in DOMAIN task'[w] /\ task'[w][j] = task[w][j]
      BY <1>2, <1>4, <1>6, <2>1, <3>1
    <3> QED
      BY <1>8, <2>1, <3>2 DEF Unsent, ResultSent
  <2> QED
    BY <2>1 DEF StillRun
<1>11. /\ TopStays(w) /\ AskStays(w) /\ SentStays(w) /\ SubStays(w)
  BY <1>8 DEF TopStays, AskStays, SentStays, SubStays, Sending, Ends
<1>12. BodiesStay(w)
  BY <1>2, <1>4, <1>6 DEF BodiesStay
<1>13. \A v \in Worker : Keeps(v) /\ BodiesStay(v)
  BY <1>1, <1>4, <1>8, <1>9, <1>10, <1>11, <1>12, OtherKeeps DEF Keeps
<1>14. ASSUME NEW v \in Worker, NEW q \in ToSet(treq'[v])
       PROVE  q \in ToSet(treq[v]) /\ BodiesStay(q.from)
  BY <1>1, <1>8, <1>13, RequestType
<1>15. \A v \in Worker : \A q \in ToSet(treq'[v]) : NoneStays(v, q)
  BY <1>1, <1>8, <1>14, NoneKept
<1> QED
  BY <1>13, <1>14, <1>15, OrderKept

(* A task is written into the empty entry of a worker that waits for it. *)
LEMMA FilledKeeps ==
  ASSUME IInv, NEW r \in Worker, Ordered(r), Expecting(r), NEW p, NewTop(r, p),
         p.frames = <<>>, p.stat = "INITIALIZED",
         \A j \in DOMAIN task[r] : j # Len(task[r]) => p.body \in Subtree[Waited(task[r][j])],
         sub'[r] = sub[r], pc'[r] = "reply"
  PROVE  Keeps(r)
<1>1. /\ TypeOK /\ task[r] # <<>> /\ Top(r).stat = "ALLOCATED"
      /\ pc[r] \in {"reply", "sleep"}
  BY AtTop DEF Expecting
<1>2. PICK n \in Nat : n = Len(task[r])
  BY <1>1, TopOf
<1>3. DOMAIN task[r] = 1..n /\ Top(r) = task[r][n] /\ n \in DOMAIN task[r]
  BY <1>1, <1>2, TopOf
<1>4. /\ DOMAIN task'[r] = 1..n /\ Len(task'[r]) = n /\ task'[r][n] = p /\ Top(r)' = p
      /\ \A j \in 1..n : j # n => task'[r][j] = task[r][j]
  BY <1>2, <1>3 DEF NewTop
<1>5. Ordered(r)'
  <2>1. ASSUME NEW j \in DOMAIN task'[r], NEW i \in DOMAIN task'[r][j].frames
        PROVE  task'[r][j].frames[i].node \in Subtree[task'[r][j].body]
    <3>1. j # n
      BY <1>4, <2>1, EmptySeq
    <3> QED
      BY <1>3, <1>4, <2>1, <3>1 DEF Ordered
  <2>2. ASSUME NEW j \in DOMAIN task'[r], NEW k \in DOMAIN task'[r], j < k,
               task'[r][k].stat \in Live
        PROVE  task'[r][k].body \in Subtree[Waited(task'[r][j])]
    <3>1. j # n /\ j \in DOMAIN task[r] /\ k \in DOMAIN task[r]
      BY <1>3, <1>4, <2>2
    <3>2. task'[r][j] = task[r][j]
      BY <1>3, <1>4, <3>1
    <3>3. CASE k = n
      BY <1>2, <1>4, <3>1, <3>2, <3>3
    <3>4. CASE k # n
      BY <1>3, <1>4, <2>2, <3>1, <3>2, <3>4 DEF Ordered
    <3> QED
      BY <3>3, <3>4
  <2>3. ~Unfilled(r)'
    BY <1>4 DEF Unfilled
  <2> QED
    BY <2>1, <2>2, <2>3 DEF Ordered
<1>6. StillRun(r)
  <2>1. ASSUME NEW j \in DOMAIN task[r], Unsent(r, j)
        PROVE  /\ j \in DOMAIN task'[r] /\ Unsent(r, j)'
               /\ task'[r][j].rslt = task[r][j].rslt /\ task'[r][j].body = task[r][j].body
    <3>1. j # n
      BY <1>1, <1>3, <2>1 DEF Unsent, Live
    <3> QED
      BY <1>3, <1>4, <2>1, <3>1 DEF Unsent, ResultSent
  <2> QED
    BY <2>1 DEF StillRun
<1>7. TopStays(r) /\ AskStays(r) /\ SentStays(r) /\ SubStays(r)
  BY <1>1 DEF TopStays, AskStays, SentStays, SubStays, Sending, Ends
<1> QED
  BY <1>5, <1>6, <1>7 DEF Keeps

LEMMA OutsideTaskOrder ==
  ASSUME IInv, IInv', OrderInv, OutsideTask
  PROVE  OrderInv'
<1>1. /\ TypeOK /\ First \in Worker /\ Expecting(First) /\ Len(task[First]) = 1
      /\ \A v \in Worker : \A i \in DOMAIN treq[v] : treq[v][i].from # First
      /\ \A v \in Worker : Ordered(v)
  BY WorkerAssumption, OrderedOf DEF WorkerAssumption, OutsideTask, IInv, Requests, OrderInv
<1>2. /\ task[First] # <<>> /\ Top(First) \in Task /\ Top(First).frames = <<>>
      /\ pc[First] \in {"reply", "sleep"}
  BY <1>1, AtTop DEF Expecting, NoFrames
<1>3. PICK p : p = [Top(First) EXCEPT !.stat = "INITIALIZED", !.rslt = OUTSIDE, !.body = Root]
  OBVIOUS
<1>4. p \in Task /\ p.stat = "INITIALIZED" /\ p.frames = <<>>
  <2>1. Root \in Node /\ OUTSIDE \in Address
    BY ComputationAssumption DEF ComputationAssumption, Address
  <2> QED
    BY <1>2, <1>3, <2>1 DEF Task, TaskStat
<1>5. task' = [task EXCEPT ![First] = WithTop(task[First], p)]
  BY <1>3 DEF OutsideTask, Initialized
<1>6. NewTop(First, p) /\ \A v \in Worker \ {First} : task'[v] = task[v]
  BY <1>1, <1>2, <1>4, <1>5, TopReplaced
<1>7. /\ sub' = sub /\ treq' = treq /\ asking' = asking /\ wnone' = wnone
      /\ pc'[First] = "reply" /\ \A v \in Worker \ {First} : pc'[v] = pc[v]
  BY <1>1, <1>2 DEF OutsideTask, TypeOK, Woken
<1>8. \A j \in DOMAIN task[First] : j = Len(task[First])
  BY <1>1, StackTypes
<1>9. Keeps(First)
  BY <1>1, <1>4, <1>6, <1>7, <1>8, FilledKeeps
<1>10. \A v \in Worker \ {First} : Keeps(v) /\ BodiesStay(v)
  BY <1>1, <1>6, <1>7, OtherKeeps
<1>11. ASSUME NEW v \in Worker, NEW q \in ToSet(treq'[v])
       PROVE  q \in ToSet(treq[v]) /\ BodiesStay(q.from)
  <2>1. q \in ToSet(treq[v]) /\ q.from \in Worker
    BY <1>1, <1>7, RequestType
  <2>2. q.from # First
    BY <1>1, <2>1, ElementsOf
  <2> QED
    BY <1>10, <2>1, <2>2
<1>12. \A v \in Worker : \A q \in ToSet(treq'[v]) : NoneStays(v, q)
  BY <1>1, <1>7, <1>11, NoneKept
<1>13. \A v \in Worker : Keeps(v)
  BY <1>9, <1>10
<1> QED
  BY <1>11, <1>12, <1>13, OrderKept

(* What a worker that spawns has on top is called in all its tasks. *)
LEMMA CalledBelow ==
  ASSUME IInv, NEW w \in Worker, Ordered(w), task[w] # <<>>, Top(w).stat \in Live,
         NEW j \in DOMAIN task[w], NEW m \in Subtree[Top(w).body]
  PROVE  m \in Subtree[task[w][j].body]
<1>1. PICK n \in Nat : n = Len(task[w])
  BY TopOf DEF IInv
<1>2. DOMAIN task[w] = 1..n /\ Top(w) = task[w][n] /\ n \in DOMAIN task[w]
  BY <1>1, TopOf DEF IInv
<1>3. CASE j = n
  BY <1>2, <1>3
<1>4. CASE j # n
  <2>1. j < n
    BY <1>2, <1>4
  <2>2. Top(w).body \in Subtree[Waited(task[w][j])]
    BY <1>2, <2>1 DEF Ordered
  <2>3. /\ task[w][j].body \in Node /\ Waited(task[w][j]) \in Node
        /\ Waited(task[w][j]) \in Subtree[task[w][j].body]
    BY <1>1, <1>4, WaitedOf
  <2>4. m \in Subtree[Waited(task[w][j])]
    BY <2>2, <2>3, SubtreeInside
  <2> QED
    BY <2>3, <2>4, SubtreeInside
<1> QED
  BY <1>3, <1>4

(* The half that w gives to r is called in what r waits for. *)
LEMMA SpawnedBelow ==
  ASSUME IInv, OrderInv, NEW w \in Worker, NEW q \in ToSet(treq[w]),
         Expecting(q.from), Accepted(w, q), ~Leaving(w, q.waiting),
         task[w] # <<>>, Top(w).stat \in Live, NEW m \in Subtree[Top(w).body],
         NEW k \in DOMAIN task[q.from], k # Len(task[q.from])
  PROVE  m \in Subtree[Waited(task[q.from][k])]
<1>1. TypeOK /\ \A v \in Worker : Ordered(v)
  BY OrderedOf DEF IInv, OrderInv
<1>2. PICK r \in Worker : r = q.from
  BY <1>1, RequestType
<1>3. k \in 1..Len(task[r]) /\ Len(task[r]) # 1 /\ Len(task[r]) \in Nat
  BY <1>1, <1>2, StackTypes
<1>4. /\ q.waiting = FromAddr(r)
      /\ \E j \in DOMAIN task[w] : Unsent(w, j) /\ task[w][j].rslt = q.waiting
  BY <1>2, <1>3 DEF Accepted
<1>5. PICK j \in DOMAIN task[w] : Unsent(w, j) /\ task[w][j].rslt = FromAddr(r)
  BY <1>4
<1>6. PICK x \in Worker, y \in Nat \ {0} :
        /\ task[w][j].rslt = <<x, y>> /\ y \in DOMAIN sub[x] /\ sub[x][y].to = w
        /\ sub[x][y].body = task[w][j].body
  BY <1>5, HomeBody
<1>7. sub[r] # <<>> /\ x = r /\ y = Len(sub[r])
  BY <1>5, <1>6 DEF FromAddr, TERM
<1>8. task[r] # <<>> /\ Top(r).frames = <<>>
  BY <1>2, AtTop DEF Expecting, NoFrames
<1>9. PICK l \in DOMAIN task[r] : l = Len(task[r]) - 1 /\ Last(sub[r]) = sub[r][Len(sub[r])]
                                  /\ Last(sub[r]).body = Waited(task[r][l])
  BY <1>7, <1>8, WaitedSub
<1>10. task[w][j].body = Waited(task[r][l])
  BY <1>6, <1>7, <1>9
<1>11. m \in Subtree[Waited(task[r][l])]
  BY <1>1, <1>10, CalledBelow
<1>12. k <= l /\ l # Len(task[r])
  BY <1>2, <1>3, <1>9
<1> QED
  BY <1>1, <1>2, <1>11, <1>12, StackOrder

LEMMA SpawnTaskOrder ==
  ASSUME IInv, IInv', OrderInv, NEW w \in Worker, SpawnTask(w)
  PROVE  OrderInv'
<1>1. /\ TypeOK /\ pc[w] = "spawn" /\ task[w] # <<>> /\ Top(w) \in Task
      /\ Top(w).frames \in Seq(Frame) /\ Top(w).stat = "STARTED" /\ treq[w] # <<>>
      /\ \A v \in Worker : Ordered(v)
  BY AtTop, OrderedOf DEF OrderInv, SpawnTask, TopStat
<1>2. PICK s \in Seq(Request) : s = treq[w]
  BY <1>1 DEF TypeOK
<1>3. PICK q : q = Last(s)
  OBVIOUS
<1>4. s # <<>> /\ q = s[Len(s)] /\ DOMAIN s = 1..Len(s) /\ Len(s) \in Nat \ {0}
  BY <1>1, <1>2, <1>3, LastOf
<1>5. q \in ToSet(treq[w]) /\ q.from \in Worker
  <2>1. Len(s) \in DOMAIN s
    BY <1>4
  <2>2. q \in ToSet(treq[w])
    BY <1>2, <1>4, <2>1, ElementsOf
  <2> QED
    BY <1>1, <2>2, RequestType
<1>6. PICK r \in Worker : r = q.from
  BY <1>5
<1>7. Accepted(w, q) /\ ~Leaving(w, q.waiting)
  BY <1>1, <1>5 DEF IInv, Requests, Leaving
<1>8. Expecting(r)
  BY <1>6, <1>7 DEF Accepted
<1>9. /\ r # w /\ task[r] # <<>> /\ Top(r) \in Task /\ Top(r).frames = <<>>
      /\ pc[r] \in {"reply", "sleep"}
  BY <1>1, <1>8, AtTop DEF Expecting, NoFrames
<1>10. PICK i \in Spawnable(Top(w)) :
        /\ task' = [task EXCEPT
              ![w] = WithTop(task[w], [Top(w) EXCEPT !.frames[i].spawned = Len(sub[w]) + 1]),
              ![r] = Initialized(r, <<w, Len(sub[w]) + 1>>, Right[Top(w).frames[i].node])]
        /\ pc' = [pc EXCEPT ![r] = Woken(@)]
        /\ sub' = [sub EXCEPT ![w] =
              Append(@, [stat |-> "INITIALIZED", to |-> r, body |-> Right[Top(w).frames[i].node]])]
  BY <1>2, <1>3, <1>6 DEF SpawnTask, Oldest
<1>11. treq' = [treq EXCEPT ![w] = Front(s)] /\ asking' = asking /\ wnone' = wnone
  BY <1>2 DEF SpawnTask
<1>12. i \in DOMAIN Top(w).frames
  BY <1>1, <1>10, SpawnableFrames
<1>13. PICK n \in Nat \ {0} : n = Len(sub[w]) + 1
  BY <1>1, StackTypes
(* the half, and the frames of w *)
<1>14. PICK fs \in Seq(Frame) : fs = Top(w).frames
  BY <1>1
<1>15. i \in DOMAIN fs /\ DOMAIN fs = 1..Len(fs) /\ fs[i] \in Frame
  BY <1>12, <1>14, LenProperties, ElementOfSeq
<1>16. PICK b \in Node : b = Top(w).body
  BY <1>1 DEF Task
<1>17. \A l \in DOMAIN fs : fs[l].node \in Subtree[b]
  BY <1>1, <1>14, <1>16, TopWithin
<1>18. PICK c \in Node \ Leaf : c = fs[i].node
  BY <1>15 DEF Frame
<1>19. Right[c] \in Subtree[b] /\ Right[c] \in Node
  BY <1>15, <1>16, <1>17, <1>18, CallOf, SubtreeOf
<1>20. PICK half \in Node : half = Right[c]
  BY <1>19
<1>21. PICK f : f = [fs[i] EXCEPT !.spawned = n]
  OBVIOUS
<1>22. f \in Frame /\ f.node = fs[i].node
  BY <1>15, <1>21 DEF Frame
<1>23. PICK g : g = [fs EXCEPT ![i] = f]
  OBVIOUS
<1>24. g \in Seq(Frame) /\ Len(g) = Len(fs)
       /\ \A l \in 1..Len(fs) : g[l] = IF l = i THEN f ELSE fs[l]
  BY <1>15, <1>22, <1>23, ExceptSeq
<1>25. \A l \in DOMAIN g : g[l].node \in Subtree[b]
  <2>1. DOMAIN g = DOMAIN fs
    BY <1>15, <1>24, LenProperties
  <2> QED
    BY <1>15, <1>17, <1>22, <1>24, <2>1
<1>26. PICK t : t = [Top(w) EXCEPT !.frames = g]
  OBVIOUS
<1>27. t \in Task /\ t.frames = g /\ t.stat = "STARTED" /\ t.rslt = Top(w).rslt
       /\ t.body = Top(w).body
  BY <1>1, <1>24, <1>26 DEF Task
<1>28. t = [Top(w) EXCEPT !.frames[i].spawned = Len(sub[w]) + 1]
  BY <1>13, <1>14, <1>21, <1>23, <1>26
(* r's task *)
<1>29. PICK a : a = <<w, n>>
  OBVIOUS
<1>30. a \in Address
  BY <1>29 DEF Address
<1>31. PICK p : p = [Top(r) EXCEPT !.stat = "INITIALIZED", !.rslt = a, !.body = half]
  OBVIOUS
<1>32. p \in Task /\ p.stat = "INITIALIZED" /\ p.body = half /\ p.frames = <<>>
  BY <1>9, <1>30, <1>31 DEF Task, TaskStat
<1>33. Initialized(r, <<w, Len(sub[w]) + 1>>, Right[Top(w).frames[i].node]) = WithTop(task[r], p)
  BY <1>13, <1>14, <1>18, <1>20, <1>29, <1>31 DEF Initialized
<1>34. task' = [task EXCEPT ![w] = WithTop(task[w], t), ![r] = WithTop(task[r], p)]
  BY <1>10, <1>28, <1>33
<1>35. /\ task'[w] = WithTop(task[w], t) /\ task'[r] = WithTop(task[r], p)
       /\ \A v \in Worker \ {w, r} : task'[v] = task[v]
  BY <1>1, <1>9, <1>34 DEF TypeOK
<1>36. NewTop(w, t) /\ NewTop(r, p)
  BY <1>1, <1>9, <1>27, <1>32, <1>35, TopSet
<1>37. /\ pc'[r] = "reply" /\ \A v \in Worker \ {r} : pc'[v] = pc[v]
       /\ pc'[w] = "spawn" /\ \A v \in Worker \ {w} : sub'[v] = sub[v]
  BY <1>1, <1>9, <1>10 DEF TypeOK, Woken
(* each worker *)
<1>38. Keeps(w) /\ BodiesStay(w)
  <2>1. Turned(w, t)
    BY <1>1, <1>16, <1>25, <1>27 DEF Turned, Live
  <2>2. ~Sending(pc'[w]) /\ AskStays(w)
    BY <1>37 DEF Sending, AskStays
  <2>3. SubStays(w)
    <3>1. PICK h : h = [stat |-> "INITIALIZED", to |-> r, body |-> half]
      OBVIOUS
    <3>2. h \in TaskHome /\ h.to = r
      BY <3>1 DEF TaskHome, HomeStat
    <3>3. PICK d \in Seq(TaskHome) : d = sub[w]
      BY <1>1 DEF TypeOK
    <3>4. sub'[w] = Append(d, h)
      BY <1>1, <1>10, <1>14, <1>18, <1>20, <3>1, <3>3 DEF TypeOK
    <3>5. Len(d) \in Nat /\ DOMAIN d = 1..Len(d) /\ DOMAIN Append(d, h) = 1..(Len(d) + 1)
      BY <3>2, AppendOf
    <3>6. Append(d, h)[Len(d) + 1] = h
      BY <3>2, AppendOf
    <3>7. \A y \in DOMAIN d : Append(d, h)[y] = d[y]
      BY <3>2, AppendOf
    <3>8. ASSUME NEW y \in DOMAIN sub'[w], Sending(pc'[sub'[w][y].to])
          PROVE  y \in DOMAIN sub[w] /\ sub'[w][y] = sub[w][y]
      <4>1. y # Len(d) + 1
        BY <1>37, <3>2, <3>4, <3>6, <3>8 DEF Sending
      <4>2. y \in DOMAIN d
        BY <3>4, <3>5, <3>8, <4>1
      <4> QED
        BY <3>3, <3>4, <3>7, <4>2
    <3> QED
      BY <3>8 DEF SubStays
  <2>4. Ordered(w)' /\ StillRun(w) /\ TopStays(w) /\ SentStays(w) /\ BodiesStay(w)
    BY <1>1, <1>36, <2>1, <2>2, TopKeeps
  <2> QED
    BY <2>2, <2>3, <2>4 DEF Keeps
<1>39. Keeps(r)
  <2>1. ASSUME NEW j \in DOMAIN task[r], j # Len(task[r])
        PROVE  half \in Subtree[Waited(task[r][j])]
    <3>1. Top(w).stat \in Live /\ half \in Subtree[Top(w).body]
      BY <1>1, <1>16, <1>19, <1>20 DEF Live
    <3> QED
      BY <1>1, <1>5, <1>6, <1>7, <1>8, <2>1, <3>1, SpawnedBelow
  <2>2. sub'[r] = sub[r] /\ pc'[r] = "reply"
    BY <1>9, <1>37
  <2> QED
    BY <1>1, <1>8, <1>32, <1>36, <2>1, <2>2, FilledKeeps
<1>40. \A v \in Worker \ {w, r} : Keeps(v) /\ BodiesStay(v)
  BY <1>1, <1>11, <1>35, <1>37, OtherKeeps
(* the requests: r's is answered *)
<1>41. ASSUME NEW v \in Worker, NEW x \in ToSet(treq'[v])
       PROVE  x \in ToSet(treq[v]) /\ BodiesStay(x.from)
  <2>1. PICK u : u = Front(s)
    OBVIOUS
  <2>2. u \in Seq(Request) /\ DOMAIN u = 1..(Len(s) - 1)
    BY <1>4, <2>1, FrontOf
  <2>3. ASSUME NEW k \in DOMAIN u PROVE u[k] = s[k]
    BY <1>4, <2>1, <2>3, FrontOf
  <2>4. treq'[w] = u /\ \A y \in Worker \ {w} : treq'[y] = treq[y]
    BY <1>1, <1>11, <2>1 DEF TypeOK
  <2>5. PICK k \in DOMAIN treq'[v] : x = treq'[v][k]
    BY <1>41, ElementsOf
  <2>6. k \in DOMAIN treq[v] /\ treq[v][k] = x /\ (v = w => k # Len(s))
    <3>1. CASE v = w
      BY <1>2, <1>4, <2>2, <2>3, <2>4, <2>5, <3>1
    <3>2. CASE v # w
      BY <2>4, <2>5, <3>2
    <3> QED
      BY <3>1, <3>2
  <2>7. x \in ToSet(treq[v])
    BY <2>6, ElementsOf
  <2>8. x.from # r
    <3>1. Len(s) \in DOMAIN treq[w] /\ treq[w][Len(s)].from = r
      BY <1>2, <1>4, <1>6
    <3> QED
      BY <2>6, <3>1 DEF IInv, Requests
  <2>9. x.from \in Worker
    BY <1>1, <2>7, RequestType
  <2> QED
    BY <1>38, <1>40, <2>7, <2>8, <2>9
<1>42. \A v \in Worker : Keeps(v)
  BY <1>38, <1>39, <1>40
<1>43. \A v \in Worker : \A x \in ToSet(treq'[v]) : NoneStays(v, x)
  BY <1>1, <1>11, <1>41, NoneKept
<1> QED
  BY <1>41, <1>42, <1>43, OrderKept

-----------------------------------------------------------------------------
(* The two steps by which a subtask comes to be over for its requester: the *)
(* result is sent, or a request finds it sent.                              *)
LEMMA StealsUnder ==
  ASSUME IInv, OrderInv, NEW w \in Worker, pc[w] \in {"ask", "reply", "sleep"},
         Unfilled(w), sub[w] # <<>>, NEW v \in Worker, Top(v).body = Last(sub[w]).body
  PROVE  Under(v, w)
<1>1. task[w] # <<>> /\ Top(w).frames = <<>> /\ Ordered(w)
  BY AtTop, OrderedOf DEF NoFrames, OrderInv
<1>2. /\ Last(sub[w]).body # Root
      /\ \A k \in DOMAIN task[w] : task[w][k].body # Root =>
           Last(sub[w]).body \in Below(task[w][k].body)
  BY <1>1, UnderNewest
<1> QED
  BY <1>2 DEF Under

LEMMA TryTreqOrder ==
  ASSUME IInv, IInv', OrderInv, NEW w \in Worker, NEW v \in Worker, TryTreqAccepted(w, v)
  PROVE  OrderInv'
<1>1. /\ TypeOK /\ task[w] # <<>> /\ pc[w] = "ask" /\ Top(w).stat = "ALLOCATED"
      /\ \A x \in Worker : Ordered(x)
  BY AtTop, OrderedOf DEF OrderInv, TryTreqAccepted, TopStat
<1>2. /\ task' = task /\ sub' = sub /\ wnone' = wnone /\ pc'[w] = "reply"
      /\ \A x \in Worker \ {w} : pc'[x] = pc[x]
      /\ \A x \in Worker : asking'[x] \subseteq asking[x]
  BY <1>1 DEF TryTreqAccepted, Goto, TypeOK
<1>3. \A x \in Worker : Keeps(x) /\ BodiesStay(x)
  BY <1>1, <1>2, IdleKeeps DEF Sending
<1>4. PICK q : q = [from |-> w, waiting |-> IF AsksAny(w) THEN TERM ELSE FromAddr(w)]
  OBVIOUS
<1>5. q \in Request
  BY <1>1, <1>4, FromAddrOf DEF Request, Address
<1>6. ASSUME NEW x \in Worker, NEW y \in ToSet(treq'[x])
      PROVE  y \in ToSet(treq[x]) \/ (x = v /\ y = q)
  <2>1. PICK s \in Seq(Request) : s = treq[v]
    BY <1>1, StackTypes
  <2>2. treq'[v] = Append(s, q) /\ \A z \in Worker \ {v} : treq'[z] = treq[z]
    BY <1>1, <1>4, <2>1 DEF TryTreqAccepted, TypeOK
  <2>3. Len(s) \in Nat /\ DOMAIN s = 1..Len(s) /\ DOMAIN Append(s, q) = 1..(Len(s) + 1)
    BY <1>5, AppendOf
  <2>4. Append(s, q)[Len(s) + 1] = q
    BY <1>5, AppendOf
  <2>5. \A k \in DOMAIN s : Append(s, q)[k] = s[k]
    BY <1>5, AppendOf
  <2>6. CASE x = v
    <3>1. PICK k \in DOMAIN treq'[v] : y = treq'[v][k]
      BY <1>6, <2>6, ElementsOf
    <3>2. CASE k = Len(s) + 1
      BY <2>2, <2>4, <2>6, <3>1, <3>2
    <3>3. CASE k # Len(s) + 1
      <4>1. k \in DOMAIN s
        BY <2>2, <2>3, <3>1, <3>3
      <4> QED
        BY <2>1, <2>2, <2>5, <2>6, <3>1, <4>1, ElementsOf
    <3> QED
      BY <3>2, <3>3
  <2>7. CASE x # v
    BY <1>6, <2>2, <2>7
  <2> QED
    BY <2>6, <2>7
(* the new request *)
<1>7. ASSUME Missed(v, q)' PROVE Under(v, w)'
  <2>0. q.waiting # TERM /\ ~Executes(v, q.waiting)'
    <3>1. wnone[w] = 0 /\ wnone' = wnone /\ q.from = w
      BY <1>1, <1>4, AtTop DEF TryTreqAccepted
    <3> QED
      BY <1>7, <3>1 DEF Missed
  <2>1. ~AsksAny(w) /\ q.waiting = FromAddr(w)
    BY <1>4, <2>0
  <2>2. sub[w] # <<>>
    BY <1>1, <2>1, StealsFrom DEF IInv
  <2>3. PICK i \in DOMAIN task[v] : task[v][i].stat \in Live /\ task[v][i].rslt = FromAddr(w)
    BY <2>1 DEF TryTreqAccepted, Accepts, HaveTask, Live
  <2>4. FromAddr(w) # OUTSIDE
    BY <1>1, <2>2, FromAddrOf
  <2>5. ~Unsent(v, i)'
    BY <1>2, <2>0, <2>1, <2>3 DEF Executes
  <2>6. ResultSent(v, i)
    BY <1>2, <2>3, <2>4, <2>5 DEF Unsent, ResultSent
  <2>7. task[v] # <<>> /\ i = Len(task[v]) /\ Sending(pc[v])
    BY <2>6, AtTop DEF ResultSent, Sending
  <2>8. Top(v).rslt = FromAddr(w)
    BY <1>1, <2>3, <2>7, TopOf
  <2>9. PICK n \in DOMAIN sub[w] : n = Len(sub[w]) /\ Last(sub[w]) = sub[w][n]
    BY <1>1, <2>2, StackTypes, LastOf
  <2>10. Top(v).rslt = <<w, n>>
    BY <2>2, <2>8, <2>9 DEF FromAddr
  <2>11. sub[w][n].to = v
    BY <1>1, <2>1, <2>9 DEF TryTreqAccepted, OrderInv, AsksThief
  <2>12. sub[w][n].body = Top(v).body
    BY <2>4, <2>7, <2>8, <2>10, <2>11 DEF OrderInv, SentBody, Sending
  <2>13. Under(v, w)
    BY <1>1, <2>2, <2>9, <2>12, StealsUnder DEF Unfilled
  <2> QED
    BY <1>2, <2>13 DEF Under, Top
<1>8. Late'
  <2>1. ASSUME NEW x \in Worker, NEW y \in ToSet(treq'[x]), Missed(x, y)'
        PROVE  Under(x, y.from)'
    <3>1. CASE y \in ToSet(treq[x])
      <4>1. Missed(x, y)
        BY <1>2, <1>3, <2>1 DEF Missed, Executes, Keeps, StillRun
      <4>2. Under(x, y.from) /\ y.from \in Worker
        BY <1>1, <3>1, <4>1, RequestType DEF OrderInv, Late
      <4>3. Leaving(x, y.waiting)
        BY <3>1, <4>1, MissedLeaving
      <4>4. TopStays(x) /\ BodiesStay(y.from)
        BY <1>3, <4>2 DEF Keeps
      <4> QED
        BY <2>1, <4>2, <4>3, <4>4, LateStays
    <3>2. CASE x = v /\ y = q
      BY <1>4, <1>7, <2>1, <3>2
    <3> QED
      BY <1>6, <2>1, <3>1, <3>2
  <2> QED
    BY <2>1 DEF Late
<1>9. Within' /\ Leap' /\ Fresh'
  BY <1>3, OrderAt DEF Keeps
<1>10. AsksThief' /\ SentBody'
  BY <1>3, AsksKept, SentKept DEF Keeps, OrderInv
<1> QED
  BY <1>8, <1>9, <1>10 DEF OrderInv

LEMMA SendRsltOrder ==
  ASSUME IInv, IInv', OrderInv, NEW w \in Worker, SendRslt(w)
  PROVE  OrderInv'
<1>1. /\ TypeOK /\ task[w] # <<>> /\ Top(w).stat = "STARTED" /\ pc[w] = "rslt"
      /\ Top(w).rslt # OUTSIDE /\ \A v \in Worker : Ordered(v)
  BY AtTop, OrderedOf DEF SendRslt, TopStat, OrderInv
<1>2. PICK m \in DOMAIN task[w] : m = Len(task[w]) /\ Top(w) = task[w][m]
  BY <1>1, TopOf
<1>3. Unsent(w, m)
  BY <1>1, <1>2 DEF Unsent, ResultSent, Live
<1>4. PICK r \in Worker, id \in Nat \ {0} :
        /\ task[w][m].rslt = <<r, id>> /\ id \in DOMAIN sub[r] /\ sub[r][id].to = w
        /\ sub[r][id].body = task[w][m].body
  BY <1>3, HomeBody
<1>5. /\ task' = task /\ treq' = treq /\ asking' = asking /\ wnone' = wnone
      /\ sub' = [sub EXCEPT ![r] = [@ EXCEPT ![id].stat = "DONE"]]
      /\ pc' = [pc EXCEPT ![w] = "rack", ![r] = IF id = Len(sub[r]) THEN Woken(@) ELSE @]
  BY <1>2, <1>4 DEF SendRslt
<1>6. pc'[w] = "rack" /\ \A v \in Worker \ {w} : pc'[v] \in {pc[v], Woken(pc[v])}
  BY <1>1, <1>5 DEF TypeOK, Woken
(* the subtasks *)
<1>7. PICK b \in Seq(TaskHome) : b = sub[r]
  BY <1>1 DEF TypeOK
<1>8. PICK h : h = [b[id] EXCEPT !.stat = "DONE"]
  OBVIOUS
<1>9. DOMAIN b = 1..Len(b) /\ Len(b) \in Nat /\ id \in 1..Len(b) /\ b # <<>> /\ b[id] \in TaskHome
  BY <1>1, <1>4, <1>7, StackTypes, EmptySeq
<1>10. h \in TaskHome /\ h.to = b[id].to /\ h.body = b[id].body
  BY <1>8, <1>9 DEF TaskHome, HomeStat
<1>11. PICK u : u = [b EXCEPT ![id] = h]
  OBVIOUS
<1>12. u \in Seq(TaskHome) /\ Len(u) = Len(b)
       /\ \A i \in 1..Len(b) : u[i] = IF i = id THEN h ELSE b[i]
  BY <1>9, <1>10, <1>11, ExceptSeq
<1>13. sub'[r] = u /\ \A v \in Worker \ {r} : sub'[v] = sub[v]
  BY <1>1, <1>5, <1>7, <1>8, <1>11 DEF TypeOK
<1>14. DOMAIN u = DOMAIN b /\ \A i \in DOMAIN b : u[i].to = b[i].to /\ u[i].body = b[i].body
  BY <1>9, <1>10, <1>12, LenProperties
<1>15. Last(u).to = Last(b).to
  <2>1. u # <<>> /\ Len(b) \in DOMAIN b
    BY <1>9, <1>12, EmptySeq
  <2>2. Last(u) = u[Len(u)] /\ Last(b) = b[Len(b)]
    BY <1>9, <1>12, <2>1, LastOf
  <2> QED
    BY <1>12, <1>14, <2>1, <2>2
<1>16. ASSUME NEW v \in Worker
       PROVE  /\ DOMAIN sub'[v] = DOMAIN sub[v] /\ Last(sub'[v]).to = Last(sub[v]).to
              /\ \A i \in DOMAIN sub[v] : /\ sub'[v][i].to = sub[v][i].to
                                          /\ sub'[v][i].body = sub[v][i].body
  BY <1>7, <1>13, <1>14, <1>15
(* the other workers *)
<1>17. ASSUME NEW v \in Worker, v # w
       PROVE  Keeps(v) /\ BodiesStay(v)
  <2>1. pc'[v] = "ask" => pc[v] = "ask"
    BY <1>6, <1>17 DEF Woken
  <2>2. Sending(pc'[v]) => Sending(pc[v])
    BY <1>6, <1>17 DEF Woken, Sending
  <2> QED
    BY <1>1, <1>5, <1>16, <2>1, <2>2, IdleKeeps
<1>18. Top(w)' = Top(w) /\ Ordered(w)' /\ TopStays(w) /\ BodiesStay(w) /\ AskStays(w)
  BY <1>1, <1>5, <1>6 DEF Top, Ordered, Unfilled, TopStays, BodiesStay, AskStays
(* the result that w has sent *)
<1>19. SentBody'
  <2>1. ASSUME NEW v \in Worker, Sending(pc'[v]), Top(v)'.rslt # OUTSIDE,
               NEW x \in Worker, NEW i \in DOMAIN sub'[x],
               Top(v)'.rslt = <<x, i>>, sub'[x][i].to = v
        PROVE  sub'[x][i].body = Top(v)'.body
    <3>1. CASE v = w
      <4>1. x = r /\ i = id
        BY <1>2, <1>4, <1>18, <2>1, <3>1
      <4>2. sub'[r][id].body = sub[r][id].body
        BY <1>4, <1>16
      <4>3. Top(v)'.body = Top(w).body
        BY <1>18, <3>1
      <4> QED
        BY <1>2, <1>4, <4>1, <4>2, <4>3
    <3>2. CASE v # w
      <4>1. Sending(pc[v]) /\ Top(v)' = Top(v)
        BY <1>5, <1>6, <2>1, <3>2 DEF Woken, Sending, Top
      <4>2. i \in DOMAIN sub[x] /\ sub'[x][i].to = sub[x][i].to /\ sub'[x][i].body = sub[x][i].body
        BY <1>16, <2>1
      <4>3. SentBody
        BY DEF OrderInv
      <4>4. Top(v).rslt # OUTSIDE /\ Top(v).rslt = <<x, i>> /\ sub[x][i].to = v
        BY <2>1, <4>1, <4>2
      <4>5. sub[x][i].body = Top(v).body
        BY <4>1, <4>2, <4>3, <4>4 DEF SentBody, Sending
      <4> QED
        BY <4>1, <4>2, <4>5
    <3> QED
      BY <3>1, <3>2
  <2> QED
    BY <2>1 DEF SentBody, Sending
(* the requests for it *)
<1>20. Late'
  <2>1. ASSUME NEW v \in Worker, NEW q \in ToSet(treq'[v]), Missed(v, q)'
        PROVE  Under(v, q.from)'
    <3>1. q \in ToSet(treq[v]) /\ q.from \in Worker /\ q.waiting # TERM
      BY <1>1, <1>5, <2>1, RequestType DEF Missed
    <3>2. Accepted(v, q)
      BY <3>1 DEF IInv, Requests
    <3>3. CASE Missed(v, q)
      <4>1. Under(v, q.from)
        BY <3>1, <3>3 DEF OrderInv, Late
      <4>2. Leaving(v, q.waiting)
        BY <3>1, <3>3, MissedLeaving
      <4>3. TopStays(v) /\ BodiesStay(q.from)
        BY <1>17, <1>18, <3>1 DEF Keeps
      <4> QED
        BY <2>1, <3>1, <4>1, <4>2, <4>3, LateStays
    <3>4. CASE ~Missed(v, q)
      <4>0. Executes(v, q.waiting) /\ ~Executes(v, q.waiting)'
        BY <1>5, <2>1, <3>1, <3>4 DEF Missed
      <4>1. v = w
        <5>1. v # w => StillRun(v)
          BY <1>17 DEF Keeps
        <5> QED
          BY <4>0, <5>1 DEF Executes, StillRun
      <4>2. PICK j \in DOMAIN task[w] : Unsent(w, j) /\ task[w][j].rslt = q.waiting
        BY <4>0, <4>1 DEF Executes
      <4>3. ~Unsent(w, j)'
        BY <1>5, <4>0, <4>1, <4>2 DEF Executes
      <4>4. j = m
        BY <1>2, <1>5, <4>2, <4>3 DEF Unsent, ResultSent
      <4>5. ~Leaving(w, q.waiting)
        BY <1>1 DEF Leaving
      <4>6. PICK x \in Worker : x = q.from
        BY <3>1
      <4>7. Expecting(x) /\ q.waiting = FromAddr(x)
        BY <3>1, <3>2, <4>1, <4>5, <4>6 DEF Accepted
      <4>8. sub[x] # <<>> /\ r = x /\ id = Len(sub[x])
        BY <1>4, <4>2, <4>4, <4>7 DEF FromAddr, TERM
      <4>9. Last(sub[x]) = sub[x][Len(sub[x])]
        BY <1>1, <4>8, StackTypes, LastOf
      <4>10. Top(w).body = Last(sub[x]).body
        BY <1>2, <1>4, <4>8, <4>9
      <4>11. Unfilled(x) /\ pc[x] \in {"ask", "reply", "sleep"}
        BY <4>7, AtTop DEF Expecting, Unfilled
      <4>12. Under(w, x)
        BY <4>8, <4>10, <4>11, StealsUnder
      <4> QED
        BY <1>5, <1>18, <4>1, <4>6, <4>12 DEF Under
    <3> QED
      BY <3>3, <3>4
  <2> QED
    BY <2>1 DEF Late
<1>21. Within' /\ Leap' /\ Fresh'
  BY <1>17, <1>18, OrderAt DEF Keeps
<1>22. AsksThief'
  BY <1>17, <1>18, AsksKept DEF Keeps, OrderInv
<1> QED
  BY <1>19, <1>20, <1>21, <1>22 DEF OrderInv

-----------------------------------------------------------------------------
LEMMA InitOrder == Init => OrderInv
<1>1. ASSUME Init
      PROVE  /\ \A w \in Worker : task[w] = <<>> /\ treq[w] = <<>> /\ pc[w] = "enter"
             /\ \A w \in Worker : DOMAIN task[w] = {} /\ \A q : q \notin ToSet(treq[w])
  <2>1. \A w \in Worker : task[w] = <<>> /\ treq[w] = <<>> /\ pc[w] = "enter"
    BY <1>1 DEF Init
  <2>2. DOMAIN <<>> = {}
    OBVIOUS
  <2> QED
    BY <2>1, <2>2, ElementsOf
<1>2. ASSUME Init PROVE Within /\ Leap /\ Fresh
  BY <1>1, <1>2 DEF Within, Leap, Fresh, Unfilled
<1>3. ASSUME Init PROVE AsksThief /\ SentBody /\ Late
  BY <1>1, <1>3 DEF AsksThief, SentBody, Late
<1> QED
  BY <1>2, <1>3 DEF OrderInv

LEMMA OrderStep == IInv /\ OrderInv /\ [Next]_vars => OrderInv'
<1>1. ASSUME IInv, IInv', OrderInv, NEW w \in Worker, Step(w) PROVE OrderInv'
  <2>1. CASE CallLeaf(w) \/ EnterDoTwo(w) \/ RunStat2(w) \/ EndDoTwo(w) \/ GetRslt(w)
    BY <1>1, <2>1, RunOrder
  <2>2. CASE \/ SendTreq(w) \/ Abandon(w) \/ AbandonAfterNap(w) \/ StartTask(w)
             \/ WaitRslt(w) \/ TaskDone(w)
    BY <1>1, <2>2, StatusOrder
  <2>3. CASE \/ AwaitNone(w) \/ AwaitedNone(w) \/ ForwardTreq(w) \/ Sleep(w) \/ Nap(w)
             \/ RetryTreq(w) \/ EndSpawn(w) \/ CallWaitRslt(w) \/ EndTask(w)
             \/ SendRsltOutside(w) \/ SendRack(w) \/ CountRack(w)
             \/ \E u \in Worker : TryTreqRefused(w, u)
    BY <1>1, <2>3, QuietMoves
  <2>4. CASE \E u \in Worker : TryTreqAccepted(w, u)
    BY <1>1, <2>4, TryTreqOrder
  <2>5. CASE RefuseTreq(w) \/ FlushBeforeTreq(w) \/ FlushAfterTask(w)
    BY <1>1, <2>5, RefuseOrder, FlushOrder
  <2>6. CASE AllocateTask(w) \/ DeallocateTask(w)
    BY <1>1, <2>6, AllocateOrder, DeallocateOrder
  <2>7. CASE SpawnTask(w) \/ SendRslt(w)
    BY <1>1, <2>7, SpawnTaskOrder, SendRsltOrder
  <2> QED
    BY <1>1, <2>1, <2>2, <2>3, <2>4, <2>5, <2>6, <2>7 DEF Step
<1>2. ASSUME IInv, OrderInv, [Next]_vars PROVE OrderInv'
  <2>1. IInv'
    BY <1>2, StepInv
  <2>2. CASE \E w \in Worker : Step(w)
    BY <1>1, <1>2, <2>1, <2>2
  <2>3. CASE OutsideTask \/ OutsideNone
    BY <1>2, <2>1, <2>3, OutsideTaskOrder, OutsideNoneOrder
  <2>4. CASE OutsideRack \/ UNCHANGED vars
    BY <1>2, <2>1, <2>4, QuietOutside
  <2> QED
    BY <1>2, <2>2, <2>3, <2>4 DEF Next
<1> QED
  BY <1>2

(* The order of calls, throughout the stacks and the requests to steal back. *)
THEOREM WorkerOrder == Spec => []OrderInv
<1>1. Spec => []IInv
  BY WorkerInvariant
<1>2. Init => OrderInv
  BY InitOrder
<1>3. IInv /\ OrderInv /\ [Next]_vars => OrderInv'
  BY OrderStep
<1> QED
  BY <1>1, <1>2, <1>3, PTL DEF Spec

LEMMA CalledInside == IInv /\ OrderInv => Leapfrogging
<1>1. ASSUME IInv, OrderInv, NEW w \in Worker, NEW k \in 2..Len(task[w]),
             task[w][k].stat \in Live
      PROVE  task[w][k].body \in Below(task[w][k - 1].body)
  <2>1. Ordered(w) /\ TypeOK
    BY <1>1, OrderedOf DEF OrderInv, IInv
  <2>2. PICK j \in DOMAIN task[w] : j = k - 1
    BY <1>1, <2>1, StackTypes
  <2>3. k \in DOMAIN task[w] /\ j < k /\ j # Len(task[w])
    BY <1>1, <2>1, <2>2, StackTypes
  <2>4. task[w][k].body \in Subtree[Waited(task[w][j])]
    BY <1>1, <2>1, <2>3 DEF Ordered
  <2>5. task[w][k].body \in Below(task[w][j].body)
    BY <1>1, <2>1, <2>3, <2>4, WaitedOf
  <2> QED
    BY <2>2, <2>5
<1> QED
  BY <1>1 DEF Leapfrogging

(* Leapfrogging (wait-rslt asks the worker that has its subtask): every task *)
(* on a worker's stack is a call made in the one below, so the stack is no   *)
(* deeper than the calls of the computation are.                             *)
THEOREM WorkerLeapfrogging == Spec => []Leapfrogging
  BY WorkerInvariant, WorkerOrder, CalledInside, PTL

LEMMA WantsOf ==
  ASSUME NEW w \in Worker, NEW r \in Wants(w)
  PROVE  Locked(w) /\ pc[w] \in {"spawn", "flush", "drain"}
  BY DEF Wants, Locked

(* A worker that holds its mutex and waits for the mutex of a worker that   *)
(* holds its own is at the end of a task, and refuses a request to steal     *)
(* back that task: it is called in the other worker's.                      *)
LEMMA LockedBelow ==
  ASSUME IInv, OrderInv, NEW w \in Worker, NEW r \in Worker, r \in Wants(w), Locked(r)
  PROVE  pc[w] = "drain" /\ Under(w, r)
<1>1. TypeOK
  BY DEF IInv
<1>2. PICK i \in DOMAIN treq[w] : treq[w][i].from = r
  <2>1. pc[w] \in {"spawn", "flush", "drain"}
    BY WantsOf
  <2>2. CASE pc[w] = "spawn"
    <3>1. treq[w] # <<>> /\ r = Last(treq[w]).from
      BY <2>2 DEF Wants, Locked
    <3> QED
      BY <1>1, <3>1, StackTypes, LastOf
  <2>3. CASE pc[w] = "flush"
    BY <2>3 DEF Wants, Locked, Topmost, ToFlush
  <2>4. CASE pc[w] = "drain"
    BY <2>4 DEF Wants, Locked, Topmost, ToFlush
  <2> QED
    BY <2>1, <2>2, <2>3, <2>4
<1>3. PICK q \in ToSet(treq[w]) : q.from = r
  BY <1>2, ElementsOf
<1>4. Accepted(w, q) /\ ~Expecting(r)
  BY DEF IInv, Requests, Locked, Expecting
<1>5. q.waiting # TERM /\ Leaving(w, q.waiting)
  BY <1>3, <1>4 DEF Accepted
<1>6. pc[w] = "drain"
  BY <1>5 DEF Leaving, Wants, Locked
<1>7. Missed(w, q)
  BY <1>3, <1>4, <1>5 DEF Accepted, Missed
<1> QED
  BY <1>3, <1>6, <1>7 DEF OrderInv, Late

LEMMA NoCircleOfLocks == IInv /\ OrderInv => NoLockCycle
<1>1. ASSUME IInv, OrderInv, NEW S \in SUBSET Worker, S # {},
             \A w \in S : Wants(w) \cap S # {}
      PROVE  FALSE
  <2>1. ASSUME NEW w \in S
        PROVE  \E r \in S : /\ Under(w, r) /\ Top(r).body # Root
                            /\ Len(task[r]) \in DOMAIN task[r] /\ Top(r) = task[r][Len(task[r])]
                            /\ Top(w).body \in Node
    <3>1. PICK r \in S : r \in Wants(w)
      BY <1>1
    <3>2. PICK x \in S : x \in Wants(r)
      BY <1>1
    <3>3. PICK y \in S : y \in Wants(x)
      BY <1>1
    <3>4. Locked(r) /\ Locked(x)
      BY <3>2, <3>3, WantsOf
    <3>5. Under(w, r) /\ Under(r, x) /\ pc[w] = "drain" /\ pc[r] = "drain"
      BY <1>1, <3>1, <3>2, <3>4, LockedBelow
    <3>6. /\ TypeOK /\ task[r] # <<>> /\ Top(w) \in Task
      BY <1>1, <3>5, AtTop
    <3>7. Len(task[r]) \in DOMAIN task[r] /\ Top(r) = task[r][Len(task[r])]
      BY <3>6, TopOf
    <3> QED
      BY <3>5, <3>6, <3>7 DEF Under, Task
  <2>2. PICK B \in SUBSET Node : B = {Top(w).body : w \in S}
    BY <2>1
  <2>3. B # {}
    BY <1>1, <2>2
  <2>4. ASSUME NEW b \in B PROVE \E c \in B : b \in Below(c)
    <3>1. PICK w \in S : b = Top(w).body
      BY <2>2
    <3>2. PICK r \in S : /\ Under(w, r) /\ Top(r).body # Root
                         /\ Len(task[r]) \in DOMAIN task[r] /\ Top(r) = task[r][Len(task[r])]
      BY <2>1
    <3>3. b \in Below(Top(r).body)
      BY <3>1, <3>2 DEF Under
    <3> QED
      BY <2>2, <3>3
  <2> QED
    BY <2>3, <2>4, NoCircle
<1> QED
  BY <1>1 DEF NoLockCycle

(* Workers never wait for each other's mutexes in a circle, although spawning *)
(* and flush-treq-with-none lock the thread of a requester under their own    *)
(* lock: each would be at the end of a task called in the next one's.         *)
THEOREM WorkerNoLockCycle == Spec => []NoLockCycle
  BY WorkerInvariant, WorkerOrder, NoCircleOfLocks, PTL

(***************************************************************************)
(* What is run                                                             *)
(*                                                                         *)
(* A place is a frame of a task of a worker (At); each frame is at one     *)
(* node (NodeAt).  Calls says of the places, without the stacks, where     *)
(* every node is: called, open, idle or run.  A step keeps all places and  *)
(* calls (CallsQuiet), makes a call of a half (CallsHalf) or of the root   *)
(* (CallsRoot), enters a do-two (CallsEnter), ends a leaf (CallsLeaf) or a *)
(* do-two (CallsFinish).  The lemmas after these say which places a change *)
(* of the stacks leaves, and one lemma per action puts them together.      *)
(***************************************************************************)

(***************************************************************************)
(* Where the do-twos are: the place of a frame                             *)
(***************************************************************************)
At(w, j, i) == j \in DOMAIN task[w] /\ i \in DOMAIN task[w][j].frames
NodeAt(w, j, i) == task[w][j].frames[i].node
DueAt(w, j, i) == Due(task[w][j].frames[i])
CalledBy(w) == Current(Top(w))

(* Each frame of w was there, and each stays; w calls what it called. *)
FramesFrom(w) ==
  \A j, i : At(w, j, i)' =>
    At(w, j, i) /\ NodeAt(w, j, i)' = NodeAt(w, j, i) /\ (DueAt(w, j, i)' => DueAt(w, j, i))
FramesStay(w) ==
  \A j, i : At(w, j, i) => At(w, j, i)' /\ NodeAt(w, j, i)' = NodeAt(w, j, i)
CallStays(w) == Calling(w)' => Calling(w) /\ CalledBy(w)' = CalledBy(w)

LEMMA OpenAt ==
  ASSUME NEW n
  PROVE  Open(n) <=> \E w \in Worker : \E j, i : At(w, j, i) /\ NodeAt(w, j, i) = n
  BY DEF Open, At, NodeAt

(* The parts of RunsInv in these terms *)
Calls ==
  /\ \A v, w \in Worker : Calling(v) /\ Calling(w) /\ CalledBy(v) = CalledBy(w) => v = w
  /\ \A w \in Worker : Calling(w) => runs[CalledBy(w)] = 0 /\ ~Open(CalledBy(w))
  /\ \A v, w \in Worker : \A j, i, k, l :
       At(v, j, i) /\ At(w, k, l) /\ NodeAt(v, j, i) = NodeAt(w, k, l)
       => v = w /\ j = k /\ i = l
  /\ \A n \in Node : Open(n) => runs[n] = 0
  /\ \A n \in Node \ Leaf : runs[n] = 0 /\ ~Open(n) => Idle(Left[n]) /\ Idle(Right[n])
  /\ \A w \in Worker : \A j, i : At(w, j, i) /\ DueAt(w, j, i) => Idle(Right[NodeAt(w, j, i)])
  /\ outside.task => Idle(Root)

LEMMA CallsOf ==
  Calls <=> CalledOnce /\ OpenOnce /\ OpenNotRun /\ Untouched
<1>1. OpenOnce <=> \A v, w \in Worker : \A j, i, k, l :
        At(v, j, i) /\ At(w, k, l) /\ NodeAt(v, j, i) = NodeAt(w, k, l)
        => v = w /\ j = k /\ i = l
  BY DEF OpenOnce, At, NodeAt
<1>2. (\A w \in Worker : \A j, i : At(w, j, i) /\ DueAt(w, j, i) => Idle(Right[NodeAt(w, j, i)]))
      <=> \A w \in Worker : \A j \in DOMAIN task[w] : \A i \in DOMAIN task[w][j].frames :
            Due(task[w][j].frames[i]) => Idle(Right[task[w][j].frames[i].node])
  BY DEF At, DueAt, NodeAt
<1>3. CalledOnce <=>
        /\ \A v, w \in Worker : Calling(v) /\ Calling(w) /\ CalledBy(v) = CalledBy(w) => v = w
        /\ \A w \in Worker : Calling(w) => runs[CalledBy(w)] = 0 /\ ~Open(CalledBy(w))
  BY DEF CalledOnce, CalledBy
<1> QED
  BY <1>1, <1>2, <1>3 DEF Calls, OpenNotRun, Untouched

LEMMA IdleOf ==
  ASSUME NEW n
  PROVE  Idle(n) <=> runs[n] = 0 /\ ~Open(n) /\ \A w \in Worker : Calling(w) => CalledBy(w) # n
  BY DEF Idle, CalledBy

(* Who may begin a node: nothing is a half of two do-twos, or of itself. *)
LEMMA OneCaller ==
  ASSUME NEW m \in Node \ Leaf, NEW n \in Node \ Leaf
  PROVE  /\ {Left[m], Right[m]} \subseteq Node
         /\ Left[m] # m /\ Right[m] # m /\ Left[m] # Right[m]
         /\ Left[m] # Root /\ Right[m] # Root
         /\ m # n => {Left[m], Right[m]} \cap {Left[n], Right[n]} = {}
<1>1. {Left[m], Right[m]} \subseteq Node
  BY ComputationAssumption DEF ComputationAssumption
<1>2. Halves(m) = {Left[m], Right[m]} /\ Halves(n) = {Left[n], Right[n]}
  BY DEF Halves
<1>3. m \notin Halves(m)
  <2>1. {m} \in (SUBSET Node) \ {{}}
    OBVIOUS
  <2>2. \A S \in (SUBSET Node) \ {{}} : \E a \in S : \A b \in S : a \notin Halves(b)
    BY CallAssumption DEF CallAssumption
  <2>3. \E a \in {m} : \A b \in {m} : a \notin Halves(b)
    BY <2>1, <2>2
  <2> QED
    BY <2>3
<1>4. Root \notin Halves(m) /\ Left[m] # Right[m] /\ (m # n => Halves(m) \cap Halves(n) = {})
  BY CallAssumption DEF CallAssumption
<1> QED
  BY <1>1, <1>2, <1>3, <1>4

(* An idle node stays so if it is not run, opened or called. *)
LEMMA IdleKept ==
  ASSUME NEW n, Idle(n), runs'[n] = runs[n], Open(n)' => Open(n),
         \A w \in Worker : Calling(w)' /\ CalledBy(w)' = n => Calling(w) /\ CalledBy(w) = n
  PROVE  Idle(n)'
<1>1. runs[n] = 0 /\ ~Open(n) /\ \A w \in Worker : Calling(w) => CalledBy(w) # n
  BY IdleOf
<1>2. runs'[n] = 0 /\ ~Open(n)' /\ \A w \in Worker : Calling(w)' => CalledBy(w)' # n
  BY <1>1
<1> QED
  BY <1>2 DEF Idle, CalledBy

LEMMA OpenKept ==
  ASSUME \A w \in Worker : FramesFrom(w) /\ FramesStay(w), NEW n
  PROVE  Open(n)' <=> Open(n)
<1>1. Open(n)' <=> \E w \in Worker : \E j, i : At(w, j, i)' /\ NodeAt(w, j, i)' = n
  BY DEF Open, At, NodeAt
<1> QED
  BY <1>1, OpenAt DEF FramesFrom, FramesStay

(***************************************************************************)
(* What a step does to the nodes                                           *)
(***************************************************************************)
(* The frames stay; r may begin the idle nodes in H, which it took from a do-two. *)
LEMMA CallsKept ==
  ASSUME Calls, runs' = runs, \A w \in Worker : FramesFrom(w) /\ FramesStay(w),
         NEW H, \A h \in H : Idle(h),
         NEW r \in Worker, \A w \in Worker \ {r} : CallStays(w),
         CallStays(r) \/ (Calling(r)' => CalledBy(r)' \in H),
         \A n \in Node \ Leaf : runs[n] = 0 /\ ~Open(n) => Left[n] \notin H /\ Right[n] \notin H,
         \A w \in Worker : \A j, i : At(w, j, i)' /\ DueAt(w, j, i)' =>
           Right[NodeAt(w, j, i)] \notin H,
         outside'.task => outside.task /\ Root \notin H
  PROVE  Calls'
<1>1. \A n : Open(n)' <=> Open(n)
  BY OpenKept
<1>2. ASSUME NEW n, Idle(n), n \notin H PROVE Idle(n)'
  BY <1>1, <1>2, IdleKept DEF CallStays
<1>3. ASSUME NEW v \in Worker, NEW w \in Worker, Calling(v)', Calling(w)',
             CalledBy(v)' = CalledBy(w)'
      PROVE  v = w
  <2>1. CASE v # r /\ w # r
    BY <1>3, <2>1 DEF Calls, CallStays
  <2>2. ASSUME NEW x \in Worker \ {r}, Calling(x)', Calling(r)', CalledBy(x)' = CalledBy(r)'
        PROVE  FALSE
    <3>1. Calling(x) /\ CalledBy(x)' = CalledBy(x)
      BY <2>2 DEF CallStays
    <3>2. CASE CallStays(r)
      BY <2>2, <3>1, <3>2 DEF Calls, CallStays
    <3>3. CASE CalledBy(r)' \in H
      BY <2>2, <3>1, <3>3, IdleOf
    <3> QED
      BY <2>2, <3>2, <3>3
  <2> QED
    BY <1>3, <2>1, <2>2
<1>4. ASSUME NEW w \in Worker, Calling(w)'
      PROVE  runs'[CalledBy(w)'] = 0 /\ ~Open(CalledBy(w))'
  <2>1. PICK n : n = CalledBy(w)'
    OBVIOUS
  <2>2. runs[n] = 0 /\ ~Open(n)
    <3>1. CASE CallStays(w)
      BY <1>4, <2>1, <3>1 DEF Calls, CallStays
    <3>2. CASE n \in H
      BY <3>2, IdleOf
    <3> QED
      BY <1>4, <2>1, <3>1, <3>2
  <2>3. ~Open(n)'
    BY <1>1, <2>2
  <2> QED
    BY <2>1, <2>2, <2>3 DEF Open
<1>5. ASSUME NEW v \in Worker, NEW w \in Worker, NEW j, NEW i, NEW k, NEW l,
             At(v, j, i)', At(w, k, l)', NodeAt(v, j, i)' = NodeAt(w, k, l)'
      PROVE  v = w /\ j = k /\ i = l
  BY <1>5 DEF Calls, FramesFrom
<1>6. \A n \in Node : Open(n)' => runs'[n] = 0
  BY <1>1 DEF Calls
<1>7. ASSUME NEW n \in Node \ Leaf, runs'[n] = 0, ~Open(n)'
      PROVE  Idle(Left[n])' /\ Idle(Right[n])'
  <2>1. runs[n] = 0 /\ ~Open(n)
    BY <1>1, <1>7
  <2>2. PICK a, b : a = Left[n] /\ b = Right[n]
    OBVIOUS
  <2>3. Idle(a) /\ Idle(b)
    BY <2>1, <2>2 DEF Calls
  <2>4. a \notin H /\ b \notin H
    BY <2>1, <2>2
  <2>5. Idle(a)' /\ Idle(b)'
    BY <1>2, <2>3, <2>4
  <2> QED
    BY <2>2, <2>5 DEF Idle
<1>8. ASSUME NEW w \in Worker, NEW j, NEW i, At(w, j, i)', DueAt(w, j, i)'
      PROVE  Idle(Right[NodeAt(w, j, i)])'
  <2>1. At(w, j, i) /\ DueAt(w, j, i) /\ NodeAt(w, j, i)' = NodeAt(w, j, i)
    BY <1>8 DEF FramesFrom
  <2>2. PICK b : b = Right[NodeAt(w, j, i)]
    OBVIOUS
  <2>3. Idle(b) /\ b \notin H
    BY <1>8, <2>1, <2>2 DEF Calls
  <2>4. Idle(b)'
    BY <1>2, <2>3
  <2> QED
    BY <2>1, <2>2, <2>4 DEF Idle
<1>9. ASSUME outside'.task PROVE Idle(Root)'
  BY <1>2, <1>9 DEF Calls
<1> QED
  BY <1>3, <1>4, <1>5, <1>6, <1>7, <1>8, <1>9 DEF Calls

(* Nothing is begun. *)
LEMMA CallsQuiet ==
  ASSUME Calls, runs' = runs, outside'.task => outside.task, NEW r \in Worker,
         \A w \in Worker : FramesFrom(w) /\ FramesStay(w) /\ CallStays(w)
  PROVE  Calls'
<1>1. PICK H : H = {}
  OBVIOUS
<1>2. \A h \in H : Idle(h)
  BY <1>1
<1>3. \A n \in Node \ Leaf : runs[n] = 0 /\ ~Open(n) => Left[n] \notin H /\ Right[n] \notin H
  BY <1>1
<1>4. \A w \in Worker : \A j, i : At(w, j, i)' /\ DueAt(w, j, i)' => Right[NodeAt(w, j, i)] \notin H
  BY <1>1
<1>5. outside'.task => outside.task /\ Root \notin H
  BY <1>1
<1>6. \A w \in Worker : FramesFrom(w) /\ FramesStay(w)
  OBVIOUS
<1>7. CallStays(r) \/ (Calling(r)' => CalledBy(r)' \in H)
  OBVIOUS
<1> QED
  BY <1>2, <1>3, <1>4, <1>5, <1>6, <1>7, CallsKept

(* r begins the second half of the do-two of m, which is not due any more. *)
LEMMA CallsHalf ==
  ASSUME Calls, runs' = runs, outside' = outside, NEW r \in Worker,
         \A w \in Worker : FramesFrom(w) /\ FramesStay(w),
         \A w \in Worker \ {r} : CallStays(w),
         NEW v \in Worker, NEW J, NEW I, At(v, J, I), DueAt(v, J, I), ~DueAt(v, J, I)',
         NodeAt(v, J, I) \in Node \ Leaf,
         \A w \in Worker : \A j, i : At(w, j, i) => NodeAt(w, j, i) \in Node \ Leaf,
         Calling(r)' => CalledBy(r)' = Right[NodeAt(v, J, I)]
  PROVE  Calls'
<1>1. PICK m \in Node \ Leaf : m = NodeAt(v, J, I)
  OBVIOUS
<1>2. PICK H : H = {Right[m]}
  OBVIOUS
<1>3. \A h \in H : Idle(h)
  BY <1>1, <1>2 DEF Calls
<1>4. Open(m)
  BY <1>1, OpenAt
<1>5. ASSUME NEW n \in Node \ Leaf, runs[n] = 0, ~Open(n)
      PROVE  Left[n] \notin H /\ Right[n] \notin H
  <2>1. n # m
    BY <1>4, <1>5
  <2>2. {Left[m], Right[m]} \cap {Left[n], Right[n]} = {}
    BY <2>1, OneCaller
  <2> QED
    BY <1>2, <2>2
<1>6. ASSUME NEW w \in Worker, NEW j, NEW i, At(w, j, i)', DueAt(w, j, i)'
      PROVE  Right[NodeAt(w, j, i)] \notin H
  <2>1. At(w, j, i) /\ DueAt(w, j, i)
    BY <1>6 DEF FramesFrom
  <2>2. PICK n \in Node \ Leaf : n = NodeAt(w, j, i)
    BY <2>1
  <2>3. n # m
    <3>1. CASE n = m
      <4>1. w = v /\ j = J /\ i = I
        BY <1>1, <2>1, <2>2, <3>1 DEF Calls
      <4> QED
        BY <1>6, <4>1
    <3> QED
      BY <3>1
  <2>4. {Left[m], Right[m]} \cap {Left[n], Right[n]} = {}
    BY <2>3, OneCaller
  <2> QED
    BY <1>2, <2>2, <2>4
<1>7. outside'.task => outside.task /\ Root \notin H
  BY <1>2, OneCaller
<1>8. CallStays(r) \/ (Calling(r)' => CalledBy(r)' \in H)
  BY <1>1, <1>2
<1> QED
  BY <1>3, <1>5, <1>6, <1>7, <1>8, CallsKept

(* r begins the root. *)
LEMMA CallsRoot ==
  ASSUME Calls, runs' = runs, outside.task, ~outside'.task, NEW r \in Worker,
         \A w \in Worker : FramesFrom(w) /\ FramesStay(w),
         \A w \in Worker \ {r} : CallStays(w),
         \A w \in Worker : \A j, i : At(w, j, i) => NodeAt(w, j, i) \in Node \ Leaf,
         Calling(r)' => CalledBy(r)' = Root
  PROVE  Calls'
<1>1. PICK H : H = {Root}
  OBVIOUS
<1>2. \A h \in H : Idle(h)
  BY <1>1 DEF Calls
<1>3. ASSUME NEW n \in Node \ Leaf PROVE Left[n] \notin H /\ Right[n] \notin H
  BY <1>1, OneCaller
<1>4. ASSUME NEW w \in Worker, NEW j, NEW i, At(w, j, i)', DueAt(w, j, i)'
      PROVE  Right[NodeAt(w, j, i)] \notin H
  <2>1. At(w, j, i)
    BY <1>4 DEF FramesFrom
  <2> QED
    BY <1>3, <2>1
<1>5. outside'.task => outside.task /\ Root \notin H
  OBVIOUS
<1>6. CallStays(r) \/ (Calling(r)' => CalledBy(r)' \in H)
  BY <1>1
<1> QED
  BY <1>2, <1>3, <1>4, <1>5, <1>6, CallsKept

(* r enters the do-two of c, which it called, and calls its first half. *)
LEMMA CallsEnter ==
  ASSUME Calls, runs' = runs, outside' = outside, NEW r \in Worker, NEW c \in Node \ Leaf,
         Calling(r), CalledBy(r) = c, CalledBy(r)' = Left[c],
         \A w \in Worker \ {r} : FramesFrom(w) /\ CallStays(w),
         \A w \in Worker : FramesStay(w),
         \A w \in Worker : \A j, i : At(w, j, i) => NodeAt(w, j, i) \in Node \ Leaf,
         NEW J, NEW I, ~At(r, J, I), At(r, J, I)', NodeAt(r, J, I)' = c,
         \A j, i : At(r, j, i)' => (j = J /\ i = I) \/
           (At(r, j, i) /\ NodeAt(r, j, i)' = NodeAt(r, j, i) /\ (DueAt(r, j, i)' => DueAt(r, j, i)))
  PROVE  Calls'
<1>1. runs[c] = 0 /\ ~Open(c) /\ Idle(Left[c]) /\ Idle(Right[c])
  BY DEF Calls
<1>2. PICK a \in Node, b \in Node : a = Left[c] /\ b = Right[c]
  BY OneCaller
<1>3. a # c /\ b # c /\ a # b /\ a # Root /\ b # Root
  BY <1>2, OneCaller
<1>4. ASSUME NEW n \in Node \ Leaf, n # c
      PROVE  Left[n] \notin {a, b} /\ Right[n] \notin {a, b}
  BY <1>2, <1>4, OneCaller
<1>5. \A w \in Worker : \A j, i : At(w, j, i)' => (w = r /\ j = J /\ i = I) \/
        (At(w, j, i) /\ NodeAt(w, j, i)' = NodeAt(w, j, i) /\ (DueAt(w, j, i)' => DueAt(w, j, i)))
  BY DEF FramesFrom
<1>6. ASSUME NEW n PROVE Open(n)' <=> Open(n) \/ n = c
  <2>1. Open(n)' <=> \E w \in Worker : \E j, i : At(w, j, i)' /\ NodeAt(w, j, i)' = n
    BY DEF Open, At, NodeAt
  <2> QED
    BY <1>5, <2>1, OpenAt DEF FramesStay
<1>7. ASSUME NEW n, Idle(n), n # a PROVE Idle(n)'
  <2>1. n # c
    BY <1>7, IdleOf
  <2>2. Open(n)' => Open(n)
    BY <1>6, <2>1
  <2>3. ASSUME NEW w \in Worker, Calling(w)', CalledBy(w)' = n
        PROVE  Calling(w) /\ CalledBy(w) = n
    BY <1>2, <1>7, <2>3 DEF CallStays
  <2> QED
    BY <1>7, <2>2, <2>3, IdleKept
<1>8. ASSUME NEW v \in Worker, NEW w \in Worker, Calling(v)', Calling(w)',
             CalledBy(v)' = CalledBy(w)'
      PROVE  v = w
  <2>1. CASE v # r /\ w # r
    BY <1>8, <2>1 DEF Calls, CallStays
  <2>2. ASSUME NEW x \in Worker \ {r}, Calling(x)', CalledBy(x)' = CalledBy(r)'
        PROVE  FALSE
    <3>1. Calling(x) /\ CalledBy(x) = Left[c]
      BY <2>2 DEF CallStays
    <3> QED
      BY <1>1, <3>1, IdleOf
  <2> QED
    BY <1>8, <2>1, <2>2
<1>9. ASSUME NEW w \in Worker, Calling(w)'
      PROVE  runs'[CalledBy(w)'] = 0 /\ ~Open(CalledBy(w))'
  <2>1. PICK n : n = CalledBy(w)'
    OBVIOUS
  <2>2. runs[n] = 0 /\ ~Open(n) /\ n # c
    <3>1. CASE w = r
      BY <1>1, <1>2, <1>3, <2>1, <3>1, IdleOf
    <3>2. CASE w # r
      BY <1>9, <2>1, <3>2 DEF Calls, CallStays
    <3> QED
      BY <3>1, <3>2
  <2>3. ~Open(n)'
    BY <1>6, <2>2
  <2> QED
    BY <2>1, <2>2, <2>3 DEF Open
<1>10. ASSUME NEW v \in Worker, NEW w \in Worker, NEW j, NEW i, NEW k, NEW l,
              At(v, j, i)', At(w, k, l)', NodeAt(v, j, i)' = NodeAt(w, k, l)'
       PROVE  v = w /\ j = k /\ i = l
  <2>1. \A x \in Worker : \A y, z : At(x, y, z) => NodeAt(x, y, z) # c
    BY <1>1, OpenAt
  <2>2. At(v, j, i) /\ At(w, k, l) => v = w /\ j = k /\ i = l
    BY <1>5, <1>10 DEF Calls, FramesStay
  <2> QED
    BY <1>5, <1>10, <2>1, <2>2
<1>11. \A n \in Node : Open(n)' => runs'[n] = 0
  BY <1>1, <1>6 DEF Calls
<1>12. ASSUME NEW n \in Node \ Leaf, runs'[n] = 0, ~Open(n)'
       PROVE  Idle(Left[n])' /\ Idle(Right[n])'
  <2>1. runs[n] = 0 /\ ~Open(n) /\ n # c
    BY <1>6, <1>12
  <2>2. PICK x, y : x = Left[n] /\ y = Right[n]
    OBVIOUS
  <2>3. Idle(x) /\ Idle(y)
    BY <2>1, <2>2 DEF Calls
  <2>4. x # a /\ y # a
    BY <1>4, <2>1, <2>2
  <2>5. Idle(x)' /\ Idle(y)'
    BY <1>7, <2>3, <2>4
  <2> QED
    BY <2>2, <2>5 DEF Idle
<1>13. ASSUME NEW w \in Worker, NEW j, NEW i, At(w, j, i)', DueAt(w, j, i)'
       PROVE  Idle(Right[NodeAt(w, j, i)])'
  <2>1. PICK n : n = NodeAt(w, j, i)'
    OBVIOUS
  <2>2. PICK y : y = Right[n]
    OBVIOUS
  <2>3. Idle(y) /\ y # a
    <3>1. CASE w = r /\ j = J /\ i = I
      BY <1>1, <1>2, <1>3, <2>1, <2>2, <3>1
    <3>2. CASE At(w, j, i) /\ NodeAt(w, j, i) = n /\ DueAt(w, j, i)
      <4>1. n \in Node \ Leaf /\ n # c
        BY <1>1, <3>2, OpenAt
      <4> QED
        BY <1>4, <2>2, <3>2, <4>1 DEF Calls
    <3> QED
      BY <1>5, <1>13, <2>1, <3>1, <3>2
  <2>4. Idle(y)'
    BY <1>7, <2>3
  <2> QED
    BY <2>1, <2>2, <2>4 DEF Idle
<1>14. ASSUME outside'.task PROVE Idle(Root)'
  BY <1>3, <1>7, <1>14 DEF Calls
<1> QED
  BY <1>8, <1>9, <1>10, <1>11, <1>12, <1>13, <1>14 DEF Calls

(* r is done with the leaf c. *)
LEMMA CallsLeaf ==
  ASSUME Calls, outside' = outside, NEW r \in Worker, NEW c,
         runs'[c] = 1, \A n \in Node \ {c} : runs'[n] = runs[n],
         Calling(r), CalledBy(r) = c, ~Calling(r)',
         \A w \in Worker : FramesFrom(w) /\ FramesStay(w) /\ CallStays(w),
         \A w \in Worker : Calling(w) => CalledBy(w) \in Node,
         \A w \in Worker : \A j, i : At(w, j, i) => NodeAt(w, j, i) \in Node \ Leaf
  PROVE  Calls'
<1>1. \A n : Open(n)' <=> Open(n)
  BY OpenKept
<1>2. runs[c] = 0 /\ ~Open(c)
  BY DEF Calls
<1>3. ASSUME NEW n \in Node, Idle(n) PROVE Idle(n)'
  <2>1. n # c
    BY <1>3, IdleOf
  <2>2. \A w \in Worker : Calling(w)' /\ CalledBy(w)' = n => Calling(w) /\ CalledBy(w) = n
    BY DEF CallStays
  <2> QED
    BY <1>1, <1>3, <2>1, <2>2, IdleKept
<1>4. \A v, w \in Worker : Calling(v)' /\ Calling(w)' /\ CalledBy(v)' = CalledBy(w)' => v = w
  BY DEF Calls, CallStays
<1>5. ASSUME NEW w \in Worker, Calling(w)'
      PROVE  runs'[CalledBy(w)'] = 0 /\ ~Open(CalledBy(w))'
  <2>1. PICK n : n = CalledBy(w)
    OBVIOUS
  <2>2. CalledBy(w)' = n /\ runs[n] = 0 /\ ~Open(n) /\ n \in Node /\ n # c
    BY <1>5, <2>1 DEF Calls, CallStays
  <2>3. ~Open(n)'
    BY <1>1, <2>2
  <2> QED
    BY <2>2, <2>3 DEF Open
<1>6. ASSUME NEW v \in Worker, NEW w \in Worker, NEW j, NEW i, NEW k, NEW l,
             At(v, j, i)', At(w, k, l)', NodeAt(v, j, i)' = NodeAt(w, k, l)'
      PROVE  v = w /\ j = k /\ i = l
  BY <1>6 DEF Calls, FramesFrom
<1>7. \A n \in Node : Open(n)' => runs'[n] = 0
  BY <1>1, <1>2 DEF Calls
<1>8. ASSUME NEW n \in Node \ Leaf, runs'[n] = 0, ~Open(n)'
      PROVE  Idle(Left[n])' /\ Idle(Right[n])'
  <2>1. runs[n] = 0 /\ ~Open(n)
    BY <1>1, <1>2, <1>8
  <2>2. PICK x \in Node, y \in Node : x = Left[n] /\ y = Right[n]
    BY OneCaller
  <2>3. Idle(x) /\ Idle(y)
    BY <2>1, <2>2 DEF Calls
  <2>4. Idle(x)' /\ Idle(y)'
    BY <1>3, <2>3
  <2> QED
    BY <2>2, <2>4 DEF Idle
<1>9. ASSUME NEW w \in Worker, NEW j, NEW i, At(w, j, i)', DueAt(w, j, i)'
      PROVE  Idle(Right[NodeAt(w, j, i)])'
  <2>1. At(w, j, i) /\ DueAt(w, j, i) /\ NodeAt(w, j, i)' = NodeAt(w, j, i)
    BY <1>9 DEF FramesFrom
  <2>2. PICK y \in Node : y = Right[NodeAt(w, j, i)]
    BY <2>1, OneCaller
  <2>3. Idle(y)
    BY <2>1, <2>2 DEF Calls
  <2>4. Idle(y)'
    BY <1>3, <2>3
  <2> QED
    BY <2>1, <2>2, <2>4 DEF Idle
<1>10. ASSUME outside'.task PROVE Idle(Root)'
  BY <1>3, <1>10, ComputationAssumption DEF Calls, ComputationAssumption
<1> QED
  BY <1>4, <1>5, <1>6, <1>7, <1>8, <1>9, <1>10 DEF Calls

(* r leaves its do-two of m. *)
LEMMA CallsFinish ==
  ASSUME Calls, outside' = outside, NEW r \in Worker, NEW m,
         runs'[m] = 1, \A n \in Node \ {m} : runs'[n] = runs[n],
         NEW J, NEW I, At(r, J, I), NodeAt(r, J, I) = m, ~At(r, J, I)',
         \A w \in Worker : FramesFrom(w) /\ CallStays(w),
         \A w \in Worker \ {r} : FramesStay(w),
         \A j, i : At(r, j, i) => (j = J /\ i = I) \/ (At(r, j, i)' /\ NodeAt(r, j, i)' = NodeAt(r, j, i)),
         \A w \in Worker : Calling(w) => CalledBy(w) \in Node,
         \A w \in Worker : \A j, i : At(w, j, i) => NodeAt(w, j, i) \in Node \ Leaf
  PROVE  Calls'
<1>1. Open(m)
  BY OpenAt
<1>2. ASSUME NEW n PROVE Open(n)' <=> Open(n) /\ n # m
  <2>1. Open(n)' <=> \E w \in Worker : \E j, i : At(w, j, i)' /\ NodeAt(w, j, i)' = n
    BY DEF Open, At, NodeAt
  <2>2. ASSUME Open(n)' PROVE Open(n) /\ n # m
    <3>0. PICK w \in Worker : \E j, i : At(w, j, i)' /\ NodeAt(w, j, i)' = n
      BY <2>1, <2>2
    <3>1. PICK j, i : At(w, j, i)' /\ NodeAt(w, j, i)' = n
      BY <3>0
    <3>2. At(w, j, i) /\ NodeAt(w, j, i) = n
      BY <3>1 DEF FramesFrom
    <3>3. n # m
      BY <3>1, <3>2 DEF Calls
    <3> QED
      BY <3>2, <3>3, OpenAt
  <2>3. ASSUME Open(n), n # m PROVE Open(n)'
    <3>0. PICK w \in Worker : \E j, i : At(w, j, i) /\ NodeAt(w, j, i) = n
      BY <2>3, OpenAt
    <3>1. PICK j, i : At(w, j, i) /\ NodeAt(w, j, i) = n
      BY <3>0
    <3>2. At(w, j, i)' /\ NodeAt(w, j, i)' = n
      BY <2>3, <3>1 DEF FramesStay
    <3> QED
      BY <2>1, <3>2
  <2> QED
    BY <2>2, <2>3
<1>3. ASSUME NEW n \in Node, Idle(n) PROVE Idle(n)'
  <2>1. n # m
    BY <1>1, <1>3, IdleOf
  <2>2. \A w \in Worker : Calling(w)' /\ CalledBy(w)' = n => Calling(w) /\ CalledBy(w) = n
    BY DEF CallStays
  <2> QED
    BY <1>2, <1>3, <2>1, <2>2, IdleKept
<1>4. \A v, w \in Worker : Calling(v)' /\ Calling(w)' /\ CalledBy(v)' = CalledBy(w)' => v = w
  BY DEF Calls, CallStays
<1>5. ASSUME NEW w \in Worker, Calling(w)'
      PROVE  runs'[CalledBy(w)'] = 0 /\ ~Open(CalledBy(w))'
  <2>1. PICK n : n = CalledBy(w)
    OBVIOUS
  <2>2. CalledBy(w)' = n /\ runs[n] = 0 /\ ~Open(n) /\ n \in Node /\ n # m
    BY <1>1, <1>5, <2>1 DEF Calls, CallStays
  <2>3. ~Open(n)'
    BY <1>2, <2>2
  <2> QED
    BY <2>2, <2>3 DEF Open
<1>6. ASSUME NEW v \in Worker, NEW w \in Worker, NEW j, NEW i, NEW k, NEW l,
             At(v, j, i)', At(w, k, l)', NodeAt(v, j, i)' = NodeAt(w, k, l)'
      PROVE  v = w /\ j = k /\ i = l
  BY <1>6 DEF Calls, FramesFrom
<1>7. \A n \in Node : Open(n)' => runs'[n] = 0
  BY <1>2 DEF Calls
<1>8. ASSUME NEW n \in Node \ Leaf, runs'[n] = 0, ~Open(n)'
      PROVE  Idle(Left[n])' /\ Idle(Right[n])'
  <2>1. runs[n] = 0 /\ ~Open(n)
    BY <1>2, <1>8
  <2>2. PICK x \in Node, y \in Node : x = Left[n] /\ y = Right[n]
    BY OneCaller
  <2>3. Idle(x) /\ Idle(y)
    BY <2>1, <2>2 DEF Calls
  <2>4. Idle(x)' /\ Idle(y)'
    BY <1>3, <2>3
  <2> QED
    BY <2>2, <2>4 DEF Idle
<1>9. ASSUME NEW w \in Worker, NEW j, NEW i, At(w, j, i)', DueAt(w, j, i)'
      PROVE  Idle(Right[NodeAt(w, j, i)])'
  <2>1. At(w, j, i) /\ DueAt(w, j, i) /\ NodeAt(w, j, i)' = NodeAt(w, j, i)
    BY <1>9 DEF FramesFrom
  <2>2. PICK y \in Node : y = Right[NodeAt(w, j, i)]
    BY <2>1, OneCaller
  <2>3. Idle(y)
    BY <2>1, <2>2 DEF Calls
  <2>4. Idle(y)'
    BY <1>3, <2>3
  <2> QED
    BY <2>1, <2>2, <2>4 DEF Idle
<1>10. ASSUME outside'.task PROVE Idle(Root)'
  BY <1>3, <1>10, ComputationAssumption DEF Calls, ComputationAssumption
<1> QED
  BY <1>4, <1>5, <1>6, <1>7, <1>8, <1>9, <1>10 DEF Calls

(***************************************************************************)
(* From the stacks to the places                                           *)
(***************************************************************************)
LEMMA PlaceTypes ==
  ASSUME TypeOK
  PROVE  \A w \in Worker :
           /\ Calling(w) => CalledBy(w) \in Node
           /\ \A j, i : At(w, j, i) =>
                task[w][j].frames[i] \in Frame /\ NodeAt(w, j, i) \in Node \ Leaf
<1>1. ASSUME NEW w \in Worker, Calling(w) PROVE CalledBy(w) \in Node
  <2>1. Top(w) \in Task
    BY <1>1, TopOf DEF Calling
  <2> QED
    BY <2>1, CurrentNode DEF CalledBy
<1>2. ASSUME NEW w \in Worker, NEW j, NEW i, At(w, j, i)
      PROVE  task[w][j].frames[i] \in Frame /\ NodeAt(w, j, i) \in Node \ Leaf
  <2>1. task[w][j] \in Task
    BY <1>2, StackTypes DEF At
  <2>2. PICK fs \in Seq(Frame) : fs = task[w][j].frames
    BY <2>1 DEF Task
  <2>3. i \in DOMAIN fs /\ DOMAIN fs = 1..Len(fs)
    BY <1>2, <2>2, LenProperties DEF At
  <2>4. fs[i] \in Frame
    BY <2>3, ElementOfSeq
  <2> QED
    BY <2>2, <2>4 DEF NodeAt, Frame
<1> QED
  BY <1>1, <1>2

LEMMA UntouchedStack ==
  ASSUME NEW w \in Worker, task'[w] = task[w]
  PROVE  FramesFrom(w) /\ FramesStay(w) /\ CallStays(w)
<1>1. Top(w)' = Top(w)
  BY DEF Top
<1>2. CallStays(w)
  BY <1>1 DEF CallStays, Calling, CalledBy, Current
<1>3. \A j, i : At(w, j, i)' <=> At(w, j, i)
  BY DEF At
<1>4. \A j, i : NodeAt(w, j, i)' = NodeAt(w, j, i) /\ (DueAt(w, j, i)' => DueAt(w, j, i))
  BY DEF NodeAt, DueAt, Due
<1> QED
  BY <1>2, <1>3, <1>4 DEF FramesFrom, FramesStay

LEMMA TopPlaces ==
  ASSUME TypeOK, NEW w \in Worker, task[w] # <<>>
  PROVE  \A i : LET n == Len(task[w])
                IN  /\ At(w, n, i) <=> i \in DOMAIN Top(w).frames
                    /\ NodeAt(w, n, i) = Top(w).frames[i].node
                    /\ DueAt(w, n, i) <=> Due(Top(w).frames[i])
<1>1. Top(w) = task[w][Len(task[w])] /\ Len(task[w]) \in DOMAIN task[w]
  BY TopOf
<1> QED
  BY <1>1 DEF At, NodeAt, DueAt

(* The places after the entry on top was replaced by t *)
LEMMA NewTopPlaces ==
  ASSUME TypeOK, NEW w \in Worker, task[w] # <<>>, NEW t, NewTop(w, t),
         NEW n, n = Len(task[w]), NEW i
  PROVE  /\ At(w, n, i)' <=> i \in DOMAIN t.frames
         /\ NodeAt(w, n, i)' = t.frames[i].node
         /\ DueAt(w, n, i)' <=> Due(t.frames[i])
<1>1. n \in DOMAIN task'[w] /\ task'[w][n] = t
  BY TopOf DEF NewTop
<1> QED
  BY <1>1 DEF At, NodeAt, DueAt, Due

LEMMA NewPlaces ==
  ASSUME TypeOK, NEW w \in Worker, task[w] # <<>>, NEW t, NewTop(w, t),
         NEW j, j # Len(task[w]), NEW i
  PROVE  /\ At(w, j, i)' <=> At(w, j, i)
         /\ At(w, j, i) => /\ NodeAt(w, j, i)' = NodeAt(w, j, i)
                           /\ DueAt(w, j, i)' <=> DueAt(w, j, i)
<1>1. CASE j \in DOMAIN task[w]
  <2>1. PICK s : s = task[w][j]
    OBVIOUS
  <2>2. task'[w][j] = s /\ j \in DOMAIN task'[w]
    BY <1>1, <2>1 DEF NewTop
  <2> QED
    BY <1>1, <2>1, <2>2 DEF At, NodeAt, DueAt, Due
<1>2. CASE j \notin DOMAIN task[w]
  BY <1>2 DEF At, NewTop
<1> QED
  BY <1>1, <1>2

LEMMA TopFrames ==
  ASSUME TypeOK, NEW w \in Worker, task[w] # <<>>, NEW t, NewTop(w, t)
  PROVE  /\ (\A i \in DOMAIN t.frames :
               /\ i \in DOMAIN Top(w).frames /\ t.frames[i].node = Top(w).frames[i].node
               /\ Due(t.frames[i]) => Due(Top(w).frames[i]))
            => FramesFrom(w)
         /\ (\A i \in DOMAIN Top(w).frames :
               i \in DOMAIN t.frames /\ t.frames[i].node = Top(w).frames[i].node)
            => FramesStay(w)
<1>1. PICK n : n = Len(task[w])
  OBVIOUS
<1>2. \A i : /\ At(w, n, i) <=> i \in DOMAIN Top(w).frames
             /\ NodeAt(w, n, i) = Top(w).frames[i].node
             /\ DueAt(w, n, i) <=> Due(Top(w).frames[i])
  BY <1>1, TopPlaces
<1>3. \A i : /\ At(w, n, i)' <=> i \in DOMAIN t.frames
             /\ NodeAt(w, n, i)' = t.frames[i].node
             /\ DueAt(w, n, i)' <=> Due(t.frames[i])
  BY <1>1, NewTopPlaces
<1>4. \A j, i : j # n =>
        /\ At(w, j, i)' <=> At(w, j, i)
        /\ At(w, j, i) => /\ NodeAt(w, j, i)' = NodeAt(w, j, i)
                          /\ DueAt(w, j, i)' <=> DueAt(w, j, i)
  BY <1>1, NewPlaces
<1>5. ASSUME \A i \in DOMAIN t.frames :
               /\ i \in DOMAIN Top(w).frames /\ t.frames[i].node = Top(w).frames[i].node
               /\ Due(t.frames[i]) => Due(Top(w).frames[i]),
             NEW j, NEW i, At(w, j, i)'
      PROVE  At(w, j, i) /\ NodeAt(w, j, i)' = NodeAt(w, j, i) /\ (DueAt(w, j, i)' => DueAt(w, j, i))
  BY <1>2, <1>3, <1>4, <1>5
<1>6. ASSUME \A i \in DOMAIN Top(w).frames :
               i \in DOMAIN t.frames /\ t.frames[i].node = Top(w).frames[i].node,
             NEW j, NEW i, At(w, j, i)
      PROVE  At(w, j, i)' /\ NodeAt(w, j, i)' = NodeAt(w, j, i)
  BY <1>2, <1>3, <1>4, <1>6
<1> QED
  BY <1>5, <1>6 DEF FramesFrom, FramesStay

LEMMA NewCall ==
  ASSUME NEW w \in Worker, NEW t, NewTop(w, t)
  PROVE  /\ Calling(w)' <=> t.stat \in Live /\ ~t.ret
         /\ CalledBy(w)' = Current(t)
  BY DEF NewTop, Calling, CalledBy, Current, Live

(***************************************************************************)
(* What has returned was run                                               *)
(***************************************************************************)
SubsRun(w) == \A i \in DOMAIN sub[w] : sub[w][i].stat = "DONE" => runs[sub[w][i].body] = 1
Grown == \A n \in Node : runs[n] = 1 => runs'[n] = 1

LEMMA RunsOf ==
  RunsInv <=> Calls /\ \A w \in Worker : Returned(w)
  BY CallsOf DEF RunsInv

LEMMA TopSound ==
  ASSUME TypeOK, NEW w \in Worker, Returned(w), task[w] # <<>>
  PROVE  Sound(Top(w))
<1>1. Top(w) = task[w][Len(task[w])] /\ Len(task[w]) \in DOMAIN task[w]
  BY TopOf
<1> QED
  BY <1>1 DEF Returned

LEMMA SoundGrown ==
  ASSUME NEW t \in Task, Sound(t), Grown
  PROVE  Sound(t)'
<1>1. PICK fs \in Seq(Frame) : fs = t.frames
  BY DEF Task
<1>2. \A i \in DOMAIN fs : fs[i] \in Frame
  BY LenProperties, ElementOfSeq
<1>3. \A i \in DOMAIN fs : Left[fs[i].node] \in Node
  BY <1>2, OneCaller DEF Frame
<1>4. Current(t) \in Node
  BY CurrentNode
<1>5. PICK c \in Node : c = Current(t)
  BY <1>4
<1>6. t.stat \in Live /\ t.ret => runs'[c] = 1
  BY <1>5 DEF Sound, Grown
<1>7. \A i \in DOMAIN fs : fs[i].stat2 => runs'[Left[fs[i].node]] = 1
  BY <1>1, <1>3 DEF Sound, Grown
<1> QED
  BY <1>1, <1>5, <1>6, <1>7 DEF Sound

LEMMA SoundEmpty ==
  ASSUME NEW t, t.frames = <<>>, t.stat \in Live /\ t.ret => runs[t.body] = 1,
         t.stat = "SUSPENDED" => t.ret,
         t.stat \in {"ALLOCATED", "NONE", "INITIALIZED"} => ~t.ret
  PROVE  Sound(t)
<1>1. DOMAIN t.frames = {}
  BY EmptySeq
<1> QED
  BY <1>1 DEF Sound, Current

LEMMA SubsGrown ==
  ASSUME TypeOK, Grown, NEW w \in Worker, Returned(w),
         \A i \in DOMAIN sub'[w] :
           sub'[w][i].stat = "DONE" => i \in DOMAIN sub[w] /\ sub'[w][i] = sub[w][i]
  PROVE  SubsRun(w)'
<1>1. ASSUME NEW i \in DOMAIN sub'[w], sub'[w][i].stat = "DONE"
      PROVE  runs'[sub'[w][i].body] = 1
  <2>1. i \in DOMAIN sub[w] /\ sub'[w][i] = sub[w][i]
    BY <1>1
  <2>2. sub[w][i].body \in Node
    BY <2>1, StackTypes DEF TaskHome
  <2>3. runs[sub[w][i].body] = 1
    BY <1>1, <2>1 DEF Returned
  <2> QED
    BY <2>1, <2>2, <2>3 DEF Grown
<1> QED
  BY <1>1 DEF SubsRun

LEMMA ReturnedSame ==
  ASSUME TypeOK, Grown, NEW w \in Worker, Returned(w), task'[w] = task[w], SubsRun(w)',
         pc'[w] \in {"rslt", "wait"} => pc[w] \in {"rslt", "wait"} \/ Top(w).ret
  PROVE  Returned(w)'
<1>1. ASSUME NEW j \in DOMAIN task'[w] PROVE Sound(task[w][j])'
  <2>1. PICK t \in Task : t = task[w][j]
    BY StackTypes
  <2>2. Sound(t)
    BY <2>1 DEF Returned
  <2>3. Sound(t)'
    BY <2>2, SoundGrown
  <2>4. task'[w][j] = t
    BY <2>1
  <2> QED
    BY <2>3, <2>4 DEF Sound
<1>2. pc'[w] \in {"rslt", "wait"} => Top(w)'.ret
  BY DEF Returned, Top
<1> QED
  BY <1>1, <1>2 DEF Returned, SubsRun

LEMMA ReturnedTop ==
  ASSUME TypeOK, Grown, NEW w \in Worker, Returned(w), task[w] # <<>>, NEW t, NewTop(w, t),
         Sound(t)', SubsRun(w)', pc'[w] \in {"rslt", "wait"} => t.ret
  PROVE  Returned(w)'
<1>1. ASSUME NEW j \in DOMAIN task'[w] PROVE Sound(task[w][j])'
  <2>1. CASE j = Len(task[w])
    <3>1. task'[w][j] = t
      BY <2>1 DEF NewTop
    <3> QED
      BY <3>1 DEF Sound
  <2>2. CASE j # Len(task[w])
    <3>1. j \in DOMAIN task[w] /\ task'[w][j] = task[w][j]
      BY <2>2 DEF NewTop
    <3>2. PICK s \in Task : s = task[w][j]
      BY <3>1, StackTypes
    <3>3. Sound(s)
      BY <3>1, <3>2 DEF Returned
    <3>4. Sound(s)'
      BY <3>3, SoundGrown
    <3>5. task'[w][j] = s
      BY <3>1, <3>2
    <3> QED
      BY <3>4, <3>5 DEF Sound
  <2> QED
    BY <2>1, <2>2
<1>2. pc'[w] \in {"rslt", "wait"} => Top(w)'.ret
  BY DEF NewTop
<1> QED
  BY <1>1, <1>2 DEF Returned, SubsRun

(***************************************************************************)
(* The actions                                                             *)
(***************************************************************************)
LEMMA RunsAfter == Calls' /\ (\A w \in Worker : Returned(w)') => RunsInv'
<1> DEFINE R == \A w \in Worker : Returned(w)
<1>1. RunsInv <=> Calls /\ R
  BY RunsOf
<1>2. (\A w \in Worker : Returned(w)') => R'
  OBVIOUS
<1> HIDE DEF R
<1>3. Calls' /\ R' => RunsInv'
  BY <1>1, PTL
<1> QED
  BY <1>2, <1>3

(* Nothing but program counters, requests and the outside changes. *)
LEMMA MoveRuns ==
  ASSUME IInv, RunsInv, task' = task, sub' = sub, runs' = runs, outside'.task => outside.task,
         \A w \in Worker : pc'[w] \in {"rslt", "wait"} => pc[w] \in {"rslt", "wait"} \/ Top(w).ret
  PROVE  RunsInv'
<1>1. TypeOK /\ Calls /\ \A w \in Worker : Returned(w)
  BY RunsOf DEF IInv
<1>2. Grown
  BY DEF Grown
<1>3. Calls'
  <2>1. First \in Worker
    BY WorkerAssumption DEF WorkerAssumption
  <2>2. \A w \in Worker : FramesFrom(w) /\ FramesStay(w) /\ CallStays(w)
    BY UntouchedStack
  <2> QED
    BY <1>1, <2>1, <2>2, CallsQuiet
<1>4. ASSUME NEW w \in Worker PROVE Returned(w)'
  <2>1. SubsRun(w)'
    BY <1>1, <1>2, SubsGrown
  <2> QED
    BY <1>1, <1>2, <2>1, ReturnedSame
<1> QED
  BY <1>3, <1>4, RunsAfter

LEMMA QuietRuns ==
  ASSUME IInv, RunsInv, NEW w \in Worker,
         \/ AwaitNone(w) \/ AwaitedNone(w) \/ ForwardTreq(w) \/ Sleep(w) \/ Nap(w)
         \/ RetryTreq(w) \/ EndSpawn(w) \/ CallWaitRslt(w) \/ EndTask(w)
         \/ SendRsltOutside(w) \/ SendRack(w) \/ CountRack(w)
         \/ \E u \in Worker : TryTreqRefused(w, u) \/ TryTreqAccepted(w, u)
  PROVE  RunsInv' /\ runs' = runs
<1>1. TypeOK
  BY DEF IInv
<1>2. task' = task /\ sub' = sub /\ runs' = runs
  BY DEF AwaitNone, AwaitedNone, ForwardTreq, Sleep, Nap, RetryTreq, EndSpawn, CallWaitRslt,
     EndTask, SendRsltOutside, SendRack, CountRack, TryTreqRefused, TryTreqAccepted
<1>3. outside'.task => outside.task
  <2>1. outside' = outside \/ outside' = [outside EXCEPT !.treq = TRUE]
        \/ outside' = [outside EXCEPT !.rack = TRUE]
    BY DEF AwaitNone, AwaitedNone, ForwardTreq, Sleep, Nap, RetryTreq, EndSpawn, CallWaitRslt,
       EndTask, SendRsltOutside, SendRack, CountRack, TryTreqRefused, TryTreqAccepted
  <2> QED
    BY <1>1, <2>1 DEF TypeOK
<1>4. \A v \in Worker \ {w} : pc'[v] = pc[v]
  BY <1>1 DEF TypeOK, Goto, AwaitNone, AwaitedNone, ForwardTreq, Sleep, Nap, RetryTreq, EndSpawn,
     CallWaitRslt, EndTask, SendRsltOutside, SendRack, CountRack, TryTreqRefused, TryTreqAccepted
<1>5. pc'[w] \in {"rslt", "wait"} => pc[w] \in {"rslt", "wait"} \/ Top(w).ret
  <2>1. CASE AwaitedNone(w)
    <3>1. SubDone(w) => task[w] # <<>> /\ Top(w).ret
      <4>1. ASSUME SubDone(w) PROVE task[w] # <<>>
        <5>1. Nesting(w) /\ Last(sub[w]).stat = "DONE" /\ sub[w] # <<>>
          BY <4>1 DEF IInv, SubDone
        <5>2. Len(sub[w]) \in DOMAIN sub[w]
          BY <1>1, <5>1, StackTypes, LastOf
        <5>3. \E j \in DOMAIN task[w] : TRUE
          BY <5>1, <5>2 DEF Nesting
        <5> QED
          BY <5>3, EmptySeq
      <4>2. ASSUME task[w] # <<>> PROVE Top(w).ret
        <5>1. Top(w).stat = "SUSPENDED"
          BY <2>1, <4>2 DEF IInv, Stacks, TopStat, AwaitedNone
        <5>2. Sound(Top(w))
          BY <1>1, <4>2, TopSound, RunsOf
        <5> QED
          BY <5>1, <5>2 DEF Sound
      <4> QED
        BY <4>1, <4>2
    <3>2. pc'[w] = IF SubDone(w) THEN "wait" ELSE "enter"
      BY <1>1, <2>1 DEF AwaitedNone, Goto, TypeOK
    <3> QED
      BY <3>1, <3>2
  <2>2. CASE CallWaitRslt(w) \/ EndTask(w)
    BY <2>2 DEF CallWaitRslt, EndTask
  <2>3. CASE AwaitNone(w) \/ ForwardTreq(w) \/ Sleep(w) \/ Nap(w) \/ RetryTreq(w) \/ EndSpawn(w)
    BY <1>1, <2>3 DEF AwaitNone, ForwardTreq, Sleep, Nap, RetryTreq, EndSpawn, Goto, TypeOK
  <2>4. CASE SendRsltOutside(w) \/ SendRack(w) \/ CountRack(w)
             \/ \E u \in Worker : TryTreqRefused(w, u) \/ TryTreqAccepted(w, u)
    BY <1>1, <2>4 DEF SendRsltOutside, SendRack, CountRack, TryTreqRefused, TryTreqAccepted,
       Goto, TypeOK
  <2> QED
    BY <2>1, <2>2, <2>3, <2>4
<1> QED
  BY <1>2, <1>3, <1>4, <1>5, MoveRuns

LEMMA QuietOutsideRuns ==
  ASSUME IInv, RunsInv, OutsideRack \/ UNCHANGED vars
  PROVE  RunsInv' /\ runs' = runs
<1>1. UNCHANGED <<pc, task, sub, runs>>
  BY DEF OutsideRack, vars
<1>2. outside'.task => outside.task
  BY DEF OutsideRack, vars, IInv, TypeOK
<1> QED
  BY <1>1, <1>2, MoveRuns

(* The entry on top is replaced by one with the same do-twos. *)
LEMMA TopRuns ==
  ASSUME IInv, RunsInv, NEW w \in Worker, task[w] # <<>>, NEW t \in Task,
         task' = [task EXCEPT ![w] = WithTop(task[w], t)],
         t.frames = Top(w).frames, Sound(t),
         t.stat \in Live /\ ~t.ret =>
           Top(w).stat \in Live /\ ~Top(w).ret /\ Current(t) = Current(Top(w)),
         sub' = sub, runs' = runs, outside'.task => outside.task,
         pc'[w] \notin {"rslt", "wait"},
         \A v \in Worker \ {w} :
           pc'[v] \in {"rslt", "wait"} => pc[v] \in {"rslt", "wait"}
  PROVE  RunsInv'
<1>1. TypeOK /\ Calls /\ \A v \in Worker : Returned(v)
  BY RunsOf DEF IInv
<1>2. Grown
  BY DEF Grown
<1>3. NewTop(w, t) /\ \A v \in Worker \ {w} : task'[v] = task[v]
  BY <1>1, TopReplaced
<1>4. FramesFrom(w) /\ FramesStay(w)
  BY <1>1, <1>3, TopFrames
<1>5. CallStays(w)
  <2>1. /\ Calling(w)' <=> t.stat \in Live /\ ~t.ret
        /\ CalledBy(w)' = Current(t)
    BY <1>3, NewCall
  <2> QED
    BY <2>1 DEF CallStays, Calling, CalledBy
<1>6. Calls'
  <2>1. \A v \in Worker : FramesFrom(v) /\ FramesStay(v) /\ CallStays(v)
    BY <1>3, <1>4, <1>5, UntouchedStack
  <2> QED
    BY <1>1, <2>1, CallsQuiet
<1>7. ASSUME NEW v \in Worker PROVE SubsRun(v)'
  BY <1>1, <1>2, SubsGrown
<1>8. ASSUME NEW v \in Worker \ {w} PROVE Returned(v)'
  BY <1>1, <1>2, <1>3, <1>7, ReturnedSame
<1>9. Returned(w)'
  <2>1. Sound(t)'
    BY <1>2, SoundGrown
  <2> QED
    BY <1>1, <1>2, <1>3, <1>7, <2>1, ReturnedTop
<1> QED
  BY <1>6, <1>8, <1>9, RunsAfter

(* The status of the entry on top *)
LEMMA StatusRuns ==
  ASSUME IInv, RunsInv, NEW w \in Worker,
         \/ SendTreq(w) \/ Abandon(w) \/ AbandonAfterNap(w) \/ StartTask(w)
         \/ WaitRslt(w) \/ TaskDone(w)
  PROVE  RunsInv' /\ runs' = runs
<1>1. pc[w] \in {"flush", "reply", "nap", "wait", "done"}
  BY DEF SendTreq, Abandon, AbandonAfterNap, StartTask, WaitRslt, TaskDone
<1>2. /\ TypeOK /\ task[w] # <<>> /\ Top(w) \in Task /\ Top(w).stat \in TopStat(pc[w])
      /\ pc[w] # "wait" => Top(w).frames = <<>>
  BY <1>1, AtTop DEF NoFrames
<1>3. /\ sub' = sub /\ runs' = runs /\ outside' = outside
      /\ \A v \in Worker \ {w} : pc'[v] = pc[v]
      /\ pc'[w] \notin {"rslt", "wait"}
  BY <1>2 DEF SendTreq, Abandon, AbandonAfterNap, StartTask, WaitRslt, TaskDone, GiveUp,
     Goto, TypeOK
<1>4. Returned(w) /\ Sound(Top(w))
  BY <1>2, TopSound, RunsOf
<1>5. ASSUME NEW t \in Task, task' = [task EXCEPT ![w] = WithTop(task[w], t)],
             t.frames = Top(w).frames, Sound(t),
             t.stat \in Live /\ ~t.ret =>
               Top(w).stat \in Live /\ ~Top(w).ret /\ Current(t) = Current(Top(w))
      PROVE  RunsInv'
  BY <1>2, <1>3, <1>5, TopRuns
<1>6. CASE SendTreq(w)
  <2>1. PICK t : t = [Top(w) EXCEPT !.stat = "ALLOCATED"]
    OBVIOUS
  <2>2. t \in Task /\ t.stat = "ALLOCATED" /\ t.frames = Top(w).frames /\ t.ret = Top(w).ret
    BY <1>2, <2>1 DEF Task, TaskStat
  <2>3. ~t.ret /\ t.frames = <<>>
    BY <1>2, <1>4, <1>6, <2>2 DEF SendTreq, TopStat, Sound
  <2>4. Sound(t)
    BY <2>2, <2>3, SoundEmpty
  <2>5. task' = [task EXCEPT ![w] = WithTop(task[w], t)]
    BY <1>6, <2>1 DEF SendTreq, SetStat
  <2> QED
    BY <1>3, <1>5, <2>2, <2>4, <2>5 DEF Live
<1>7. CASE TaskDone(w)
  <2>1. PICK t : t = [Top(w) EXCEPT !.stat = "DONE"]
    OBVIOUS
  <2>2. t \in Task /\ t.stat = "DONE" /\ t.frames = Top(w).frames /\ t.frames = <<>>
    BY <1>2, <1>7, <2>1 DEF Task, TaskStat, TaskDone
  <2>4. Sound(t)
    BY <2>2, SoundEmpty DEF Live
  <2>5. task' = [task EXCEPT ![w] = WithTop(task[w], t)]
    BY <1>7, <2>1 DEF TaskDone, SetStat
  <2> QED
    BY <1>3, <1>5, <2>2, <2>4, <2>5 DEF Live
<1>8. CASE WaitRslt(w)
  <2>1. PICK t : t = [Top(w) EXCEPT !.stat = "SUSPENDED"]
    OBVIOUS
  <2>2. /\ t \in Task /\ t.stat = "SUSPENDED" /\ t.frames = Top(w).frames
        /\ t.ret = Top(w).ret /\ t.body = Top(w).body
    BY <1>2, <2>1 DEF Task, TaskStat
  <2>3. Top(w).ret /\ Top(w).stat \in Live
    BY <1>2, <1>4, <1>8 DEF Returned, WaitRslt, TopStat, Live
  <2>4. Sound(t)
    BY <1>4, <2>2, <2>3 DEF Sound, Current
  <2>5. task' = [task EXCEPT ![w] = WithTop(task[w], t)]
    BY <1>8, <2>1 DEF WaitRslt, SetStat
  <2> QED
    BY <1>3, <1>5, <2>2, <2>3, <2>4, <2>5
<1>9. CASE Abandon(w) \/ AbandonAfterNap(w)
  <2>1. PICK h \in {treq[w][i].waiting : i \in DOMAIN treq[w]} \cup {TERM} :
          task' = [task EXCEPT ![w] =
                    WithTop(task[w], [Top(w) EXCEPT !.stat = "DONE", !.rslt = h])]
    BY <1>9 DEF Abandon, AbandonAfterNap, GiveUp
  <2>2. h \in Address
    BY <1>2, StackTypes DEF Request, Address
  <2>3. PICK t : t = [Top(w) EXCEPT !.stat = "DONE", !.rslt = h]
    OBVIOUS
  <2>4. t \in Task /\ t.stat = "DONE" /\ t.frames = Top(w).frames
    BY <1>2, <2>2, <2>3 DEF Task, TaskStat
  <2>5. t.frames = <<>>
    BY <1>2, <1>9, <2>4 DEF Abandon, AbandonAfterNap
  <2>6. Sound(t)
    BY <2>4, <2>5, SoundEmpty DEF Live
  <2>7. task' = [task EXCEPT ![w] = WithTop(task[w], t)]
    BY <2>1, <2>3
  <2> QED
    BY <1>3, <1>5, <2>4, <2>6, <2>7 DEF Live
<1>10. CASE StartTask(w)
  <2>1. PICK t : t = [Top(w) EXCEPT !.stat = "STARTED", !.frames = <<>>, !.ret = FALSE]
    OBVIOUS
  <2>2. /\ t \in Task /\ t.stat = "STARTED" /\ t.body = Top(w).body
        /\ t.frames = <<>> /\ ~t.ret
    BY <1>2, <2>1, EmptySeq DEF Task, TaskStat
  <2>3. Top(w).frames = <<>> /\ Top(w).stat = "INITIALIZED"
    BY <1>2, <1>10 DEF StartTask
  <2>4. ~Top(w).ret /\ Sound(t)
    BY <1>4, <2>2, <2>3, SoundEmpty DEF Sound
  <2>5. Current(t) = Current(Top(w))
    BY <2>2, <2>3 DEF Current
  <2>6. task' = [task EXCEPT ![w] = WithTop(task[w], t)]
    BY <1>10, <2>1 DEF StartTask
  <2> QED
    BY <1>3, <1>5, <2>2, <2>3, <2>4, <2>5, <2>6 DEF Live
<1> QED
  BY <1>3, <1>6, <1>7, <1>8, <1>9, <1>10

(* recv-none *)
LEMMA NoneRuns ==
  ASSUME IInv, RunsInv, NEW r \in Worker,
         \/ task' = task
         \/ SetStat(r, "NONE") /\ task[r] # <<>> /\ Top(r).stat = "ALLOCATED"
            /\ Top(r).frames = <<>> /\ pc'[r] \notin {"rslt", "wait"},
         \A v \in Worker : pc'[v] \in {"rslt", "wait"} => pc[v] \in {"rslt", "wait"},
         sub' = sub, runs' = runs, outside'.task => outside.task
  PROVE  RunsInv'
<1>1. TypeOK /\ Returned(r)
  BY RunsOf DEF IInv
<1>2. CASE task' = task
  BY <1>2, MoveRuns
<1>3. CASE SetStat(r, "NONE") /\ task[r] # <<>> /\ Top(r).stat = "ALLOCATED"
           /\ Top(r).frames = <<>> /\ pc'[r] \notin {"rslt", "wait"}
  <2>1. PICK t : t = [Top(r) EXCEPT !.stat = "NONE"]
    OBVIOUS
  <2>2. Top(r) \in Task /\ Sound(Top(r))
    BY <1>1, <1>3, TopOf, TopSound
  <2>3. t \in Task /\ t.stat = "NONE" /\ t.frames = Top(r).frames /\ t.ret = Top(r).ret
    BY <2>1, <2>2 DEF Task, TaskStat
  <2>4. Sound(t)
    BY <1>3, <2>2, <2>3, SoundEmpty DEF Sound, Live
  <2>5. task' = [task EXCEPT ![r] = WithTop(task[r], t)]
    BY <1>3, <2>1 DEF SetStat
  <2> QED
    BY <1>3, <2>3, <2>4, <2>5, TopRuns DEF Live
<1> QED
  BY <1>2, <1>3

LEMMA RefuseRuns ==
  ASSUME IInv, RunsInv, NEW w \in Worker, RefuseTreq(w)
  PROVE  RunsInv' /\ runs' = runs
<1>1. /\ TypeOK /\ task[w] # <<>> /\ Top(w).stat = "ALLOCATED" /\ wnone[w] = 0
      /\ Top(w).frames = <<>>
  BY AtTop DEF RefuseTreq, TopStat, NoFrames
<1>2. RecvNone(w, [pc EXCEPT ![w] = "reply"])
      /\ UNCHANGED <<sub, treq, req, wrack, asking, direct, ackTo, outside, runs>>
  BY DEF RefuseTreq
<1>3. SetStat(w, "NONE")
  BY <1>1, <1>2 DEF RecvNone
<1>4. pc'[w] = "reply" /\ \A v \in Worker \ {w} : pc'[v] = pc[v]
  BY <1>1, <1>2 DEF RecvNone, TypeOK, Woken
<1> QED
  BY <1>1, <1>2, <1>3, <1>4, NoneRuns

LEMMA RefusedRuns ==
  ASSUME IInv, RunsInv, NEW r \in Worker, RecvNone(r, pc),
         Expecting(r) \/ wnone[r] = 1, sub' = sub, runs' = runs, outside'.task => outside.task
  PROVE  RunsInv'
<1>1. TypeOK
  BY DEF IInv
<1>2. pc'[r] = Woken(pc[r]) /\ \A v \in Worker \ {r} : pc'[v] = pc[v]
  BY <1>1 DEF RecvNone, TypeOK
<1>3. \A v \in Worker : pc'[v] \in {"rslt", "wait"} => pc[v] \in {"rslt", "wait"}
  BY <1>2 DEF Woken
<1>4. CASE wnone[r] = 1
  <2>1. task' = task
    BY <1>4 DEF RecvNone
  <2> QED
    BY <1>3, <2>1, NoneRuns
<1>5. CASE wnone[r] # 1
  <2>1. Expecting(r) /\ pc[r] \in {"reply", "sleep"} /\ Top(r).stat = "ALLOCATED"
    BY <1>5 DEF Expecting
  <2>2. task[r] # <<>> /\ wnone[r] = 0 /\ Top(r).frames = <<>>
    BY <2>1, AtTop DEF NoFrames
  <2>3. SetStat(r, "NONE")
    BY <2>2 DEF RecvNone
  <2>4. pc'[r] = "reply"
    BY <1>2, <2>1 DEF Woken
  <2> QED
    BY <1>3, <2>1, <2>2, <2>3, <2>4, NoneRuns
<1> QED
  BY <1>4, <1>5

LEMMA FlushRuns ==
  ASSUME IInv, RunsInv, NEW w \in Worker, FlushBeforeTreq(w) \/ FlushAfterTask(w)
  PROVE  RunsInv' /\ runs' = runs
<1>1. TypeOK
  BY DEF IInv
<1>2. PICK i \in DOMAIN treq[w] : RecvNone(treq[w][i].from, pc)
  BY DEF FlushBeforeTreq, FlushAfterTask, FlushOne, Topmost, ToFlush
<1>3. sub' = sub /\ runs' = runs /\ outside' = outside
  BY DEF FlushBeforeTreq, FlushAfterTask, FlushOne
<1>4. PICK r \in Worker : r = treq[w][i].from
  BY <1>1, StackTypes DEF Request
<1>5. Expecting(r) \/ wnone[r] = 1
  <2>1. treq[w][i] \in ToSet(treq[w])
    BY ElementsOf
  <2> QED
    BY <1>1, <1>4, <2>1, NoRequest DEF IInv
<1>6. RecvNone(r, pc)
  BY <1>2, <1>4
<1> QED
  BY <1>3, <1>5, <1>6, RefusedRuns

LEMMA OutsideNoneRuns ==
  ASSUME IInv, RunsInv, OutsideNone
  PROVE  RunsInv' /\ runs' = runs
<1>1. First \in Worker /\ Expecting(First)
  BY WorkerAssumption DEF WorkerAssumption, OutsideNone, IInv, Requests
<1>2. RecvNone(First, pc) /\ sub' = sub /\ runs' = runs
  BY DEF OutsideNone
<1>3. outside'.task => outside.task
  BY DEF OutsideNone, IInv, TypeOK
<1> QED
  BY <1>1, <1>2, <1>3, RefusedRuns

(* allocate-task, deallocate-task *)
LEMMA AllocateRuns ==
  ASSUME IInv, RunsInv, NEW w \in Worker, AllocateTask(w)
  PROVE  RunsInv' /\ runs' = runs
<1>1. TypeOK /\ Calls /\ \A v \in Worker : Returned(v)
  BY RunsOf DEF IInv
<1>2. PICK s \in Seq(Task) : s = task[w]
  BY <1>1, StackTypes
<1>3. PICK t : t = [stat |-> "ALLOCATED", rslt |-> TERM, body |-> Root, frames |-> <<>>,
                    ret |-> FALSE]
  OBVIOUS
<1>4. t \in Task /\ t.stat = "ALLOCATED" /\ t.frames = <<>> /\ ~t.ret
  <2>1. <<>> \in Seq(Frame) /\ Root \in Node
    BY EmptySeq, ComputationAssumption DEF ComputationAssumption
  <2> QED
    BY <1>3, <2>1 DEF Task, TaskStat, Address
<1>5. task'[w] = Append(s, t) /\ \A v \in Worker \ {w} : task'[v] = task[v]
  BY <1>1, <1>2, <1>3 DEF AllocateTask, TypeOK
<1>6. PICK n \in Nat : n = Len(s)
  BY <1>2, LenProperties
<1>7. DOMAIN task[w] = 1..n /\ DOMAIN task'[w] = 1..(n + 1)
  BY <1>2, <1>4, <1>5, <1>6, AppendOf
<1>8. task'[w][n + 1] = t /\ Top(w)' = t
  <2>1. Append(s, t)[Len(s) + 1] = t
    BY <1>4, AppendOf
  <2>2. Last(Append(s, t)) = t
    BY <1>4, AppendOf
  <2> QED
    BY <1>5, <1>6, <2>1, <2>2 DEF Top
<1>9. ASSUME NEW j \in 1..n PROVE task'[w][j] = task[w][j]
  BY <1>2, <1>4, <1>5, <1>7, <1>9, AppendOf
<1>10. /\ sub' = sub /\ runs' = runs /\ outside' = outside
       /\ pc'[w] = "flush" /\ \A v \in Worker \ {w} : pc'[v] = pc[v]
  BY <1>1 DEF AllocateTask, Goto, TypeOK
<1>11. Grown
  BY <1>10 DEF Grown
<1>12. FramesFrom(w) /\ FramesStay(w)
  <2>1. ASSUME NEW j, NEW i, At(w, j, i)' PROVE j \in 1..n
    BY <1>4, <1>7, <1>8, <2>1, EmptySeq DEF At
  <2>2. ASSUME NEW j \in 1..n, NEW i
        PROVE  /\ At(w, j, i)' <=> At(w, j, i)
               /\ NodeAt(w, j, i)' = NodeAt(w, j, i)
               /\ DueAt(w, j, i)' <=> DueAt(w, j, i)
    <3>1. PICK x : x = task[w][j]
      OBVIOUS
    <3>2. task'[w][j] = x /\ j \in DOMAIN task[w] /\ j \in DOMAIN task'[w]
      BY <1>7, <1>9, <3>1
    <3> QED
      BY <3>1, <3>2 DEF At, NodeAt, DueAt, Due
  <2>3. ASSUME NEW j, NEW i, At(w, j, i) PROVE j \in 1..n
    BY <1>7, <2>3 DEF At
  <2> QED
    BY <2>1, <2>2, <2>3 DEF FramesFrom, FramesStay
<1>13. CallStays(w)
  BY <1>4, <1>8 DEF CallStays, Calling, Live
<1>14. Calls'
  <2>1. \A v \in Worker : FramesFrom(v) /\ FramesStay(v) /\ CallStays(v)
    BY <1>5, <1>12, <1>13, UntouchedStack
  <2> QED
    BY <1>1, <1>10, <2>1, CallsQuiet
<1>15. ASSUME NEW v \in Worker PROVE SubsRun(v)'
  BY <1>1, <1>10, <1>11, SubsGrown
<1>16. ASSUME NEW v \in Worker \ {w} PROVE Returned(v)'
  BY <1>1, <1>5, <1>10, <1>11, <1>15, ReturnedSame
<1>17. Returned(w)'
  <2>1. ASSUME NEW j \in DOMAIN task'[w] PROVE Sound(task[w][j])'
    <3>1. CASE j = n + 1
      <4>1. Sound(t)
        BY <1>4, SoundEmpty DEF Live
      <4>2. Sound(t)'
        BY <1>4, <1>11, <4>1, SoundGrown
      <4> QED
        BY <1>8, <3>1, <4>2 DEF Sound
    <3>2. CASE j \in 1..n
      <4>1. PICK x \in Task : x = task[w][j]
        BY <1>1, <1>7, <3>2, StackTypes
      <4>2. Sound(x)
        BY <1>1, <1>7, <3>2, <4>1 DEF Returned
      <4>3. Sound(x)'
        BY <1>11, <4>2, SoundGrown
      <4>4. task'[w][j] = x
        BY <1>9, <3>2, <4>1
      <4> QED
        BY <4>3, <4>4 DEF Sound
    <3> QED
      BY <1>6, <1>7, <3>1, <3>2
  <2> QED
    BY <1>10, <1>15, <2>1 DEF Returned, SubsRun
<1> QED
  BY <1>10, <1>14, <1>16, <1>17, RunsAfter

LEMMA DeallocateRuns ==
  ASSUME IInv, RunsInv, NEW w \in Worker, DeallocateTask(w)
  PROVE  RunsInv' /\ runs' = runs
<1>1. /\ TypeOK /\ Stacks(w) /\ task[w] # <<>> /\ Top(w).frames = <<>>
      /\ Calls /\ \A v \in Worker : Returned(v)
  BY AtTop, RunsOf DEF IInv, DeallocateTask, NoFrames
<1>2. PICK s \in Seq(Task) : s = task[w]
  BY <1>1, StackTypes
<1>3. PICK u : u = Front(s)
  OBVIOUS
<1>4. task'[w] = u /\ \A v \in Worker \ {w} : task'[v] = task[v]
  BY <1>1, <1>2, <1>3 DEF DeallocateTask, TypeOK
<1>5. PICK n \in Nat \ {0} : n = Len(s)
  BY <1>1, <1>2, FrontOf
<1>6. u \in Seq(Task) /\ Len(u) = n - 1 /\ DOMAIN u = 1..(n - 1) /\ DOMAIN s = 1..n
      /\ \A j \in DOMAIN u : u[j] = s[j]
  BY <1>1, <1>2, <1>3, <1>5, FrontOf
<1>7. \A j \in 1..(n - 1) : s[j].stat = "SUSPENDED"
  BY <1>1, <1>2, <1>5 DEF Stacks
<1>8. /\ sub' = sub /\ runs' = runs /\ outside' = outside
      /\ pc'[w] = (IF n = 1 THEN "enter" ELSE "wait")
      /\ \A v \in Worker \ {w} : pc'[v] = pc[v]
  BY <1>1, <1>2, <1>5 DEF DeallocateTask, Goto, TypeOK
<1>9. Grown
  BY <1>8 DEF Grown
<1>10. s[n].frames = <<>>
  BY <1>1, <1>2, <1>5, TopOf
<1>11. FramesFrom(w) /\ FramesStay(w)
  <2>1. ASSUME NEW j, NEW i, At(w, j, i)' PROVE j \in 1..(n - 1)
    BY <1>4, <1>6, <2>1 DEF At
  <2>2. ASSUME NEW j \in 1..(n - 1), NEW i
        PROVE  /\ At(w, j, i)' <=> At(w, j, i)
               /\ NodeAt(w, j, i)' = NodeAt(w, j, i)
               /\ DueAt(w, j, i)' <=> DueAt(w, j, i)
    <3>1. PICK x : x = task[w][j]
      OBVIOUS
    <3>2. task'[w][j] = x /\ j \in DOMAIN task[w] /\ j \in DOMAIN task'[w]
      BY <1>2, <1>4, <1>6, <3>1
    <3> QED
      BY <3>1, <3>2 DEF At, NodeAt, DueAt, Due
  <2>3. ASSUME NEW j, NEW i, At(w, j, i) PROVE j \in 1..(n - 1)
    <3>1. j # n
      BY <1>2, <1>10, <2>3, EmptySeq DEF At
    <3> QED
      BY <1>2, <1>6, <2>3, <3>1 DEF At
  <2> QED
    BY <2>1, <2>2, <2>3 DEF FramesFrom, FramesStay
<1>12. ASSUME NEW j \in DOMAIN task'[w]
       PROVE  /\ Sound(task[w][j])'
              /\ task'[w][j].ret /\ task'[w][j].stat = "SUSPENDED"
  <2>1. PICK x \in Task : x = task[w][j]
    BY <1>1, <1>2, <1>4, <1>6, StackTypes
  <2>2. task'[w][j] = x /\ x.stat = "SUSPENDED"
    BY <1>2, <1>4, <1>6, <1>7, <2>1
  <2>3. Sound(x)
    BY <1>1, <1>2, <1>4, <1>6, <2>1 DEF Returned
  <2>4. Sound(x)'
    BY <1>9, <2>3, SoundGrown
  <2> QED
    BY <2>2, <2>3, <2>4 DEF Sound
<1>13. u # <<>> => Top(w)'.ret
  <2>1. ASSUME u # <<>> PROVE Last(u) = u[Len(u)] /\ Len(u) \in DOMAIN u
    BY <1>6, <2>1, LastOf
  <2> QED
    BY <1>4, <1>12, <2>1 DEF Top
<1>14. CallStays(w)
  BY <1>4, <1>13 DEF CallStays, Calling
<1>15. Calls'
  <2>1. \A v \in Worker : FramesFrom(v) /\ FramesStay(v) /\ CallStays(v)
    BY <1>4, <1>11, <1>14, UntouchedStack
  <2> QED
    BY <1>1, <1>8, <2>1, CallsQuiet
<1>16. ASSUME NEW v \in Worker PROVE SubsRun(v)'
  BY <1>1, <1>8, <1>9, SubsGrown
<1>17. ASSUME NEW v \in Worker \ {w} PROVE Returned(v)'
  BY <1>1, <1>4, <1>8, <1>9, <1>16, ReturnedSame
<1>18. Returned(w)'
  <2>1. pc'[w] \in {"rslt", "wait"} => Top(w)'.ret
    <3>1. n # 1 => u # <<>>
      BY <1>6, EmptySeq
    <3> QED
      BY <1>8, <1>13, <3>1
  <2> QED
    BY <1>12, <1>16, <2>1 DEF Returned, SubsRun
<1> QED
  BY <1>8, <1>15, <1>17, <1>18, RunsAfter

(* A task is written into the empty entry of a worker that waits for it. *)
LEMMA FilledRuns ==
  ASSUME IInv, RunsInv, NEW r \in Worker, Expecting(r),
         NEW a \in Address, NEW b \in Node, NEW p,
         p = [Top(r) EXCEPT !.stat = "INITIALIZED", !.rslt = a, !.body = b], NewTop(r, p),
         runs' = runs, sub'[r] = sub[r], pc'[r] = "reply"
  PROVE  /\ FramesFrom(r) /\ FramesStay(r) /\ CalledBy(r)' = b /\ Returned(r)'
<1>1. /\ TypeOK /\ task[r] # <<>> /\ Top(r) \in Task /\ Top(r).frames = <<>>
      /\ Top(r).stat = "ALLOCATED" /\ Returned(r)
  BY AtTop, RunsOf DEF Expecting, NoFrames
<1>2. Sound(Top(r))
  BY <1>1, TopSound
<1>3. /\ p \in Task /\ p.stat = "INITIALIZED" /\ p.frames = <<>> /\ p.body = b
      /\ p.ret = Top(r).ret
  BY <1>1 DEF Task, TaskStat
<1>4. FramesFrom(r) /\ FramesStay(r)
  <2>1. p.frames = Top(r).frames
    BY <1>1, <1>3
  <2> QED
    BY <1>1, <2>1, TopFrames
<1>5. CalledBy(r)' = b
  <2>1. CalledBy(r)' = Current(p)
    BY NewCall
  <2> QED
    BY <1>3, <2>1 DEF Current
<1>6. Grown
  BY DEF Grown
<1>7. Sound(p)'
  <2>1. ~p.ret
    BY <1>1, <1>2, <1>3 DEF Sound
  <2>2. Sound(p)
    BY <1>3, <2>1, SoundEmpty
  <2> QED
    BY <1>3, <1>6, <2>2, SoundGrown
<1>8. SubsRun(r)'
  BY <1>1, <1>6, SubsGrown
<1> QED
  BY <1>1, <1>4, <1>5, <1>6, <1>7, <1>8, ReturnedTop

LEMMA OutsideTaskRuns ==
  ASSUME IInv, RunsInv, OutsideTask
  PROVE  RunsInv' /\ runs' = runs
<1>1. /\ TypeOK /\ First \in Worker /\ Expecting(First)
      /\ Calls /\ \A v \in Worker : Returned(v)
  BY WorkerAssumption, RunsOf DEF WorkerAssumption, OutsideTask, IInv, Requests
<1>2. /\ task[First] # <<>> /\ Top(First) \in Task /\ pc[First] \in {"reply", "sleep"}
  BY <1>1, AtTop DEF Expecting
<1>3. Root \in Node /\ OUTSIDE \in Address
  BY ComputationAssumption DEF ComputationAssumption, Address
<1>4. PICK p : p = [Top(First) EXCEPT !.stat = "INITIALIZED", !.rslt = OUTSIDE, !.body = Root]
  OBVIOUS
<1>5. p \in Task
  BY <1>2, <1>3, <1>4 DEF Task, TaskStat
<1>6. task' = [task EXCEPT ![First] = WithTop(task[First], p)]
  BY <1>4 DEF OutsideTask, Initialized
<1>7. NewTop(First, p) /\ \A v \in Worker \ {First} : task'[v] = task[v]
  BY <1>1, <1>2, <1>5, <1>6, TopReplaced
<1>8. /\ sub' = sub /\ runs' = runs /\ outside.task /\ ~outside'.task
      /\ pc'[First] = "reply" /\ \A v \in Worker \ {First} : pc'[v] = pc[v]
  BY <1>1, <1>2 DEF OutsideTask, TypeOK, Woken
<1>9. /\ FramesFrom(First) /\ FramesStay(First) /\ CalledBy(First)' = Root /\ Returned(First)'
  BY <1>1, <1>3, <1>4, <1>7, <1>8, FilledRuns
<1>10. Grown
  BY <1>8 DEF Grown
<1>11. Calls'
  <2>1. \A v \in Worker : FramesFrom(v) /\ FramesStay(v)
    BY <1>7, <1>9, UntouchedStack
  <2>2. \A v \in Worker \ {First} : CallStays(v)
    BY <1>7, UntouchedStack
  <2>3. \A v \in Worker : \A j, i : At(v, j, i) => NodeAt(v, j, i) \in Node \ Leaf
    BY <1>1, PlaceTypes
  <2> QED
    BY <1>1, <1>8, <1>9, <2>1, <2>2, <2>3, CallsRoot
<1>12. ASSUME NEW v \in Worker \ {First} PROVE Returned(v)'
  <2>1. SubsRun(v)'
    BY <1>1, <1>8, <1>10, SubsGrown
  <2> QED
    BY <1>1, <1>7, <1>8, <1>10, <2>1, ReturnedSame
<1> QED
  BY <1>8, <1>9, <1>11, <1>12, RunsAfter

(* The result of a task was run before it is sent. *)
LEMMA SendRsltRuns ==
  ASSUME IInv, RunsInv, NEW w \in Worker, SendRslt(w)
  PROVE  RunsInv' /\ runs' = runs
<1>1. /\ TypeOK /\ task[w] # <<>> /\ Top(w) \in Task /\ Top(w).frames = <<>>
      /\ Top(w).stat = "STARTED" /\ pc[w] = "rslt"
      /\ Calls /\ \A v \in Worker : Returned(v)
  BY AtTop, RunsOf DEF SendRslt, NoFrames, TopStat
<1>2. PICK n : n = Len(task[w]) /\ n \in DOMAIN task[w] /\ Top(w) = task[w][n]
  BY <1>1, TopOf
<1>3. Unsent(w, n)
  BY <1>1, <1>2 DEF SendRslt, Unsent, ResultSent, Live
<1>4. PICK x \in Worker, y \in Nat \ {0} :
        /\ Top(w).rslt = <<x, y>> /\ y \in DOMAIN sub[x] /\ sub[x][y].to = w
        /\ sub[x][y].body = Top(w).body
  BY <1>2, <1>3, HomeBody
<1>5. runs[Top(w).body] = 1
  <2>1. Sound(Top(w))
    BY <1>1, TopSound
  <2>2. Top(w).ret
    BY <1>1 DEF Returned
  <2> QED
    BY <1>1, <2>1, <2>2 DEF Sound, Current, Live
<1>6. PICK s \in Seq(TaskHome) : s = sub[x]
  BY <1>1, StackTypes
<1>7. /\ task' = task /\ runs' = runs /\ outside' = outside
      /\ sub' = [sub EXCEPT ![x] = [s EXCEPT ![y].stat = "DONE"]]
      /\ pc' = [pc EXCEPT ![w] = "rack", ![x] = IF y = Len(sub[x]) THEN Woken(@) ELSE @]
  BY <1>4, <1>6 DEF SendRslt
<1>8. \A v \in Worker : pc'[v] \in {"rslt", "wait"} => pc[v] \in {"rslt", "wait"}
  BY <1>1, <1>4, <1>7 DEF TypeOK, Woken
<1>9. Grown
  BY <1>7 DEF Grown
<1>10. SubsRun(x)'
  <2>1. PICK u : u = [s EXCEPT ![y].stat = "DONE"]
    OBVIOUS
  <2>2. sub'[x] = u
    BY <1>1, <1>7, <2>1 DEF TypeOK
  <2>3. DOMAIN s = 1..Len(s) /\ y \in DOMAIN s
    BY <1>4, <1>6, LenProperties
  <2>4. /\ DOMAIN u = DOMAIN s /\ u[y] = [s[y] EXCEPT !.stat = "DONE"]
        /\ \A i \in DOMAIN s : i # y => u[i] = s[i]
    BY <2>1, <2>3
  <2>5. s[y] \in TaskHome
    BY <2>3, ElementOfSeq
  <2>6. u[y].body = s[y].body
    BY <2>4, <2>5 DEF TaskHome
  <2>7. ASSUME NEW i \in DOMAIN u, u[i].stat = "DONE" PROVE runs[u[i].body] = 1
    <3>1. CASE i = y
      BY <1>4, <1>5, <1>6, <2>6, <3>1
    <3>2. CASE i # y
      BY <1>1, <1>6, <2>4, <2>7, <3>2 DEF Returned
    <3> QED
      BY <3>1, <3>2
  <2> QED
    BY <1>7, <2>2, <2>7 DEF SubsRun
<1>11. ASSUME NEW v \in Worker PROVE SubsRun(v)'
  <2>1. CASE v = x
    BY <1>10, <2>1
  <2>2. CASE v # x
    <3>1. sub'[v] = sub[v]
      BY <1>1, <1>7, <2>2 DEF TypeOK
    <3> QED
      BY <1>1, <1>9, <3>1, SubsGrown
  <2> QED
    BY <2>1, <2>2
<1>12. \A v \in Worker : Returned(v)'
  BY <1>1, <1>7, <1>8, <1>9, <1>11, ReturnedSame
<1>13. Calls'
  <2>1. \A v \in Worker : FramesFrom(v) /\ FramesStay(v) /\ CallStays(v)
    BY <1>7, UntouchedStack
  <2> QED
    BY <1>1, <1>7, <2>1, CallsQuiet
<1> QED
  BY <1>7, <1>12, <1>13, RunsAfter

(* Only who was given the half away to has it: it is not due any more. *)
LEMMA SpawnTaskRuns ==
  ASSUME IInv, RunsInv, NEW w \in Worker, SpawnTask(w)
  PROVE  RunsInv' /\ runs' = runs
<1>1. /\ TypeOK /\ pc[w] = "spawn" /\ task[w] # <<>> /\ Top(w) \in Task
      /\ Top(w).frames \in Seq(Frame) /\ Top(w).stat = "STARTED" /\ treq[w] # <<>>
      /\ Calls /\ \A v \in Worker : Returned(v)
  BY AtTop, RunsOf DEF SpawnTask, TopStat
<1>2. PICK s \in Seq(Request) : s = treq[w]
  BY <1>1 DEF TypeOK
<1>3. PICK q : q = Last(s)
  OBVIOUS
<1>4. s # <<>> /\ q = s[Len(s)] /\ DOMAIN s = 1..Len(s) /\ Len(s) \in Nat \ {0}
  BY <1>1, <1>2, <1>3, LastOf
<1>5. q \in ToSet(treq[w]) /\ q.from \in Worker
  <2>1. Len(s) \in DOMAIN s
    BY <1>4
  <2>2. q \in ToSet(treq[w])
    BY <1>2, <1>4, <2>1, ElementsOf
  <2> QED
    BY <1>1, <2>2, RequestType
<1>6. PICK r \in Worker : r = q.from
  BY <1>5
<1>7. Accepted(w, q) /\ ~Leaving(w, q.waiting)
  BY <1>1, <1>5 DEF IInv, Requests, Leaving
<1>8. Expecting(r)
  BY <1>6, <1>7 DEF Accepted
<1>9. /\ r # w /\ task[r] # <<>> /\ Top(r) \in Task /\ pc[r] \in {"reply", "sleep"}
  BY <1>1, <1>8, AtTop DEF Expecting
<1>10. PICK i \in Spawnable(Top(w)) :
        /\ task' = [task EXCEPT
              ![w] = WithTop(task[w], [Top(w) EXCEPT !.frames[i].spawned = Len(sub[w]) + 1]),
              ![r] = Initialized(r, <<w, Len(sub[w]) + 1>>, Right[Top(w).frames[i].node])]
        /\ pc' = [pc EXCEPT ![r] = Woken(@)]
        /\ sub' = [sub EXCEPT ![w] =
              Append(@, [stat |-> "INITIALIZED", to |-> r, body |-> Right[Top(w).frames[i].node]])]
  BY <1>2, <1>3, <1>6 DEF SpawnTask, Oldest
<1>11. runs' = runs /\ outside' = outside
  BY DEF SpawnTask
<1>12. i \in DOMAIN Top(w).frames /\ Due(Top(w).frames[i])
  BY <1>1, <1>10, SpawnableFrames DEF Due
<1>13. PICK n \in Nat \ {0} : n = Len(sub[w]) + 1
  BY <1>1, StackTypes
(* the half, and the frames of w *)
<1>14. PICK fs \in Seq(Frame) : fs = Top(w).frames
  BY <1>1
<1>15. i \in DOMAIN fs /\ DOMAIN fs = 1..Len(fs) /\ Len(fs) \in Nat /\ fs[i] \in Frame
  BY <1>12, <1>14, LenProperties, ElementOfSeq
<1>16. PICK c \in Node \ Leaf : c = fs[i].node
  BY <1>15 DEF Frame
<1>17. PICK half \in Node : half = Right[c]
  BY OneCaller
<1>18. PICK f : f = [fs[i] EXCEPT !.spawned = n]
  OBVIOUS
<1>19. f \in Frame /\ f.node = fs[i].node /\ f.stat2 = fs[i].stat2 /\ ~Due(f)
  BY <1>13, <1>15, <1>18 DEF Frame, Due
<1>20. PICK g : g = [fs EXCEPT ![i] = f]
  OBVIOUS
<1>21. g \in Seq(Frame) /\ Len(g) = Len(fs)
       /\ \A l \in 1..Len(fs) : g[l] = IF l = i THEN f ELSE fs[l]
  BY <1>15, <1>19, <1>20, ExceptSeq
<1>22. /\ DOMAIN g = DOMAIN fs
       /\ \A l \in DOMAIN fs : /\ g[l].node = fs[l].node /\ g[l].stat2 = fs[l].stat2
                               /\ Due(g[l]) => Due(fs[l])
       /\ ~Due(g[i])
  <2>1. DOMAIN g = 1..Len(fs)
    BY <1>21, LenProperties
  <2> QED
    BY <1>15, <1>19, <1>21, <2>1
<1>23. PICK t : t = [Top(w) EXCEPT !.frames = g]
  OBVIOUS
<1>24. t \in Task /\ t.frames = g /\ t.stat = "STARTED" /\ t.body = Top(w).body
       /\ t.ret = Top(w).ret
  BY <1>1, <1>21, <1>23 DEF Task
<1>25. t = [Top(w) EXCEPT !.frames[i].spawned = Len(sub[w]) + 1]
  BY <1>13, <1>14, <1>18, <1>20, <1>23
(* r's task *)
<1>26. PICK a \in Address : a = <<w, n>>
  BY DEF Address
<1>27. PICK p : p = [Top(r) EXCEPT !.stat = "INITIALIZED", !.rslt = a, !.body = half]
  OBVIOUS
<1>28. p \in Task
  BY <1>9, <1>27 DEF Task, TaskStat
<1>29. Initialized(r, <<w, Len(sub[w]) + 1>>, Right[Top(w).frames[i].node]) = WithTop(task[r], p)
  BY <1>13, <1>14, <1>16, <1>17, <1>26, <1>27 DEF Initialized
<1>30. task' = [task EXCEPT ![w] = WithTop(task[w], t), ![r] = WithTop(task[r], p)]
  BY <1>10, <1>25, <1>29
<1>31. /\ task'[w] = WithTop(task[w], t) /\ task'[r] = WithTop(task[r], p)
       /\ \A v \in Worker \ {w, r} : task'[v] = task[v]
  BY <1>1, <1>9, <1>30 DEF TypeOK
<1>32. NewTop(w, t) /\ NewTop(r, p)
  BY <1>1, <1>9, <1>24, <1>28, <1>31, TopSet
<1>33. /\ pc'[r] = "reply" /\ \A v \in Worker \ {r} : pc'[v] = pc[v]
       /\ \A v \in Worker \ {w} : sub'[v] = sub[v]
  BY <1>1, <1>9, <1>10 DEF TypeOK, Woken
<1>34. Grown
  BY <1>11 DEF Grown
(* each worker *)
<1>35. FramesFrom(w) /\ FramesStay(w)
  BY <1>1, <1>14, <1>22, <1>24, <1>32, TopFrames
<1>36. fs # <<>> /\ Last(g) = g[Len(fs)] /\ Last(fs) = fs[Len(fs)] /\ g # <<>>
       /\ Len(fs) \in DOMAIN fs
  <2>1. fs # <<>>
    BY <1>15, EmptySeq
  <2> QED
    BY <1>15, <1>21, <1>22, <2>1, EmptySeq DEF Last
<1>37. Current(t) = Current(Top(w))
  BY <1>14, <1>22, <1>24, <1>36 DEF Current
<1>38. CallStays(w)
  <2>1. /\ Calling(w)' <=> t.stat \in Live /\ ~t.ret
        /\ CalledBy(w)' = Current(t)
    BY <1>32, NewCall
  <2> QED
    BY <1>1, <1>24, <1>37, <2>1 DEF CallStays, Calling, CalledBy, Live
<1>39. /\ FramesFrom(r) /\ FramesStay(r) /\ CalledBy(r)' = half /\ Returned(r)'
  <2>1. sub'[r] = sub[r] /\ pc'[r] = "reply"
    BY <1>9, <1>33
  <2> QED
    BY <1>8, <1>11, <1>27, <1>32, <2>1, FilledRuns
<1>40. Returned(w)'
  <2>1. Sound(Top(w))
    BY <1>1, TopSound
  <2>2. /\ t.stat \in Live /\ t.ret => runs[Current(t)] = 1
        /\ t.stat = "STARTED"
    BY <1>1, <1>24, <1>37, <2>1 DEF Sound, Live
  <2>3. ASSUME NEW l \in DOMAIN g
        PROVE  /\ g[l].stat2 => runs[Left[g[l].node]] = 1
               /\ g[l].node = IF l = 1 THEN t.body ELSE Half(g[l - 1])
    <3>1. /\ fs[l].stat2 => runs[Left[fs[l].node]] = 1
          /\ fs[l].node = IF l = 1 THEN Top(w).body ELSE Half(fs[l - 1])
      BY <1>14, <1>22, <2>1, <2>3 DEF Sound
    <3>2. l # 1 => l - 1 \in DOMAIN fs
      BY <1>15, <1>22, <2>3
    <3>3. l # 1 => Half(g[l - 1]) = Half(fs[l - 1])
      BY <1>22, <3>2 DEF Half
    <3> QED
      BY <1>22, <1>24, <2>3, <3>1, <3>3
  <2>4. Sound(t)
    BY <1>24, <2>2, <2>3 DEF Sound
  <2>5. Sound(t)'
    BY <1>24, <1>34, <2>4, SoundGrown
  <2>6. SubsRun(w)'
    <3>1. PICK h : h = [stat |-> "INITIALIZED", to |-> r, body |-> half]
      OBVIOUS
    <3>2. h \in TaskHome /\ h.stat = "INITIALIZED"
      BY <3>1 DEF TaskHome, HomeStat
    <3>3. PICK d \in Seq(TaskHome) : d = sub[w]
      BY <1>1 DEF TypeOK
    <3>4. sub'[w] = Append(d, h)
      BY <1>1, <1>10, <1>14, <1>16, <1>17, <3>1, <3>3 DEF TypeOK
    <3>5. Len(d) \in Nat /\ DOMAIN d = 1..Len(d) /\ DOMAIN Append(d, h) = 1..(Len(d) + 1)
      BY <3>2, AppendOf
    <3>6. Append(d, h)[Len(d) + 1] = h
      BY <3>2, AppendOf
    <3>7. \A y \in DOMAIN d : Append(d, h)[y] = d[y]
      BY <3>2, AppendOf
    <3>8. ASSUME NEW y \in DOMAIN sub'[w], sub'[w][y].stat = "DONE"
          PROVE  y \in DOMAIN sub[w] /\ sub'[w][y] = sub[w][y]
      <4>1. y # Len(d) + 1
        BY <3>2, <3>4, <3>6, <3>8
      <4>2. y \in DOMAIN d
        BY <3>4, <3>5, <3>8, <4>1
      <4> QED
        BY <3>3, <3>4, <3>7, <4>2
    <3> QED
      BY <1>1, <1>34, <3>8, SubsGrown
  <2>7. pc'[w] \notin {"rslt", "wait"}
    BY <1>1, <1>9, <1>33
  <2> QED
    BY <1>1, <1>32, <1>34, <2>5, <2>6, <2>7, ReturnedTop
<1>41. ASSUME NEW v \in Worker \ {w, r}
       PROVE  FramesFrom(v) /\ FramesStay(v) /\ CallStays(v) /\ Returned(v)'
  <2>1. SubsRun(v)'
    BY <1>1, <1>33, <1>34, SubsGrown
  <2> QED
    BY <1>1, <1>31, <1>33, <1>34, <2>1, UntouchedStack, ReturnedSame
<1>42. Calls'
  <2>1. PICK J : J = Len(task[w])
    OBVIOUS
  <2>2. /\ At(w, J, i) /\ DueAt(w, J, i) /\ NodeAt(w, J, i) = c
    BY <1>1, <1>12, <1>14, <1>16, <2>1, TopPlaces
  <2>3. ~DueAt(w, J, i)'
    BY <1>1, <1>22, <1>24, <1>32, <2>1, NewTopPlaces
  <2>4. \A v \in Worker : FramesFrom(v) /\ FramesStay(v)
    BY <1>35, <1>39, <1>41
  <2>5. \A v \in Worker \ {r} : CallStays(v)
    BY <1>38, <1>41
  <2>6. \A v \in Worker : \A j, k : At(v, j, k) => NodeAt(v, j, k) \in Node \ Leaf
    BY <1>1, PlaceTypes
  <2>7. CalledBy(r)' = Right[NodeAt(w, J, i)] /\ NodeAt(w, J, i) \in Node \ Leaf
    BY <1>17, <1>39, <2>2
  <2> QED
    BY <1>1, <1>11, <2>2, <2>3, <2>4, <2>5, <2>6, <2>7, CallsHalf
<1> QED
  BY <1>11, <1>39, <1>40, <1>41, <1>42, RunsAfter

(***************************************************************************)
(* The task body                                                           *)
(***************************************************************************)
LEMMA AtRun ==
  ASSUME IInv, RunsInv, NEW w \in Worker, pc[w] \in {"run", "wait"}
  PROVE  /\ TypeOK /\ task[w] # <<>> /\ Top(w) \in Task /\ Top(w).frames \in Seq(Frame)
         /\ Top(w).stat \in Live /\ Sound(Top(w)) /\ Calls /\ Current(Top(w)) \in Node
         /\ \A v \in Worker : Returned(v)
         /\ \A v \in Worker : Calling(v) => CalledBy(v) \in Node
         /\ \A v \in Worker : \A j, i : At(v, j, i) => NodeAt(v, j, i) \in Node \ Leaf
         /\ pc[w] = "run" => Top(w).stat = "STARTED"
<1>1. /\ TypeOK /\ task[w] # <<>> /\ Top(w) \in Task /\ Top(w).frames \in Seq(Frame)
      /\ Top(w).stat \in TopStat(pc[w])
  BY AtTop
<1>2. Top(w).stat \in Live /\ (pc[w] = "run" => Top(w).stat = "STARTED")
  BY <1>1 DEF TopStat, Live
<1>3. Calls /\ \A v \in Worker : Returned(v)
  BY RunsOf
<1>4. Sound(Top(w))
  BY <1>1, <1>3, TopSound
<1>5. Current(Top(w)) \in Node
  BY <1>1, CurrentNode
<1>6. /\ \A v \in Worker : Calling(v) => CalledBy(v) \in Node
      /\ \A v \in Worker : \A j, i : At(v, j, i) => NodeAt(v, j, i) \in Node \ Leaf
  BY <1>1, PlaceTypes
<1> QED
  BY <1>1, <1>2, <1>3, <1>4, <1>5, <1>6

LEMMA RunStat2Runs ==
  ASSUME IInv, RunsInv, NEW w \in Worker, RunStat2(w)
  PROVE  RunsInv' /\ runs' = runs
<1>1. pc[w] = "run" /\ Top(w).ret
  BY DEF RunStat2
<1>2. /\ TypeOK /\ task[w] # <<>> /\ Top(w) \in Task /\ Top(w).frames \in Seq(Frame)
      /\ Top(w).stat = "STARTED" /\ Top(w).stat \in Live /\ Sound(Top(w)) /\ Calls
      /\ \A v \in Worker : Returned(v)
  BY <1>1, AtRun
<1>3. PICK fs \in Seq(Frame) : fs = Top(w).frames
  BY <1>2
<1>4. fs # <<>> /\ ~Last(fs).stat2 /\ Last(fs).spawned = 0
  BY <1>3 DEF RunStat2
<1>5. PICK n \in Nat \ {0} : n = Len(fs)
  BY <1>4, LastOf
<1>6. n \in DOMAIN fs /\ DOMAIN fs = 1..n /\ Last(fs) = fs[n] /\ fs[n] \in Frame
  BY <1>4, <1>5, LastOf
<1>7. PICK m \in Node \ Leaf : m = fs[n].node
  BY <1>6 DEF Frame
<1>8. PICK f : f = [fs[n] EXCEPT !.stat2 = TRUE]
  OBVIOUS
<1>9. f \in Frame /\ f.node = m /\ f.stat2
  BY <1>6, <1>7, <1>8 DEF Frame
<1>10. PICK u : u = WithTop(fs, f)
  OBVIOUS
<1>11. u \in Seq(Frame) /\ DOMAIN u = 1..n /\ u[n] = f /\ Last(u) = f /\ u # <<>>
  <2>1. f \in Frame
    BY <1>9
  <2>2. u \in Seq(Frame) /\ DOMAIN u = 1..Len(fs) /\ u # <<>>
    BY <1>4, <1>10, <2>1, WithTopOf
  <2>3. Last(u) = f
    BY <1>4, <1>10, <2>1, WithTopOf
  <2>4. u[Len(fs)] = f
    <3>1. Len(u) = Len(fs)
      BY <1>4, <1>10, <2>1, WithTopOf
    <3>2. Last(u) = u[Len(u)]
      BY <2>2, LastOf
    <3> QED
      BY <2>3, <3>1, <3>2
  <2> QED
    BY <1>5, <2>2, <2>3, <2>4
<1>12. ASSUME NEW l \in DOMAIN fs, l # n PROVE u[l] = fs[l]
  BY <1>4, <1>5, <1>9, <1>10, <1>12, WithTopAt
<1>13. PICK t : t = [Top(w) EXCEPT !.frames = u, !.ret = FALSE]
  OBVIOUS
<1>14. /\ t \in Task /\ t.stat = "STARTED" /\ t.frames = u /\ ~t.ret
       /\ t.body = Top(w).body
  BY <1>2, <1>11, <1>13 DEF Task
<1>15. task' = [task EXCEPT ![w] = WithTop(task[w], t)]
  BY <1>3, <1>6, <1>8, <1>10, <1>13 DEF RunStat2
<1>16. NewTop(w, t) /\ \A v \in Worker \ {w} : task'[v] = task[v]
  BY <1>2, <1>14, <1>15, TopReplaced
<1>17. pc' = pc /\ sub' = sub /\ runs' = runs /\ outside' = outside
  BY DEF RunStat2
<1>18. Grown
  BY <1>17 DEF Grown
<1>19. FramesFrom(w) /\ FramesStay(w)
  <2>1. ASSUME NEW l \in DOMAIN u
        PROVE  /\ l \in DOMAIN fs /\ u[l].node = fs[l].node /\ (Due(u[l]) => Due(fs[l]))
    <3>1. CASE l = n
      BY <1>6, <1>7, <1>9, <1>11, <3>1 DEF Due
    <3>2. CASE l # n
      BY <1>6, <1>11, <1>12, <2>1, <3>2
    <3> QED
      BY <3>1, <3>2
  <2> QED
    BY <1>2, <1>3, <1>6, <1>11, <1>14, <1>16, <2>1, TopFrames
<1>20. ASSUME NEW v \in Worker \ {w}
       PROVE  FramesFrom(v) /\ FramesStay(v) /\ CallStays(v) /\ Returned(v)'
  <2>1. SubsRun(v)'
    BY <1>2, <1>17, <1>18, SubsGrown
  <2> QED
    BY <1>2, <1>16, <1>17, <1>18, <2>1, UntouchedStack, ReturnedSame
<1>21. Calls'
  <2>1. PICK J : J = Len(task[w])
    OBVIOUS
  <2>2. At(w, J, n) /\ DueAt(w, J, n) /\ NodeAt(w, J, n) = m
    <3>1. n \in DOMAIN Top(w).frames /\ Due(Top(w).frames[n]) /\ Top(w).frames[n].node = m
      BY <1>3, <1>4, <1>6, <1>7 DEF Due
    <3> QED
      BY <1>2, <2>1, <3>1, TopPlaces
  <2>3. ~DueAt(w, J, n)'
    <3>1. ~Due(t.frames[n])
      BY <1>9, <1>11, <1>14 DEF Due
    <3> QED
      BY <1>2, <1>16, <2>1, <3>1, NewTopPlaces
  <2>4. CalledBy(w)' = Right[NodeAt(w, J, n)]
    <3>1. CalledBy(w)' = Current(t)
      BY <1>16, NewCall
    <3> QED
      BY <1>9, <1>11, <1>14, <2>2, <3>1 DEF Current
  <2>5. \A v \in Worker : \A j, i : At(v, j, i) => NodeAt(v, j, i) \in Node \ Leaf
    BY <1>1, AtRun
  <2>6. \A v \in Worker : FramesFrom(v) /\ FramesStay(v)
    BY <1>19, <1>20
  <2>7. NodeAt(w, J, n) \in Node \ Leaf
    BY <2>2
  <2> QED
    BY <1>2, <1>17, <1>20, <2>2, <2>3, <2>4, <2>5, <2>6, <2>7, CallsHalf
<1>22. Returned(w)'
  <2>1. runs[Left[m]] = 1
    <3>1. Current(Top(w)) = Left[m]
      BY <1>3, <1>4, <1>6, <1>7 DEF Current
    <3> QED
      BY <1>1, <1>2, <3>1 DEF Sound
  <2>2. ASSUME NEW l \in DOMAIN u
        PROVE  /\ u[l].stat2 => runs[Left[u[l].node]] = 1
               /\ u[l].node = IF l = 1 THEN t.body ELSE Half(u[l - 1])
    <3>1. l \in DOMAIN fs
      BY <1>6, <1>11, <2>2
    <3>2. /\ fs[l].stat2 => runs[Left[fs[l].node]] = 1
          /\ fs[l].node = IF l = 1 THEN Top(w).body ELSE Half(fs[l - 1])
      BY <1>2, <1>3, <3>1 DEF Sound
    <3>3. u[l].node = fs[l].node /\ (u[l].stat2 => fs[l].stat2 \/ l = n)
      BY <1>7, <1>9, <1>11, <1>12, <3>1
    <3>4. l # 1 => Half(u[l - 1]) = Half(fs[l - 1])
      <4>1. l # 1 => l - 1 \in DOMAIN fs /\ l - 1 # n
        BY <1>6, <3>1
      <4> QED
        BY <1>12, <4>1
    <3> QED
      BY <1>7, <1>14, <2>1, <3>2, <3>3, <3>4
  <2>3. Sound(t)
    BY <1>14, <2>2 DEF Sound
  <2>4. Sound(t)'
    BY <1>14, <1>18, <2>3, SoundGrown
  <2>5. SubsRun(w)'
    BY <1>2, <1>17, <1>18, SubsGrown
  <2> QED
    BY <1>1, <1>2, <1>16, <1>17, <1>18, <2>4, <2>5, ReturnedTop
<1> QED
  BY <1>17, <1>20, <1>21, <1>22, RunsAfter

LEMMA EnterDoTwoRuns ==
  ASSUME IInv, RunsInv, NEW w \in Worker, EnterDoTwo(w)
  PROVE  RunsInv' /\ runs' = runs
<1>1. pc[w] = "run" /\ ~Top(w).ret
  BY DEF EnterDoTwo
<1>2. /\ TypeOK /\ task[w] # <<>> /\ Top(w) \in Task /\ Top(w).frames \in Seq(Frame)
      /\ Top(w).stat = "STARTED" /\ Top(w).stat \in Live /\ Sound(Top(w)) /\ Calls
      /\ \A v \in Worker : Returned(v)
  BY <1>1, AtRun
<1>3. PICK fs \in Seq(Frame) : fs = Top(w).frames
  BY <1>2
<1>4. PICK c \in Node \ Leaf : c = Current(Top(w))
  BY <1>1, AtRun DEF EnterDoTwo
<1>5. PICK n \in Nat : n = Len(fs) + 1 /\ DOMAIN fs = 1..(n - 1)
  <2>1. Len(fs) \in Nat /\ DOMAIN fs = 1..Len(fs)
    BY LenProperties
  <2> QED
    BY <2>1
<1>6. PICK f : f = [node |-> c, spawned |-> 0, stat2 |-> FALSE]
  OBVIOUS
<1>7. f \in Frame /\ f.node = c /\ ~f.stat2
  BY <1>6 DEF Frame
<1>8. PICK u : u = Append(fs, f)
  OBVIOUS
<1>9. u \in Seq(Frame) /\ DOMAIN u = 1..n /\ u # <<>> /\ n \in 1..n
  <2>1. Len(fs) \in Nat
    BY LenProperties
  <2> QED
    BY <1>5, <1>7, <1>8, <2>1, AppendOf
<1>10. u[n] = f
  BY <1>5, <1>7, <1>8, AppendOf
<1>11. Last(u) = f
  BY <1>7, <1>8, AppendOf
<1>12. \A l \in DOMAIN fs : u[l] = fs[l]
  BY <1>7, <1>8, AppendOf
<1>13. PICK t : t = [Top(w) EXCEPT !.frames = u]
  OBVIOUS
<1>14. t \in Task /\ t.stat = "STARTED" /\ t.frames = u /\ ~t.ret /\ t.body = Top(w).body
  BY <1>1, <1>2, <1>9, <1>13 DEF Task
<1>15. task' = [task EXCEPT ![w] = WithTop(task[w], t)]
  BY <1>3, <1>4, <1>6, <1>8, <1>13 DEF EnterDoTwo
<1>16. NewTop(w, t) /\ \A v \in Worker \ {w} : task'[v] = task[v]
  BY <1>2, <1>14, <1>15, TopReplaced
<1>17. /\ sub' = sub /\ runs' = runs /\ outside' = outside
       /\ pc'[w] \in {"run", "spawn"} /\ \A v \in Worker \ {w} : pc'[v] = pc[v]
  BY <1>2 DEF EnterDoTwo, Goto, TypeOK
<1>18. Grown
  BY <1>17 DEF Grown
<1>19. ASSUME NEW v \in Worker \ {w}
       PROVE  FramesFrom(v) /\ FramesStay(v) /\ CallStays(v) /\ Returned(v)'
  <2>1. SubsRun(v)'
    BY <1>2, <1>17, <1>18, SubsGrown
  <2> QED
    BY <1>2, <1>16, <1>17, <1>18, <2>1, UntouchedStack, ReturnedSame
<1>20. Calls'
  <2>1. PICK J : J = Len(task[w])
    OBVIOUS
  <2>2. ~At(w, J, n)
    <3>1. n \notin DOMAIN Top(w).frames
      BY <1>3, <1>5
    <3> QED
      BY <1>2, <2>1, <3>1, TopPlaces
  <2>3. At(w, J, n)' /\ NodeAt(w, J, n)' = c
    <3>1. n \in DOMAIN t.frames /\ t.frames[n].node = c
      BY <1>7, <1>9, <1>10, <1>14
    <3> QED
      BY <1>2, <1>16, <2>1, <3>1, NewTopPlaces
  <2>4. ASSUME NEW j, NEW i, At(w, j, i)'
        PROVE  \/ j = J /\ i = n
               \/ /\ At(w, j, i) /\ NodeAt(w, j, i)' = NodeAt(w, j, i)
                  /\ DueAt(w, j, i)' => DueAt(w, j, i)
    <3>1. CASE j # J
      BY <1>2, <1>16, <2>1, <2>4, <3>1, NewPlaces
    <3>2. CASE j = J
      <4>1. i \in DOMAIN u
        BY <1>2, <1>14, <1>16, <2>1, <2>4, <3>2, NewTopPlaces
      <4>2. CASE i = n
        BY <3>2, <4>2
      <4>3. CASE i # n
        <5>1. i \in DOMAIN fs /\ u[i] = fs[i]
          BY <1>5, <1>9, <1>12, <4>1, <4>3
        <5>2. At(w, j, i) /\ NodeAt(w, j, i) = fs[i].node /\ (DueAt(w, j, i) <=> Due(fs[i]))
          BY <1>2, <1>3, <2>1, <3>2, <5>1, TopPlaces
        <5>3. NodeAt(w, j, i)' = u[i].node /\ (DueAt(w, j, i)' <=> Due(u[i]))
          BY <1>2, <1>14, <1>16, <2>1, <3>2, NewTopPlaces
        <5> QED
          BY <5>1, <5>2, <5>3
      <4> QED
        BY <4>2, <4>3
    <3> QED
      BY <3>1, <3>2
  <2>5. FramesStay(w)
    BY <1>2, <1>3, <1>5, <1>9, <1>12, <1>14, <1>16, TopFrames
  <2>6. Calling(w) /\ CalledBy(w) = c
    BY <1>1, <1>2, <1>4 DEF Calling, CalledBy
  <2>7. CalledBy(w)' = Left[c]
    <3>1. CalledBy(w)' = Current(t)
      BY <1>16, NewCall
    <3> QED
      BY <1>7, <1>9, <1>11, <1>14, <3>1 DEF Current
  <2>8. \A v \in Worker : \A j, i : At(v, j, i) => NodeAt(v, j, i) \in Node \ Leaf
    BY <1>1, AtRun
  <2>9. \A v \in Worker : FramesStay(v)
    BY <1>19, <2>5
  <2> QED
    BY <1>2, <1>17, <1>19, <2>2, <2>3, <2>4, <2>6, <2>7, <2>8, <2>9, CallsEnter
<1>21. Returned(w)'
  <2>1. ASSUME NEW l \in DOMAIN u
        PROVE  /\ u[l].stat2 => runs[Left[u[l].node]] = 1
               /\ u[l].node = IF l = 1 THEN t.body ELSE Half(u[l - 1])
    <3>1. CASE l = n
      <4>1. CASE fs = <<>>
        <5>1. n = 1 /\ c = Top(w).body
          BY <1>3, <1>4, <1>5, <4>1, EmptySeq DEF Current
        <5> QED
          BY <1>7, <1>10, <1>14, <3>1, <5>1
      <4>2. CASE fs # <<>>
        <5>1. n # 1 /\ n - 1 \in DOMAIN fs /\ Last(fs) = fs[n - 1]
          <6>1. Len(fs) \in DOMAIN fs /\ Last(fs) = fs[Len(fs)] /\ Len(fs) \in Nat \ {0}
            BY <4>2, LastOf
          <6> QED
            BY <1>5, <6>1
        <5>2. c = Half(fs[n - 1]) /\ u[n - 1] = fs[n - 1]
          BY <1>3, <1>4, <1>12, <4>2, <5>1 DEF Current, Half
        <5> QED
          BY <1>7, <1>10, <3>1, <5>1, <5>2
      <4> QED
        BY <4>1, <4>2
    <3>2. CASE l # n
      <4>1. l \in DOMAIN fs /\ (l # 1 => l - 1 \in DOMAIN fs)
        BY <1>5, <1>9, <2>1, <3>2
      <4>2. /\ fs[l].stat2 => runs[Left[fs[l].node]] = 1
            /\ fs[l].node = IF l = 1 THEN Top(w).body ELSE Half(fs[l - 1])
        BY <1>2, <1>3, <4>1 DEF Sound
      <4> QED
        BY <1>12, <1>14, <4>1, <4>2
    <3> QED
      BY <3>1, <3>2
  <2>2. Sound(t)
    BY <1>14, <2>1 DEF Sound
  <2>3. Sound(t)'
    BY <1>14, <1>18, <2>2, SoundGrown
  <2>4. SubsRun(w)'
    BY <1>2, <1>17, <1>18, SubsGrown
  <2> QED
    BY <1>2, <1>16, <1>17, <1>18, <2>3, <2>4, ReturnedTop
<1> QED
  BY <1>17, <1>19, <1>20, <1>21, RunsAfter

(* A leaf is done: the only step that runs a node at once. *)
LEMMA CallLeafRuns ==
  ASSUME IInv, RunsInv, NEW w \in Worker, CallLeaf(w)
  PROVE  RunsInv' /\ FJ!Next
<1>1. pc[w] = "run" /\ ~Top(w).ret
  BY DEF CallLeaf
<1>2. /\ TypeOK /\ task[w] # <<>> /\ Top(w) \in Task /\ Top(w).frames \in Seq(Frame)
      /\ Top(w).stat = "STARTED" /\ Top(w).stat \in Live /\ Sound(Top(w)) /\ Calls
      /\ \A v \in Worker : Returned(v)
  BY <1>1, AtRun
<1>3. PICK c \in Node : c = Current(Top(w))
  BY <1>1, AtRun
<1>4. Calling(w) /\ CalledBy(w) = c /\ runs[c] = 0
  BY <1>1, <1>2, <1>3 DEF Calling, CalledBy, Calls
<1>5. runs \in [Node -> Nat] /\ runs' = [runs EXCEPT ![c] = 1]
  BY <1>2, <1>3, <1>4 DEF CallLeaf, TypeOK
<1>6. FJ!Next
  <2>1. FJ!Finish(c)
    BY <1>3, <1>4, <1>5 DEF FJ!Finish, CallLeaf
  <2> QED
    BY <2>1 DEF FJ!Next
<1>7. runs'[c] = 1 /\ \A n \in Node \ {c} : runs'[n] = runs[n]
  BY <1>5
<1>8. Grown
  BY <1>7 DEF Grown
<1>9. PICK t : t = [Top(w) EXCEPT !.ret = TRUE]
  OBVIOUS
<1>10. /\ t \in Task /\ t.stat = "STARTED" /\ t.frames = Top(w).frames /\ t.ret
       /\ t.body = Top(w).body
  BY <1>2, <1>9 DEF Task
<1>11. task' = [task EXCEPT ![w] = WithTop(task[w], t)]
  BY <1>9 DEF CallLeaf
<1>12. NewTop(w, t) /\ \A v \in Worker \ {w} : task'[v] = task[v]
  BY <1>2, <1>10, <1>11, TopReplaced
<1>13. pc' = pc /\ sub' = sub /\ outside' = outside
  BY DEF CallLeaf
<1>14. FramesFrom(w) /\ FramesStay(w)
  BY <1>2, <1>10, <1>12, TopFrames
<1>15. ~Calling(w)' /\ CallStays(w)
  BY <1>10, <1>12, NewCall DEF CallStays
<1>16. ASSUME NEW v \in Worker \ {w}
       PROVE  FramesFrom(v) /\ FramesStay(v) /\ CallStays(v) /\ Returned(v)'
  <2>1. SubsRun(v)'
    BY <1>2, <1>8, <1>13, SubsGrown
  <2> QED
    BY <1>2, <1>8, <1>12, <1>13, <2>1, UntouchedStack, ReturnedSame
<1>17. Calls'
  <2>1. \A v \in Worker : FramesFrom(v) /\ FramesStay(v) /\ CallStays(v)
    BY <1>14, <1>15, <1>16
  <2>2. /\ \A v \in Worker : Calling(v) => CalledBy(v) \in Node
        /\ \A v \in Worker : \A j, i : At(v, j, i) => NodeAt(v, j, i) \in Node \ Leaf
    BY <1>1, AtRun
  <2> QED
    BY <1>2, <1>4, <1>7, <1>13, <1>15, <2>1, <2>2, CallsLeaf
<1>18. Returned(w)'
  <2>1. PICK s \in Task : s = Top(w)
    BY <1>2
  <2>2. Sound(s)'
    BY <1>2, <1>8, <2>1, SoundGrown
  <2>3. Current(t) = c
    BY <1>3, <1>10 DEF Current
  <2>4. Sound(t)'
    BY <1>7, <1>10, <2>1, <2>2, <2>3 DEF Sound
  <2>5. SubsRun(w)'
    BY <1>2, <1>8, <1>13, SubsGrown
  <2> QED
    BY <1>2, <1>8, <1>10, <1>12, <2>4, <2>5, ReturnedTop
<1> QED
  BY <1>6, <1>16, <1>17, <1>18, RunsAfter

(* The newest do-two is left when both halves were run. *)
LEMMA FinishRuns ==
  ASSUME IInv, RunsInv, NEW w \in Worker, pc[w] \in {"run", "wait"}, Top(w).ret,
         Top(w).frames # <<>>, FinishDoTwo(w, "STARTED"),
         runs[Left[Last(Top(w).frames).node]] = 1, runs[Right[Last(Top(w).frames).node]] = 1,
         outside' = outside, \A v \in Worker \ {w} : pc'[v] = pc[v] /\ sub'[v] = sub[v],
         \A i \in DOMAIN sub'[w] : i \in DOMAIN sub[w] /\ sub'[w][i] = sub[w][i]
  PROVE  RunsInv' /\ FJ!Next
<1>1. /\ TypeOK /\ task[w] # <<>> /\ Top(w) \in Task /\ Top(w).frames \in Seq(Frame)
      /\ Top(w).stat \in Live /\ Sound(Top(w)) /\ Calls
      /\ \A v \in Worker : Returned(v)
  BY AtRun
<1>2. PICK fs \in Seq(Frame) : fs = Top(w).frames
  BY <1>1
<1>3. fs # <<>>
  BY <1>2
<1>4. PICK n \in Nat \ {0} : n = Len(fs)
  BY <1>3, LastOf
<1>5. n \in DOMAIN fs /\ DOMAIN fs = 1..n /\ Last(fs) = fs[n] /\ fs[n] \in Frame
  BY <1>3, <1>4, LastOf
<1>6. PICK m \in Node \ Leaf : m = fs[n].node
  BY <1>5 DEF Frame
<1>7. PICK J : J = Len(task[w])
  OBVIOUS
<1>8. At(w, J, n) /\ NodeAt(w, J, n) = m
  <2>1. n \in DOMAIN Top(w).frames /\ Top(w).frames[n].node = m
    BY <1>2, <1>5, <1>6
  <2> QED
    BY <1>1, <1>7, <2>1, TopPlaces
<1>9. runs[m] = 0
  <2>1. Open(m)
    BY <1>8, OpenAt
  <2> QED
    BY <1>1, <2>1 DEF Calls
<1>10. runs \in [Node -> Nat] /\ runs' = [runs EXCEPT ![m] = 1]
  BY <1>1, <1>2, <1>5, <1>6, <1>9 DEF FinishDoTwo, TypeOK
<1>11. FJ!Next
  <2>1. runs[Left[m]] = 1 /\ runs[Right[m]] = 1
    BY <1>2, <1>5, <1>6
  <2>2. FJ!Finish(m)
    BY <1>9, <1>10, <2>1 DEF FJ!Finish
  <2> QED
    BY <2>2 DEF FJ!Next
<1>12. runs'[m] = 1 /\ \A x \in Node \ {m} : runs'[x] = runs[x]
  BY <1>10
<1>13. Grown
  BY <1>12 DEF Grown
<1>14. PICK u : u = Front(fs)
  OBVIOUS
<1>15. /\ u \in Seq(Frame) /\ Len(u) = n - 1 /\ DOMAIN u = 1..(n - 1)
       /\ u = <<>> <=> n = 1
  BY <1>3, <1>4, <1>14, FrontOf
<1>16. ASSUME NEW l \in DOMAIN u PROVE u[l] = fs[l]
  BY <1>3, <1>14, <1>16, FrontOf
<1>17. PICK t : t = [Top(w) EXCEPT !.stat = "STARTED", !.frames = u]
  OBVIOUS
<1>18. t \in Task /\ t.stat = "STARTED" /\ t.frames = u /\ t.ret /\ t.body = Top(w).body
  BY <1>1, <1>15, <1>17 DEF Task, TaskStat
<1>19. task' = [task EXCEPT ![w] = WithTop(task[w], t)]
  BY <1>2, <1>14, <1>17 DEF FinishDoTwo
<1>20. NewTop(w, t) /\ \A v \in Worker \ {w} : task'[v] = task[v]
  BY <1>1, <1>18, <1>19, TopReplaced
<1>21. FramesFrom(w)
  <2>1. ASSUME NEW l \in DOMAIN u PROVE l \in DOMAIN fs /\ u[l] = fs[l]
    BY <1>5, <1>15, <1>16, <2>1
  <2>2. \A i \in DOMAIN t.frames :
          /\ i \in DOMAIN Top(w).frames /\ t.frames[i].node = Top(w).frames[i].node
          /\ Due(t.frames[i]) => Due(Top(w).frames[i])
    BY <1>2, <1>18, <2>1
  <2> QED
    BY <1>1, <1>20, <2>2, TopFrames
<1>22. ~At(w, J, n)'
  <2>1. n \notin DOMAIN t.frames
    BY <1>15, <1>18
  <2> QED
    BY <1>1, <1>7, <1>20, <2>1, NewTopPlaces
<1>23. ASSUME NEW j, NEW i, At(w, j, i)
       PROVE  (j = J /\ i = n) \/ (At(w, j, i)' /\ NodeAt(w, j, i)' = NodeAt(w, j, i))
  <2>1. CASE j # J
    BY <1>1, <1>7, <1>20, <1>23, <2>1, NewPlaces
  <2>2. CASE j = J /\ i # n
    <3>1. i \in DOMAIN fs /\ NodeAt(w, j, i) = fs[i].node
      BY <1>1, <1>2, <1>7, <1>23, <2>2, TopPlaces
    <3>2. i \in DOMAIN u /\ u[i] = fs[i]
      BY <1>5, <1>15, <1>16, <2>2, <3>1
    <3>3. (At(w, j, i)' <=> i \in DOMAIN u) /\ NodeAt(w, j, i)' = u[i].node
      BY <1>1, <1>7, <1>18, <1>20, <2>2, NewTopPlaces
    <3> QED
      BY <3>1, <3>2, <3>3
  <2> QED
    BY <2>1, <2>2
<1>24. CallStays(w)
  BY <1>18, <1>20, NewCall DEF CallStays
<1>25. ASSUME NEW v \in Worker \ {w}
       PROVE  FramesFrom(v) /\ FramesStay(v) /\ CallStays(v) /\ Returned(v)'
  <2>1. SubsRun(v)'
    BY <1>1, <1>13, SubsGrown
  <2> QED
    BY <1>1, <1>13, <1>20, <2>1, UntouchedStack, ReturnedSame
<1>26. Calls'
  <2>1. \A v \in Worker : FramesFrom(v) /\ CallStays(v)
    BY <1>21, <1>24, <1>25
  <2>2. \A v \in Worker \ {w} : FramesStay(v)
    BY <1>25
  <2>3. /\ \A v \in Worker : Calling(v) => CalledBy(v) \in Node
        /\ \A v \in Worker : \A j, i : At(v, j, i) => NodeAt(v, j, i) \in Node \ Leaf
    BY AtRun
  <2> QED
    BY <1>1, <1>8, <1>12, <1>22, <1>23, <2>1, <2>2, <2>3, CallsFinish
<1>27. Returned(w)'
  <2>1. PICK s \in Task : s = Top(w)
    BY <1>1
  <2>2. Sound(s)'
    BY <1>1, <1>13, <2>1, SoundGrown
  <2>3. fs[n].node = IF n = 1 THEN Top(w).body ELSE Half(fs[n - 1])
    BY <1>1, <1>2, <1>5 DEF Sound
  <2>4. Current(t) = m
    <3>1. CASE n = 1
      BY <1>6, <1>15, <1>18, <2>3, <3>1 DEF Current
    <3>2. CASE n # 1
      <4>1. u # <<>>
        BY <1>15, <3>2
      <4>2. Last(u) = u[n - 1] /\ n - 1 \in DOMAIN u
        BY <1>15, <4>1, LastOf
      <4>3. Last(u) = fs[n - 1]
        BY <1>16, <4>2
      <4> QED
        BY <1>6, <1>18, <2>3, <3>2, <4>1, <4>3 DEF Current, Half
    <3> QED
      BY <3>1, <3>2
  <2>5. ASSUME NEW l \in DOMAIN u
        PROVE  /\ u[l].stat2 => runs'[Left[u[l].node]] = 1
               /\ u[l].node = IF l = 1 THEN t.body ELSE Half(u[l - 1])
    <3>1. l \in DOMAIN fs /\ (l # 1 => l - 1 \in DOMAIN u)
      BY <1>5, <1>15, <2>5
    <3>2. /\ fs[l].stat2 => runs'[Left[fs[l].node]] = 1
          /\ fs[l].node = IF l = 1 THEN Top(w).body ELSE Half(fs[l - 1])
      BY <1>2, <2>1, <2>2, <3>1 DEF Sound
    <3> QED
      BY <1>16, <1>18, <2>5, <3>1, <3>2
  <2>6. Sound(t)'
    BY <1>12, <1>18, <2>4, <2>5 DEF Sound
  <2>7. SubsRun(w)'
    BY <1>1, <1>13, SubsGrown
  <2> QED
    BY <1>1, <1>13, <1>18, <1>20, <2>6, <2>7, ReturnedTop
<1> QED
  BY <1>11, <1>25, <1>26, <1>27, RunsAfter

LEMMA EndDoTwoRuns ==
  ASSUME IInv, RunsInv, NEW w \in Worker, EndDoTwo(w)
  PROVE  RunsInv' /\ FJ!Next
<1>1. pc[w] = "run" /\ Top(w).ret /\ Top(w).frames # <<>> /\ FinishDoTwo(w, "STARTED")
      /\ pc' = pc /\ sub' = sub /\ outside' = outside
  BY DEF EndDoTwo
<1>2. /\ Top(w).frames \in Seq(Frame) /\ Top(w).stat \in Live /\ Sound(Top(w))
  BY <1>1, AtRun
<1>3. PICK fs \in Seq(Frame) : fs = Top(w).frames
  BY <1>2
<1>4. fs # <<>> /\ Last(fs).stat2
  BY <1>1, <1>3 DEF EndDoTwo
<1>5. Len(fs) \in DOMAIN fs /\ Last(fs) = fs[Len(fs)]
  BY <1>4, LastOf
<1>6. runs[Left[Last(fs).node]] = 1
  BY <1>2, <1>3, <1>4, <1>5 DEF Sound
<1>7. runs[Right[Last(fs).node]] = 1
  <2>1. Current(Top(w)) = Right[Last(fs).node]
    BY <1>3, <1>4 DEF Current
  <2> QED
    BY <1>1, <1>2, <2>1 DEF Sound
<1> QED
  BY <1>1, <1>3, <1>6, <1>7, FinishRuns

(* The half given away was run: its result has been received. *)
LEMMA GetRsltRuns ==
  ASSUME IInv, RunsInv, NEW w \in Worker, GetRslt(w)
  PROVE  RunsInv' /\ FJ!Next
<1>1. pc[w] = "wait" /\ SubDone(w) /\ FinishDoTwo(w, "STARTED") /\ outside' = outside
  BY DEF GetRslt
<1>2. /\ TypeOK /\ task[w] # <<>> /\ Top(w).frames \in Seq(Frame) /\ Top(w).stat \in Live
      /\ Sound(Top(w)) /\ Returned(w)
  BY <1>1, AtRun
<1>3. /\ Top(w).frames # <<>> /\ sub[w] # <<>> /\ Last(Top(w).frames).spawned = Len(sub[w])
      /\ Last(sub[w]).body = Right[Last(Top(w).frames).node]
  BY <1>1, NewestSub
<1>4. Top(w).ret
  BY <1>1, <1>2 DEF Returned
<1>5. PICK s \in Seq(TaskHome) : s = sub[w]
  BY <1>2, StackTypes
<1>6. s # <<>> /\ Len(s) \in DOMAIN s /\ Last(s) = s[Len(s)] /\ Len(s) # 0
  BY <1>3, <1>5, LastOf
<1>7. runs[Right[Last(Top(w).frames).node]] = 1
  BY <1>1, <1>2, <1>3, <1>5, <1>6 DEF SubDone, Returned
<1>8. PICK fs \in Seq(Frame) : fs = Top(w).frames
  BY <1>2
<1>9. fs # <<>> /\ Len(fs) \in DOMAIN fs /\ Last(fs) = fs[Len(fs)]
  BY <1>3, <1>8, LastOf
<1>10. ~Last(fs).stat2
  <2>1. \A i \in DOMAIN Top(w).frames :
          Top(w).frames[i].stat2 => Top(w).frames[i].spawned = 0
    BY <1>1, AtTop
  <2> QED
    BY <1>3, <1>5, <1>6, <1>8, <1>9, <2>1
<1>11. runs[Left[Last(Top(w).frames).node]] = 1
  <2>1. Current(Top(w)) = Left[Last(fs).node]
    BY <1>8, <1>9, <1>10 DEF Current
  <2> QED
    BY <1>2, <1>4, <1>8, <2>1 DEF Sound
<1>12. /\ sub'[w] = Front(s) /\ \A v \in Worker \ {w} : pc'[v] = pc[v] /\ sub'[v] = sub[v]
  BY <1>2, <1>5 DEF GetRslt, Goto, TypeOK
<1>13. \A i \in DOMAIN Front(s) : i \in DOMAIN s /\ Front(s)[i] = s[i]
  BY <1>6, FrontOf
<1>14. \A i \in DOMAIN sub'[w] : i \in DOMAIN sub[w] /\ sub'[w][i] = sub[w][i]
  BY <1>5, <1>12, <1>13
<1> QED
  BY <1>1, <1>3, <1>4, <1>7, <1>11, <1>12, <1>14, FinishRuns

LEMMA InitRuns == Init => RunsInv /\ FJ!Init
<1> SUFFICES ASSUME Init PROVE RunsInv /\ FJ!Init
  OBVIOUS
<1>1. /\ \A w \in Worker : task[w] = <<>> /\ sub[w] = <<>> /\ pc[w] = "enter"
      /\ \A n \in Node : runs[n] = 0
  BY DEF Init
<1>2. \A w \in Worker : ~Calling(w) /\ DOMAIN task[w] = {} /\ DOMAIN sub[w] = {}
  BY <1>1 DEF Calling
<1>3. \A n \in Node : ~Open(n) /\ Idle(n)
  BY <1>1, <1>2 DEF Open, Idle
<1>4. CalledOnce /\ OpenOnce /\ OpenNotRun
  BY <1>2, <1>3 DEF CalledOnce, OpenOnce, OpenNotRun
<1>5. Untouched
  <2>1. \A n \in Node \ Leaf : Left[n] \in Node /\ Right[n] \in Node
    BY ComputationAssumption
  <2>2. Root \in Node
    BY ComputationAssumption
  <2> QED
    BY <1>2, <1>3, <2>1, <2>2 DEF Untouched
<1>6. \A w \in Worker : Returned(w)
  BY <1>1, <1>2 DEF Returned
<1>7. FJ!Init
  BY DEF Init, FJ!Init
<1> QED
  BY <1>4, <1>5, <1>6, <1>7 DEF RunsInv

LEMMA StepRuns == IInv /\ RunsInv /\ [Next]_vars => RunsInv' /\ [FJ!Next]_runs
<1> SUFFICES ASSUME IInv, RunsInv, [Next]_vars PROVE RunsInv' /\ [FJ!Next]_runs
  OBVIOUS
<1>1. ASSUME NEW w \in Worker, Step(w) PROVE RunsInv' /\ [FJ!Next]_runs
  <2>1. CASE \/ AwaitNone(w) \/ AwaitedNone(w) \/ ForwardTreq(w) \/ Sleep(w) \/ Nap(w)
             \/ RetryTreq(w) \/ EndSpawn(w) \/ CallWaitRslt(w) \/ EndTask(w)
             \/ SendRsltOutside(w) \/ SendRack(w) \/ CountRack(w)
             \/ \E u \in Worker : TryTreqRefused(w, u) \/ TryTreqAccepted(w, u)
    BY <2>1, QuietRuns
  <2>2. CASE \/ SendTreq(w) \/ Abandon(w) \/ AbandonAfterNap(w) \/ StartTask(w)
             \/ WaitRslt(w) \/ TaskDone(w)
    BY <2>2, StatusRuns
  <2>3. CASE RefuseTreq(w)
    BY <2>3, RefuseRuns
  <2>4. CASE FlushBeforeTreq(w) \/ FlushAfterTask(w)
    BY <2>4, FlushRuns
  <2>5. CASE AllocateTask(w)
    BY <2>5, AllocateRuns
  <2>6. CASE DeallocateTask(w)
    BY <2>6, DeallocateRuns
  <2>7. CASE SendRslt(w)
    BY <2>7, SendRsltRuns
  <2>8. CASE SpawnTask(w)
    BY <2>8, SpawnTaskRuns
  <2>9. CASE RunStat2(w)
    BY <2>9, RunStat2Runs
  <2>10. CASE EnterDoTwo(w)
    BY <2>10, EnterDoTwoRuns
  <2>11. CASE CallLeaf(w)
    BY <2>11, CallLeafRuns
  <2>12. CASE EndDoTwo(w)
    BY <2>12, EndDoTwoRuns
  <2>13. CASE GetRslt(w)
    BY <2>13, GetRsltRuns
  <2> QED
    BY <1>1, <2>1, <2>2, <2>3, <2>4, <2>5, <2>6, <2>7, <2>8, <2>9, <2>10, <2>11, <2>12, <2>13
    DEF Step
<1>2. ASSUME OutsideTask PROVE RunsInv' /\ [FJ!Next]_runs
  BY <1>2, OutsideTaskRuns
<1>3. ASSUME OutsideNone PROVE RunsInv' /\ [FJ!Next]_runs
  BY <1>3, OutsideNoneRuns
<1>4. ASSUME OutsideRack \/ UNCHANGED vars PROVE RunsInv' /\ [FJ!Next]_runs
  BY <1>4, QuietOutsideRuns
<1> QED
  BY <1>1, <1>2, <1>3, <1>4 DEF Next

(* Where each node of the computation is: called by the one worker that is   *)
(* about to evaluate it, open in one do-two, idle as long as nobody has begun *)
(* it, and none of these once it has been run.                                *)
THEOREM WorkerRuns == Spec => []RunsInv
<1>1. Spec => []IInv
  BY WorkerInvariant
<1>2. Init => RunsInv
  BY InitRuns
<1>3. IInv /\ RunsInv /\ [Next]_vars => RunsInv'
  BY StepRuns
<1> QED
  BY <1>1, <1>2, <1>3, PTL DEF Spec

(* The workers compute what a program without workers computes: whoever runs *)
(* a half, and however often tasks are asked for, refused and stolen back, no *)
(* node of the computation is run twice and none before both its halves.      *)
(* This is the specification ForkJoin without its fairness, which TLC checks   *)
(* as part of Computes.                                                        *)
THEOREM WorkerComputes == Spec => FJ!Init /\ [][FJ!Next]_runs
<1>1. Spec => []IInv
  BY WorkerInvariant
<1>2. Spec => []RunsInv
  BY WorkerRuns
<1>3. Init => FJ!Init
  BY InitRuns
<1>4. IInv /\ RunsInv /\ [Next]_vars => [FJ!Next]_runs
  BY StepRuns
<1> QED
  BY <1>1, <1>2, <1>3, <1>4, PTL DEF Spec

(* What the run of three workers checks in one go. *)
THEOREM WorkerWhole == Spec => []WholeInv
  BY WorkerInvariant, WorkerOrder, WorkerRuns, PTL DEF WholeInv
=============================================================================
