------------------------ MODULE TascellWorkerProofs ------------------------
(***************************************************************************)
(* Proofs about TascellWorker, for any number of workers, any computation  *)
(* and both values of always-flush-accepted-treq: the invariant IInv of    *)
(* TascellWorkerInv is inductive, and what follows from it.                *)
(*                                                                         *)
(* A step is seen from each worker v through a few facts: Same (nothing of *)
(* v changed, but it may be woken), Kept (v has the same tasks to finish), *)
(* LeavingKept, Waits (it waits for an answer as before).  From these, the *)
(* parts of IInv that relate workers follow once and for all (QuietStep);  *)
(* only a step that adds or removes a request, a subtask or a task has to  *)
(* establish them itself.  One lemma per action, in the order: steps that  *)
(* others do not notice, requests and answers, subtasks.                   *)
(*                                                                         *)
(* The last two parts are about the counters w-none and w-rack: every      *)
(* request is answered once, and the racks owed to a worker are those it   *)
(* has counted.                                                            *)
(***************************************************************************)
EXTENDS TascellWorkerInv, TLAPS, SequenceTheorems, FiniteSetTheorems

(***************************************************************************)
(* Stacks, as sequences with their top at the end                          *)
(***************************************************************************)
LEMMA LastOf ==
  ASSUME NEW S, NEW s \in Seq(S), s # <<>>
  PROVE  /\ Last(s) = s[Len(s)] /\ Last(s) \in S
         /\ Len(s) \in Nat \ {0} /\ Len(s) \in DOMAIN s /\ DOMAIN s = 1..Len(s)
  BY DEF Last

LEMMA WithTopOf ==
  ASSUME NEW S, NEW s \in Seq(S), s # <<>>, NEW t \in S
  PROVE  /\ WithTop(s, t) \in Seq(S)
         /\ WithTop(s, t) # <<>>
         /\ Len(WithTop(s, t)) = Len(s)
         /\ DOMAIN WithTop(s, t) = 1..Len(s)
         /\ WithTop(s, t)[Len(s)] = t
         /\ Last(WithTop(s, t)) = t
         /\ \A j \in DOMAIN s : j # Len(s) => WithTop(s, t)[j] = s[j]
<1> DEFINE u == WithTop(s, t)
<1>1. Len(s) \in Nat \ {0}
  BY LastOf
<1>2. u \in Seq(S) /\ Len(u) = Len(s)
      /\ \A j \in 1..Len(s) : u[j] = IF j = Len(s) THEN t ELSE s[j]
  BY <1>1, ExceptSeq DEF WithTop
<1> HIDE DEF u
<1>3. DOMAIN u = 1..Len(s) /\ u # <<>>
  BY <1>1, <1>2, LenProperties, EmptySeq
<1>4. u[Len(s)] = t /\ \A j \in DOMAIN s : j # Len(s) => u[j] = s[j]
  BY <1>1, <1>2, LenProperties
<1>5. Last(u) = t
  BY <1>2, <1>4 DEF Last
<1> QED
  BY <1>2, <1>3, <1>4, <1>5 DEF u

LEMMA WithTopAt ==
  ASSUME NEW S, NEW s \in Seq(S), s # <<>>, NEW t \in S, NEW u, u = WithTop(s, t),
         NEW j \in DOMAIN s, j # Len(s)
  PROVE  u[j] = s[j]
  BY WithTopOf

LEMMA AppendOf ==
  ASSUME NEW S, NEW s \in Seq(S), NEW t \in S
  PROVE  /\ Append(s, t) \in Seq(S)
         /\ Append(s, t) # <<>>
         /\ Len(Append(s, t)) = Len(s) + 1
         /\ Len(s) \in Nat
         /\ DOMAIN s = 1..Len(s)
         /\ DOMAIN Append(s, t) = 1..(Len(s) + 1)
         /\ Append(s, t)[Len(s) + 1] = t
         /\ Last(Append(s, t)) = t
         /\ \A j \in DOMAIN s : Append(s, t)[j] = s[j]
<1>1. Len(s) \in Nat /\ DOMAIN s = 1..Len(s)
  BY LenProperties
<1>2. Append(s, t) \in Seq(S) /\ Len(Append(s, t)) = Len(s) + 1
      /\ Append(s, t)[Len(s) + 1] = t /\ \A j \in 1..Len(s) : Append(s, t)[j] = s[j]
  BY <1>1, AppendProperties
<1>3. Append(s, t) # <<>> /\ DOMAIN Append(s, t) = 1..(Len(s) + 1)
  BY <1>1, <1>2, LenProperties, EmptySeq
<1>4. Last(Append(s, t)) = t
  BY <1>2 DEF Last
<1> QED
  BY <1>1, <1>2, <1>3, <1>4

LEMMA FrontOf ==
  ASSUME NEW S, NEW s \in Seq(S), s # <<>>
  PROVE  /\ Front(s) \in Seq(S)
         /\ Len(s) \in Nat \ {0}
         /\ DOMAIN s = 1..Len(s)
         /\ Len(Front(s)) = Len(s) - 1
         /\ DOMAIN Front(s) = 1..(Len(s) - 1)
         /\ \A j \in DOMAIN Front(s) : Front(s)[j] = s[j]
         /\ Front(s) = <<>> <=> Len(s) = 1
<1> DEFINE n == Len(s)
           u == SubSeq(s, 1, n - 1)
<1>1. n \in Nat \ {0} /\ DOMAIN s = 1..n
  BY LastOf
<1>2. \A i \in 1..(n - 1) : s[i] \in S
  BY <1>1, ElementOfSeq
<1>3. u \in Seq(S) /\ Len(u) = (IF 1 <= n - 1 THEN (n - 1) - 1 + 1 ELSE 0)
      /\ \A i \in 1..((n - 1) - 1 + 1) : u[i] = s[1 + i - 1]
  <2>1. 1 \in Int /\ n - 1 \in Int
    BY <1>1
  <2> HIDE DEF n
  <2> QED
    BY <1>2, <2>1, SubSeqProperties
<1>4. Front(s) = u
  BY DEF Front
<1> HIDE DEF u, n
<1>5. Len(u) = n - 1 /\ \A i \in 1..(n - 1) : u[i] = s[i]
  BY <1>1, <1>3
<1>6. DOMAIN u = 1..(n - 1)
  BY <1>3, <1>5, LenProperties
<1>7. u = <<>> <=> n = 1
  BY <1>1, <1>3, <1>5, EmptySeq
<1> QED
  BY <1>1, <1>3, <1>4, <1>5, <1>6, <1>7 DEF n

LEMMA RemoveAtOf ==
  ASSUME NEW S, NEW s \in Seq(S), NEW i \in 1..Len(s)
  PROVE  /\ RemoveAt(s, i) \in Seq(S)
         /\ Len(s) \in Nat
         /\ Len(RemoveAt(s, i)) = Len(s) - 1
         /\ DOMAIN RemoveAt(s, i) = 1..(Len(s) - 1)
         /\ \A k \in 1..(Len(s) - 1) : RemoveAt(s, i)[k] = s[IF k < i THEN k ELSE k + 1]
<1> DEFINE n == Len(s)
           u == SubSeq(s, 1, i - 1)
           v == SubSeq(s, i + 1, n)
<1>1. n \in Nat /\ i \in Nat /\ 1 <= i /\ i <= n
  BY LenProperties
<1> USE <1>1
<1>2. \A k \in 1..n : s[k] \in S
  BY ElementOfSeq
<1> HIDE DEF n
<1>3. u \in Seq(S) /\ Len(u) = i - 1 /\ \A k \in 1..(i - 1) : u[k] = s[k]
  <2>1. 1 \in Int /\ i - 1 \in Int /\ \A k \in 1..(i - 1) : s[k] \in S
    BY <1>2
  <2>2. u \in Seq(S) /\ Len(u) = (IF 1 <= i - 1 THEN (i - 1) - 1 + 1 ELSE 0)
        /\ \A k \in 1..((i - 1) - 1 + 1) : u[k] = s[1 + k - 1]
    BY <2>1, SubSeqProperties
  <2> HIDE DEF u
  <2> QED
    BY <2>2
<1>4. v \in Seq(S) /\ Len(v) = n - i /\ \A k \in 1..(n - i) : v[k] = s[i + k]
  <2>1. i + 1 \in Int /\ n \in Int /\ \A k \in (i + 1)..n : s[k] \in S
    BY <1>2
  <2>2. v \in Seq(S) /\ Len(v) = (IF i + 1 <= n THEN n - (i + 1) + 1 ELSE 0)
        /\ \A k \in 1..(n - (i + 1) + 1) : v[k] = s[(i + 1) + k - 1]
    BY <2>1, SubSeqProperties
  <2> HIDE DEF v
  <2> QED
    BY <2>2
<1>5. RemoveAt(s, i) = u \o v
  BY DEF RemoveAt, n
<1> HIDE DEF u, v
<1>6. /\ u \o v \in Seq(S)
      /\ Len(u \o v) = Len(u) + Len(v)
      /\ \A k \in 1..(Len(u) + Len(v)) :
           (u \o v)[k] = IF k <= Len(u) THEN u[k] ELSE v[k - Len(u)]
  BY <1>3, <1>4, ConcatProperties
<1>7. Len(u \o v) = n - 1
      /\ \A k \in 1..(n - 1) : (u \o v)[k] = s[IF k < i THEN k ELSE k + 1]
  <2>1. Len(u \o v) = n - 1
    BY <1>3, <1>4, <1>6
  <2>2. ASSUME NEW k \in 1..(n - 1) PROVE (u \o v)[k] = s[IF k < i THEN k ELSE k + 1]
    <3>1. CASE k < i
      BY <3>1, <1>3, <1>4, <1>6
    <3>2. CASE k >= i
      <4>1. (u \o v)[k] = v[k - (i - 1)] /\ k - (i - 1) \in 1..(n - i)
        BY <3>2, <1>3, <1>4, <1>6
      <4>2. v[k - (i - 1)] = s[i + (k - (i - 1))] /\ i + (k - (i - 1)) = k + 1
        BY <4>1, <1>4
      <4> QED
        BY <3>2, <4>1, <4>2
    <3>3. k < i \/ k >= i
      BY <1>1
    <3> QED
      BY <3>1, <3>2, <3>3
  <2> QED
    BY <2>1, <2>2
<1>8. DOMAIN (u \o v) = 1..(n - 1)
  BY <1>6, <1>7, LenProperties
<1>9. n \in Nat /\ n = Len(s)
  BY DEF n
<1>10. RemoveAt(s, i) \in Seq(S) /\ Len(RemoveAt(s, i)) = Len(s) - 1
       /\ DOMAIN RemoveAt(s, i) = 1..(Len(s) - 1)
  BY <1>5, <1>6, <1>7, <1>8, <1>9
<1>11. \A k \in 1..(n - 1) : RemoveAt(s, i)[k] = s[IF k < i THEN k ELSE k + 1]
  BY <1>5, <1>7
<1> QED
  BY <1>9, <1>10, <1>11 DEF n

LEMMA StackTypes ==
  ASSUME TypeOK, NEW w \in Worker
  PROVE  /\ task[w] \in Seq(Task) /\ sub[w] \in Seq(TaskHome) /\ treq[w] \in Seq(Request)
         /\ DOMAIN task[w] = 1..Len(task[w]) /\ Len(task[w]) \in Nat
         /\ DOMAIN sub[w] = 1..Len(sub[w]) /\ Len(sub[w]) \in Nat
         /\ DOMAIN treq[w] = 1..Len(treq[w]) /\ Len(treq[w]) \in Nat
         /\ \A j \in DOMAIN task[w] : task[w][j] \in Task
         /\ \A i \in DOMAIN sub[w] : sub[w][i] \in TaskHome
         /\ \A i \in DOMAIN treq[w] : treq[w][i] \in Request
<1>1. task[w] \in Seq(Task) /\ sub[w] \in Seq(TaskHome) /\ treq[w] \in Seq(Request)
  BY DEF TypeOK
<1> QED
  BY <1>1, LenProperties, ElementOfSeq

(***************************************************************************)
(* The three parts of Nesting                                              *)
(***************************************************************************)
LEMMA NestingFrame ==
  ASSUME NEW w \in Worker, Nesting(w), NEW j \in DOMAIN task[w],
         NEW i \in DOMAIN task[w][j].frames
  PROVE  /\ task[w][j].frames[i].spawned # 0 =>
              /\ task[w][j].frames[i].spawned \in DOMAIN sub[w]
              /\ sub[w][task[w][j].frames[i].spawned].body = Right[task[w][j].frames[i].node]
         /\ task[w][j].frames[i].stat2 => task[w][j].frames[i].spawned = 0
<1>1. \A a \in DOMAIN task[w] : \A b \in DOMAIN task[w][a].frames :
        LET f == task[w][a].frames[b]
        IN  /\ f.spawned # 0 => /\ f.spawned \in DOMAIN sub[w]
                                /\ sub[w][f.spawned].body = Right[f.node]
            /\ f.stat2 => f.spawned = 0
  BY DEF Nesting
<1> QED
  BY <1>1

LEMMA NestingOrder ==
  ASSUME NEW w \in Worker, Nesting(w),
         NEW j \in DOMAIN task[w], NEW i \in DOMAIN task[w][j].frames,
         NEW k \in DOMAIN task[w], NEW l \in DOMAIN task[w][k].frames,
         Before(j, i, k, l), Spawned(w, j, i) # 0, Spawned(w, k, l) # 0
  PROVE  Spawned(w, j, i) < Spawned(w, k, l)
<1>1. \A a, b \in DOMAIN task[w] :
        \A c \in DOMAIN task[w][a].frames, d \in DOMAIN task[w][b].frames :
          Before(a, c, b, d) /\ Spawned(w, a, c) # 0 /\ Spawned(w, b, d) # 0
          => Spawned(w, a, c) < Spawned(w, b, d)
  BY DEF Nesting
<1> QED
  BY <1>1

(* Nothing that Nesting(w) speaks of is changed. *)
LEMMA NestingUnchanged ==
  ASSUME NEW w \in Worker, Nesting(w), task'[w] = task[w], DOMAIN sub'[w] = DOMAIN sub[w],
         \A i \in DOMAIN sub[w] : sub'[w][i].body = sub[w][i].body
  PROVE  Nesting(w)'
<1>1. ASSUME NEW j \in DOMAIN task'[w], NEW i \in DOMAIN task'[w][j].frames
      PROVE  LET f == task'[w][j].frames[i]
             IN  /\ f.spawned # 0 => /\ f.spawned \in DOMAIN sub'[w]
                                     /\ sub'[w][f.spawned].body = Right[f.node]
                 /\ f.stat2 => f.spawned = 0
  <2>1. j \in DOMAIN task[w] /\ i \in DOMAIN task[w][j].frames
    OBVIOUS
  <2>2. PICK f : f = task[w][j].frames[i] /\ f = task'[w][j].frames[i]
    OBVIOUS
  <2>3. /\ task[w][j].frames[i].spawned # 0 =>
             /\ task[w][j].frames[i].spawned \in DOMAIN sub[w]
             /\ sub[w][task[w][j].frames[i].spawned].body = Right[task[w][j].frames[i].node]
        /\ task[w][j].frames[i].stat2 => task[w][j].frames[i].spawned = 0
    BY <2>1, NestingFrame
  <2> QED
    BY <2>2, <2>3
<1>2. ASSUME NEW j \in DOMAIN task'[w], NEW k \in DOMAIN task'[w],
             NEW i \in DOMAIN task'[w][j].frames, NEW l \in DOMAIN task'[w][k].frames,
             Before(j, i, k, l), Spawned(w, j, i)' # 0, Spawned(w, k, l)' # 0
      PROVE  Spawned(w, j, i)' < Spawned(w, k, l)'
  <2>1. Spawned(w, j, i)' = Spawned(w, j, i) /\ Spawned(w, k, l)' = Spawned(w, k, l)
    BY DEF Spawned
  <2> QED
    BY <1>2, <2>1, NestingOrder
<1>3. ASSUME NEW s \in DOMAIN sub'[w]
      PROVE  \E j \in DOMAIN task'[w] : \E i \in DOMAIN task'[w][j].frames : Spawned(w, j, i)' = s
  <2>1. PICK j \in DOMAIN task[w] : \E i \in DOMAIN task[w][j].frames : Spawned(w, j, i) = s
    BY DEF Nesting
  <2> QED
    BY <2>1 DEF Spawned
<1> QED
  BY <1>1, <1>2, <1>3 DEF Nesting

(***************************************************************************)
(* Homes and Executors at one task, at one subtask                         *)
(***************************************************************************)
LEMMA HomeOf ==
  ASSUME Homes, NEW v \in Worker, NEW j \in DOMAIN task[v], Unsent(v, j)
  PROVE  \E x \in Worker, y \in Nat \ {0} :
           /\ task[v][j].rslt = <<x, y>> /\ y \in DOMAIN sub[x]
           /\ sub[x][y].stat = "INITIALIZED" /\ sub[x][y].to = v
<1>1. HasHome(v, j)
  BY DEF Homes
<1>2. PICK a : a = task[v][j].rslt
  OBVIOUS
<1>3. /\ a \in Worker \X (Nat \ {0}) /\ a[2] \in DOMAIN sub[a[1]]
      /\ sub[a[1]][a[2]].stat = "INITIALIZED" /\ sub[a[1]][a[2]].to = v
  BY <1>1, <1>2 DEF HasHome
<1>4. PICK x \in Worker, y \in Nat \ {0} : a = <<x, y>>
  BY <1>3
<1>5. a[1] = x /\ a[2] = y
  BY <1>4
<1> QED
  BY <1>2, <1>3, <1>4, <1>5

LEMMA HomeOnly ==
  ASSUME Homes, NEW v \in Worker, NEW j \in DOMAIN task[v], NEW k \in DOMAIN task[v],
         Unsent(v, j), task[v][k].stat \in Live, task[v][j].rslt = task[v][k].rslt
  PROVE  j = k
<1>1. \A a, b \in DOMAIN task[v] :
        Unsent(v, a) /\ task[v][b].stat \in Live /\ task[v][a].rslt = task[v][b].rslt => a = b
  BY DEF Homes
<1> QED
  BY <1>1

Executor(v, w, i) ==
  \E j \in DOMAIN task[v] : /\ Unsent(v, j)
                            /\ task[v][j].rslt = <<w, i>>
                            /\ task[v][j].body = sub[w][i].body

LEMMA ExecutorOf ==
  ASSUME Executors, NEW w \in Worker, NEW v \in Worker, NEW i \in DOMAIN sub[w],
         sub[w][i].stat = "INITIALIZED", sub[w][i].to = v
  PROVE  Executor(v, w, i)
<1>1. \A k \in DOMAIN sub[w] : sub[w][k].stat = "INITIALIZED" /\ sub[w][k].to = v =>
        Executor(v, w, k)
  BY DEF Executors, Executor
<1> QED
  BY <1>1

(***************************************************************************)
(* Steps that change one worker's entries only                             *)
(***************************************************************************)
Local(v) == Stacks(v) /\ Frames(v) /\ Nesting(v) /\ NoneBound(v)

(* Nothing that Local(v) speaks of is changed: v may only be woken, and one *)
(* of its subtasks completed.                                               *)
Same(v) ==
  /\ pc'[v] \in {pc[v], Woken(pc[v])}
  /\ task'[v] = task[v] /\ wnone'[v] = wnone[v]
  /\ DOMAIN sub'[v] = DOMAIN sub[v] /\ FromAddr(v)' = FromAddr(v)
  /\ \A i \in DOMAIN sub[v] : sub'[v][i].body = sub[v][i].body

(* v goes on with the tasks that somebody waits for. *)
StillRun(v) ==
  \A j \in DOMAIN task[v] : Unsent(v, j) =>
    /\ j \in DOMAIN task'[v] /\ Unsent(v, j)'
    /\ task'[v][j].rslt = task[v][j].rslt
    /\ task'[v][j].body = task[v][j].body

(* They are the same ones. *)
Kept(v) ==
  /\ StillRun(v)
  /\ \A j \in DOMAIN task'[v] : Unsent(v, j)' => j \in DOMAIN task[v] /\ Unsent(v, j)
  /\ \A j \in DOMAIN task'[v] : task'[v][j].stat \in Live /\ task'[v][j].rslt # OUTSIDE =>
       /\ j \in DOMAIN task[v] /\ task[v][j].stat \in Live
       /\ task'[v][j].rslt = task[v][j].rslt

(* v goes on leaving what somebody still waits for. *)
LeavingKept(v) ==
  \A q \in ToSet(treq[v]) :
    q.waiting # TERM /\ Leaving(v, q.waiting) => Leaving(v, q.waiting)'

(* v waits for an answer as before. *)
Waits(v) ==
  /\ Expecting(v)' <=> Expecting(v)
  /\ Expecting(v) => Len(task'[v]) = Len(task[v]) /\ FromAddr(v)' = FromAddr(v)
  /\ wnone'[v] = wnone[v]

LEMMA SameLocal ==
  ASSUME NEW v \in Worker, Same(v), Local(v)
  PROVE  Local(v)'
<1> USE DEF Same, Local
<1>1. Stacks(v)'
  BY DEF Stacks, Top, TopStat, Woken
<1>2. Frames(v)'
  BY DEF Frames, Top, NoFrames, Woken
<1>3. Nesting(v)'
  BY NestingUnchanged
<1>4. NoneBound(v)'
  BY DEF NoneBound, Woken
<1> QED
  BY <1>1, <1>2, <1>3, <1>4

LEMMA SameKept ==
  ASSUME NEW v \in Worker, Same(v)
  PROVE  Kept(v) /\ LeavingKept(v) /\ Waits(v)
<1> USE DEF Same
<1>1. Kept(v)
  BY DEF Kept, StillRun, Unsent, ResultSent, Woken
<1>2. LeavingKept(v)
  BY DEF LeavingKept, Leaving, Top, Woken
<1>3. Waits(v)
  BY DEF Waits, Expecting, Top, Woken
<1> QED
  BY <1>1, <1>2, <1>3

(* The subtasks not yet completed are the same ones. *)
PendingKept(w) ==
  /\ \A i \in DOMAIN sub[w] : sub[w][i].stat = "INITIALIZED" =>
       i \in DOMAIN sub'[w] /\ sub'[w][i] = sub[w][i]
  /\ \A i \in DOMAIN sub'[w] : sub'[w][i].stat = "INITIALIZED" =>
       i \in DOMAIN sub[w] /\ sub'[w][i] = sub[w][i]

LEMMA HomesKeptPending ==
  ASSUME Homes, Executors, TypeOK, \A v \in Worker : Kept(v) /\ PendingKept(v)
  PROVE  Homes' /\ Executors'
<1>1. ASSUME NEW v \in Worker, NEW j \in DOMAIN task'[v], Unsent(v, j)'
      PROVE  HasHome(v, j)'
  <2>1. j \in DOMAIN task[v] /\ Unsent(v, j) /\ task'[v][j].rslt = task[v][j].rslt
    BY <1>1 DEF Kept, StillRun
  <2>2. PICK x \in Worker, y \in Nat \ {0} :
          /\ task[v][j].rslt = <<x, y>>
          /\ y \in DOMAIN sub[x] /\ sub[x][y].stat = "INITIALIZED" /\ sub[x][y].to = v
    BY <2>1, HomeOf
  <2>3. y \in DOMAIN sub'[x] /\ sub'[x][y] = sub[x][y]
    BY <2>2 DEF PendingKept
  <2> QED
    BY <2>1, <2>2, <2>3 DEF HasHome
<1>2. ASSUME NEW v \in Worker, NEW j \in DOMAIN task'[v], NEW k \in DOMAIN task'[v],
             Unsent(v, j)', task'[v][k].stat \in Live, task'[v][j].rslt = task'[v][k].rslt
      PROVE  j = k
  <2>1. j \in DOMAIN task[v] /\ Unsent(v, j) /\ task'[v][j].rslt = task[v][j].rslt
    BY <1>2 DEF Kept, StillRun
  <2>2. k \in DOMAIN task[v] /\ task[v][k].stat \in Live /\ task'[v][k].rslt = task[v][k].rslt
    BY <1>2 DEF Kept, StillRun, Unsent
  <2> QED
    BY <1>2, <2>1, <2>2 DEF Homes
<1>3. ASSUME NEW w \in Worker, NEW v \in Worker, NEW i \in DOMAIN sub'[w],
             sub'[w][i].stat = "INITIALIZED", sub'[w][i].to = v
      PROVE  \E j \in DOMAIN task'[v] : /\ Unsent(v, j)'
                                        /\ task'[v][j].rslt = <<w, i>>
                                        /\ task'[v][j].body = sub'[w][i].body
  <2>0. i \in DOMAIN sub[w] /\ sub[w][i].stat = "INITIALIZED" /\ sub[w][i].to = v
    BY <1>3 DEF PendingKept
  <2>1. PICK j \in DOMAIN task[v] : Unsent(v, j) /\ task[v][j].rslt = <<w, i>>
                                    /\ task[v][j].body = sub[w][i].body
    BY <2>0, ExecutorOf DEF Executor
  <2>2. j \in DOMAIN task'[v] /\ Unsent(v, j)' /\ task'[v][j].rslt = task[v][j].rslt
        /\ task'[v][j].body = task[v][j].body
    BY <2>1 DEF Kept, StillRun
  <2>3. sub'[w][i] = sub[w][i]
    BY <1>3 DEF PendingKept
  <2> QED
    BY <2>1, <2>2, <2>3
<1>4. Homes'
  BY <1>1, <1>2 DEF Homes
<1>5. Executors'
  BY <1>3 DEF Executors
<1> QED
  BY <1>4, <1>5

LEMMA HomesKept ==
  ASSUME Homes, Executors, TypeOK, sub' = sub, \A v \in Worker : Kept(v)
  PROVE  Homes' /\ Executors'
<1>1. \A v \in Worker : PendingKept(v)
  BY DEF PendingKept
<1> QED
  BY <1>1, HomesKeptPending

(* A request that was accepted stays so if neither its sender nor its holder *)
(* has done anything about it.                                               *)
LEMMA AcceptedStays ==
  ASSUME NEW v \in Worker, NEW q \in Request, q \in ToSet(treq[v]), Accepted(v, q),
         StillRun(v), LeavingKept(v), Waits(q.from)
  PROVE  Accepted(v, q)'
<1> DEFINE w == q.from
<1>1. CASE q.waiting = TERM
  BY <1>1 DEF Accepted, Waits
<1>2. CASE q.waiting # TERM
  <2>1. (IF Expecting(w) THEN q.waiting = FromAddr(w) ELSE wnone[w] = 1)'
    BY <1>2 DEF Accepted, Waits
  <2>2. CASE Leaving(v, q.waiting)
    BY <1>2, <2>1, <2>2 DEF Accepted, LeavingKept
  <2>3. CASE /\ Expecting(w)
             /\ q.waiting = FromAddr(w)
             /\ \E j \in DOMAIN task[v] : Unsent(v, j) /\ task[v][j].rslt = q.waiting
    <3>1. PICK j \in DOMAIN task[v] : Unsent(v, j) /\ task[v][j].rslt = q.waiting
      BY <2>3
    <3>2. j \in DOMAIN task'[v] /\ Unsent(v, j)' /\ task'[v][j].rslt = q.waiting
      BY <3>1 DEF StillRun
    <3>3. Expecting(w)' /\ q.waiting = FromAddr(w)'
      BY <2>3 DEF Waits
    <3> QED
      BY <1>2, <2>1, <3>2, <3>3 DEF Accepted
  <2> QED
    BY <1>2, <2>2, <2>3 DEF Accepted
<1> QED
  BY <1>1, <1>2

LEMMA AcceptedKept ==
  ASSUME NEW v \in Worker, NEW q \in Request, q \in ToSet(treq[v]), Accepted(v, q),
         Kept(v), LeavingKept(v), Waits(q.from)
  PROVE  Accepted(v, q)'
  BY AcceptedStays DEF Kept

LEMMA ElementsOf ==
  ASSUME NEW s, NEW q
  PROVE  q \in ToSet(s) <=> \E i \in DOMAIN s : q = s[i]
  BY DEF ToSet

LEMMA RequestsKept ==
  ASSUME TypeOK, Requests, treq' = treq, outside'.treq = outside.treq,
         \A v \in Worker : Kept(v) /\ LeavingKept(v) /\ Waits(v)
  PROVE  Requests'
<1>1. ASSUME NEW v \in Worker, NEW q \in ToSet(treq'[v])
      PROVE  Accepted(v, q)'
  <2>1. q \in Request /\ q.from \in Worker
    BY StackTypes, ElementsOf DEF Request
  <2>2. Accepted(v, q)
    BY DEF Requests
  <2> QED
    BY <2>1, <2>2, AcceptedKept
<1>2. ASSUME NEW u \in Worker, NEW v \in Worker,
             NEW i \in DOMAIN treq'[u], NEW k \in DOMAIN treq'[v],
             treq'[u][i].from = treq'[v][k].from
      PROVE  u = v /\ i = k
  BY <1>2 DEF Requests
<1>3. ASSUME outside'.treq
      PROVE  /\ Expecting(First)' /\ Len(task'[First]) = 1
             /\ \A v \in Worker : \A i \in DOMAIN treq'[v] : treq'[v][i].from # First
  BY <1>3, WorkerAssumption DEF WorkerAssumption, Requests, Waits
<1> QED
  BY <1>1, <1>2, <1>3 DEF Requests

(* A step of w that changes nothing that others rely on *)
LEMMA QuietStep ==
  ASSUME IInv, TypeOK', NEW w \in Worker, \A v \in Worker \ {w} : Same(v),
         sub' = sub, treq' = treq, outside'.treq = outside.treq,
         Local(w)', Kept(w), LeavingKept(w), Waits(w)
  PROVE  IInv'
<1>1. \A v \in Worker : Local(v)
  BY DEF IInv, Local
<1>2. \A v \in Worker : Local(v)'
  BY <1>1, SameLocal
<1>3. \A v \in Worker : Kept(v) /\ LeavingKept(v) /\ Waits(v)
  BY SameKept
<1>4. Homes' /\ Executors'
  BY <1>3, HomesKept DEF IInv
<1>5. Requests'
  BY <1>3, RequestsKept DEF IInv
<1> QED
  BY <1>2, <1>4, <1>5 DEF IInv, Local

-----------------------------------------------------------------------------
LEMMA TopOf ==
  ASSUME TypeOK, NEW w \in Worker, task[w] # <<>>
  PROVE  /\ Top(w) = task[w][Len(task[w])] /\ Top(w) \in Task
         /\ Len(task[w]) \in Nat \ {0} /\ DOMAIN task[w] = 1..Len(task[w])
         /\ Len(task[w]) \in DOMAIN task[w]
  BY StackTypes, LastOf DEF Top

(* The effect of replacing the entry on top *)
NewTop(w, t) ==
  /\ task'[w] \in Seq(Task) /\ task'[w] # <<>>
  /\ Len(task'[w]) = Len(task[w]) /\ DOMAIN task'[w] = DOMAIN task[w]
  /\ task'[w][Len(task[w])] = t /\ Top(w)' = t
  /\ \A j \in DOMAIN task[w] : j # Len(task[w]) => task'[w][j] = task[w][j]

LEMMA TopSet ==
  ASSUME TypeOK, NEW w \in Worker, task[w] # <<>>, NEW t \in Task,
         task'[w] = WithTop(task[w], t)
  PROVE  NewTop(w, t) /\ WithTop(task[w], t) \in Seq(Task)
<1>1. PICK s \in Seq(Task) : s = task[w]
  BY DEF TypeOK
<1>2. PICK u : u = WithTop(s, t)
  OBVIOUS
<1>3. /\ u \in Seq(Task) /\ u # <<>> /\ Len(u) = Len(s) /\ DOMAIN u = 1..Len(s)
      /\ u[Len(s)] = t /\ Last(u) = t
  <2>1. s # <<>>
    BY <1>1
  <2>2. /\ WithTop(s, t) \in Seq(Task) /\ WithTop(s, t) # <<>>
        /\ Len(WithTop(s, t)) = Len(s) /\ DOMAIN WithTop(s, t) = 1..Len(s)
    BY <2>1, WithTopOf
  <2>3. WithTop(s, t)[Len(s)] = t
    BY <2>1, WithTopOf
  <2>4. Last(WithTop(s, t)) = t
    BY <2>1, WithTopOf
  <2> QED
    BY <2>2, <2>3, <2>4, <1>2
<1>4. ASSUME NEW j \in DOMAIN s, j # Len(s) PROVE u[j] = s[j]
  BY <1>1, <1>2, <1>4, WithTopAt
<1>5. task'[w] = u
  BY <1>1, <1>2
<1>6. DOMAIN task[w] = 1..Len(task[w])
  BY StackTypes
<1> QED
  BY <1>1, <1>2, <1>3, <1>4, <1>5, <1>6 DEF NewTop, Top

LEMMA TopReplaced ==
  ASSUME TypeOK, NEW w \in Worker, task[w] # <<>>, NEW t \in Task,
         task' = [task EXCEPT ![w] = WithTop(task[w], t)]
  PROVE  /\ task' \in [Worker -> Seq(Task)]
         /\ \A v \in Worker \ {w} : task'[v] = task[v]
         /\ NewTop(w, t)
<1>1. task \in [Worker -> Seq(Task)]
  BY DEF TypeOK
<1>2. task'[w] = WithTop(task[w], t) /\ \A v \in Worker \ {w} : task'[v] = task[v]
  BY <1>1
<1>3. NewTop(w, t) /\ WithTop(task[w], t) \in Seq(Task)
  BY <1>2, TopSet
<1> QED
  BY <1>1, <1>2, <1>3

LEMMA NewTopLocal ==
  ASSUME TypeOK, NEW w \in Worker, task[w] # <<>>, NEW t, NewTop(w, t),
         Stacks(w), Frames(w),
         t.stat \in TopStat(pc'[w]),
         NoFrames(pc'[w]) => t.frames = <<>>,
         t.stat = "SUSPENDED" \/ pc'[w] = "wait" =>
           t.frames # <<>> /\ Last(t.frames).spawned # 0
  PROVE  Stacks(w)' /\ Frames(w)'
<1>1. Len(task[w]) \in Nat \ {0} /\ DOMAIN task[w] = 1..Len(task[w])
  BY TopOf
<1>2. Stacks(w)'
  BY <1>1 DEF NewTop, Stacks, TopStat
<1>3. Frames(w)'
  BY <1>1 DEF NewTop, Frames, Stacks
<1> QED
  BY <1>2, <1>3

(* The do-twos that gave a half away are the same ones: no id is missing. *)
LEMMA NestingKept ==
  ASSUME NEW w \in Worker, Nesting(w), sub'[w] = sub[w], 0 \notin DOMAIN sub[w],
         \A j \in DOMAIN task[w] : \A i \in DOMAIN task[w][j].frames :
           task[w][j].frames[i].spawned # 0 =>
             /\ j \in DOMAIN task'[w] /\ i \in DOMAIN task'[w][j].frames
             /\ task'[w][j].frames[i].spawned = task[w][j].frames[i].spawned,
         \A j \in DOMAIN task'[w] : \A i \in DOMAIN task'[w][j].frames :
           /\ task'[w][j].frames[i].spawned # 0 =>
                /\ j \in DOMAIN task[w] /\ i \in DOMAIN task[w][j].frames
                /\ task'[w][j].frames[i].spawned = task[w][j].frames[i].spawned
                /\ task'[w][j].frames[i].node = task[w][j].frames[i].node
           /\ task'[w][j].frames[i].stat2 => task'[w][j].frames[i].spawned = 0
  PROVE  Nesting(w)'
<1>1. ASSUME NEW j \in DOMAIN task'[w], NEW i \in DOMAIN task'[w][j].frames
      PROVE  LET f == task'[w][j].frames[i]
             IN  /\ f.spawned # 0 => /\ f.spawned \in DOMAIN sub'[w]
                                     /\ sub'[w][f.spawned].body = Right[f.node]
                 /\ f.stat2 => f.spawned = 0
  <2>1. CASE task'[w][j].frames[i].spawned = 0
    BY <2>1
  <2>2. CASE task'[w][j].frames[i].spawned # 0
    <3>1. /\ j \in DOMAIN task[w] /\ i \in DOMAIN task[w][j].frames
          /\ task'[w][j].frames[i].spawned = task[w][j].frames[i].spawned
          /\ task'[w][j].frames[i].node = task[w][j].frames[i].node
          /\ ~task'[w][j].frames[i].stat2
      BY <2>2
    <3>2. /\ task[w][j].frames[i].spawned \in DOMAIN sub[w]
          /\ sub[w][task[w][j].frames[i].spawned].body = Right[task[w][j].frames[i].node]
      BY <2>2, <3>1, NestingFrame
    <3> QED
      BY <3>1, <3>2
  <2> QED
    BY <2>1, <2>2
<1>2. ASSUME NEW j \in DOMAIN task'[w], NEW k \in DOMAIN task'[w],
             NEW i \in DOMAIN task'[w][j].frames, NEW l \in DOMAIN task'[w][k].frames,
             Before(j, i, k, l), Spawned(w, j, i)' # 0, Spawned(w, k, l)' # 0
      PROVE  Spawned(w, j, i)' < Spawned(w, k, l)'
  <2>1. j \in DOMAIN task[w] /\ i \in DOMAIN task[w][j].frames
        /\ Spawned(w, j, i)' = Spawned(w, j, i)
    BY <1>2 DEF Spawned
  <2>2. k \in DOMAIN task[w] /\ l \in DOMAIN task[w][k].frames
        /\ Spawned(w, k, l)' = Spawned(w, k, l)
    BY <1>2 DEF Spawned
  <2> QED
    BY <1>2, <2>1, <2>2, NestingOrder
<1>3. ASSUME NEW s \in DOMAIN sub'[w]
      PROVE  \E j \in DOMAIN task'[w] : \E i \in DOMAIN task'[w][j].frames : Spawned(w, j, i)' = s
  <2>1. PICK j \in DOMAIN task[w] : \E i \in DOMAIN task[w][j].frames : Spawned(w, j, i) = s
    BY DEF Nesting
  <2>2. PICK i \in DOMAIN task[w][j].frames : Spawned(w, j, i) = s
    BY <2>1
  <2>3. j \in DOMAIN task'[w] /\ i \in DOMAIN task'[w][j].frames /\ Spawned(w, j, i)' = s
    BY <2>2 DEF Spawned
  <2> QED
    BY <2>3
<1> QED
  BY <1>1, <1>2, <1>3 DEF Nesting

LEMMA TopNesting ==
  ASSUME TypeOK, NEW w \in Worker, Nesting(w), sub'[w] = sub[w],
         task[w] # <<>>, NEW t, NewTop(w, t),
         \A i \in DOMAIN Top(w).frames : Top(w).frames[i].spawned # 0 =>
           i \in DOMAIN t.frames /\ t.frames[i].spawned = Top(w).frames[i].spawned,
         \A i \in DOMAIN t.frames :
           /\ t.frames[i].spawned # 0 =>
                /\ i \in DOMAIN Top(w).frames
                /\ t.frames[i].spawned = Top(w).frames[i].spawned
                /\ t.frames[i].node = Top(w).frames[i].node
           /\ t.frames[i].stat2 => t.frames[i].spawned = 0
  PROVE  Nesting(w)'
<1>1. Len(task[w]) \in Nat \ {0} /\ DOMAIN task[w] = 1..Len(task[w])
      /\ Top(w) = task[w][Len(task[w])]
  BY TopOf
<1>2. 0 \notin DOMAIN sub[w]
  BY StackTypes
<1>3. ASSUME NEW j \in DOMAIN task[w], NEW i \in DOMAIN task[w][j].frames,
             task[w][j].frames[i].spawned # 0
      PROVE  /\ j \in DOMAIN task'[w] /\ i \in DOMAIN task'[w][j].frames
             /\ task'[w][j].frames[i].spawned = task[w][j].frames[i].spawned
  BY <1>1, <1>3 DEF NewTop
<1>4. ASSUME NEW j \in DOMAIN task'[w], NEW i \in DOMAIN task'[w][j].frames
      PROVE  /\ task'[w][j].frames[i].spawned # 0 =>
                /\ j \in DOMAIN task[w] /\ i \in DOMAIN task[w][j].frames
                /\ task'[w][j].frames[i].spawned = task[w][j].frames[i].spawned
                /\ task'[w][j].frames[i].node = task[w][j].frames[i].node
             /\ task'[w][j].frames[i].stat2 => task'[w][j].frames[i].spawned = 0
  <2>1. CASE j = Len(task[w])
    BY <1>1, <2>1 DEF NewTop
  <2>2. CASE j # Len(task[w])
    <3>1. j \in DOMAIN task[w] /\ task'[w][j] = task[w][j]
      BY <1>1, <2>2 DEF NewTop
    <3>2. i \in DOMAIN task[w][j].frames
      BY <3>1
    <3>3. task[w][j].frames[i].stat2 => task[w][j].frames[i].spawned = 0
      BY <3>1, <3>2, NestingFrame
    <3> QED
      BY <3>1, <3>2, <3>3
  <2> QED
    BY <2>1, <2>2
<1> QED
  BY <1>2, <1>3, <1>4, NestingKept

(* A step of w that replaces the entry on top, or only moves on, and changes *)
(* nothing that others rely on                                               *)
LEMMA QuietTop ==
  ASSUME IInv, TypeOK', NEW w \in Worker, \A v \in Worker \ {w} : Same(v),
         task[w] # <<>>, NEW t, NewTop(w, t), Nesting(w)',
         sub' = sub, treq' = treq, outside'.treq = outside.treq, wnone' = wnone,
         t.stat \in TopStat(pc'[w]),
         NoFrames(pc'[w]) => t.frames = <<>>,
         t.stat = "SUSPENDED" \/ pc'[w] = "wait" =>
           t.frames # <<>> /\ Last(t.frames).spawned # 0,
         pc'[w] \in {"flush", "ask", "reply", "sleep", "nap"} => wnone[w] = 0,
         Top(w).stat \in Live =>
           t.stat \in Live \/ pc[w] \in {"rack", "count", "done"},
         t.stat \in Live =>
           /\ Top(w).stat \in Live
           /\ t.rslt = Top(w).rslt /\ t.body = Top(w).body
           /\ t.rslt # OUTSIDE => (pc'[w] \in {"rack", "count", "done"}
                                   <=> pc[w] \in {"rack", "count", "done"}),
         pc[w] \in {"rack", "count", "done", "drain"} =>
           pc'[w] \in {"rack", "count", "done", "drain"} /\ t.rslt = Top(w).rslt,
         (pc'[w] \in {"reply", "sleep"} /\ t.stat = "ALLOCATED") <=> Expecting(w)
  PROVE  IInv'
<1>1. TypeOK /\ Stacks(w) /\ Frames(w) /\ NoneBound(w)
  BY DEF IInv
<1>2. Len(task[w]) \in Nat \ {0} /\ DOMAIN task[w] = 1..Len(task[w])
      /\ Top(w) = task[w][Len(task[w])]
  BY <1>1, TopOf
<1>3. Local(w)'
  <2>1. Stacks(w)' /\ Frames(w)'
    BY <1>1, NewTopLocal
  <2>2. NoneBound(w)'
    BY <1>1 DEF NoneBound
  <2> QED
    BY <2>1, <2>2 DEF Local
<1>4. Kept(w)
  BY <1>2 DEF Kept, StillRun, Unsent, NewTop, ResultSent
<1>5. LeavingKept(w)
  BY DEF LeavingKept, Leaving, NewTop
<1>6. Waits(w)
  BY DEF Waits, Expecting, NewTop, FromAddr
<1> QED
  BY <1>3, <1>4, <1>5, <1>6, QuietStep

LEMMA QuietPc ==
  ASSUME IInv, TypeOK', NEW w \in Worker, task[w] # <<>>,
         NEW l, pc' = [pc EXCEPT ![w] = l],
         task' = task, sub' = sub, treq' = treq, wnone' = wnone,
         outside'.treq = outside.treq,
         Top(w).stat \in TopStat(l),
         NoFrames(l) => Top(w).frames = <<>>,
         l = "wait" => Top(w).frames # <<>> /\ Last(Top(w).frames).spawned # 0,
         l \in {"flush", "ask", "reply", "sleep", "nap"} => wnone[w] = 0,
         Top(w).stat \in Live /\ Top(w).rslt # OUTSIDE =>
           (l \in {"rack", "count", "done"} <=> pc[w] \in {"rack", "count", "done"}),
         pc[w] \in {"rack", "count", "done", "drain"} => l \in {"rack", "count", "done", "drain"},
         (l \in {"reply", "sleep"} /\ Top(w).stat = "ALLOCATED") <=> Expecting(w)
  PROVE  IInv'
<1>1. TypeOK /\ Frames(w) /\ Nesting(w)
  BY DEF IInv
<1>2. PICK t : t = Top(w)
  OBVIOUS
<1>3. t = task[w][Len(task[w])] /\ Len(task[w]) \in DOMAIN task[w] /\ task[w] \in Seq(Task)
  BY <1>1, <1>2, TopOf, StackTypes
<1>4. pc'[w] = l /\ \A v \in Worker \ {w} : Same(v)
  BY <1>1 DEF Same, FromAddr, TypeOK
<1>5. NewTop(w, t)
  BY <1>2, <1>3 DEF NewTop, Top
<1>6. Nesting(w)'
  BY <1>1, NestingUnchanged
<1>7. t.stat = "SUSPENDED" \/ pc'[w] = "wait" => t.frames # <<>> /\ Last(t.frames).spawned # 0
  BY <1>1, <1>2, <1>3, <1>4 DEF Frames
<1> QED
  BY <1>2, <1>4, <1>5, <1>6, <1>7, QuietTop

-----------------------------------------------------------------------------
(***************************************************************************)
(* The steps, one by one                                                   *)
(***************************************************************************)
(* The ones that only move on *)
LEMMA MoveInv ==
  ASSUME IInv, NEW w \in Worker,
         \/ Sleep(w) \/ Nap(w) \/ RetryTreq(w) \/ EndSpawn(w) \/ CallWaitRslt(w)
         \/ EndTask(w) \/ SendRsltOutside(w) \/ SendRack(w) \/ CountRack(w)
  PROVE  IInv'
<1>1. TypeOK /\ Stacks(w) /\ Frames(w) /\ NoneBound(w)
  BY DEF IInv
<1>2. task[w] # <<>> => Top(w).stat \in TopStat(pc[w])
  BY <1>1 DEF Stacks
<1>3. NoFrames(pc[w]) => Top(w).frames = <<>>
  BY <1>1 DEF Frames
<1>4. pc[w] \in {"flush", "ask", "reply", "sleep", "nap"} => wnone[w] = 0
  BY <1>1 DEF NoneBound
<1>5. task[w] = <<>> => pc[w] \in {"enter", "nonewait", "nonewake"}
  BY <1>1 DEF Stacks
<1> USE DEF Goto, TopStat, Expecting, Live, NoFrames
<1>6. CASE Sleep(w)
  <2>1. TypeOK'
    BY <1>1, <1>6 DEF TypeOK, Sleep
  <2> QED
    BY <1>3, <1>4, <1>5, <1>6, <2>1, QuietPc DEF Sleep
<1>7. CASE Nap(w)
  <2>1. TypeOK'
    BY <1>1, <1>7 DEF TypeOK, Nap
  <2> QED
    BY <1>3, <1>4, <1>5, <1>7, <2>1, QuietPc DEF Nap
<1>8. CASE RetryTreq(w)
  <2>1. TypeOK'
    BY <1>1, <1>8 DEF TypeOK, RetryTreq
  <2> QED
    BY <1>2, <1>3, <1>4, <1>5, <1>8, <2>1, QuietPc DEF RetryTreq
<1>9. CASE EndSpawn(w)
  <2>1. TypeOK'
    BY <1>1, <1>9 DEF TypeOK, EndSpawn
  <2> QED
    BY <1>2, <1>5, <1>9, <2>1, QuietPc DEF EndSpawn
<1>10. CASE CallWaitRslt(w)
  <2>1. TypeOK'
    BY <1>1, <1>10 DEF TypeOK, CallWaitRslt
  <2> QED
    BY <1>2, <1>5, <1>10, <2>1, QuietPc DEF CallWaitRslt
<1>11. CASE EndTask(w)
  <2>1. TypeOK'
    BY <1>1, <1>11 DEF TypeOK, EndTask
  <2> QED
    BY <1>2, <1>5, <1>11, <2>1, QuietPc DEF EndTask
<1>12. CASE SendRsltOutside(w)
  <2>1. TypeOK' /\ outside'.treq = outside.treq
    BY <1>1, <1>12 DEF TypeOK, SendRsltOutside
  <2> QED
    BY <1>2, <1>3, <1>5, <1>12, <2>1, QuietPc DEF SendRsltOutside
<1>13. CASE SendRack(w)
  <2>1. TypeOK'
    BY <1>1, <1>13 DEF TypeOK, SendRack
  <2> QED
    BY <1>2, <1>3, <1>5, <1>13, <2>1, QuietPc DEF SendRack
<1>14. CASE CountRack(w)
  <2>1. TypeOK'
    BY <1>1, <1>14 DEF TypeOK, CountRack
  <2> QED
    BY <1>2, <1>3, <1>5, <1>14, <2>1, QuietPc DEF CountRack
<1> QED
  BY <1>6, <1>7, <1>8, <1>9, <1>10, <1>11, <1>12, <1>13, <1>14

(* A worker with a subtask has the do-two that it was given away from. *)
LEMMA SubOwner ==
  ASSUME NEW w \in Worker, Nesting(w), sub[w] \in Seq(TaskHome), sub[w] # <<>>
  PROVE  task[w] # <<>>
<1>1. Len(sub[w]) \in DOMAIN sub[w]
  BY LastOf
<1> QED
  BY <1>1 DEF Nesting

LEMMA AwaitInv ==
  ASSUME IInv, NEW w \in Worker, AwaitNone(w) \/ AwaitedNone(w)
  PROVE  IInv'
<1>1. TypeOK /\ Stacks(w) /\ Frames(w) /\ NoneBound(w) /\ Nesting(w)
  BY DEF IInv
<1>2. TypeOK'
  BY <1>1 DEF TypeOK, AwaitNone, AwaitedNone, Goto
<1>3. task[w] # <<>> => Top(w).stat \in TopStat(pc[w])
  BY <1>1 DEF Stacks
<1>4. CASE SubDone(w) /\ AwaitedNone(w)
  <2>1. task[w] # <<>>
    BY <1>1, <1>4, SubOwner, StackTypes DEF SubDone
  <2>2. Top(w) = task[w][Len(task[w])] /\ Len(task[w]) \in DOMAIN task[w]
    BY <1>1, <2>1, TopOf
  <2>3. Top(w).stat = "SUSPENDED"
    BY <1>3, <1>4, <2>1 DEF AwaitedNone, TopStat
  <2>4. Top(w).frames # <<>> /\ Last(Top(w).frames).spawned # 0
    BY <1>1, <2>2, <2>3 DEF Frames
  <2> QED
    BY <1>2, <1>4, <2>1, <2>3, <2>4, QuietPc
    DEF AwaitedNone, Goto, TopStat, NoFrames, Expecting
<1>5. CASE ~(SubDone(w) /\ AwaitedNone(w))
  <2>1. /\ pc[w] \in {"enter", "nonewake"} /\ pc'[w] \in {"enter", "nonewait"}
        /\ \A v \in Worker \ {w} : Same(v)
        /\ UNCHANGED <<task, sub, treq, wnone, outside>>
    BY <1>1, <1>5 DEF AwaitNone, AwaitedNone, Goto, Same, FromAddr, TypeOK
  <2>2. Stacks(w)'
    BY <1>1, <2>1 DEF Stacks, TopStat, Top
  <2>3. Frames(w)'
    BY <1>1, <2>1 DEF Frames, NoFrames, Top
  <2>4. Nesting(w)'
    BY <1>1, <2>1, NestingUnchanged
  <2>5. NoneBound(w)'
    BY <1>1, <2>1 DEF NoneBound
  <2>6. Local(w)'
    BY <2>2, <2>3, <2>4, <2>5 DEF Local
  <2>7. Kept(w) /\ LeavingKept(w) /\ Waits(w)
    BY <2>1 DEF Kept, StillRun, Unsent, ResultSent, LeavingKept, Leaving, Waits, Expecting
  <2> QED
    BY <1>2, <2>1, <2>6, <2>7, QuietStep
<1> QED
  BY <1>4, <1>5

LEMMA TryTreqRefusedInv ==
  ASSUME IInv, NEW w \in Worker, NEW v \in Worker, TryTreqRefused(w, v)
  PROVE  IInv'
<1> USE DEF TryTreqRefused
<1>1. TypeOK'
  BY DEF IInv, TypeOK
<1>2. \A u \in Worker : Same(u)
  BY DEF Same, FromAddr
<1>3. Local(w)' /\ Kept(w) /\ LeavingKept(w) /\ Waits(w)
  BY <1>2, SameLocal, SameKept DEF IInv, Local
<1> QED
  BY <1>1, <1>2, <1>3, QuietStep

LEMMA AllocateTaskInv ==
  ASSUME IInv, NEW w \in Worker, AllocateTask(w)
  PROVE  IInv'
<1> USE DEF AllocateTask, Goto
<1>1. TypeOK /\ Stacks(w) /\ Frames(w) /\ NoneBound(w) /\ Nesting(w)
  BY DEF IInv
<1>2. PICK t : t = [stat |-> "ALLOCATED", rslt |-> TERM, body |-> Root,
                    frames |-> <<>>, ret |-> FALSE]
  OBVIOUS
<1>3. t \in Task
  BY <1>2, ComputationAssumption DEF ComputationAssumption, Task, TaskStat, Address
<1>4. PICK s \in Seq(Task) : s = task[w]
  BY <1>1 DEF TypeOK
<1>5. PICK u : u = Append(s, t)
  OBVIOUS
<1>6. u \in Seq(Task) /\ u # <<>> /\ Len(u) = Len(s) + 1
  BY <1>3, <1>5, AppendOf
<1>7. Len(s) \in Nat /\ DOMAIN s = 1..Len(s) /\ DOMAIN u = 1..(Len(s) + 1)
  BY <1>3, <1>5, AppendOf
<1>8. u[Len(s) + 1] = t /\ Last(u) = t
  BY <1>3, <1>5, AppendOf
<1>9. ASSUME NEW j \in DOMAIN s PROVE u[j] = s[j]
  BY <1>3, <1>5, <1>9, AppendOf
<1>10. task'[w] = u /\ pc'[w] = "flush" /\ \A v \in Worker \ {w} : Same(v)
  BY <1>1, <1>2, <1>4, <1>5 DEF Same, FromAddr, TypeOK
<1>11. TypeOK' /\ Top(w)' = t
  <2>1. TypeOK'
    BY <1>1, <1>2, <1>4, <1>5, <1>6 DEF TypeOK
  <2> QED
    BY <1>6, <1>8, <1>10, <2>1 DEF Top, Last
<1>12. s # <<>> => Last(s) = s[Len(s)] /\ Last(s).stat = "SUSPENDED"
  BY <1>1, <1>4, LastOf DEF Stacks, Top, TopStat
<1>13. \A j \in DOMAIN s : s[j].stat = "SUSPENDED"
  <2>1. s # <<>> \/ DOMAIN s = {}
    BY <1>4, <1>7, EmptySeq
  <2> QED
    BY <1>1, <1>4, <1>7, <1>12, <2>1 DEF Stacks
<1>14. Stacks(w)'
  <2>1. task'[w] # <<>> /\ t.stat \in TopStat(pc'[w])
    BY <1>2, <1>6, <1>10 DEF TopStat
  <2>2. \A j \in 1..(Len(u) - 1) : u[j].stat = "SUSPENDED"
    BY <1>6, <1>7, <1>9, <1>13
  <2>3. Len(task'[w]) = Len(u)
    BY <1>10
  <2>4. \A j \in 1..(Len(task'[w]) - 1) : task'[w][j].stat = "SUSPENDED"
    BY <1>10, <2>2
  <2> QED
    BY <1>11, <2>1, <2>4 DEF Stacks
<1>15. Frames(w)'
  <2>1. Top(w)'.frames = <<>>
    BY <1>2, <1>11
  <2>2. ASSUME NEW j \in DOMAIN u, u[j].stat = "SUSPENDED"
        PROVE  u[j].frames # <<>> /\ Last(u[j].frames).spawned # 0
    <3>1. j \in DOMAIN s /\ u[j] = s[j]
      BY <1>2, <1>7, <1>8, <1>9, <2>2
    <3> QED
      BY <1>1, <1>4, <2>2, <3>1 DEF Frames
  <2> QED
    BY <1>10, <2>1, <2>2 DEF Frames
<1>16. Nesting(w)'
  <2>1. 0 \notin DOMAIN sub[w] /\ sub'[w] = sub[w]
    BY <1>1, StackTypes
  <2>2. DOMAIN t.frames = {}
    BY <1>2, EmptySeq
  <2>3. ASSUME NEW j \in DOMAIN task[w], NEW i \in DOMAIN task[w][j].frames,
               task[w][j].frames[i].spawned # 0
        PROVE  /\ j \in DOMAIN task'[w] /\ i \in DOMAIN task'[w][j].frames
               /\ task'[w][j].frames[i].spawned = task[w][j].frames[i].spawned
    BY <1>4, <1>7, <1>9, <1>10
  <2>4. ASSUME NEW j \in DOMAIN task'[w], NEW i \in DOMAIN task'[w][j].frames
        PROVE  j \in DOMAIN task[w] /\ task'[w][j] = task[w][j]
    BY <1>4, <1>7, <1>8, <1>9, <1>10, <2>2
  <2>5. ASSUME NEW j \in DOMAIN task'[w], NEW i \in DOMAIN task'[w][j].frames
        PROVE  /\ task'[w][j].frames[i].spawned # 0 =>
                  /\ j \in DOMAIN task[w] /\ i \in DOMAIN task[w][j].frames
                  /\ task'[w][j].frames[i].spawned = task[w][j].frames[i].spawned
                  /\ task'[w][j].frames[i].node = task[w][j].frames[i].node
               /\ task'[w][j].frames[i].stat2 => task'[w][j].frames[i].spawned = 0
    <3>1. /\ j \in DOMAIN task[w] /\ i \in DOMAIN task[w][j].frames
          /\ task'[w][j].frames[i] = task[w][j].frames[i]
      BY <2>4, <2>5
    <3>2. task[w][j].frames[i].stat2 => task[w][j].frames[i].spawned = 0
      BY <1>1, <3>1, NestingFrame
    <3> QED
      BY <3>1, <3>2
  <2> QED
    BY <1>1, <2>1, <2>3, <2>5, NestingKept
<1>17. Local(w)'
  BY <1>1, <1>10, <1>14, <1>15, <1>16 DEF Local, NoneBound
<1>18. Kept(w)
  BY <1>2, <1>4, <1>7, <1>8, <1>9, <1>10 DEF Kept, StillRun, Unsent, ResultSent, Live
<1>19. LeavingKept(w) /\ Waits(w)
  BY <1>10 DEF LeavingKept, Leaving, Waits, Expecting
<1> QED
  BY <1>10, <1>11, <1>17, <1>18, <1>19, QuietStep

(* The entry on top is replaced *)
LEMMA QuietEntry ==
  ASSUME IInv, TypeOK', NEW w \in Worker, task[w] # <<>>, NEW t \in Task,
         task' = [task EXCEPT ![w] = WithTop(task[w], t)],
         \A v \in Worker \ {w} : pc'[v] = pc[v],
         sub' = sub, treq' = treq, wnone' = wnone, outside'.treq = outside.treq,
         \A i \in DOMAIN Top(w).frames : Top(w).frames[i].spawned # 0 =>
           i \in DOMAIN t.frames /\ t.frames[i].spawned = Top(w).frames[i].spawned,
         \A i \in DOMAIN t.frames :
           /\ t.frames[i].spawned # 0 =>
                /\ i \in DOMAIN Top(w).frames
                /\ t.frames[i].spawned = Top(w).frames[i].spawned
                /\ t.frames[i].node = Top(w).frames[i].node
           /\ t.frames[i].stat2 => t.frames[i].spawned = 0,
         t.stat \in TopStat(pc'[w]),
         NoFrames(pc'[w]) => t.frames = <<>>,
         t.stat = "SUSPENDED" \/ pc'[w] = "wait" =>
           t.frames # <<>> /\ Last(t.frames).spawned # 0,
         pc'[w] \in {"flush", "ask", "reply", "sleep", "nap"} => wnone[w] = 0,
         Top(w).stat \in Live =>
           t.stat \in Live \/ pc[w] \in {"rack", "count", "done"},
         t.stat \in Live =>
           /\ Top(w).stat \in Live
           /\ t.rslt = Top(w).rslt /\ t.body = Top(w).body
           /\ t.rslt # OUTSIDE => (pc'[w] \in {"rack", "count", "done"}
                                   <=> pc[w] \in {"rack", "count", "done"}),
         pc[w] \in {"rack", "count", "done", "drain"} =>
           pc'[w] \in {"rack", "count", "done", "drain"} /\ t.rslt = Top(w).rslt,
         (pc'[w] \in {"reply", "sleep"} /\ t.stat = "ALLOCATED") <=> Expecting(w)
  PROVE  IInv'
<1>1. TypeOK /\ Nesting(w)
  BY DEF IInv
<1>2. NewTop(w, t) /\ \A v \in Worker \ {w} : task'[v] = task[v]
  BY <1>1, TopReplaced
<1>3. \A v \in Worker \ {w} : Same(v)
  BY <1>2 DEF Same, FromAddr
<1>4. Nesting(w)'
  BY <1>1, <1>2, TopNesting
<1> QED
  BY <1>2, <1>3, <1>4, QuietTop

LEMMA SameFrames ==
  ASSUME TypeOK, NEW w \in Worker, Nesting(w), task[w] # <<>>
  PROVE  /\ Top(w) \in Task
         /\ \A i \in DOMAIN Top(w).frames : Top(w).frames[i].stat2 => Top(w).frames[i].spawned = 0
<1>1. Top(w) \in Task /\ Top(w) = task[w][Len(task[w])] /\ Len(task[w]) \in DOMAIN task[w]
  BY TopOf
<1> QED
  BY <1>1 DEF Nesting

(* A worker that does not ask anyone has a subtask. *)
LEMMA StealsFrom ==
  ASSUME TypeOK, NEW w \in Worker, Stacks(w), Frames(w), Nesting(w),
         task[w] # <<>>, ~AsksAny(w)
  PROVE  sub[w] # <<>> /\ Len(task[w]) \in Nat /\ Len(task[w]) >= 2
<1>1. Len(task[w]) \in Nat /\ Len(task[w]) >= 2 /\ DOMAIN task[w] = 1..Len(task[w])
  <2>1. Len(task[w]) \in Nat \ {0} /\ DOMAIN task[w] = 1..Len(task[w]) /\ Len(task[w]) # 1
    BY TopOf DEF AsksAny
  <2>2. PICK n \in Nat : n = Len(task[w])
    BY <2>1
  <2>3. n # 0 /\ n # 1
    BY <2>1, <2>2
  <2>4. n >= 2
    BY <2>3
  <2> QED
    BY <2>1, <2>2, <2>4
<1>2. 1 \in 1..(Len(task[w]) - 1) /\ 1 \in DOMAIN task[w]
  BY <1>1
<1>3. task[w][1].stat = "SUSPENDED"
  BY <1>2 DEF Stacks
<1>4. task[w][1].frames # <<>> /\ Last(task[w][1].frames).spawned # 0
  BY <1>2, <1>3 DEF Frames
<1>5. task[w][1] \in Task
  BY <1>2, StackTypes
<1>6. PICK fs \in Seq(Frame) : fs = task[w][1].frames
  BY <1>5 DEF Task
<1>7. Last(fs) = fs[Len(fs)] /\ Len(fs) \in DOMAIN fs
  BY <1>4, <1>6, LastOf
<1>8. fs[Len(fs)].spawned \in DOMAIN sub[w]
  <2>1. 1 \in DOMAIN task[w] /\ Len(fs) \in DOMAIN task[w][1].frames
        /\ task[w][1].frames[Len(fs)].spawned # 0
    BY <1>2, <1>4, <1>6, <1>7
  <2> QED
    BY <1>2, <1>6, <2>1, NestingFrame
<1> QED
  BY <1>1, <1>8, EmptySeq

(* The ones that change the status of the entry on top, or of its call *)
LEMMA SendTreqInv ==
  ASSUME IInv, NEW w \in Worker, SendTreq(w)
  PROVE  IInv'
<1> USE DEF SendTreq, Goto, SetStat
<1>1. TypeOK /\ Stacks(w) /\ Frames(w) /\ NoneBound(w) /\ Nesting(w)
  BY DEF IInv
<1>2. task[w] # <<>> /\ Top(w).stat \in {"ALLOCATED", "NONE"} /\ Top(w).frames = <<>>
      /\ wnone[w] = 0
  BY <1>1 DEF Stacks, Frames, NoneBound, TopStat, NoFrames
<1>3. Top(w) \in Task
  BY <1>1, <1>2, SameFrames
<1>4. PICK t : t = [Top(w) EXCEPT !.stat = "ALLOCATED"]
  OBVIOUS
<1>5. t \in Task /\ t.stat = "ALLOCATED" /\ t.frames = <<>>
  BY <1>2, <1>3, <1>4 DEF Task, TaskStat
<1>6. task' = [task EXCEPT ![w] = WithTop(task[w], t)]
  BY <1>4
<1>7. TypeOK'
  <2>1. task' \in [Worker -> Seq(Task)]
    BY <1>1, <1>2, <1>5, <1>6, TopReplaced
  <2>2. ~direct[w] /\ ~AsksAny(w) => Last(sub[w]).to \in Worker
    <3>1. ~AsksAny(w) => sub[w] # <<>>
      BY <1>1, <1>2, StealsFrom
    <3>2. sub[w] # <<>> => Last(sub[w]) \in TaskHome
      BY <1>1, StackTypes, LastOf
    <3> QED
      BY <3>1, <3>2 DEF TaskHome
  <2>3. asking' \in [Worker -> SUBSET Worker]
    BY <1>1, <2>2 DEF TypeOK
  <2>4. pc'[w] = "ask" /\ pc' \in [Worker -> {"enter", "nonewait", "nonewake", "flush", "ask", "reply",
                        "sleep", "nap", "run", "spawn", "rslt", "rack", "count",
                        "done", "drain", "wait"}]
    BY <1>1 DEF TypeOK
  <2> QED
    BY <1>1, <2>1, <2>3, <2>4 DEF TypeOK
<1>8. pc'[w] = "ask" /\ \A v \in Worker \ {w} : pc'[v] = pc[v]
  BY <1>1 DEF TypeOK
<1>9. DOMAIN <<>> = {}
  BY EmptySeq
<1> QED
  BY <1>2, <1>5, <1>6, <1>7, <1>8, <1>9, QuietEntry DEF TopStat, Expecting, Live

LEMMA AtTop ==
  ASSUME IInv, NEW w \in Worker, pc[w] \notin {"enter", "nonewait", "nonewake"}
  PROVE  /\ TypeOK /\ task[w] # <<>>
         /\ Top(w) \in Task /\ Top(w).frames \in Seq(Frame)
         /\ Top(w).stat \in TopStat(pc[w])
         /\ NoFrames(pc[w]) => Top(w).frames = <<>>
         /\ pc[w] \in {"flush", "ask", "reply", "sleep", "nap"} => wnone[w] = 0
         /\ \A i \in DOMAIN Top(w).frames :
              Top(w).frames[i].stat2 => Top(w).frames[i].spawned = 0
<1>1. TypeOK /\ Stacks(w) /\ Frames(w) /\ NoneBound(w) /\ Nesting(w)
  BY DEF IInv
<1>2. task[w] # <<>> /\ Top(w).stat \in TopStat(pc[w])
  BY <1>1 DEF Stacks
<1>3. Top(w) \in Task /\ \A i \in DOMAIN Top(w).frames :
              Top(w).frames[i].stat2 => Top(w).frames[i].spawned = 0
  BY <1>1, <1>2, SameFrames
<1>4. Top(w).frames \in Seq(Frame)
  BY <1>3 DEF Task
<1>5. /\ NoFrames(pc[w]) => Top(w).frames = <<>>
      /\ pc[w] \in {"flush", "ask", "reply", "sleep", "nap"} => wnone[w] = 0
  BY <1>1 DEF Frames, NoneBound
<1> QED
  BY <1>1, <1>2, <1>3, <1>4, <1>5

LEMMA RefuseTreqInv ==
  ASSUME IInv, NEW w \in Worker, RefuseTreq(w)
  PROVE  IInv'
<1> USE DEF RefuseTreq
<1>1. /\ TypeOK /\ task[w] # <<>> /\ Top(w) \in Task /\ Top(w).stat = "ALLOCATED"
      /\ Top(w).frames = <<>> /\ wnone[w] = 0
  BY AtTop DEF TopStat, NoFrames
<1>2. PICK t : t = [Top(w) EXCEPT !.stat = "NONE"]
  OBVIOUS
<1>3. t \in Task /\ t.stat = "NONE" /\ t.frames = <<>>
  BY <1>1, <1>2 DEF Task, TaskStat
<1>4. task' = [task EXCEPT ![w] = WithTop(task[w], t)] /\ wnone' = wnone
  BY <1>1, <1>2 DEF RecvNone, SetStat
<1>5. pc'[w] = "reply" /\ \A v \in Worker \ {w} : pc'[v] = pc[v]
  BY <1>1 DEF TypeOK, RecvNone, Woken
<1>6. pc' \in [Worker -> {"enter", "nonewait", "nonewake", "flush", "ask", "reply",
                          "sleep", "nap", "run", "spawn", "rslt", "rack", "count",
                          "done", "drain", "wait"}]
  BY <1>1 DEF TypeOK, RecvNone, Woken
<1>7. TypeOK'
  <2>1. task' \in [Worker -> Seq(Task)]
    BY <1>1, <1>3, <1>4, TopReplaced
  <2> QED
    BY <1>1, <1>4, <1>6, <2>1 DEF TypeOK
<1>8. DOMAIN <<>> = {}
  BY EmptySeq
<1> QED
  BY <1>1, <1>3, <1>4, <1>5, <1>7, <1>8, QuietEntry DEF TopStat, Expecting, Live

LEMMA AbandonAfterNapInv ==
  ASSUME IInv, NEW w \in Worker, AbandonAfterNap(w)
  PROVE  IInv'
<1> USE DEF AbandonAfterNap, GiveUp, Goto
<1>1. /\ TypeOK /\ task[w] # <<>> /\ Top(w) \in Task /\ Top(w).stat = "NONE"
      /\ Top(w).frames = <<>>
  BY AtTop DEF TopStat, NoFrames
<1>2. PICK head \in {treq[w][i].waiting : i \in DOMAIN treq[w]} \cup {TERM} :
        task' = [task EXCEPT ![w] = WithTop(@, [Top(w) EXCEPT !.stat = "DONE", !.rslt = head])]
  OBVIOUS
<1>3. head \in Address
  BY <1>1, <1>2, StackTypes DEF Request, Address
<1>4. PICK t : t = [Top(w) EXCEPT !.stat = "DONE", !.rslt = head]
  OBVIOUS
<1>5. t \in Task /\ t.stat = "DONE" /\ t.frames = <<>>
  BY <1>1, <1>3, <1>4 DEF Task, TaskStat
<1>6. task' = [task EXCEPT ![w] = WithTop(task[w], t)]
  BY <1>2, <1>4
<1>7. pc'[w] = "drain" /\ \A v \in Worker \ {w} : pc'[v] = pc[v]
  BY <1>1 DEF TypeOK
<1>8. TypeOK'
  <2>1. task' \in [Worker -> Seq(Task)]
    BY <1>1, <1>5, <1>6, TopReplaced
  <2> QED
    BY <1>1, <2>1 DEF TypeOK
<1>9. DOMAIN <<>> = {}
  BY EmptySeq
<1> QED
  BY <1>1, <1>5, <1>6, <1>7, <1>8, <1>9, QuietEntry DEF TopStat, Expecting, Live

LEMMA StartTaskInv ==
  ASSUME IInv, NEW w \in Worker, StartTask(w)
  PROVE  IInv'
<1> USE DEF StartTask, Goto
<1>1. TypeOK /\ task[w] # <<>> /\ Top(w) \in Task /\ Top(w).frames = <<>>
  BY AtTop DEF NoFrames
<1>2. PICK t : t = [Top(w) EXCEPT !.stat = "STARTED", !.frames = <<>>, !.ret = FALSE]
  OBVIOUS
<1>3. t \in Task /\ t.stat = "STARTED" /\ t.frames = <<>> /\ t.rslt = Top(w).rslt
      /\ t.body = Top(w).body
  BY <1>1, <1>2 DEF Task, TaskStat
<1>4. task' = [task EXCEPT ![w] = WithTop(task[w], t)]
  BY <1>2
<1>5. pc'[w] = "run" /\ \A v \in Worker \ {w} : pc'[v] = pc[v]
  BY <1>1 DEF TypeOK
<1>6. TypeOK'
  <2>1. task' \in [Worker -> Seq(Task)]
    BY <1>1, <1>3, <1>4, TopReplaced
  <2> QED
    BY <1>1, <2>1 DEF TypeOK
<1>7. DOMAIN <<>> = {}
  BY EmptySeq
<1> QED
  BY <1>1, <1>3, <1>4, <1>5, <1>6, <1>7, QuietEntry DEF TopStat, NoFrames, Expecting, Live

LEMMA TaskDoneInv ==
  ASSUME IInv, NEW w \in Worker, TaskDone(w)
  PROVE  IInv'
<1> USE DEF TaskDone, Goto, SetStat
<1>1. /\ TypeOK /\ task[w] # <<>> /\ Top(w) \in Task /\ Top(w).stat = "STARTED"
      /\ Top(w).frames = <<>>
  BY AtTop DEF TopStat, NoFrames
<1>2. PICK t : t = [Top(w) EXCEPT !.stat = "DONE"]
  OBVIOUS
<1>3. t \in Task /\ t.stat = "DONE" /\ t.frames = <<>> /\ t.rslt = Top(w).rslt
  BY <1>1, <1>2 DEF Task, TaskStat
<1>4. task' = [task EXCEPT ![w] = WithTop(task[w], t)]
  BY <1>2
<1>5. pc'[w] = "drain" /\ \A v \in Worker \ {w} : pc'[v] = pc[v]
  BY <1>1 DEF TypeOK
<1>6. TypeOK'
  <2>1. task' \in [Worker -> Seq(Task)]
    BY <1>1, <1>3, <1>4, TopReplaced
  <2> QED
    BY <1>1, <2>1 DEF TypeOK
<1>7. DOMAIN <<>> = {}
  BY EmptySeq
<1> QED
  BY <1>1, <1>3, <1>4, <1>5, <1>6, <1>7, QuietEntry DEF TopStat, Expecting, Live

LEMMA CurrentNode ==
  ASSUME NEW t \in Task
  PROVE  /\ Current(t) \in Node
         /\ t.frames # <<>> => Last(t.frames).node \in Node
<1>1. t.frames \in Seq(Frame) /\ t.body \in Node
  BY DEF Task
<1>2. CASE t.frames = <<>>
  BY <1>1, <1>2 DEF Current
<1>3. CASE t.frames # <<>>
  <2>1. Last(t.frames) \in Frame
    BY <1>1, <1>3, LastOf
  <2> QED
    BY <1>3, <2>1, ComputationAssumption DEF ComputationAssumption, Current, Frame
<1> QED
  BY <1>2, <1>3

(* The task body *)
LEMMA CallLeafInv ==
  ASSUME IInv, NEW w \in Worker, CallLeaf(w)
  PROVE  IInv'
<1> USE DEF CallLeaf
<1>1. /\ TypeOK /\ task[w] # <<>> /\ Top(w) \in Task /\ Top(w).stat = "STARTED"
      /\ \A i \in DOMAIN Top(w).frames :
           Top(w).frames[i].stat2 => Top(w).frames[i].spawned = 0
  BY AtTop DEF TopStat
<1>2. PICK t : t = [Top(w) EXCEPT !.ret = TRUE]
  OBVIOUS
<1>3. t \in Task /\ t.stat = "STARTED" /\ t.frames = Top(w).frames
      /\ t.rslt = Top(w).rslt /\ t.body = Top(w).body
  BY <1>1, <1>2 DEF Task, TaskStat
<1>4. task' = [task EXCEPT ![w] = WithTop(task[w], t)]
  BY <1>2
<1>5. TypeOK'
  <2>1. task' \in [Worker -> Seq(Task)]
    BY <1>1, <1>3, <1>4, TopReplaced
  <2>2. runs' \in [Node -> Nat]
    <3>1. Current(Top(w)) \in Node
      BY <1>1, CurrentNode
    <3> QED
      BY <1>1, <3>1 DEF TypeOK
  <2> QED
    BY <1>1, <2>1, <2>2 DEF TypeOK
<1>6. \A i \in DOMAIN Top(w).frames : Top(w).frames[i].spawned # 0 =>
        i \in DOMAIN t.frames /\ t.frames[i].spawned = Top(w).frames[i].spawned
  BY <1>3
<1>7. \A i \in DOMAIN t.frames :
        /\ t.frames[i].spawned # 0 =>
             /\ i \in DOMAIN Top(w).frames
             /\ t.frames[i].spawned = Top(w).frames[i].spawned
             /\ t.frames[i].node = Top(w).frames[i].node
        /\ t.frames[i].stat2 => t.frames[i].spawned = 0
  BY <1>1, <1>3
<1> QED
  BY <1>1, <1>3, <1>4, <1>5, <1>6, <1>7, QuietEntry DEF TopStat, NoFrames, Expecting, Live

LEMMA EnterDoTwoInv ==
  ASSUME IInv, NEW w \in Worker, EnterDoTwo(w)
  PROVE  IInv'
<1> USE DEF EnterDoTwo, Goto
<1>1. /\ TypeOK /\ task[w] # <<>> /\ Top(w) \in Task /\ Top(w).frames \in Seq(Frame)
      /\ Top(w).stat = "STARTED"
      /\ \A i \in DOMAIN Top(w).frames :
           Top(w).frames[i].stat2 => Top(w).frames[i].spawned = 0
  BY AtTop DEF TopStat
<1>2. PICK f : f = [node |-> Current(Top(w)), spawned |-> 0, stat2 |-> FALSE]
  OBVIOUS
<1>3. f \in Frame
  BY <1>1, <1>2, CurrentNode DEF Frame
<1>4. PICK fs \in Seq(Frame) : fs = Top(w).frames
  BY <1>1
<1>5. PICK u : u = Append(fs, f)
  OBVIOUS
<1>6. u \in Seq(Frame)
  BY <1>3, <1>5, AppendOf
<1>7. DOMAIN fs = 1..Len(fs) /\ DOMAIN u = 1..(Len(fs) + 1) /\ Len(fs) \in Nat
  BY <1>3, <1>5, AppendOf
<1>8. u[Len(fs) + 1] = f
  BY <1>3, <1>5, AppendOf
<1>9. ASSUME NEW i \in DOMAIN fs PROVE u[i] = fs[i]
  BY <1>3, <1>5, <1>9, AppendOf
<1>10. PICK t : t = [Top(w) EXCEPT !.frames = u]
  OBVIOUS
<1>11. t \in Task /\ t.stat = "STARTED" /\ t.frames = u
       /\ t.rslt = Top(w).rslt /\ t.body = Top(w).body
  BY <1>1, <1>6, <1>10 DEF Task, TaskStat
<1>12. task' = [task EXCEPT ![w] = WithTop(task[w], t)]
  BY <1>2, <1>4, <1>5, <1>10
<1>13. pc'[w] \in {"run", "spawn"} /\ \A v \in Worker \ {w} : pc'[v] = pc[v]
  BY <1>1 DEF TypeOK
<1>14. TypeOK'
  <2>1. task' \in [Worker -> Seq(Task)]
    BY <1>1, <1>11, <1>12, TopReplaced
  <2> QED
    BY <1>1, <2>1 DEF TypeOK
<1>15. \A i \in DOMAIN fs : i \in DOMAIN u /\ u[i] = fs[i]
  BY <1>7, <1>9
<1>16. \A i \in DOMAIN u : i \in DOMAIN fs \/ (u[i].spawned = 0 /\ ~u[i].stat2)
  BY <1>2, <1>7, <1>8
<1>17. \A i \in DOMAIN Top(w).frames : Top(w).frames[i].spawned # 0 =>
         i \in DOMAIN t.frames /\ t.frames[i].spawned = Top(w).frames[i].spawned
  BY <1>4, <1>11, <1>15
<1>18. \A i \in DOMAIN t.frames :
         /\ t.frames[i].spawned # 0 =>
              /\ i \in DOMAIN Top(w).frames
              /\ t.frames[i].spawned = Top(w).frames[i].spawned
              /\ t.frames[i].node = Top(w).frames[i].node
         /\ t.frames[i].stat2 => t.frames[i].spawned = 0
  BY <1>1, <1>4, <1>11, <1>15, <1>16
<1> QED
  BY <1>1, <1>11, <1>12, <1>13, <1>14, <1>17, <1>18, QuietEntry
  DEF TopStat, NoFrames, Expecting, Live

LEMMA RunStat2Inv ==
  ASSUME IInv, NEW w \in Worker, RunStat2(w)
  PROVE  IInv'
<1> USE DEF RunStat2
<1>1. /\ TypeOK /\ task[w] # <<>> /\ Top(w) \in Task /\ Top(w).frames \in Seq(Frame)
      /\ Top(w).stat = "STARTED"
      /\ \A i \in DOMAIN Top(w).frames :
           Top(w).frames[i].stat2 => Top(w).frames[i].spawned = 0
  BY AtTop DEF TopStat
<1>2. PICK fs \in Seq(Frame) : fs = Top(w).frames
  BY <1>1
<1>3. fs # <<>> /\ Last(fs).spawned = 0
  BY <1>2
<1>4. Last(fs) = fs[Len(fs)] /\ Last(fs) \in Frame
  BY <1>3, LastOf
<1>5. PICK f : f = [Last(fs) EXCEPT !.stat2 = TRUE]
  OBVIOUS
<1>6. f \in Frame /\ f.spawned = 0
  BY <1>3, <1>4, <1>5 DEF Frame
<1>7. PICK u : u = WithTop(fs, f)
  OBVIOUS
<1>8. u \in Seq(Frame) /\ DOMAIN u = 1..Len(fs) /\ DOMAIN fs = 1..Len(fs)
  BY <1>3, <1>6, <1>7, WithTopOf
<1>9. u[Len(fs)] = f
  <2>1. WithTop(fs, f)[Len(fs)] = f
    BY <1>3, <1>6, WithTopOf
  <2> QED
    BY <1>7, <2>1
<1>10. ASSUME NEW i \in DOMAIN fs, i # Len(fs) PROVE u[i] = fs[i]
  BY <1>3, <1>6, <1>7, <1>10, WithTopAt
<1>11. PICK t : t = [Top(w) EXCEPT !.frames = u, !.ret = FALSE]
  OBVIOUS
<1>12. t \in Task /\ t.stat = "STARTED" /\ t.frames = u
       /\ t.rslt = Top(w).rslt /\ t.body = Top(w).body
  BY <1>1, <1>8, <1>11 DEF Task, TaskStat
<1>13. task' = [task EXCEPT ![w] = WithTop(task[w], t)]
  BY <1>2, <1>5, <1>7, <1>11
<1>14. TypeOK'
  <2>1. task' \in [Worker -> Seq(Task)]
    BY <1>1, <1>12, <1>13, TopReplaced
  <2> QED
    BY <1>1, <2>1 DEF TypeOK
<1>15. \A i \in DOMAIN Top(w).frames : Top(w).frames[i].spawned # 0 =>
         i \in DOMAIN t.frames /\ t.frames[i].spawned = Top(w).frames[i].spawned
  BY <1>2, <1>3, <1>4, <1>8, <1>10, <1>12
<1>16. \A i \in DOMAIN t.frames :
         /\ t.frames[i].spawned # 0 =>
              /\ i \in DOMAIN Top(w).frames
              /\ t.frames[i].spawned = Top(w).frames[i].spawned
              /\ t.frames[i].node = Top(w).frames[i].node
         /\ t.frames[i].stat2 => t.frames[i].spawned = 0
  BY <1>1, <1>2, <1>6, <1>8, <1>9, <1>10, <1>12
<1> QED
  BY <1>1, <1>12, <1>13, <1>14, <1>15, <1>16, QuietEntry
  DEF TopStat, NoFrames, Expecting, Live

LEMMA EndDoTwoInv ==
  ASSUME IInv, NEW w \in Worker, EndDoTwo(w)
  PROVE  IInv'
<1> USE DEF EndDoTwo, FinishDoTwo
<1>1. /\ TypeOK /\ task[w] # <<>> /\ Top(w) \in Task /\ Top(w).frames \in Seq(Frame)
      /\ Top(w).stat = "STARTED"
      /\ \A i \in DOMAIN Top(w).frames :
           Top(w).frames[i].stat2 => Top(w).frames[i].spawned = 0
  BY AtTop DEF TopStat
<1>2. PICK fs \in Seq(Frame) : fs = Top(w).frames
  BY <1>1
<1>3. fs # <<>> /\ Last(fs).stat2 /\ Last(fs) = fs[Len(fs)] /\ Len(fs) \in DOMAIN fs
  BY <1>2, LastOf
<1>4. fs[Len(fs)].spawned = 0
  BY <1>1, <1>2, <1>3
<1>5. PICK u : u = Front(fs)
  OBVIOUS
<1>6. u \in Seq(Frame) /\ DOMAIN u = 1..(Len(fs) - 1) /\ DOMAIN fs = 1..Len(fs)
      /\ Len(fs) \in Nat \ {0}
  BY <1>3, <1>5, FrontOf
<1>7. ASSUME NEW i \in DOMAIN u PROVE u[i] = fs[i]
  BY <1>3, <1>5, <1>7, FrontOf
<1>8. PICK t : t = [Top(w) EXCEPT !.stat = "STARTED", !.frames = u]
  OBVIOUS
<1>9. t \in Task /\ t.stat = "STARTED" /\ t.frames = u
      /\ t.rslt = Top(w).rslt /\ t.body = Top(w).body
  BY <1>1, <1>6, <1>8 DEF Task, TaskStat
<1>10. task' = [task EXCEPT ![w] = WithTop(task[w], t)]
  BY <1>2, <1>5, <1>8
<1>11. TypeOK'
  <2>1. task' \in [Worker -> Seq(Task)]
    BY <1>1, <1>9, <1>10, TopReplaced
  <2>2. runs' \in [Node -> Nat]
    <3>1. Last(Top(w).frames).node \in Node
      BY <1>1, CurrentNode
    <3> QED
      BY <1>1, <3>1 DEF TypeOK
  <2> QED
    BY <1>1, <2>1, <2>2 DEF TypeOK
<1>12. \A i \in DOMAIN Top(w).frames : Top(w).frames[i].spawned # 0 =>
         i \in DOMAIN t.frames /\ t.frames[i].spawned = Top(w).frames[i].spawned
  <2>1. ASSUME NEW i \in DOMAIN fs, fs[i].spawned # 0 PROVE i \in DOMAIN u
    BY <1>4, <1>6, <2>1
  <2> QED
    BY <1>2, <1>7, <1>9, <2>1
<1>13. \A i \in DOMAIN t.frames :
         /\ t.frames[i].spawned # 0 =>
              /\ i \in DOMAIN Top(w).frames
              /\ t.frames[i].spawned = Top(w).frames[i].spawned
              /\ t.frames[i].node = Top(w).frames[i].node
         /\ t.frames[i].stat2 => t.frames[i].spawned = 0
  <2>1. ASSUME NEW i \in DOMAIN u PROVE i \in DOMAIN fs
    BY <1>6, <2>1
  <2> QED
    BY <1>1, <1>2, <1>7, <1>9, <2>1
<1> QED
  BY <1>1, <1>9, <1>10, <1>11, <1>12, <1>13, QuietEntry
  DEF TopStat, NoFrames, Expecting, Live

LEMMA WaitRsltInv ==
  ASSUME IInv, NEW w \in Worker, WaitRslt(w)
  PROVE  IInv'
<1> USE DEF WaitRslt, SetStat, Goto
<1>1. /\ TypeOK /\ task[w] # <<>> /\ Top(w) \in Task
      /\ Top(w).stat \in {"STARTED", "SUSPENDED"}
      /\ \A i \in DOMAIN Top(w).frames :
           Top(w).frames[i].stat2 => Top(w).frames[i].spawned = 0
  BY AtTop DEF TopStat
<1>2. Top(w).frames # <<>> /\ Last(Top(w).frames).spawned # 0
  <2>1. Top(w) = task[w][Len(task[w])] /\ Len(task[w]) \in DOMAIN task[w]
    BY <1>1, TopOf
  <2> QED
    BY <2>1 DEF IInv, Frames
<1>3. PICK t : t = [Top(w) EXCEPT !.stat = "SUSPENDED"]
  OBVIOUS
<1>4. t \in Task /\ t.stat = "SUSPENDED" /\ t.frames = Top(w).frames
      /\ t.rslt = Top(w).rslt /\ t.body = Top(w).body
  BY <1>1, <1>3 DEF Task, TaskStat
<1>5. task' = [task EXCEPT ![w] = WithTop(task[w], t)]
  BY <1>3
<1>6. pc'[w] = "enter" /\ \A v \in Worker \ {w} : pc'[v] = pc[v]
  BY <1>1 DEF TypeOK
<1>7. TypeOK'
  <2>1. task' \in [Worker -> Seq(Task)]
    BY <1>1, <1>4, <1>5, TopReplaced
  <2> QED
    BY <1>1, <2>1 DEF TypeOK
<1>8. \A i \in DOMAIN Top(w).frames : Top(w).frames[i].spawned # 0 =>
        i \in DOMAIN t.frames /\ t.frames[i].spawned = Top(w).frames[i].spawned
  BY <1>4
<1>9. \A i \in DOMAIN t.frames :
        /\ t.frames[i].spawned # 0 =>
             /\ i \in DOMAIN Top(w).frames
             /\ t.frames[i].spawned = Top(w).frames[i].spawned
             /\ t.frames[i].node = Top(w).frames[i].node
        /\ t.frames[i].stat2 => t.frames[i].spawned = 0
  BY <1>1, <1>4
<1>10. t.frames # <<>> /\ Last(t.frames).spawned # 0
  BY <1>2, <1>4
<1>11. t.stat \in TopStat(pc'[w]) /\ Top(w).stat \in Live /\ t.stat \in Live /\ ~NoFrames(pc'[w])
  BY <1>1, <1>4, <1>6 DEF TopStat, Live, NoFrames
<1>12. /\ pc[w] \notin {"rack", "count", "done", "drain", "reply", "sleep"}
       /\ pc'[w] \notin {"flush", "ask", "reply", "sleep", "nap", "rack", "count", "done"}
       /\ ~Expecting(w)
  BY <1>6 DEF Expecting
<1>13. sub' = sub /\ treq' = treq /\ wnone' = wnone /\ outside'.treq = outside.treq
  OBVIOUS
<1> HIDE DEF WaitRslt, SetStat, Goto
<1> QED
  BY <1>1, <1>4, <1>5, <1>6, <1>7, <1>8, <1>9, <1>10, <1>11, <1>12, <1>13, QuietEntry

LEMMA DeallocateTaskInv ==
  ASSUME IInv, NEW w \in Worker, DeallocateTask(w)
  PROVE  IInv'
<1> USE DEF DeallocateTask, Goto
<1>1. TypeOK /\ Stacks(w) /\ Frames(w) /\ NoneBound(w) /\ Nesting(w)
  BY DEF IInv
<1>2. task[w] # <<>> /\ Top(w).stat = "DONE" /\ Top(w).frames = <<>>
  BY AtTop DEF TopStat, NoFrames
<1>3. PICK s \in Seq(Task) : s = task[w]
  BY <1>1 DEF TypeOK
<1>4. PICK u : u = Front(s)
  OBVIOUS
<1>5. PICK n \in Nat : n = Len(s)
  BY <1>3, LenProperties
<1>6. u \in Seq(Task) /\ DOMAIN s = 1..n /\ DOMAIN u = 1..(n - 1) /\ Len(u) = n - 1
  BY <1>2, <1>3, <1>4, <1>5, FrontOf
<1>7. u = <<>> <=> n = 1
  BY <1>2, <1>3, <1>4, <1>5, FrontOf
<1>8. ASSUME NEW j \in DOMAIN u PROVE u[j] = s[j]
  BY <1>2, <1>3, <1>4, <1>8, FrontOf
<1>9. n # 0 /\ s[n] = Top(w) /\ n \in DOMAIN s
  BY <1>1, <1>2, <1>3, <1>5, TopOf
<1>10. /\ task'[w] = u /\ pc'[w] = (IF n = 1 THEN "enter" ELSE "wait")
       /\ \A v \in Worker \ {w} : Same(v)
  BY <1>1, <1>3, <1>4, <1>5 DEF Same, FromAddr, TypeOK
<1>11. TypeOK'
  BY <1>1, <1>3, <1>4, <1>6 DEF TypeOK
<1>12. \A j \in DOMAIN u : u[j].stat = "SUSPENDED" /\ j \in DOMAIN s /\ u[j] = s[j]
  BY <1>1, <1>3, <1>5, <1>6, <1>8 DEF Stacks
<1>13. u # <<>> => Last(u) = u[n - 1] /\ n - 1 \in DOMAIN u
  <2>1. u # <<>> => Last(u) = u[Len(u)] /\ Len(u) \in DOMAIN u
    BY <1>6, LastOf
  <2> QED
    BY <1>6, <2>1
<1>14. Stacks(w)'
  <2>1. u # <<>> => Last(u).stat \in TopStat(pc'[w])
    BY <1>7, <1>10, <1>12, <1>13 DEF TopStat
  <2>2. \A j \in 1..(Len(u) - 1) : u[j].stat = "SUSPENDED"
    BY <1>6, <1>12
  <2>3. Top(w)' = Last(u)
    BY <1>10 DEF Top, Last
  <2> QED
    BY <1>7, <1>10, <2>1, <2>2, <2>3 DEF Stacks
<1>15. Frames(w)'
  <2>1. ~NoFrames(pc'[w])
    BY <1>10 DEF NoFrames
  <2>2. ASSUME NEW j \in DOMAIN u
        PROVE  u[j].frames # <<>> /\ Last(u[j].frames).spawned # 0
    <3>1. j \in DOMAIN task[w] /\ task[w][j].stat = "SUSPENDED" /\ task[w][j] = u[j]
      BY <1>3, <1>12
    <3>2. task[w][j].frames # <<>> /\ Last(task[w][j].frames).spawned # 0
      BY <1>1, <3>1 DEF Frames
    <3> QED
      BY <3>1, <3>2
  <2> QED
    BY <1>10, <2>1, <2>2 DEF Frames
<1>16. Nesting(w)'
  <2>1. 0 \notin DOMAIN sub[w]
    BY <1>1, StackTypes
  <2>2. DOMAIN <<>> = {}
    BY EmptySeq
  <2>3. ASSUME NEW j \in DOMAIN task[w], NEW i \in DOMAIN task[w][j].frames
        PROVE  j \in DOMAIN u /\ u[j] = task[w][j]
    <3>1. j # n
      BY <1>2, <1>3, <1>9, <2>2, <2>3
    <3> QED
      BY <1>3, <1>6, <1>8, <3>1
  <2>4. ASSUME NEW j \in DOMAIN u
        PROVE  j \in DOMAIN task[w] /\ u[j] = task[w][j]
    BY <1>3, <1>12
  <2>5. \A j \in DOMAIN task[w] : \A i \in DOMAIN task[w][j].frames :
          task[w][j].frames[i].spawned # 0 =>
            /\ j \in DOMAIN task'[w] /\ i \in DOMAIN task'[w][j].frames
            /\ task'[w][j].frames[i].spawned = task[w][j].frames[i].spawned
    BY <1>10, <2>3
  <2>6. ASSUME NEW j \in DOMAIN task'[w], NEW i \in DOMAIN task'[w][j].frames
        PROVE  /\ task'[w][j].frames[i].spawned # 0 =>
                  /\ j \in DOMAIN task[w] /\ i \in DOMAIN task[w][j].frames
                  /\ task'[w][j].frames[i].spawned = task[w][j].frames[i].spawned
                  /\ task'[w][j].frames[i].node = task[w][j].frames[i].node
               /\ task'[w][j].frames[i].stat2 => task'[w][j].frames[i].spawned = 0
    <3>1. /\ j \in DOMAIN task[w] /\ i \in DOMAIN task[w][j].frames
          /\ task'[w][j].frames[i] = task[w][j].frames[i]
      BY <1>10, <2>4, <2>6
    <3>2. task[w][j].frames[i].stat2 => task[w][j].frames[i].spawned = 0
      BY <1>1, <3>1, NestingFrame
    <3> QED
      BY <3>1, <3>2
  <2> QED
    BY <1>1, <2>1, <2>5, <2>6, NestingKept
<1>17. Local(w)'
  BY <1>1, <1>10, <1>14, <1>15, <1>16 DEF Local, NoneBound
<1>18. Kept(w)
  <2>1. ~ task[w][n].stat \in Live
    BY <1>2, <1>3, <1>9 DEF Live
  <2>2. pc'[w] \notin {"rack", "count", "done"} /\ DOMAIN task[w] = 1..n
    BY <1>3, <1>6, <1>10
  <2>3. ASSUME NEW j \in DOMAIN task[w], Unsent(w, j)
        PROVE  j \in DOMAIN u /\ task'[w][j] = task[w][j] /\ Unsent(w, j)'
    <3>1. j # n /\ j \in DOMAIN u
      BY <1>6, <2>1, <2>2, <2>3 DEF Unsent
    <3>2. task'[w][j] = task[w][j]
      BY <1>3, <1>10, <1>12, <3>1
    <3> QED
      BY <2>2, <2>3, <3>1, <3>2 DEF Unsent, ResultSent
  <2>4. ASSUME NEW j \in DOMAIN task'[w]
        PROVE  /\ j \in DOMAIN task[w] /\ j # Len(task[w])
               /\ task'[w][j] = task[w][j]
    BY <1>3, <1>5, <1>6, <1>10, <1>12
  <2>5. StillRun(w)
    BY <1>10, <2>3 DEF StillRun
  <2> QED
    BY <2>4, <2>5 DEF Kept, Unsent, ResultSent
<1>19. LeavingKept(w)
  <2>1. ASSUME NEW q \in ToSet(treq[w]), q.waiting # TERM, Leaving(w, q.waiting)
        PROVE  FALSE
    <3>1. PICK i \in DOMAIN treq[w] : q = treq[w][i]
      BY ElementsOf
    <3>2. i \in ToFlush(w, Top(w).rslt)
      BY <2>1, <3>1 DEF Leaving, ToFlush
    <3> QED
      BY <3>2
  <2> QED
    BY <2>1 DEF LeavingKept
<1>20. Waits(w)
  BY <1>10 DEF Waits, Expecting
<1> QED
  BY <1>10, <1>11, <1>17, <1>18, <1>19, <1>20, QuietStep

(***************************************************************************)
(* Steps that change the requests, or who waits for an answer              *)
(***************************************************************************)
LEMMA OutsideRackInv ==
  ASSUME IInv, OutsideRack
  PROVE  IInv'
<1> USE DEF OutsideRack
<1>1. First \in Worker
  BY WorkerAssumption DEF WorkerAssumption
<1>2. TypeOK' /\ outside'.treq = outside.treq
  <2>1. TypeOK
    BY DEF IInv
  <2>2. wrack' \in [Worker -> Int]
    BY <1>1, <2>1 DEF TypeOK
  <2>3. /\ outside' \in [task : BOOLEAN, treq : BOOLEAN, rack : BOOLEAN]
        /\ outside'.treq = outside.treq
    BY <2>1 DEF TypeOK
  <2> QED
    BY <2>1, <2>2, <2>3 DEF TypeOK
<1>3. \A u \in Worker : Same(u)
  BY DEF Same, FromAddr
<1>4. Local(First)' /\ Kept(First) /\ LeavingKept(First) /\ Waits(First)
  BY <1>1, <1>3, SameLocal, SameKept DEF IInv, Local
<1> QED
  BY <1>1, <1>2, <1>3, <1>4, QuietStep

(* Who neither waits for an answer nor is owed one has no request anywhere. *)
LEMMA NoRequest ==
  ASSUME TypeOK, Requests, NEW w \in Worker, ~Expecting(w), wnone[w] # 1
  PROVE  /\ \A v \in Worker : \A q \in ToSet(treq[v]) : q.from # w
         /\ \A v \in Worker : \A i \in DOMAIN treq[v] : treq[v][i].from # w
         /\ outside.treq => w # First
<1>1. ASSUME NEW v \in Worker, NEW q \in ToSet(treq[v]) PROVE q.from # w
  BY DEF Requests, Accepted
<1>2. ASSUME NEW v \in Worker, NEW i \in DOMAIN treq[v] PROVE treq[v][i].from # w
  BY <1>1, ElementsOf
<1>3. outside.treq => w # First
  BY DEF Requests
<1> QED
  BY <1>1, <1>2, <1>3

LEMMA RequestType ==
  ASSUME TypeOK, NEW v \in Worker, NEW q \in ToSet(treq[v])
  PROVE  q \in Request /\ q.from \in Worker /\ q.waiting \in Address
  BY StackTypes, ElementsOf DEF Request

LEMMA ForwardTreqInv ==
  ASSUME IInv, NEW w \in Worker, ForwardTreq(w)
  PROVE  IInv'
<1> USE DEF ForwardTreq, Goto
<1>1. /\ TypeOK /\ task[w] # <<>> /\ Top(w).stat = "ALLOCATED" /\ Top(w).frames = <<>>
      /\ wnone[w] = 0
  BY AtTop DEF TopStat, NoFrames
<1>2. TypeOK' /\ outside'.treq
  BY <1>1 DEF TypeOK
<1>3. pc'[w] = "reply" /\ \A v \in Worker \ {w} : Same(v)
  BY <1>1 DEF Same, FromAddr, TypeOK
<1>4. PICK t : t = Top(w)
  OBVIOUS
<1>5. NewTop(w, t)
  BY <1>1, <1>4, TopOf, StackTypes DEF NewTop, Top
<1>6. Local(w)'
  <2>1. Stacks(w)' /\ Frames(w)'
    BY <1>1, <1>3, <1>4, <1>5, NewTopLocal DEF IInv, TopStat
  <2>2. Nesting(w)' /\ NoneBound(w)'
    BY <1>1, NestingUnchanged DEF IInv, NoneBound
  <2> QED
    BY <2>1, <2>2 DEF Local
<1>7. \A v \in Worker : Local(v)'
  BY <1>3, <1>6, SameLocal DEF IInv, Local
<1>8. Kept(w) /\ LeavingKept(w)
  BY <1>3 DEF Kept, StillRun, Unsent, ResultSent, LeavingKept, Leaving
<1>9. /\ \A v \in Worker : Kept(v) /\ LeavingKept(v)
      /\ \A v \in Worker \ {w} : Waits(v)
  BY <1>3, <1>8, SameKept
<1>10. Homes' /\ Executors'
  BY <1>1, <1>9, HomesKept DEF IInv
<1>11. ~Expecting(w)
  BY DEF Expecting
<1>12. /\ \A v \in Worker : \A q \in ToSet(treq[v]) : q.from # w
       /\ \A v \in Worker : \A i \in DOMAIN treq[v] : treq[v][i].from # w
  BY <1>1, <1>11, NoRequest DEF IInv
<1>13. ASSUME NEW v \in Worker, NEW q \in ToSet(treq'[v]) PROVE Accepted(v, q)'
  BY <1>1, <1>9, <1>12, AcceptedKept, RequestType DEF IInv, Requests
<1>14. Expecting(First)' /\ Len(task'[First]) = 1
  BY <1>1, <1>3 DEF Expecting, AsksAny, Top
<1>15. Requests'
  BY <1>12, <1>13, <1>14 DEF IInv, Requests
<1> QED
  BY <1>2, <1>7, <1>10, <1>15 DEF IInv, Local

(* The entry on top, which has no do-two, is replaced. *)
LEMMA EmptyTop ==
  ASSUME IInv, NEW w \in Worker, task[w] # <<>>, Top(w).frames = <<>>, sub'[w] = sub[w],
         NEW t, NewTop(w, t), t.frames = <<>>, t.stat \in TopStat(pc'[w]),
         t.stat # "SUSPENDED", pc'[w] # "wait", wnone'[w] \in {0, 1},
         pc'[w] \in {"flush", "ask", "reply", "sleep", "nap"} => wnone'[w] = 0
  PROVE  Local(w)'
<1>1. TypeOK /\ Stacks(w) /\ Frames(w) /\ Nesting(w)
  BY DEF IInv
<1>2. Stacks(w)' /\ Frames(w)'
  BY <1>1, NewTopLocal
<1>3. DOMAIN <<>> = {}
  BY EmptySeq
<1>4. Nesting(w)'
  BY <1>1, <1>3, TopNesting
<1> QED
  BY <1>2, <1>4 DEF Local, NoneBound

(* Who steals back a subtask that is completed has another task below. *)
LEMMA DoneSubBelow ==
  ASSUME IInv, NEW w \in Worker, SubDone(w), task[w] # <<>>, Top(w).frames = <<>>
  PROVE  Len(task[w]) # 1
<1>1. TypeOK /\ Nesting(w)
  BY DEF IInv
<1>2. Len(sub[w]) \in DOMAIN sub[w]
  BY <1>1, StackTypes, LastOf DEF SubDone
<1>3. PICK j \in DOMAIN task[w] : \E i \in DOMAIN task[w][j].frames : Spawned(w, j, i) = Len(sub[w])
  BY <1>1, <1>2 DEF Nesting
<1>4. DOMAIN <<>> = {} /\ Top(w) = task[w][Len(task[w])] /\ DOMAIN task[w] = 1..Len(task[w])
  BY <1>1, TopOf, EmptySeq
<1>5. j # Len(task[w])
  BY <1>3, <1>4
<1> QED
  BY <1>4, <1>5

(* Nobody executes a subtask that is completed. *)
LEMMA DoneSubNotRun ==
  ASSUME IInv, NEW w \in Worker, SubDone(w), NEW v \in Worker, NEW j \in DOMAIN task[v],
         Unsent(v, j)
  PROVE  task[v][j].rslt # FromAddr(w)
<1>1. HasHome(v, j)
  BY DEF IInv, Homes
<1>2. sub[w] \in Seq(TaskHome) /\ sub[w] # <<>> /\ Last(sub[w]).stat = "DONE"
  BY StackTypes DEF IInv, SubDone
<1>3. Last(sub[w]) = sub[w][Len(sub[w])]
  BY <1>2, LastOf
<1>4. FromAddr(w) = <<w, Len(sub[w])>>
  BY <1>2 DEF FromAddr
<1> QED
  BY <1>1, <1>2, <1>3, <1>4 DEF HasHome

LEMMA AbandonInv ==
  ASSUME IInv, NEW w \in Worker, Abandon(w)
  PROVE  IInv'
<1> USE DEF Abandon, GiveUp, Goto
<1>1. /\ TypeOK /\ task[w] # <<>> /\ Top(w) \in Task /\ Top(w).stat \in {"NONE", "ALLOCATED"}
      /\ Top(w).frames = <<>> /\ wnone[w] = 0
  BY AtTop DEF TopStat, NoFrames
<1>2. PICK head \in {treq[w][i].waiting : i \in DOMAIN treq[w]} \cup {TERM} :
        task' = [task EXCEPT ![w] = WithTop(@, [Top(w) EXCEPT !.stat = "DONE", !.rslt = head])]
  OBVIOUS
<1>3. head \in Address
  BY <1>1, <1>2, StackTypes DEF Request, Address
<1>4. PICK t : t = [Top(w) EXCEPT !.stat = "DONE", !.rslt = head]
  OBVIOUS
<1>5. t \in Task /\ t.stat = "DONE" /\ t.frames = <<>>
  BY <1>1, <1>3, <1>4 DEF Task, TaskStat
<1>6. task' = [task EXCEPT ![w] = WithTop(task[w], t)]
  BY <1>2, <1>4
<1>7. pc'[w] = "drain" /\ \A v \in Worker \ {w} : pc'[v] = pc[v]
  BY <1>1 DEF TypeOK
<1>8. wnone' \in [Worker -> Nat] /\ \A v \in Worker \ {w} : wnone'[v] = wnone[v]
  BY <1>1 DEF TypeOK
<1>9. TypeOK'
  <2>1. task' \in [Worker -> Seq(Task)]
    BY <1>1, <1>5, <1>6, TopReplaced
  <2> QED
    BY <1>1, <1>8, <2>1 DEF TypeOK
<1>10. NewTop(w, t) /\ \A v \in Worker \ {w} : task'[v] = task[v]
  BY <1>1, <1>5, <1>6, TopReplaced
<1>11. CASE Top(w).stat = "NONE"
  <2>1. wnone' = wnone
    BY <1>1, <1>11 DEF TypeOK
  <2>2. DOMAIN <<>> = {}
    BY EmptySeq
  <2> QED
    BY <1>1, <1>5, <1>6, <1>7, <1>9, <1>11, <2>1, <2>2, QuietEntry
    DEF TopStat, Expecting, Live
<1>12. CASE Top(w).stat = "ALLOCATED"
  <2>1. wnone'[w] = 1 /\ Expecting(w)
    BY <1>1, <1>12 DEF TypeOK, Expecting
  <2>2. \A v \in Worker \ {w} : Same(v)
    BY <1>7, <1>8, <1>10 DEF Same, FromAddr
  <2>3. Local(w)'
    BY <1>1, <1>5, <1>7, <1>10, <2>1, EmptyTop DEF TopStat
  <2>4. \A v \in Worker : Local(v)'
    BY <2>2, <2>3, SameLocal DEF IInv, Local
  <2>5. Kept(w)
    <3>1. Len(task[w]) \in DOMAIN task[w] /\ Top(w) = task[w][Len(task[w])]
      BY <1>1, TopOf
    <3> QED
      BY <1>5, <1>7, <1>10, <1>12, <3>1 DEF Kept, StillRun, Unsent, NewTop, ResultSent, Live
  <2>6. LeavingKept(w)
    BY DEF LeavingKept, Leaving
  <2>7. /\ \A v \in Worker : Kept(v) /\ LeavingKept(v)
        /\ \A v \in Worker \ {w} : Waits(v)
    BY <2>2, <2>5, <2>6, SameKept
  <2>8. Homes' /\ Executors'
    BY <1>1, <2>7, HomesKept DEF IInv
  <2>9. ASSUME NEW v \in Worker, NEW q \in ToSet(treq'[v]) PROVE Accepted(v, q)'
    <3>1. Accepted(v, q) /\ q \in ToSet(treq[v])
      BY <2>9 DEF IInv, Requests
    <3>2. CASE q.from # w
      BY <1>1, <2>7, <3>1, <3>2, AcceptedKept, RequestType
    <3>3. CASE q.from = w
      <4>1. q.waiting # TERM
        BY <1>1, <3>1, <3>3, DoneSubBelow DEF Accepted
      <4>2. q.waiting = FromAddr(w) =>
              ~ \E j \in DOMAIN task[v] : Unsent(v, j) /\ task[v][j].rslt = q.waiting
        BY DoneSubNotRun
      <4>3. Leaving(v, q.waiting)
        BY <3>1, <3>3, <4>1, <4>2 DEF Accepted
      <4>4. Leaving(v, q.waiting)'
        BY <2>7, <3>1, <4>1, <4>3 DEF LeavingKept
      <4>5. ~Expecting(w)' /\ wnone'[w] = 1
        BY <1>1, <1>6, <2>1 DEF TypeOK, Expecting
      <4> QED
        BY <3>3, <4>1, <4>4, <4>5 DEF Accepted
    <3> QED
      BY <3>2, <3>3
  <2>10. outside'.treq => First # w
    BY <1>1, DoneSubBelow DEF IInv, Requests
  <2>11. outside'.treq => Expecting(First)' /\ Len(task'[First]) = 1
    BY <2>7, <2>10, WorkerAssumption DEF WorkerAssumption, IInv, Requests, Waits
  <2>12. Requests'
    BY <2>9, <2>11 DEF IInv, Requests
  <2> QED
    BY <1>9, <2>4, <2>8, <2>12 DEF IInv, Local
<1> QED
  BY <1>1, <1>11, <1>12

LEMMA FromAddrOf ==
  ASSUME TypeOK, NEW w \in Worker
  PROVE  /\ FromAddr(w) \in Address
         /\ sub[w] # <<>> => FromAddr(w) # TERM /\ FromAddr(w) # OUTSIDE
<1>1. Len(sub[w]) \in Nat /\ sub[w] \in Seq(TaskHome)
  BY StackTypes
<1>2. CASE sub[w] = <<>>
  BY <1>2 DEF FromAddr, Address
<1>3. CASE sub[w] # <<>>
  <2>1. FromAddr(w) = <<w, Len(sub[w])>> /\ Len(sub[w]) \in Nat \ {0}
    BY <1>1, <1>3, LastOf DEF FromAddr
  <2> QED
    BY <2>1 DEF Address, TERM, OUTSIDE
<1> QED
  BY <1>2, <1>3

LEMMA TryTreqAcceptedInv ==
  ASSUME IInv, NEW w \in Worker, NEW v \in Worker, TryTreqAccepted(w, v)
  PROVE  IInv'
<1> USE DEF TryTreqAccepted, Goto
<1>1. /\ TypeOK /\ task[w] # <<>> /\ Top(w).stat = "ALLOCATED" /\ Top(w).frames = <<>>
      /\ wnone[w] = 0
  BY AtTop DEF TopStat, NoFrames
<1>2. PICK r : r = [from |-> w, waiting |-> IF AsksAny(w) THEN TERM ELSE FromAddr(w)]
  OBVIOUS
<1>3. r \in Request /\ r.from = w
  BY <1>1, <1>2, FromAddrOf DEF Request, Address
<1>4. PICK s \in Seq(Request) : s = treq[v]
  BY <1>1 DEF TypeOK
<1>5. PICK u : u = Append(s, r)
  OBVIOUS
<1>6. u \in Seq(Request) /\ DOMAIN s = 1..Len(s) /\ DOMAIN u = 1..(Len(s) + 1) /\ Len(s) \in Nat
  BY <1>3, <1>5, AppendOf
<1>7. u[Len(s) + 1] = r
  BY <1>3, <1>5, AppendOf
<1>8. ASSUME NEW i \in DOMAIN s PROVE u[i] = s[i]
  BY <1>3, <1>5, <1>8, AppendOf
<1>9. treq'[v] = u /\ \A x \in Worker \ {v} : treq'[x] = treq[x]
  BY <1>1, <1>2, <1>4, <1>5 DEF TypeOK
<1>10. TypeOK'
  BY <1>1, <1>2, <1>4, <1>5, <1>6 DEF TypeOK
<1>11. pc'[w] = "reply" /\ \A x \in Worker \ {w} : Same(x)
  BY <1>1 DEF Same, FromAddr, TypeOK
<1>12. PICK t : t = Top(w)
  OBVIOUS
<1>13. NewTop(w, t)
  BY <1>1, <1>12, TopOf, StackTypes DEF NewTop, Top
<1>14. Local(w)'
  BY <1>1, <1>11, <1>12, <1>13, EmptyTop DEF TopStat
<1>15. \A x \in Worker : Local(x)'
  BY <1>11, <1>14, SameLocal DEF IInv, Local
<1>16. Kept(w) /\ LeavingKept(w)
  BY <1>11 DEF Kept, StillRun, Unsent, ResultSent, LeavingKept, Leaving
<1>17. /\ \A x \in Worker : Kept(x) /\ LeavingKept(x)
       /\ \A x \in Worker \ {w} : Waits(x)
  BY <1>11, <1>16, SameKept
<1>18. Homes' /\ Executors'
  BY <1>1, <1>17, HomesKept DEF IInv
<1>19. ~Expecting(w) /\ Expecting(w)' /\ FromAddr(w)' = FromAddr(w)
  BY <1>1, <1>11 DEF Expecting, Top, FromAddr
<1>20. /\ \A x \in Worker : \A q \in ToSet(treq[x]) : q.from # w
       /\ \A x \in Worker : \A i \in DOMAIN treq[x] : treq[x][i].from # w
       /\ outside.treq => w # First
  BY <1>1, <1>19, NoRequest DEF IInv
<1>21. Accepted(v, r)'
  <2>1. CASE AsksAny(w)
    BY <1>2, <1>19, <2>1 DEF Accepted, AsksAny
  <2>2. CASE ~AsksAny(w)
    <3>1. sub[w] # <<>>
      BY <1>1, <2>2, StealsFrom DEF IInv
    <3>2. r.waiting = FromAddr(w) /\ r.waiting # TERM /\ r.waiting # OUTSIDE
      BY <1>1, <1>2, <2>2, <3>1, FromAddrOf
    <3>3. PICK j \in DOMAIN task[v] : task[v][j].stat \in Live /\ task[v][j].rslt = r.waiting
      BY <2>2, <3>2 DEF Accepts, HaveTask, Live
    <3>4. CASE Unsent(v, j)
      <4>1. j \in DOMAIN task'[v] /\ Unsent(v, j)' /\ task'[v][j].rslt = r.waiting
        BY <1>17, <3>3, <3>4 DEF Kept, StillRun
      <4> QED
        BY <1>3, <1>19, <3>2, <4>1 DEF Accepted
    <3>5. CASE ~Unsent(v, j)
      <4>1. j = Len(task[v]) /\ pc[v] \in {"rack", "count", "done"}
        BY <3>2, <3>3, <3>5 DEF Unsent, ResultSent
      <4>2. Top(v) = task[v][j]
        BY <1>1, <3>3, <4>1, TopOf, EmptySeq
      <4>3. Leaving(v, r.waiting) /\ v # w
        BY <3>3, <4>1, <4>2 DEF Leaving
      <4>4. Leaving(v, r.waiting)'
        BY <1>11, <4>3 DEF Leaving, Same, Top, Woken
      <4> QED
        BY <1>3, <1>19, <3>2, <4>4 DEF Accepted
    <3> QED
      BY <3>4, <3>5
  <2> QED
    BY <2>1, <2>2
<1>22. ASSUME NEW x \in Worker, NEW q \in ToSet(treq'[x]) PROVE Accepted(x, q)'
  <2>1. q \in ToSet(treq[x]) \/ (x = v /\ q = r)
    <3>1. PICK i \in DOMAIN treq'[x] : q = treq'[x][i]
      BY ElementsOf
    <3>2. CASE x = v /\ i = Len(s) + 1
      BY <1>7, <1>9, <3>1, <3>2
    <3>3. CASE ~(x = v /\ i = Len(s) + 1)
      <4>1. i \in DOMAIN treq[x] /\ q = treq[x][i]
        BY <1>4, <1>6, <1>8, <1>9, <3>1, <3>3
      <4> QED
        BY <4>1, ElementsOf
    <3> QED
      BY <3>2, <3>3
  <2>2. CASE q \in ToSet(treq[x])
    BY <1>1, <1>17, <1>20, <2>2, AcceptedKept, RequestType DEF IInv, Requests
  <2> QED
    BY <1>21, <2>1, <2>2
<1>23. ASSUME NEW x \in Worker, NEW y \in Worker,
              NEW i \in DOMAIN treq'[x], NEW k \in DOMAIN treq'[y],
              treq'[x][i].from = treq'[y][k].from
       PROVE  x = y /\ i = k
  <2>1. \/ x = v /\ i = Len(s) + 1 /\ treq'[x][i].from = w
        \/ i \in DOMAIN treq[x] /\ treq'[x][i] = treq[x][i] /\ treq[x][i].from # w
    BY <1>3, <1>4, <1>6, <1>7, <1>8, <1>9, <1>20
  <2>2. \/ y = v /\ k = Len(s) + 1 /\ treq'[y][k].from = w
        \/ k \in DOMAIN treq[y] /\ treq'[y][k] = treq[y][k] /\ treq[y][k].from # w
    BY <1>3, <1>4, <1>6, <1>7, <1>8, <1>9, <1>20
  <2> QED
    BY <1>23, <2>1, <2>2 DEF IInv, Requests
<1>24. ASSUME outside'.treq
       PROVE  /\ Expecting(First)' /\ Len(task'[First]) = 1
              /\ \A x \in Worker : \A i \in DOMAIN treq'[x] : treq'[x][i].from # First
  <2>1. Expecting(First) /\ Len(task[First]) = 1 /\ First # w
    BY <1>20, <1>24 DEF IInv, Requests
  <2>2. Expecting(First)' /\ Len(task'[First]) = 1
    BY <1>17, <2>1, WorkerAssumption DEF WorkerAssumption, Waits
  <2>3. ASSUME NEW x \in Worker, NEW i \in DOMAIN treq'[x] PROVE treq'[x][i].from # First
    <3>1. \/ treq'[x][i].from = w
          \/ i \in DOMAIN treq[x] /\ treq'[x][i] = treq[x][i]
      BY <1>3, <1>4, <1>6, <1>7, <1>8, <1>9
    <3> QED
      BY <1>24, <2>1, <3>1 DEF IInv, Requests
  <2> QED
    BY <2>2, <2>3
<1>25. Requests'
  BY <1>22, <1>23, <1>24 DEF Requests
<1> QED
  BY <1>10, <1>15, <1>18, <1>25 DEF IInv, Local

(* recv-none in a worker that waits for an answer, or is still owed one *)
LEMMA NoneReceived ==
  ASSUME IInv, NEW r \in Worker, RecvNone(r, pc), sub' = sub, treq' \in [Worker -> Seq(Request)],
         Expecting(r) \/ wnone[r] = 1
  PROVE  /\ task' \in [Worker -> Seq(Task)] /\ wnone' \in [Worker -> Nat]
         /\ pc' \in [Worker -> {"enter", "nonewait", "nonewake", "flush", "ask", "reply",
                                "sleep", "nap", "run", "spawn", "rslt", "rack", "count",
                                "done", "drain", "wait"}]
         /\ \A v \in Worker : Local(v)' /\ Kept(v) /\ LeavingKept(v)
         /\ \A v \in Worker \ {r} : Waits(v)
<1>1. TypeOK /\ Stacks(r) /\ Frames(r) /\ NoneBound(r) /\ Nesting(r)
  BY DEF IInv
<1>2. pc' \in [Worker -> {"enter", "nonewait", "nonewake", "flush", "ask", "reply",
                          "sleep", "nap", "run", "spawn", "rslt", "rack", "count",
                          "done", "drain", "wait"}]
      /\ pc'[r] = Woken(pc[r]) /\ \A v \in Worker \ {r} : pc'[v] = pc[v]
  BY <1>1 DEF RecvNone, TypeOK, Woken
<1>3. CASE wnone[r] > 0
  <2>1. task' = task /\ wnone' = [wnone EXCEPT ![r] = wnone[r] - 1]
    BY <1>3 DEF RecvNone
  <2>2. wnone[r] = 1 /\ wnone'[r] = 0 /\ wnone' \in [Worker -> Nat]
    BY <1>1, <1>3, <2>1 DEF NoneBound, TypeOK
  <2>3. \A v \in Worker \ {r} : Same(v)
    BY <1>1, <1>2, <2>1 DEF Same, FromAddr, TypeOK
  <2>4. pc[r] \notin {"flush", "ask", "reply", "sleep", "nap"}
    BY <1>1, <2>2 DEF NoneBound
  <2>5. Stacks(r)'
    BY <1>1, <1>2, <2>1, <2>4 DEF Stacks, TopStat, Top, Woken
  <2>6. Frames(r)'
    BY <1>1, <1>2, <2>1, <2>4 DEF Frames, NoFrames, Top, Woken
  <2>7. Nesting(r)'
    BY <1>1, <2>1, NestingUnchanged
  <2>8. Local(r)'
    BY <2>2, <2>5, <2>6, <2>7 DEF Local, NoneBound
  <2>9. Kept(r) /\ LeavingKept(r)
    BY <1>2, <2>1 DEF Kept, StillRun, Unsent, ResultSent, LeavingKept, Leaving, Top, Woken
  <2> QED
    BY <1>1, <1>2, <2>1, <2>2, <2>3, <2>8, <2>9, SameLocal, SameKept DEF IInv, Local, TypeOK
<1>4. CASE ~(wnone[r] > 0)
  <2>1. wnone[r] = 0
    BY <1>1, <1>4 DEF NoneBound
  <2>2. Expecting(r) /\ task[r] # <<>> /\ Top(r) \in Task /\ Top(r).frames = <<>>
        /\ Top(r).stat = "ALLOCATED"
    BY <2>1, AtTop DEF Expecting, NoFrames
  <2>3. PICK t : t = [Top(r) EXCEPT !.stat = "NONE"]
    OBVIOUS
  <2>4. t \in Task /\ t.stat = "NONE" /\ t.frames = <<>>
    BY <2>2, <2>3 DEF Task, TaskStat
  <2>5. task' = [task EXCEPT ![r] = WithTop(task[r], t)] /\ wnone' = wnone
    BY <1>4, <2>3 DEF RecvNone, SetStat
  <2>6. /\ task' \in [Worker -> Seq(Task)] /\ NewTop(r, t)
        /\ \A v \in Worker \ {r} : task'[v] = task[v]
    BY <1>1, <2>2, <2>4, <2>5, TopReplaced
  <2>7. \A v \in Worker \ {r} : Same(v)
    BY <1>2, <2>5, <2>6 DEF Same, FromAddr
  <2>8. pc'[r] = "reply"
    BY <1>2, <2>2 DEF Expecting, Woken
  <2>9. Local(r)'
    BY <2>1, <2>2, <2>4, <2>5, <2>6, <2>8, EmptyTop DEF TopStat
  <2>10. Kept(r)
    <3>1. Len(task[r]) \in DOMAIN task[r] /\ Top(r) = task[r][Len(task[r])]
      BY <1>1, <2>2, TopOf
    <3> QED
      BY <2>2, <2>4, <2>6, <2>8, <3>1 DEF Kept, StillRun, Unsent, NewTop, ResultSent, Live, Expecting
  <2>11. LeavingKept(r)
    BY <2>2 DEF LeavingKept, Leaving, Expecting
  <2> QED
    BY <1>1, <1>2, <2>5, <2>6, <2>7, <2>9, <2>10, <2>11, SameLocal, SameKept
    DEF IInv, Local, TypeOK
<1> QED
  BY <1>3, <1>4

LEMMA OutsideNoneInv ==
  ASSUME IInv, OutsideNone
  PROVE  IInv'
<1> USE DEF OutsideNone
<1>1. First \in Worker /\ TypeOK /\ Expecting(First)
      /\ \A v \in Worker : \A i \in DOMAIN treq[v] : treq[v][i].from # First
  BY WorkerAssumption DEF WorkerAssumption, IInv, Requests
<1>2. /\ task' \in [Worker -> Seq(Task)] /\ wnone' \in [Worker -> Nat]
      /\ pc' \in [Worker -> {"enter", "nonewait", "nonewake", "flush", "ask", "reply",
                             "sleep", "nap", "run", "spawn", "rslt", "rack", "count",
                             "done", "drain", "wait"}]
      /\ \A v \in Worker : Local(v)' /\ Kept(v) /\ LeavingKept(v)
      /\ \A v \in Worker \ {First} : Waits(v)
  BY <1>1, NoneReceived DEF TypeOK
<1>3. outside' \in [task : BOOLEAN, treq : BOOLEAN, rack : BOOLEAN] /\ ~outside'.treq
  BY <1>1 DEF TypeOK
<1>4. TypeOK'
  BY <1>1, <1>2, <1>3 DEF TypeOK
<1>5. Homes' /\ Executors'
  BY <1>1, <1>2, HomesKept DEF IInv
<1>6. ASSUME NEW v \in Worker, NEW q \in ToSet(treq'[v]) PROVE Accepted(v, q)'
  <2>1. q \in ToSet(treq[v]) /\ q.from # First
    BY <1>1, ElementsOf
  <2> QED
    BY <1>1, <1>2, <2>1, AcceptedKept, RequestType DEF IInv, Requests
<1>7. Requests'
  BY <1>3, <1>6 DEF IInv, Requests
<1> QED
  BY <1>2, <1>4, <1>5, <1>7 DEF IInv, Local

LEMMA OutsideTaskInv ==
  ASSUME IInv, OutsideTask
  PROVE  IInv'
<1> USE DEF OutsideTask
<1>1. First \in Worker /\ TypeOK /\ Expecting(First)
      /\ \A v \in Worker : \A i \in DOMAIN treq[v] : treq[v][i].from # First
  BY WorkerAssumption DEF WorkerAssumption, IInv, Requests
<1>2. /\ task[First] # <<>> /\ Top(First) \in Task /\ Top(First).frames = <<>>
      /\ Top(First).stat = "ALLOCATED" /\ wnone[First] = 0
  BY <1>1, AtTop DEF Expecting, NoFrames
<1>3. PICK t : t = [Top(First) EXCEPT !.stat = "INITIALIZED", !.rslt = OUTSIDE, !.body = Root]
  OBVIOUS
<1>4. t \in Task /\ t.stat = "INITIALIZED" /\ t.frames = <<>> /\ t.rslt = OUTSIDE
  BY <1>2, <1>3, ComputationAssumption
  DEF ComputationAssumption, Task, TaskStat, Address
<1>5. task' = [task EXCEPT ![First] = WithTop(task[First], t)]
  BY <1>3 DEF Initialized
<1>6. /\ task' \in [Worker -> Seq(Task)] /\ NewTop(First, t)
      /\ \A v \in Worker \ {First} : task'[v] = task[v]
  BY <1>1, <1>2, <1>4, <1>5, TopReplaced
<1>7. pc'[First] = "reply" /\ \A v \in Worker \ {First} : pc'[v] = pc[v]
  BY <1>1 DEF TypeOK, Woken, Expecting
<1>8. \A v \in Worker \ {First} : Same(v)
  BY <1>6, <1>7 DEF Same, FromAddr
<1>9. outside' \in [task : BOOLEAN, treq : BOOLEAN, rack : BOOLEAN] /\ ~outside'.treq
  BY <1>1 DEF TypeOK
<1>10. TypeOK'
  BY <1>1, <1>6, <1>9 DEF TypeOK, Woken
<1>11. Local(First)'
  BY <1>1, <1>2, <1>4, <1>6, <1>7, EmptyTop DEF TopStat
<1>12. \A v \in Worker : Local(v)'
  BY <1>8, <1>11, SameLocal DEF IInv, Local
<1>13. Kept(First)
  <2>1. Len(task[First]) \in DOMAIN task[First] /\ Top(First) = task[First][Len(task[First])]
    BY <1>1, <1>2, TopOf
  <2> QED
    BY <1>1, <1>2, <1>4, <1>6, <1>7, <2>1
    DEF Kept, StillRun, Unsent, NewTop, ResultSent, Live, Expecting
<1>14. LeavingKept(First)
  BY <1>1 DEF LeavingKept, Leaving, Expecting
<1>15. /\ \A v \in Worker : Kept(v) /\ LeavingKept(v)
       /\ \A v \in Worker \ {First} : Waits(v)
  BY <1>8, <1>13, <1>14, SameKept
<1>16. Homes' /\ Executors'
  BY <1>1, <1>15, HomesKept DEF IInv
<1>17. ASSUME NEW v \in Worker, NEW q \in ToSet(treq'[v]) PROVE Accepted(v, q)'
  <2>1. q \in ToSet(treq[v]) /\ q.from # First
    BY <1>1, ElementsOf
  <2> QED
    BY <1>1, <1>15, <2>1, AcceptedKept, RequestType DEF IInv, Requests
<1>18. Requests'
  BY <1>9, <1>17 DEF IInv, Requests
<1> QED
  BY <1>10, <1>12, <1>16, <1>18 DEF IInv, Local

(* flush-treq-with-none: the request refused is the only one of its sender. *)
LEMMA FlushOneInv ==
  ASSUME IInv, NEW w \in Worker, NEW head, FlushOne(w, head)
  PROVE  IInv'
<1>1. TypeOK
  BY DEF IInv
<1>2. PICK i \in DOMAIN treq[w] :
        /\ RecvNone(treq[w][i].from, pc)
        /\ treq' = [treq EXCEPT ![w] = RemoveAt(@, i)]
  BY DEF FlushOne, Topmost, ToFlush
<1>3. UNCHANGED <<sub, req, wrack, asking, direct, ackTo, outside, runs>>
  BY DEF FlushOne
<1>4. PICK r \in Worker : r = treq[w][i].from
  BY <1>1, StackTypes DEF Request
<1>5. RecvNone(r, pc)
  BY <1>2, <1>4
<1>6. Expecting(r) \/ wnone[r] = 1
  <2>1. treq[w][i] \in ToSet(treq[w])
    BY ElementsOf
  <2> QED
    BY <1>1, <1>4, <2>1, NoRequest DEF IInv
<1>7. PICK s \in Seq(Request) : s = treq[w]
  BY <1>1 DEF TypeOK
<1>8. PICK n \in Nat : n = Len(s)
  BY <1>7, LenProperties
<1>9. DOMAIN s = 1..n /\ i \in 1..Len(s)
  BY <1>7, <1>8, LenProperties
<1>10. PICK u : u = RemoveAt(s, i)
  OBVIOUS
<1>11. u \in Seq(Request)
  BY <1>9, <1>10, RemoveAtOf
<1>12. DOMAIN u = 1..(n - 1)
  BY <1>8, <1>9, <1>10, RemoveAtOf
<1>13. ASSUME NEW k \in 1..(n - 1) PROVE u[k] = s[IF k < i THEN k ELSE k + 1]
  BY <1>8, <1>9, <1>10, <1>13, RemoveAtOf
<1>14. treq'[w] = u /\ \A v \in Worker \ {w} : treq'[v] = treq[v]
  BY <1>1, <1>2, <1>7, <1>10 DEF TypeOK
<1>15. treq' \in [Worker -> Seq(Request)]
  BY <1>1, <1>2, <1>7, <1>10, <1>11 DEF TypeOK
<1>16. /\ task' \in [Worker -> Seq(Task)] /\ wnone' \in [Worker -> Nat]
       /\ pc' \in [Worker -> {"enter", "nonewait", "nonewake", "flush", "ask", "reply",
                              "sleep", "nap", "run", "spawn", "rslt", "rack", "count",
                              "done", "drain", "wait"}]
       /\ \A v \in Worker : Local(v)' /\ Kept(v) /\ LeavingKept(v)
       /\ \A v \in Worker \ {r} : Waits(v)
  BY <1>3, <1>5, <1>6, <1>15, NoneReceived
<1>17. TypeOK'
  BY <1>1, <1>3, <1>15, <1>16 DEF TypeOK
<1>18. Homes' /\ Executors'
  BY <1>1, <1>3, <1>16, HomesKept DEF IInv
<1> DEFINE Old(v, k) == IF v = w /\ k >= i THEN k + 1 ELSE k
<1>19. ASSUME NEW v \in Worker, NEW k \in DOMAIN treq'[v]
       PROVE  /\ Old(v, k) \in DOMAIN treq[v] /\ treq'[v][k] = treq[v][Old(v, k)]
              /\ treq'[v][k].from # r
  <2>1. Old(v, k) \in DOMAIN treq[v] /\ treq'[v][k] = treq[v][Old(v, k)]
    <3>1. CASE v = w
      <4>1. k \in 1..(n - 1) /\ treq'[v][k] = s[IF k < i THEN k ELSE k + 1] /\ i \in Nat /\ k \in Nat
        BY <1>9, <1>12, <1>13, <1>14, <1>19, <3>1
      <4>2. k < i => Old(v, k) = k /\ k \in 1..n
        BY <3>1, <4>1
      <4>3. ~(k < i) => Old(v, k) = k + 1 /\ k + 1 \in 1..n
        BY <3>1, <4>1
      <4> QED
        BY <1>7, <1>9, <3>1, <4>1, <4>2, <4>3
    <3>2. CASE v # w
      BY <1>14, <1>19, <3>2
    <3> QED
      BY <3>1, <3>2
  <2>2. v = w => Old(v, k) # i
    BY <1>9, <1>12, <1>14, <1>19
  <2>3. treq[v][Old(v, k)].from = treq[w][i].from => v = w /\ Old(v, k) = i
    <3> HIDE DEF Old
    <3> QED
      BY <2>1 DEF IInv, Requests
  <2> QED
    BY <1>4, <2>1, <2>2, <2>3
<1>20. ASSUME NEW v \in Worker, NEW q \in ToSet(treq'[v]) PROVE Accepted(v, q)'
  <2>1. PICK k \in DOMAIN treq'[v] : q = treq'[v][k]
    BY ElementsOf
  <2>2. q \in ToSet(treq[v]) /\ q.from # r
    <3> HIDE DEF Old
    <3> QED
      BY <1>19, <2>1, ElementsOf
  <2> QED
    <3>1. q \in Request /\ q.from \in Worker
      BY <1>1, <2>2, RequestType
    <3>2. Accepted(v, q)
      BY <2>2 DEF IInv, Requests
    <3>3. Waits(q.from)
      BY <1>16, <2>2, <3>1
    <3> QED
      BY <1>16, <2>2, <3>1, <3>2, <3>3, AcceptedKept
<1>21. ASSUME NEW x \in Worker, NEW y \in Worker,
              NEW j \in DOMAIN treq'[x], NEW k \in DOMAIN treq'[y],
              treq'[x][j].from = treq'[y][k].from
       PROVE  x = y /\ j = k
  <2>1. x = y /\ Old(x, j) = Old(y, k)
    <3> HIDE DEF Old
    <3> QED
      BY <1>19, <1>21 DEF IInv, Requests
  <2>2. x = w => j \in Nat /\ k \in Nat /\ i \in Nat
    BY <1>9, <1>12, <1>14, <1>21, <2>1
  <2> QED
    BY <2>1, <2>2
<1>22. ASSUME outside'.treq
       PROVE  /\ Expecting(First)' /\ Len(task'[First]) = 1
              /\ \A x \in Worker : \A k \in DOMAIN treq'[x] : treq'[x][k].from # First
  <2>1. /\ First \in Worker /\ Expecting(First) /\ Len(task[First]) = 1
        /\ \A x \in Worker : \A k \in DOMAIN treq[x] : treq[x][k].from # First
    BY <1>3, <1>22, WorkerAssumption DEF WorkerAssumption, IInv, Requests
  <2>2. First # r
    BY <1>4, <2>1
  <2>3. Expecting(First)' /\ Len(task'[First]) = 1
    BY <1>16, <2>1, <2>2 DEF Waits
  <2>4. \A x \in Worker : \A k \in DOMAIN treq'[x] : treq'[x][k].from # First
    <3> HIDE DEF Old
    <3> QED
      BY <1>19, <2>1
  <2> QED
    BY <2>3, <2>4
<1>23. Requests'
  BY <1>20, <1>21, <1>22 DEF Requests
<1> QED
  BY <1>16, <1>17, <1>18, <1>23 DEF IInv, Local

LEMMA FlushInv ==
  ASSUME IInv, NEW w \in Worker, FlushBeforeTreq(w) \/ FlushAfterTask(w)
  PROVE  IInv'
<1>1. CASE FlushBeforeTreq(w)
  BY <1>1, FlushOneInv DEF FlushBeforeTreq
<1>2. CASE FlushAfterTask(w)
  <2>1. PICK head : head = Top(w).rslt
    OBVIOUS
  <2>2. FlushOne(w, head)
    BY <1>2, <2>1 DEF FlushAfterTask
  <2> QED
    BY <2>2, FlushOneInv
<1> QED
  BY <1>1, <1>2

(***************************************************************************)
(* Steps that change a subtask stack                                       *)
(***************************************************************************)

(* The do-two that calls wait-rslt gave the newest subtask away. *)
LEMMA NewestSub ==
  ASSUME IInv, NEW w \in Worker, pc[w] = "wait"
  PROVE  /\ Top(w).frames # <<>> /\ sub[w] # <<>>
         /\ Last(Top(w).frames).spawned = Len(sub[w])
         /\ Last(sub[w]).body = Right[Last(Top(w).frames).node]
<1>1. /\ TypeOK /\ Frames(w) /\ Nesting(w) /\ task[w] # <<>> /\ Top(w) \in Task
      /\ Top(w).frames \in Seq(Frame)
  BY AtTop DEF IInv
<1>2. PICK m \in Nat : m = Len(task[w])
  BY <1>1, StackTypes
<1>3. DOMAIN task[w] = 1..m /\ m \in DOMAIN task[w] /\ Top(w) = task[w][m]
  BY <1>1, <1>2, TopOf
<1>4. Top(w).frames # <<>> /\ Last(Top(w).frames).spawned # 0
  BY <1>1, <1>2, <1>3 DEF Frames
<1>5. PICK fs \in Seq(Frame) : fs = Top(w).frames
  BY <1>1
<1>6. PICK l \in Nat : l = Len(fs)
  BY <1>5, LenProperties
<1>7. DOMAIN fs = 1..l /\ l \in DOMAIN fs /\ Last(fs) = fs[l]
  BY <1>4, <1>5, <1>6, LastOf
<1>8. DOMAIN sub[w] = 1..Len(sub[w]) /\ Len(sub[w]) \in Nat
  BY <1>1, StackTypes
<1>9. PICK n \in Nat : n = Len(sub[w])
  BY <1>8
<1>10. fs[l].spawned \in 1..n /\ fs[l].spawned # 0
       /\ sub[w][fs[l].spawned].body = Right[fs[l].node]
  <2>1. l \in DOMAIN task[w][m].frames /\ task[w][m].frames[l] = fs[l] /\ fs[l].spawned # 0
    BY <1>3, <1>4, <1>5, <1>7
  <2> QED
    BY <1>1, <1>3, <1>8, <1>9, <2>1, NestingFrame
<1>11. n \in 1..n
  BY <1>10
<1>12. PICK j \in DOMAIN task[w] : \E i \in DOMAIN task[w][j].frames : Spawned(w, j, i) = n
  BY <1>1, <1>8, <1>9, <1>11 DEF Nesting
<1>13. PICK i \in DOMAIN task[w][j].frames : Spawned(w, j, i) = n
  BY <1>12
<1>14. fs[l].spawned = n
  <2>1. CASE j = m /\ i = l
    BY <1>3, <1>5, <1>13, <2>1 DEF Spawned
  <2>2. CASE ~(j = m /\ i = l)
    <3>1. j \in 1..m /\ (j = m => i \in 1..l)
      BY <1>3, <1>5, <1>7, <1>12, <1>13
    <3>2. Before(j, i, m, l)
      BY <2>2, <3>1 DEF Before
    <3>3. l \in DOMAIN task[w][m].frames /\ Spawned(w, m, l) = fs[l].spawned
      BY <1>3, <1>5, <1>7 DEF Spawned
    <3>4. n < fs[l].spawned
      BY <1>1, <1>3, <1>10, <1>11, <1>13, <3>2, <3>3, NestingOrder
    <3> QED
      BY <1>10, <3>4
  <2> QED
    BY <2>1, <2>2
<1>15. sub[w] # <<>> /\ Last(sub[w]) = sub[w][n]
  BY <1>1, <1>8, <1>9, <1>11, StackTypes, LastOf, EmptySeq
<1> QED
  BY <1>4, <1>5, <1>7, <1>9, <1>10, <1>14, <1>15

LEMMA GetRsltInv ==
  ASSUME IInv, NEW w \in Worker, GetRslt(w)
  PROVE  IInv'
<1> USE DEF GetRslt, FinishDoTwo, Goto
<1>1. /\ TypeOK /\ Stacks(w) /\ Frames(w) /\ Nesting(w) /\ NoneBound(w)
      /\ task[w] # <<>> /\ Top(w) \in Task /\ Top(w).frames \in Seq(Frame)
      /\ Top(w).stat \in {"STARTED", "SUSPENDED"}
  BY AtTop DEF IInv, TopStat
<1>2. PICK m \in Nat : m = Len(task[w])
  BY <1>1, StackTypes
<1>3. DOMAIN task[w] = 1..m /\ m \in DOMAIN task[w] /\ Top(w) = task[w][m]
  BY <1>1, <1>2, TopOf
<1>4. PICK fs \in Seq(Frame) : fs = Top(w).frames
  BY <1>1
<1>5. PICK l \in Nat : l = Len(fs)
  BY <1>4, LenProperties
<1>6. fs # <<>> /\ DOMAIN fs = 1..l /\ l \in DOMAIN fs /\ Last(fs) = fs[l]
  BY <1>4, <1>5, NewestSub, LastOf
<1>7. PICK b \in Seq(TaskHome) : b = sub[w]
  BY <1>1 DEF TypeOK
<1>8. PICK n \in Nat : n = Len(b)
  BY <1>7, LenProperties
<1>9. b # <<>> /\ DOMAIN b = 1..n /\ fs[l].spawned = n /\ Last(b) = b[n] /\ n # 0
  BY <1>4, <1>6, <1>7, <1>8, NewestSub, LastOf
<1>10. b[n].stat = "DONE"
  BY <1>7, <1>9 DEF SubDone
<1>11. PICK u : u = Front(b)
  OBVIOUS
<1>12. u \in Seq(TaskHome) /\ DOMAIN u = 1..(n - 1)
  BY <1>8, <1>9, <1>11, FrontOf
<1>13. ASSUME NEW i \in DOMAIN u PROVE u[i] = b[i]
  BY <1>9, <1>11, <1>13, FrontOf
<1>14. PICK g : g = Front(fs)
  OBVIOUS
<1>15. g \in Seq(Frame) /\ DOMAIN g = 1..(l - 1)
  BY <1>5, <1>6, <1>14, FrontOf
<1>16. ASSUME NEW i \in DOMAIN g PROVE g[i] = fs[i]
  BY <1>6, <1>14, <1>16, FrontOf
<1>17. PICK t : t = [Top(w) EXCEPT !.stat = "STARTED", !.frames = g]
  OBVIOUS
<1>18. t \in Task /\ t.stat = "STARTED" /\ t.frames = g
       /\ t.rslt = Top(w).rslt /\ t.body = Top(w).body
  BY <1>1, <1>15, <1>17 DEF Task, TaskStat
<1>19. task' = [task EXCEPT ![w] = WithTop(task[w], t)]
  BY <1>4, <1>14, <1>17
<1>20. /\ task' \in [Worker -> Seq(Task)] /\ NewTop(w, t)
       /\ \A v \in Worker \ {w} : task'[v] = task[v]
  BY <1>1, <1>18, <1>19, TopReplaced
<1>21. sub'[w] = u /\ \A v \in Worker \ {w} : sub'[v] = sub[v]
  BY <1>1, <1>7, <1>11 DEF TypeOK
<1>22. sub' \in [Worker -> Seq(TaskHome)]
  BY <1>1, <1>7, <1>11, <1>12 DEF TypeOK
<1>23. pc'[w] = "run" /\ \A v \in Worker \ {w} : pc'[v] = pc[v]
  BY <1>1 DEF TypeOK
<1>24. TypeOK'
  <2>1. runs' \in [Node -> Nat]
    <3>1. Last(Top(w).frames).node \in Node
      BY <1>1, <1>4, <1>6, CurrentNode
    <3>2. runs' = [runs EXCEPT ![Last(Top(w).frames).node] = @ + 1]
      OBVIOUS
    <3>3. runs \in [Node -> Nat]
      BY <1>1 DEF TypeOK
    <3> HIDE DEF GetRslt, FinishDoTwo
    <3> QED
      BY <3>1, <3>2, <3>3
  <2> QED
    BY <1>1, <1>20, <1>22, <2>1 DEF TypeOK
<1>25. \A v \in Worker \ {w} : Same(v)
  BY <1>20, <1>21, <1>23 DEF Same, FromAddr
<1>26. Stacks(w)' /\ Frames(w)'
  BY <1>1, <1>18, <1>20, <1>23, NewTopLocal DEF TopStat, NoFrames
(* every do-two left is an old one, and an older one than the one finished *)
<1>27. ASSUME NEW j \in DOMAIN task'[w], NEW i \in DOMAIN task'[w][j].frames
       PROVE  /\ j \in DOMAIN task[w] /\ i \in DOMAIN task[w][j].frames
              /\ task'[w][j].frames[i] = task[w][j].frames[i]
              /\ Before(j, i, m, l)
  <2>1. j \in 1..m /\ j \in DOMAIN task[w]
    BY <1>3, <1>20 DEF NewTop
  <2>2. CASE j = m
    <3>1. task'[w][j].frames = g /\ task[w][j].frames = fs
      BY <1>2, <1>3, <1>4, <1>18, <1>20, <2>2 DEF NewTop
    <3>2. i \in DOMAIN fs /\ i < l
      BY <1>6, <1>15, <3>1
    <3> QED
      BY <1>16, <2>1, <2>2, <3>1, <3>2 DEF Before
  <2>3. CASE j # m
    <3>1. task'[w][j] = task[w][j]
      BY <1>2, <1>20, <2>1, <2>3 DEF NewTop
    <3>2. j < m
      BY <2>1, <2>3
    <3> QED
      BY <2>1, <3>1, <3>2 DEF Before
  <2> QED
    BY <2>2, <2>3
<1>28. ASSUME NEW j \in DOMAIN task[w], NEW i \in DOMAIN task[w][j].frames, ~(j = m /\ i = l)
       PROVE  /\ j \in DOMAIN task'[w] /\ i \in DOMAIN task'[w][j].frames
              /\ task'[w][j].frames[i] = task[w][j].frames[i]
  <2>1. j \in 1..m /\ j \in DOMAIN task'[w]
    BY <1>3, <1>20 DEF NewTop
  <2>2. CASE j = m
    <3>1. task'[w][j].frames = g /\ task[w][j].frames = fs
      BY <1>2, <1>3, <1>4, <1>18, <1>20, <2>2 DEF NewTop
    <3>2. i \in DOMAIN g
      BY <1>6, <1>15, <1>28, <2>2, <3>1
    <3> QED
      BY <1>16, <2>1, <3>1, <3>2
  <2>3. CASE j # m
    BY <1>2, <1>20, <2>1, <2>3 DEF NewTop
  <2> QED
    BY <2>2, <2>3
<1>29. m \in DOMAIN task[w] /\ l \in DOMAIN task[w][m].frames /\ Spawned(w, m, l) = n
  BY <1>3, <1>4, <1>6, <1>9 DEF Spawned
<1>30. Nesting(w)'
  <2>1. ASSUME NEW j \in DOMAIN task'[w], NEW i \in DOMAIN task'[w][j].frames
        PROVE  LET f == task'[w][j].frames[i]
               IN  /\ f.spawned # 0 => /\ f.spawned \in DOMAIN sub'[w]
                                       /\ sub'[w][f.spawned].body = Right[f.node]
                   /\ f.stat2 => f.spawned = 0
    <3>1. /\ j \in DOMAIN task[w] /\ i \in DOMAIN task[w][j].frames
          /\ task'[w][j].frames[i] = task[w][j].frames[i] /\ Before(j, i, m, l)
      BY <1>27
    <3>2. PICK f : f = task[w][j].frames[i]
      OBVIOUS
    <3>3. f.spawned # 0 => f.spawned \in 1..n /\ b[f.spawned].body = Right[f.node]
      BY <1>1, <1>7, <1>9, <3>1, <3>2, NestingFrame
    <3>4. f.stat2 => f.spawned = 0
      BY <1>1, <3>1, <3>2, NestingFrame
    <3>5. f.spawned # 0 => f.spawned < n
      <4>1. Spawned(w, j, i) = f.spawned /\ (f.spawned # 0 => n # 0)
        BY <1>9, <3>2, <3>3 DEF Spawned
      <4> QED
        BY <1>1, <1>29, <3>1, <4>1, NestingOrder
    <3>6. f.spawned # 0 => f.spawned \in DOMAIN u /\ u[f.spawned] = b[f.spawned]
      BY <1>12, <1>13, <3>3, <3>5
    <3> QED
      BY <1>21, <3>1, <3>2, <3>3, <3>4, <3>6
  <2>2. ASSUME NEW j \in DOMAIN task'[w], NEW k \in DOMAIN task'[w],
               NEW i \in DOMAIN task'[w][j].frames, NEW h \in DOMAIN task'[w][k].frames,
               Before(j, i, k, h), Spawned(w, j, i)' # 0, Spawned(w, k, h)' # 0
        PROVE  Spawned(w, j, i)' < Spawned(w, k, h)'
    <3>1. j \in DOMAIN task[w] /\ i \in DOMAIN task[w][j].frames
          /\ Spawned(w, j, i)' = Spawned(w, j, i)
      BY <1>27, <2>2 DEF Spawned
    <3>2. k \in DOMAIN task[w] /\ h \in DOMAIN task[w][k].frames
          /\ Spawned(w, k, h)' = Spawned(w, k, h)
      BY <1>27, <2>2 DEF Spawned
    <3> QED
      BY <1>1, <2>2, <3>1, <3>2, NestingOrder
  <2>3. ASSUME NEW s \in DOMAIN sub'[w]
        PROVE  \E j \in DOMAIN task'[w] : \E i \in DOMAIN task'[w][j].frames : Spawned(w, j, i)' = s
    <3>1. s \in DOMAIN sub[w] /\ s # n
      BY <1>7, <1>9, <1>12, <1>21, <2>3
    <3>2. PICK j \in DOMAIN task[w] : \E i \in DOMAIN task[w][j].frames : Spawned(w, j, i) = s
      BY <1>1, <3>1 DEF Nesting
    <3>3. PICK i \in DOMAIN task[w][j].frames : Spawned(w, j, i) = s
      BY <3>2
    <3>4. ~(j = m /\ i = l)
      BY <1>29, <3>1, <3>3
    <3>5. j \in DOMAIN task'[w] /\ i \in DOMAIN task'[w][j].frames /\ Spawned(w, j, i)' = s
      BY <1>28, <3>3, <3>4 DEF Spawned
    <3> QED
      BY <3>5
  <2> HIDE DEF GetRslt, FinishDoTwo, Goto
  <2> QED
    BY <2>1, <2>2, <2>3 DEF Nesting
<1>31. Local(w)'
  BY <1>1, <1>23, <1>26, <1>30 DEF Local, NoneBound
<1>32. Kept(w)
  <2>1. ASSUME NEW j \in DOMAIN task[w]
        PROVE  /\ j \in DOMAIN task'[w] /\ Len(task'[w]) = Len(task[w])
               /\ task'[w][j].rslt = task[w][j].rslt /\ task'[w][j].body = task[w][j].body
               /\ task'[w][j].stat \in Live <=> task[w][j].stat \in Live
    BY <1>1, <1>2, <1>3, <1>18, <1>20 DEF NewTop, Live
  <2>2. DOMAIN task'[w] = DOMAIN task[w]
    BY <1>20 DEF NewTop
  <2>3. ~ResultSent(w, Len(task[w])) /\ ~ResultSent(w, Len(task[w]))'
    BY <1>1, <1>23 DEF ResultSent
  <2>4. \A j \in DOMAIN task[w] : Unsent(w, j)' <=> Unsent(w, j)
    BY <1>1, <1>23, <2>1 DEF Unsent, ResultSent
  <2> QED
    BY <2>1, <2>2, <2>4 DEF Kept, StillRun
<1>33. LeavingKept(w) /\ Waits(w)
  BY <1>23 DEF LeavingKept, Leaving, Waits, Expecting
<1>34. \A v \in Worker : Kept(v) /\ LeavingKept(v) /\ Waits(v)
  BY <1>25, <1>32, <1>33, SameKept
<1>35. \A v \in Worker : PendingKept(v)
  <2>1. PendingKept(w)
    BY <1>7, <1>9, <1>10, <1>12, <1>13, <1>21 DEF PendingKept
  <2>2. \A v \in Worker \ {w} : PendingKept(v)
    BY <1>21 DEF PendingKept
  <2> QED
    BY <2>1, <2>2
<1>36. Homes' /\ Executors'
  BY <1>1, <1>34, <1>35, HomesKeptPending DEF IInv
<1>37. Requests'
  BY <1>1, <1>34, RequestsKept DEF IInv
<1>38. \A v \in Worker : Local(v)'
  BY <1>25, <1>31, SameLocal DEF IInv, Local
<1> QED
  BY <1>24, <1>36, <1>37, <1>38 DEF IInv, Local

(* recv-rslt: the subtask that is completed is the one w executed, and w was *)
(* the only one to execute it.                                               *)
LEMMA SendRsltInv ==
  ASSUME IInv, NEW w \in Worker, SendRslt(w)
  PROVE  IInv'
<1>1. /\ TypeOK /\ Stacks(w) /\ Frames(w) /\ Nesting(w) /\ NoneBound(w) /\ task[w] # <<>>
      /\ Top(w).stat = "STARTED" /\ Top(w).frames = <<>> /\ pc[w] = "rslt"
      /\ Top(w).rslt # OUTSIDE
  BY AtTop DEF IInv, SendRslt, TopStat, NoFrames
<1>2. PICK m \in Nat : m = Len(task[w])
  BY <1>1, StackTypes
<1>3. m \in DOMAIN task[w] /\ Top(w) = task[w][m] /\ Unsent(w, m)
  BY <1>1, <1>2, TopOf DEF Unsent, ResultSent, Live
<1>4. Homes /\ Executors
  BY DEF IInv
<1>5. PICK r \in Worker, id \in Nat \ {0} :
        /\ Top(w).rslt = <<r, id>> /\ id \in DOMAIN sub[r]
        /\ sub[r][id].stat = "INITIALIZED" /\ sub[r][id].to = w
  BY <1>3, <1>4, HomeOf
<1>6. id \in DOMAIN sub[r] /\ sub[r][id].stat = "INITIALIZED" /\ sub[r][id].to = w
  BY <1>5
<1>7. PICK b \in Seq(TaskHome) : b = sub[r]
  BY <1>1 DEF TypeOK
<1>8. PICK h : h = [b[id] EXCEPT !.stat = "DONE"]
  OBVIOUS
<1>9. b[id] \in TaskHome
  BY <1>1, <1>6, <1>7, StackTypes
<1>10. h \in TaskHome /\ h.stat = "DONE" /\ h.body = b[id].body
  BY <1>8, <1>9 DEF TaskHome, HomeStat
<1>11. PICK u : u = [b EXCEPT ![id] = h]
  OBVIOUS
<1>12. DOMAIN b = 1..Len(b) /\ Len(b) \in Nat /\ id \in 1..Len(b) /\ b # <<>>
  BY <1>6, <1>7, LenProperties, EmptySeq
<1>13. u \in Seq(TaskHome) /\ Len(u) = Len(b)
       /\ \A i \in 1..Len(b) : u[i] = IF i = id THEN h ELSE b[i]
  BY <1>10, <1>11, <1>12, ExceptSeq
<1>14. DOMAIN u = DOMAIN b /\ u # <<>>
  BY <1>12, <1>13, LenProperties, EmptySeq
<1>15. UNCHANGED <<task, treq, req, wnone, wrack, asking, direct, outside, runs>>
  BY DEF SendRslt
<1>16. sub' = [sub EXCEPT ![r] = u]
  BY <1>5, <1>7, <1>8, <1>11 DEF SendRslt
<1>17. sub'[r] = u /\ \A v \in Worker \ {r} : sub'[v] = sub[v]
  BY <1>1, <1>16 DEF TypeOK
<1>18. pc' = [pc EXCEPT ![w] = "rack", ![r] = IF id = Len(sub[r]) THEN Woken(@) ELSE @]
  BY <1>5 DEF SendRslt
<1>19. pc'[w] = "rack" /\ \A v \in Worker \ {w} : pc'[v] \in {pc[v], Woken(pc[v])}
  BY <1>1, <1>18 DEF TypeOK, Woken
<1>20. TypeOK'
  <2>1. pc' \in [Worker -> {"enter", "nonewait", "nonewake", "flush", "ask", "reply",
                            "sleep", "nap", "run", "spawn", "rslt", "rack", "count",
                            "done", "drain", "wait"}]
    BY <1>1, <1>18 DEF TypeOK, Woken
  <2>2. sub' \in [Worker -> Seq(TaskHome)]
    BY <1>1, <1>13, <1>16 DEF TypeOK
  <2>3. ackTo' \in [Worker -> Worker]
    BY <1>1, <1>5, <1>6 DEF TypeOK, SendRslt
  <2> QED
    BY <1>1, <1>15, <2>1, <2>2, <2>3 DEF TypeOK
<1>21. ASSUME NEW v \in Worker
       PROVE  /\ DOMAIN sub'[v] = DOMAIN sub[v] /\ FromAddr(v)' = FromAddr(v)
              /\ \A i \in DOMAIN sub[v] : sub'[v][i].body = sub[v][i].body
  BY <1>7, <1>10, <1>12, <1>13, <1>14, <1>17 DEF FromAddr
<1>22. \A v \in Worker \ {w} : Same(v)
  BY <1>15, <1>19, <1>21 DEF Same
<1>23. Local(w)'
  <2>1. PICK t : t = Top(w)
    OBVIOUS
  <2>2. NewTop(w, t)
    BY <1>1, <1>15, <2>1, TopOf, StackTypes DEF NewTop, Top
  <2>3. Stacks(w)' /\ Frames(w)'
    BY <1>1, <1>19, <2>1, <2>2, NewTopLocal DEF TopStat
  <2>4. Nesting(w)'
    BY <1>1, <1>15, <1>21, NestingUnchanged
  <2> QED
    BY <1>1, <1>15, <1>19, <2>3, <2>4 DEF Local, NoneBound
<1>24. \A v \in Worker : Local(v)'
  BY <1>22, <1>23, SameLocal DEF IInv, Local
(* the tasks with a result to be sent: all but this one *)
<1>25. \A v \in Worker \ {w} : Kept(v) /\ LeavingKept(v) /\ Waits(v)
  BY <1>22, SameKept
<1>26. ASSUME NEW v \in Worker, NEW j \in DOMAIN task[v]
       PROVE  Unsent(v, j)' <=> Unsent(v, j) /\ ~(v = w /\ j = m)
  <2>1. CASE v = w
    BY <1>1, <1>2, <1>15, <1>19, <2>1 DEF Unsent, ResultSent
  <2>2. CASE v # w
    BY <1>15, <1>25, <2>2 DEF Kept, StillRun
  <2> QED
    BY <2>1, <2>2
<1>27. ASSUME NEW v \in Worker, NEW j \in DOMAIN task[v], Unsent(v, j), task[v][j].rslt = <<r, id>>
       PROVE  v = w /\ j = m
  <2>1. PICK x \in Worker, y \in Nat \ {0} : /\ task[v][j].rslt = <<x, y>>
                                             /\ sub[x][y].to = v
    BY <1>4, <1>27, HomeOf
  <2>2. x = r /\ y = id
    BY <1>27, <2>1
  <2>3. v = w
    BY <1>6, <2>1, <2>2
  <2>4. task[w][m].stat \in Live
    BY <1>3 DEF Unsent
  <2> QED
    BY <1>3, <1>4, <1>5, <1>27, <2>3, <2>4, HomeOnly
<1>28. Homes'
  <2>1. ASSUME NEW v \in Worker, NEW j \in DOMAIN task'[v], Unsent(v, j)' PROVE HasHome(v, j)'
    <3>1. j \in DOMAIN task[v] /\ Unsent(v, j) /\ ~(v = w /\ j = m)
      BY <1>15, <1>26, <2>1
    <3>3. PICK x \in Worker, y \in Nat \ {0} :
            /\ task[v][j].rslt = <<x, y>> /\ y \in DOMAIN sub[x]
            /\ sub[x][y].stat = "INITIALIZED" /\ sub[x][y].to = v
      BY <1>4, <3>1, HomeOf
    <3>4. y \in DOMAIN sub[x] /\ sub[x][y].stat = "INITIALIZED" /\ sub[x][y].to = v
      BY <3>3
    <3>5. ~(x = r /\ y = id)
      BY <1>27, <3>1, <3>3
    <3>6. y \in DOMAIN sub'[x] /\ sub'[x][y] = sub[x][y]
      BY <1>7, <1>12, <1>13, <1>14, <1>17, <3>4, <3>5
    <3>7. task'[v][j].rslt = <<x, y>>
      BY <1>15, <3>3
    <3> QED
      BY <3>3, <3>4, <3>6, <3>7 DEF HasHome
  <2>2. ASSUME NEW v \in Worker, NEW j \in DOMAIN task'[v], NEW k \in DOMAIN task'[v],
               Unsent(v, j)', task'[v][k].stat \in Live, task'[v][j].rslt = task'[v][k].rslt
        PROVE  j = k
    BY <1>15, <1>26, <2>2 DEF IInv, Homes
  <2> QED
    BY <2>1, <2>2 DEF Homes
<1>29. Executors'
  <2>1. ASSUME NEW x \in Worker, NEW v \in Worker, NEW i \in DOMAIN sub'[x],
               sub'[x][i].stat = "INITIALIZED", sub'[x][i].to = v
        PROVE  \E j \in DOMAIN task'[v] : /\ Unsent(v, j)'
                                          /\ task'[v][j].rslt = <<x, i>>
                                          /\ task'[v][j].body = sub'[x][i].body
    <3>1. ~(x = r /\ i = id)
      BY <1>10, <1>12, <1>13, <1>17, <2>1
    <3>2. i \in DOMAIN sub[x] /\ sub'[x][i] = sub[x][i]
      <4>1. CASE x = r
        <5>1. i \in 1..Len(b) /\ i # id
          BY <1>12, <1>14, <1>17, <2>1, <3>1, <4>1
        <5> QED
          BY <1>7, <1>12, <1>13, <1>17, <4>1, <5>1
      <4>2. CASE x # r
        BY <1>17, <2>1, <4>2
      <4> QED
        BY <4>1, <4>2
    <3>3. PICK j \in DOMAIN task[v] : Unsent(v, j) /\ task[v][j].rslt = <<x, i>>
                                      /\ task[v][j].body = sub[x][i].body
      <4>1. sub[x][i].stat = "INITIALIZED" /\ sub[x][i].to = v
        BY <2>1, <3>2
      <4>2. Executor(v, x, i)
        BY <1>4, <3>2, <4>1, ExecutorOf
      <4> QED
        BY <4>2 DEF Executor
    <3>4. ~(v = w /\ j = m)
      BY <1>3, <1>5, <3>1, <3>3
    <3>5. Unsent(v, j)'
      BY <1>26, <3>3, <3>4
    <3> QED
      BY <1>15, <3>2, <3>3, <3>5
  <2> QED
    BY <2>1 DEF Executors
<1>30. Waits(w) /\ \A v \in Worker : Waits(v)
  BY <1>1, <1>15, <1>19, <1>25 DEF Waits, Expecting
<1>31. ASSUME NEW v \in Worker, NEW q \in ToSet(treq'[v]) PROVE Accepted(v, q)'
  <2>1. q \in ToSet(treq[v]) /\ Accepted(v, q) /\ q \in Request /\ q.from \in Worker
    BY <1>1, <1>15, RequestType DEF IInv, Requests
  <2>2. CASE v # w
    BY <1>25, <1>30, <2>1, <2>2, AcceptedKept
  <2>3. CASE v = w
    <3>1. CASE q.waiting = TERM
      BY <1>30, <2>1, <3>1 DEF Accepted, Waits
    <3>2. CASE q.waiting # TERM
      <4>1. ~Leaving(w, q.waiting)
        BY <1>1 DEF Leaving
      <4>2. Expecting(q.from) /\ q.waiting = FromAddr(q.from)
            /\ \E j \in DOMAIN task[w] : Unsent(w, j) /\ task[w][j].rslt = q.waiting
        BY <2>1, <2>3, <3>2, <4>1 DEF Accepted
      <4>3. PICK j \in DOMAIN task[w] : Unsent(w, j) /\ task[w][j].rslt = q.waiting
        BY <4>2
      <4>4. Expecting(q.from)' /\ q.waiting = FromAddr(q.from)'
        BY <1>30, <2>1, <4>2 DEF Waits
      <4>5. CASE j = m
        <5>1. Leaving(w, q.waiting)'
          BY <1>3, <1>15, <1>19, <4>3, <4>5 DEF Leaving, Top
        <5> QED
          BY <2>3, <3>2, <4>4, <5>1 DEF Accepted
      <4>6. CASE j # m
        <5>1. j \in DOMAIN task'[w] /\ Unsent(w, j)' /\ task'[w][j].rslt = q.waiting
          BY <1>15, <1>26, <4>3, <4>6
        <5> QED
          BY <2>3, <3>2, <4>4, <5>1 DEF Accepted
      <4> QED
        BY <4>5, <4>6
    <3> QED
      BY <3>1, <3>2
  <2> QED
    BY <2>2, <2>3
<1>32. outside'.treq => Expecting(First)' /\ Len(task'[First]) = 1
  BY <1>15, <1>30, WorkerAssumption DEF WorkerAssumption, IInv, Requests, Waits
<1>33. Requests'
  BY <1>15, <1>31, <1>32 DEF IInv, Requests
<1> QED
  BY <1>20, <1>24, <1>28, <1>29, <1>33 DEF IInv, Local

(* A do-two that is to spawn, and all newer ones, have their second half. *)
LEMMA SpawnableFrames ==
  ASSUME IInv, NEW w \in Worker, pc[w] = "spawn", NEW i \in Spawnable(Top(w))
  PROVE  /\ i \in DOMAIN Top(w).frames /\ ~Top(w).frames[i].stat2
         /\ \A l \in DOMAIN Top(w).frames : l >= i => Top(w).frames[l].spawned = 0
<1>1. /\ Top(w).frames \in Seq(Frame)
      /\ \A l \in DOMAIN Top(w).frames :
           Top(w).frames[l].stat2 => Top(w).frames[l].spawned = 0
  BY AtTop
<1>2. PICK fs \in Seq(Frame) : fs = Top(w).frames
  BY <1>1
<1>3. DOMAIN fs = 1..Len(fs) /\ Len(fs) \in Nat
  BY <1>2, LenProperties
<1>4. /\ i \in DOMAIN fs /\ ~fs[i].stat2
      /\ \A l \in i..Len(fs) : ~fs[l].stat2 => fs[l].spawned = 0
  BY <1>2 DEF Spawnable, OnPath
<1>5. ASSUME NEW l \in DOMAIN fs, l >= i PROVE fs[l].spawned = 0
  <2>1. l \in i..Len(fs)
    BY <1>3, <1>4, <1>5
  <2> QED
    BY <1>1, <1>2, <1>4, <2>1
<1> QED
  BY <1>2, <1>4, <1>5

(* The second half of the i-th do-two of w's task is given away as the n-th *)
(* subtask: its id is the largest one, and all newer do-twos have none.     *)
LEMMA SpawnNesting ==
  ASSUME TypeOK, NEW w \in Worker, Nesting(w), task[w] # <<>>,
         NEW i \in DOMAIN Top(w).frames, ~Top(w).frames[i].stat2,
         \A l \in DOMAIN Top(w).frames : l >= i => Top(w).frames[l].spawned = 0,
         NEW n \in Nat, n = Len(sub[w]) + 1,
         DOMAIN sub'[w] = 1..n, \A x \in DOMAIN sub[w] : sub'[w][x] = sub[w][x],
         sub'[w][n].body = Right[Top(w).frames[i].node],
         NEW t, NewTop(w, t), DOMAIN t.frames = DOMAIN Top(w).frames,
         \A l \in DOMAIN t.frames :
           /\ t.frames[l].node = Top(w).frames[l].node
           /\ t.frames[l].stat2 = Top(w).frames[l].stat2
           /\ l # i => t.frames[l].spawned = Top(w).frames[l].spawned,
         t.frames[i].spawned = n,
         Top(w).frames \in Seq(Frame)
  PROVE  Nesting(w)'
<1>1. PICK m \in Nat : m = Len(task[w])
  BY StackTypes
<1>2. DOMAIN task[w] = 1..m /\ m \in DOMAIN task[w] /\ Top(w) = task[w][m]
  BY <1>1, TopOf
<1>3. PICK fs \in Seq(Frame) : fs = Top(w).frames
  OBVIOUS
<1>4. DOMAIN fs = 1..Len(fs) /\ Len(fs) \in Nat /\ i \in DOMAIN fs
  BY <1>3, LenProperties
<1>5. DOMAIN sub[w] = 1..(n - 1) /\ n # 0
  BY StackTypes
<1>6. DOMAIN task'[w] = DOMAIN task[w]
  BY DEF NewTop
<1>7. ASSUME NEW j \in DOMAIN task[w]
      PROVE  /\ DOMAIN task'[w][j].frames = DOMAIN task[w][j].frames
             /\ \A l \in DOMAIN task[w][j].frames :
                  /\ task'[w][j].frames[l].node = task[w][j].frames[l].node
                  /\ task'[w][j].frames[l].stat2 = task[w][j].frames[l].stat2
                  /\ ~(j = m /\ l = i) =>
                       task'[w][j].frames[l].spawned = task[w][j].frames[l].spawned
  <2>1. CASE j = m
    <3>1. task[w][j] = Top(w) /\ task'[w][j] = t
      BY <1>1, <1>2, <2>1 DEF NewTop
    <3> QED
      BY <2>1, <3>1
  <2>2. CASE j # m
    <3>1. task'[w][j] = task[w][j]
      BY <1>1, <1>2, <2>2 DEF NewTop
    <3> QED
      BY <3>1
  <2> QED
    BY <2>1, <2>2
<1>8. task'[w][m].frames[i].spawned = n /\ task[w][m].frames = fs /\ ~fs[i].stat2
      /\ \A l \in DOMAIN fs : l >= i => fs[l].spawned = 0
  BY <1>1, <1>2, <1>3 DEF NewTop
<1>9. ASSUME NEW j \in DOMAIN task'[w], NEW l \in DOMAIN task'[w][j].frames
      PROVE  LET f == task'[w][j].frames[l]
             IN  /\ f.spawned # 0 => /\ f.spawned \in DOMAIN sub'[w]
                                     /\ sub'[w][f.spawned].body = Right[f.node]
                 /\ f.stat2 => f.spawned = 0
  <2>1. CASE j = m /\ l = i
    <3>1. /\ task'[w][m].frames[i].node = fs[i].node
          /\ task'[w][m].frames[i].stat2 = fs[i].stat2
      BY <1>2, <1>4, <1>7, <1>8
    <3>2. n \in DOMAIN sub'[w] /\ sub'[w][n].body = Right[fs[i].node]
      BY <1>3, <1>5
    <3> QED
      BY <1>8, <2>1, <3>1, <3>2
  <2>2. CASE ~(j = m /\ l = i)
    <3>1. PICK f : f = task[w][j].frames[l]
      OBVIOUS
    <3>6. j \in DOMAIN task[w] /\ l \in DOMAIN task[w][j].frames
      BY <1>6, <1>7, <1>9
    <3>2. f.spawned # 0 => f.spawned \in DOMAIN sub[w] /\ sub[w][f.spawned].body = Right[f.node]
      BY <3>1, <3>6, NestingFrame
    <3>3. f.stat2 => f.spawned = 0
      BY <3>1, <3>6, NestingFrame
    <3>4. \A x \in DOMAIN sub[w] : x \in DOMAIN sub'[w] /\ sub'[w][x] = sub[w][x]
      BY <1>5
    <3>5. task'[w][j].frames[l].node = f.node /\ task'[w][j].frames[l].stat2 = f.stat2
          /\ task'[w][j].frames[l].spawned = f.spawned
      BY <1>6, <1>7, <1>9, <2>2, <3>1
    <3> QED
      BY <3>2, <3>3, <3>4, <3>5
  <2> QED
    BY <2>1, <2>2
<1>10. ASSUME NEW j \in DOMAIN task'[w], NEW k \in DOMAIN task'[w],
              NEW x \in DOMAIN task'[w][j].frames, NEW y \in DOMAIN task'[w][k].frames,
              Before(j, x, k, y), Spawned(w, j, x)' # 0, Spawned(w, k, y)' # 0
       PROVE  Spawned(w, j, x)' < Spawned(w, k, y)'
  <2>1. /\ j \in 1..m /\ k \in 1..m
        /\ x \in DOMAIN task[w][j].frames /\ y \in DOMAIN task[w][k].frames
    BY <1>2, <1>6, <1>7, <1>10
  <2>2. ~(j = m /\ x = i)
    <3>1. SUFFICES ASSUME j = m, x = i PROVE FALSE
      OBVIOUS
    <3>2. k = m /\ y \in DOMAIN fs
      BY <1>8, <1>10, <2>1, <3>1 DEF Before
    <3>3. y >= i /\ y # i
      BY <1>4, <1>10, <3>1, <3>2 DEF Before
    <3>4. task'[w][k].frames[y].spawned = 0
      BY <1>2, <1>7, <1>8, <3>2, <3>3
    <3> QED
      BY <1>10, <3>4 DEF Spawned
  <2>3. Spawned(w, j, x)' = Spawned(w, j, x)
    BY <1>2, <1>7, <2>1, <2>2 DEF Spawned
  <2>4. Spawned(w, j, x) \in 1..(n - 1)
    BY <1>2, <1>5, <1>10, <2>1, <2>3 DEF Nesting, Spawned
  <2>5. CASE k = m /\ y = i
    <3>1. Spawned(w, k, y)' = n
      BY <1>8, <2>5 DEF Spawned
    <3> QED
      BY <2>3, <2>4, <3>1
  <2>6. CASE ~(k = m /\ y = i)
    <3>1. Spawned(w, k, y)' = Spawned(w, k, y)
      BY <1>2, <1>7, <2>1, <2>6 DEF Spawned
    <3>2. Spawned(w, j, x) # 0 /\ Spawned(w, k, y) # 0 /\ Before(j, x, k, y)
      BY <1>10, <2>3, <3>1
    <3>3. Spawned(w, j, x) < Spawned(w, k, y)
      BY <1>2, <2>1, <3>2 DEF Nesting
    <3> QED
      BY <2>3, <3>1, <3>3
  <2> QED
    BY <2>5, <2>6
<1>11. ASSUME NEW s \in DOMAIN sub'[w]
       PROVE  \E j \in DOMAIN task'[w] : \E l \in DOMAIN task'[w][j].frames : Spawned(w, j, l)' = s
  <2>1. CASE s = n
    <3>1. m \in DOMAIN task'[w] /\ i \in DOMAIN task'[w][m].frames /\ Spawned(w, m, i)' = s
      BY <1>2, <1>4, <1>6, <1>7, <1>8, <2>1 DEF Spawned
    <3> QED
      BY <3>1
  <2>2. CASE s # n
    <3>1. s \in DOMAIN sub[w] /\ s # 0
      BY <1>5, <2>2
    <3>2. PICK j \in DOMAIN task[w] : \E l \in DOMAIN task[w][j].frames : Spawned(w, j, l) = s
      BY <3>1 DEF Nesting
    <3>3. PICK l \in DOMAIN task[w][j].frames : Spawned(w, j, l) = s
      BY <3>2
    <3>4. ~(j = m /\ l = i)
      BY <1>4, <1>8, <3>1, <3>3 DEF Spawned
    <3>5. j \in DOMAIN task'[w] /\ l \in DOMAIN task'[w][j].frames /\ Spawned(w, j, l)' = s
      BY <1>6, <1>7, <3>3, <3>4 DEF Spawned
    <3> QED
      BY <3>5
  <2> QED
    BY <2>1, <2>2
<1> QED
  BY <1>9, <1>10, <1>11 DEF Nesting

LEMMA SpawnTaskInv ==
  ASSUME IInv, NEW w \in Worker, SpawnTask(w)
  PROVE  IInv'
<1>1. /\ TypeOK /\ Stacks(w) /\ Frames(w) /\ Nesting(w) /\ NoneBound(w) /\ pc[w] = "spawn"
      /\ task[w] # <<>> /\ Top(w) \in Task /\ Top(w).frames \in Seq(Frame)
      /\ Top(w).stat = "STARTED" /\ treq[w] # <<>>
  BY AtTop DEF IInv, SpawnTask, TopStat
(* the request *)
<1>2. PICK s \in Seq(Request) : s = treq[w]
  BY <1>1 DEF TypeOK
<1>3. PICK q : q = Last(s)
  OBVIOUS
<1>4. s # <<>> /\ q = s[Len(s)] /\ DOMAIN s = 1..Len(s) /\ Len(s) \in Nat \ {0}
  BY <1>1, <1>2, <1>3, LastOf
<1>5. q \in ToSet(treq[w]) /\ q \in Request /\ q.from \in Worker
  <2>1. Len(s) \in DOMAIN s
    BY <1>4
  <2>2. q \in ToSet(treq[w])
    BY <1>2, <1>4, <2>1, ElementsOf
  <2> QED
    BY <1>1, <2>2, RequestType
<1>6. PICK r \in Worker : r = q.from
  BY <1>5
<1>7. Expecting(r) /\ Accepted(w, q)
  <2>1. Accepted(w, q) /\ ~Leaving(w, q.waiting)
    BY <1>1, <1>5 DEF IInv, Requests, Leaving
  <2> QED
    BY <1>6, <2>1 DEF Accepted
<1>8. /\ r # w /\ wnone[r] = 0 /\ task[r] # <<>> /\ Top(r) \in Task
      /\ Top(r).stat = "ALLOCATED" /\ Top(r).frames = <<>> /\ pc[r] \in {"reply", "sleep"}
  BY <1>1, <1>7, AtTop DEF Expecting, NoFrames
(* the do-two that spawns *)
<1>9. PICK i \in Spawnable(Top(w)) :
        /\ task' = [task EXCEPT
              ![w] = WithTop(task[w], [Top(w) EXCEPT !.frames[i].spawned = Len(sub[w]) + 1]),
              ![r] = Initialized(r, <<w, Len(sub[w]) + 1>>, Right[Top(w).frames[i].node])]
        /\ pc' = [pc EXCEPT ![r] = Woken(@)]
        /\ sub' = [sub EXCEPT ![w] =
              Append(@, [stat |-> "INITIALIZED", to |-> r, body |-> Right[Top(w).frames[i].node]])]
  BY <1>2, <1>3, <1>6 DEF SpawnTask, Oldest
<1>10. /\ treq' = [treq EXCEPT ![w] = Front(s)]
       /\ UNCHANGED <<req, wnone, wrack, asking, direct, ackTo, outside, runs>>
  BY <1>2 DEF SpawnTask
<1>11. /\ i \in DOMAIN Top(w).frames /\ ~Top(w).frames[i].stat2
       /\ \A l \in DOMAIN Top(w).frames : l >= i => Top(w).frames[l].spawned = 0
  BY <1>1, <1>9, SpawnableFrames
<1>12. PICK n \in Nat \ {0} : n = Len(sub[w]) + 1
  BY <1>1, StackTypes
<1>13. PICK half \in Node : half = Right[Top(w).frames[i].node]
  <2>1. Top(w).frames[i] \in Frame
    BY <1>1, <1>11, ElementOfSeq, LenProperties
  <2> QED
    BY <2>1, ComputationAssumption DEF ComputationAssumption, Frame
(* w's subtask stack *)
<1>14. PICK h : h = [stat |-> "INITIALIZED", to |-> r, body |-> half]
  OBVIOUS
<1>15. h \in TaskHome
  BY <1>14 DEF TaskHome, HomeStat
<1>16. PICK b \in Seq(TaskHome) : b = sub[w]
  BY <1>1 DEF TypeOK
<1>17. PICK c : c = Append(b, h)
  OBVIOUS
<1>18. c \in Seq(TaskHome) /\ DOMAIN b = 1..(n - 1)
  BY <1>12, <1>15, <1>16, <1>17, AppendOf
<1>19. DOMAIN c = 1..n
  BY <1>12, <1>15, <1>16, <1>17, AppendOf
<1>20. c[n] = h
  BY <1>12, <1>15, <1>16, <1>17, AppendOf
<1>21. ASSUME NEW x \in DOMAIN b PROVE c[x] = b[x]
  BY <1>15, <1>17, <1>21, AppendOf
<1>22. sub'[w] = c /\ \A v \in Worker \ {w} : sub'[v] = sub[v]
  BY <1>1, <1>9, <1>13, <1>14, <1>16, <1>17 DEF TypeOK
<1>23. sub' \in [Worker -> Seq(TaskHome)]
  BY <1>1, <1>9, <1>13, <1>14, <1>16, <1>17, <1>18 DEF TypeOK
(* w's task *)
<1>24. PICK fs \in Seq(Frame) : fs = Top(w).frames
  BY <1>1
<1>25. PICK f : f = [fs[i] EXCEPT !.spawned = n]
  OBVIOUS
<1>26. i \in DOMAIN fs /\ DOMAIN fs = 1..Len(fs) /\ fs[i] \in Frame
  BY <1>11, <1>24, LenProperties, ElementOfSeq
<1>27. f \in Frame /\ f.spawned = n /\ f.node = fs[i].node /\ f.stat2 = fs[i].stat2
  BY <1>25, <1>26 DEF Frame
<1>28. PICK g : g = [fs EXCEPT ![i] = f]
  OBVIOUS
<1>29. g \in Seq(Frame) /\ Len(g) = Len(fs)
       /\ \A l \in 1..Len(fs) : g[l] = IF l = i THEN f ELSE fs[l]
  BY <1>26, <1>27, <1>28, ExceptSeq
<1>30. DOMAIN g = DOMAIN fs
  BY <1>26, <1>29, LenProperties
<1>31. PICK t : t = [Top(w) EXCEPT !.frames = g]
  OBVIOUS
<1>32. t \in Task /\ t.frames = g /\ t.stat = "STARTED" /\ t.rslt = Top(w).rslt
       /\ t.body = Top(w).body
  BY <1>1, <1>29, <1>31 DEF Task
<1>33. t = [Top(w) EXCEPT !.frames[i].spawned = Len(sub[w]) + 1]
  BY <1>12, <1>24, <1>25, <1>28, <1>31
(* r's task *)
<1>34. PICK a : a = <<w, n>>
  OBVIOUS
<1>35. a \in Worker \X (Nat \ {0}) /\ a[1] = w /\ a[2] = n /\ a # OUTSIDE /\ a # TERM
  BY <1>34 DEF OUTSIDE, TERM
<1>36. PICK p : p = [Top(r) EXCEPT !.stat = "INITIALIZED", !.rslt = a, !.body = half]
  OBVIOUS
<1>37. p \in Task /\ p.stat = "INITIALIZED" /\ p.rslt = a /\ p.body = half /\ p.frames = <<>>
  BY <1>8, <1>35, <1>36 DEF Task, TaskStat, Address
<1>38. Initialized(r, <<w, Len(sub[w]) + 1>>, Right[Top(w).frames[i].node]) = WithTop(task[r], p)
  BY <1>12, <1>13, <1>34, <1>36 DEF Initialized
<1>39. task' = [task EXCEPT ![w] = WithTop(task[w], t), ![r] = WithTop(task[r], p)]
  BY <1>9, <1>33, <1>38
<1>40. /\ task'[w] = WithTop(task[w], t) /\ task'[r] = WithTop(task[r], p)
       /\ \A v \in Worker \ {w, r} : task'[v] = task[v]
  BY <1>1, <1>8, <1>39 DEF TypeOK
<1>41. /\ NewTop(w, t) /\ WithTop(task[w], t) \in Seq(Task)
       /\ NewTop(r, p) /\ WithTop(task[r], p) \in Seq(Task)
  BY <1>1, <1>8, <1>32, <1>37, <1>40, TopSet
<1>42. pc'[r] = "reply" /\ \A v \in Worker \ {r} : pc'[v] = pc[v]
  BY <1>1, <1>8, <1>9 DEF TypeOK, Woken
(* w's requests *)
<1>43. PICK u : u = Front(s)
  OBVIOUS
<1>44. u \in Seq(Request) /\ DOMAIN u = 1..(Len(s) - 1)
  BY <1>4, <1>43, FrontOf
<1>45. ASSUME NEW k \in DOMAIN u PROVE u[k] = s[k]
  BY <1>4, <1>43, <1>45, FrontOf
<1>46. treq'[w] = u /\ \A v \in Worker \ {w} : treq'[v] = treq[v]
  BY <1>1, <1>10, <1>43 DEF TypeOK
<1>47. TypeOK'
  <2>1. task' \in [Worker -> Seq(Task)]
    BY <1>1, <1>39, <1>41 DEF TypeOK
  <2>2. treq' \in [Worker -> Seq(Request)]
    BY <1>1, <1>10, <1>43, <1>44 DEF TypeOK
  <2>3. pc' \in [Worker -> {"enter", "nonewait", "nonewake", "flush", "ask", "reply",
                            "sleep", "nap", "run", "spawn", "rslt", "rack", "count",
                            "done", "drain", "wait"}]
    BY <1>1, <1>9 DEF TypeOK, Woken
  <2> QED
    BY <1>1, <1>10, <1>23, <2>1, <2>2, <2>3 DEF TypeOK
(* each worker by itself *)
<1>48. \A v \in Worker \ {w, r} : Same(v)
  BY <1>10, <1>22, <1>40, <1>42 DEF Same, FromAddr
<1>49. Local(w)'
  <2>1. Stacks(w)' /\ Frames(w)'
    BY <1>1, <1>8, <1>32, <1>41, <1>42, NewTopLocal DEF TopStat, NoFrames
  <2>2. Nesting(w)'
    <3>1. \A l \in DOMAIN t.frames :
            /\ t.frames[l].node = Top(w).frames[l].node
            /\ t.frames[l].stat2 = Top(w).frames[l].stat2
            /\ l # i => t.frames[l].spawned = Top(w).frames[l].spawned
      BY <1>24, <1>26, <1>27, <1>29, <1>30, <1>32
    <3>2. t.frames[i].spawned = n /\ DOMAIN t.frames = DOMAIN Top(w).frames
      BY <1>24, <1>26, <1>27, <1>29, <1>30, <1>32
    <3>3. /\ DOMAIN sub'[w] = 1..n /\ \A x \in DOMAIN sub[w] : sub'[w][x] = sub[w][x]
          /\ sub'[w][n].body = Right[Top(w).frames[i].node]
      BY <1>13, <1>14, <1>16, <1>19, <1>20, <1>21, <1>22
    <3> QED
      BY <1>1, <1>11, <1>12, <1>41, <3>1, <3>2, <3>3, SpawnNesting
  <2>3. NoneBound(w)'
    BY <1>1, <1>8, <1>10, <1>42 DEF NoneBound
  <2> QED
    BY <2>1, <2>2, <2>3 DEF Local
<1>50. Local(r)'
  BY <1>8, <1>10, <1>22, <1>37, <1>41, <1>42, EmptyTop DEF TopStat
<1>51. \A v \in Worker : Local(v)'
  BY <1>48, <1>49, <1>50, SameLocal DEF IInv, Local
(* the tasks with a result to be sent: the old ones and r's new one *)
<1>52. PICK m \in Nat \ {0} : m = Len(task[r])
  BY <1>1, <1>8, TopOf
<1>53. /\ m \in DOMAIN task[r] /\ m \in DOMAIN task'[r] /\ task[r][m] = Top(r)
       /\ task'[r][m] = p /\ Len(task'[r]) = m
  BY <1>1, <1>8, <1>41, <1>52, TopOf DEF NewTop
<1>54. ASSUME NEW v \in Worker
       PROVE  DOMAIN task'[v] = DOMAIN task[v]
  BY <1>40, <1>41 DEF NewTop
<1>55. ASSUME NEW v \in Worker, NEW j \in DOMAIN task[v], ~(v = r /\ j = m)
       PROVE  /\ task'[v][j].rslt = task[v][j].rslt /\ task'[v][j].body = task[v][j].body
              /\ task'[v][j].stat = task[v][j].stat
              /\ Unsent(v, j)' <=> Unsent(v, j)
  <2>1. CASE v = r
    BY <1>8, <1>41, <1>42, <1>52, <1>53, <1>55, <2>1 DEF NewTop, Unsent, ResultSent
  <2>2. CASE v = w
    <3>1. task[w][Len(task[w])] = Top(w)
      BY <1>1, TopOf
    <3> QED
      <4>1. /\ task'[w][j].rslt = task[w][j].rslt /\ task'[w][j].body = task[w][j].body
            /\ task'[w][j].stat = task[w][j].stat
        BY <1>1, <1>32, <1>41, <1>55, <2>2, <3>1 DEF NewTop
      <4>2. pc[w] = "spawn" /\ pc'[w] = "spawn"
        BY <1>1, <1>8, <1>42
      <4> QED
        BY <2>2, <4>1, <4>2 DEF Unsent, ResultSent
  <2>3. CASE v \notin {w, r}
    BY <1>40, <1>42, <2>3 DEF Unsent, ResultSent
  <2> QED
    BY <2>1, <2>2, <2>3
<1>56. ~Unsent(r, m) /\ Unsent(r, m)'
  BY <1>8, <1>35, <1>37, <1>42, <1>53 DEF Unsent, ResultSent, Live
(* the new address is nobody's yet *)
<1>57. ASSUME NEW v \in Worker, NEW j \in DOMAIN task[v], Unsent(v, j)
       PROVE  task[v][j].rslt # a
  <2>1. n \notin DOMAIN sub[w]
    BY <1>16, <1>18
  <2> QED
    <3>1. PICK x \in Worker, y \in Nat \ {0} : /\ task[v][j].rslt = <<x, y>>
                                               /\ y \in DOMAIN sub[x]
      BY <1>57, HomeOf DEF IInv
    <3> QED
      BY <1>34, <2>1, <3>1
<1>58. Homes'
  <2>1. ASSUME NEW v \in Worker, NEW j \in DOMAIN task'[v], Unsent(v, j)' PROVE HasHome(v, j)'
    <3>1. CASE v = r /\ j = m
      <4>1. n \in DOMAIN sub'[w] /\ sub'[w][n] = h
        BY <1>19, <1>20, <1>22
      <4>2. h.stat = "INITIALIZED" /\ h.to = r
        BY <1>14
      <4>3. task'[v][j].rslt = a
        BY <1>37, <1>53, <3>1
      <4> QED
        BY <1>35, <3>1, <4>1, <4>2, <4>3 DEF HasHome
    <3>2. CASE ~(v = r /\ j = m)
      <4>1. j \in DOMAIN task[v] /\ Unsent(v, j) /\ task'[v][j].rslt = task[v][j].rslt
        BY <1>54, <1>55, <2>1, <3>2
      <4>2. ASSUME NEW x \in Worker, NEW y \in DOMAIN sub[x]
            PROVE  y \in DOMAIN sub'[x] /\ sub'[x][y] = sub[x][y]
        <5>1. CASE x = w
          <6>1. y \in DOMAIN b /\ y \in DOMAIN c
            BY <1>16, <1>18, <1>19, <4>2, <5>1
          <6> QED
            BY <1>16, <1>21, <1>22, <5>1, <6>1
        <5>2. CASE x # w
          BY <1>22, <4>2, <5>2
        <5> QED
          BY <5>1, <5>2
      <4>3. PICK x \in Worker, y \in Nat \ {0} :
              /\ task[v][j].rslt = <<x, y>> /\ y \in DOMAIN sub[x]
              /\ sub[x][y].stat = "INITIALIZED" /\ sub[x][y].to = v
        BY <4>1, HomeOf DEF IInv
      <4>4. y \in DOMAIN sub'[x] /\ sub'[x][y] = sub[x][y]
        BY <4>2, <4>3
      <4> QED
        BY <4>1, <4>3, <4>4 DEF HasHome
    <3> QED
      BY <3>1, <3>2
  <2>2. ASSUME NEW v \in Worker, NEW j \in DOMAIN task'[v], NEW k \in DOMAIN task'[v],
               Unsent(v, j)', task'[v][k].stat \in Live, task'[v][j].rslt = task'[v][k].rslt
        PROVE  j = k
    <3>1. CASE v # r
      BY <1>54, <1>55, <2>2, <3>1 DEF IInv, Homes
    <3>2. CASE v = r /\ j # m /\ k # m
      BY <1>54, <1>55, <2>2, <3>2 DEF IInv, Homes
    <3>3. CASE v = r /\ j # m /\ k = m
      BY <1>37, <1>53, <1>54, <1>55, <1>57, <2>2, <3>3
    <3>4. CASE v = r /\ j = m /\ k # m
      <4>1. k \in DOMAIN task[r] /\ task[r][k].stat \in Live /\ task[r][k].rslt = a
        BY <1>37, <1>53, <1>54, <1>55, <2>2, <3>4
      <4>2. Unsent(r, k)
        BY <1>35, <1>52, <3>4, <4>1 DEF Unsent, ResultSent
      <4> QED
        BY <1>57, <4>1, <4>2
    <3> QED
      BY <3>1, <3>2, <3>3, <3>4
  <2> QED
    BY <2>1, <2>2 DEF Homes
<1>59. Executors'
  <2>1. ASSUME NEW x \in Worker, NEW v \in Worker, NEW y \in DOMAIN sub'[x],
               sub'[x][y].stat = "INITIALIZED", sub'[x][y].to = v
        PROVE  Executor(v, x, y)'
    <3>0. (\E j \in DOMAIN task'[v] : /\ Unsent(v, j)'
                                      /\ task'[v][j].rslt = <<x, y>>
                                      /\ task'[v][j].body = sub'[x][y].body)
          => Executor(v, x, y)'
      BY DEF Executor
    <3>1. CASE x = w /\ y = n
      <4>1. v = r /\ sub'[x][y].body = half
        BY <1>14, <1>20, <1>22, <2>1, <3>1
      <4> QED
        BY <1>34, <1>37, <1>53, <1>56, <3>0, <3>1, <4>1
    <3>2. CASE ~(x = w /\ y = n)
      <4>1. y \in DOMAIN sub[x] /\ sub'[x][y] = sub[x][y]
        <5>1. CASE x = w
          <6>1. y \in DOMAIN b
            BY <1>18, <1>19, <1>22, <2>1, <3>2, <5>1
          <6> QED
            BY <1>16, <1>21, <1>22, <5>1, <6>1
        <5>2. CASE x # w
          BY <1>22, <2>1, <5>2
        <5> QED
          BY <5>1, <5>2
      <4>2. PICK j \in DOMAIN task[v] : Unsent(v, j) /\ task[v][j].rslt = <<x, y>>
                                        /\ task[v][j].body = sub[x][y].body
        <5>1. sub[x][y].stat = "INITIALIZED" /\ sub[x][y].to = v
          BY <2>1, <4>1
        <5>2. Executor(v, x, y)
          BY <4>1, <5>1, ExecutorOf DEF IInv
        <5> QED
          BY <5>2 DEF Executor
      <4>3. ~(v = r /\ j = m)
        BY <1>56, <4>2
      <4>4. j \in DOMAIN task'[v] /\ Unsent(v, j)' /\ task'[v][j].rslt = task[v][j].rslt
            /\ task'[v][j].body = task[v][j].body
        BY <1>54, <1>55, <4>2, <4>3
      <4> QED
        BY <3>0, <4>1, <4>2, <4>4
    <3> QED
      BY <3>1, <3>2
  <2>2. \A x, v \in Worker : \A y \in DOMAIN sub'[x] :
          sub'[x][y].stat = "INITIALIZED" /\ sub'[x][y].to = v => Executor(v, x, y)'
    BY <2>1
  <2> QED
    BY <2>2 DEF Executors, Executor
(* the requests: all but the one that was answered *)
<1>60. ASSUME NEW v \in Worker, NEW k \in DOMAIN treq'[v]
       PROVE  k \in DOMAIN treq[v] /\ treq'[v][k] = treq[v][k] /\ treq'[v][k].from # r
  <2>1. k \in DOMAIN treq[v] /\ treq'[v][k] = treq[v][k]
    <3>1. CASE v = w
      <4>1. k \in DOMAIN u /\ k \in DOMAIN s
        BY <1>4, <1>44, <1>46, <1>60, <3>1
      <4> QED
        BY <1>2, <1>45, <1>46, <3>1, <4>1
    <3>2. CASE v # w
      BY <1>46, <1>60, <3>2
    <3> QED
      BY <3>1, <3>2
  <2>2. v = w => k # Len(s)
    BY <1>4, <1>44, <1>46, <1>60
  <2>3. Len(s) \in DOMAIN treq[w] /\ treq[w][Len(s)].from = r
    BY <1>2, <1>4, <1>6
  <2>4. treq[v][k].from = treq[w][Len(s)].from => v = w /\ k = Len(s)
    BY <2>1, <2>3 DEF IInv, Requests
  <2> QED
    BY <2>1, <2>2, <2>3, <2>4
<1>61. ASSUME NEW v \in Worker
       PROVE  StillRun(v) /\ LeavingKept(v) /\ (v # r => Waits(v))
  <2>1. StillRun(v)
    BY <1>54, <1>55, <1>56 DEF StillRun
  <2>2. CASE v \notin {w, r}
    BY <1>48, <2>1, <2>2, SameKept
  <2>3. CASE v = w
    BY <1>1, <1>8, <1>10, <1>42, <2>1, <2>3 DEF LeavingKept, Leaving, Waits, Expecting
  <2>4. CASE v = r
    BY <1>8, <2>1, <2>4 DEF LeavingKept, Leaving
  <2> QED
    BY <2>2, <2>3, <2>4
<1>62. ASSUME NEW v \in Worker, NEW x \in ToSet(treq'[v]) PROVE Accepted(v, x)'
  <2>1. PICK k \in DOMAIN treq'[v] : x = treq'[v][k]
    BY ElementsOf
  <2>2. x \in ToSet(treq[v]) /\ x.from # r
    BY <1>60, <2>1, ElementsOf
  <2>3. x \in Request /\ x.from \in Worker /\ Accepted(v, x)
    BY <1>1, <2>2, RequestType DEF IInv, Requests
  <2> QED
    BY <1>61, <2>2, <2>3, AcceptedStays
<1>63. ASSUME NEW x \in Worker, NEW y \in Worker,
              NEW j \in DOMAIN treq'[x], NEW k \in DOMAIN treq'[y],
              treq'[x][j].from = treq'[y][k].from
       PROVE  x = y /\ j = k
  BY <1>60, <1>63 DEF IInv, Requests
<1>64. ASSUME outside'.treq
       PROVE  /\ Expecting(First)' /\ Len(task'[First]) = 1
              /\ \A x \in Worker : \A k \in DOMAIN treq'[x] : treq'[x][k].from # First
  <2>1. /\ First \in Worker /\ Expecting(First) /\ Len(task[First]) = 1
        /\ \A x \in Worker : \A k \in DOMAIN treq[x] : treq[x][k].from # First
    BY <1>10, <1>64, WorkerAssumption DEF WorkerAssumption, IInv, Requests
  <2>2. First # r
    <3>1. Len(s) \in DOMAIN treq[w] /\ treq[w][Len(s)].from = r
      BY <1>2, <1>4, <1>6
    <3> QED
      BY <2>1, <3>1
  <2>3. Expecting(First)' /\ Len(task'[First]) = 1
    BY <1>61, <2>1, <2>2 DEF Waits
  <2> QED
    BY <1>60, <2>1, <2>3
<1>65. Requests'
  BY <1>62, <1>63, <1>64 DEF Requests
<1> QED
  BY <1>47, <1>51, <1>58, <1>59, <1>65 DEF IInv, Local

-----------------------------------------------------------------------------
(***************************************************************************)
(* The invariant                                                           *)
(***************************************************************************)
LEMMA InitInv == Init => IInv
<1> SUFFICES ASSUME Init PROVE IInv
  OBVIOUS
<1> USE DEF Init
<1>1. TypeOK
  BY WorkerAssumption DEF WorkerAssumption, TypeOK
<1>2. ASSUME NEW w \in Worker PROVE Stacks(w) /\ Frames(w) /\ Nesting(w) /\ NoneBound(w)
  BY DEF Stacks, Frames, NoFrames, Nesting, NoneBound
<1>3. Homes /\ Executors
  BY DEF Homes, Executors
<1>4. \A v \in Worker : ToSet(treq[v]) = {}
  BY DEF ToSet
<1>5. Requests
  BY <1>4 DEF Requests
<1> QED
  BY <1>1, <1>2, <1>3, <1>5 DEF IInv

LEMMA StutterInv ==
  ASSUME IInv, UNCHANGED vars
  PROVE  IInv'
<1>1. First \in Worker
  BY WorkerAssumption DEF WorkerAssumption
<1>2. TypeOK'
  BY DEF IInv, TypeOK, vars
<1>3. \A v \in Worker : Same(v)
  BY DEF Same, FromAddr, vars
<1>4. Local(First)'
  BY <1>1, <1>3, SameLocal DEF IInv, Local
<1> QED
  BY <1>1, <1>2, <1>3, <1>4, SameKept, QuietStep DEF vars

LEMMA WorkerStepInv ==
  ASSUME IInv, NEW w \in Worker, Step(w)
  PROVE  IInv'
<1>1. ASSUME \/ Sleep(w) \/ Nap(w) \/ RetryTreq(w) \/ EndSpawn(w) \/ CallWaitRslt(w)
             \/ EndTask(w) \/ SendRsltOutside(w) \/ SendRack(w) \/ CountRack(w)
      PROVE  IInv'
  BY <1>1, MoveInv
<1>2. ASSUME AwaitNone(w) \/ AwaitedNone(w) PROVE IInv'
  BY <1>2, AwaitInv
<1>3. ASSUME AllocateTask(w) PROVE IInv'
  BY <1>3, AllocateTaskInv
<1>4. ASSUME FlushBeforeTreq(w) \/ FlushAfterTask(w) PROVE IInv'
  BY <1>4, FlushInv
<1>5. ASSUME SendTreq(w) PROVE IInv'
  BY <1>5, SendTreqInv
<1>6. ASSUME NEW v \in Worker, TryTreqAccepted(w, v) PROVE IInv'
  BY <1>6, TryTreqAcceptedInv
<1>7. ASSUME NEW v \in Worker, TryTreqRefused(w, v) PROVE IInv'
  BY <1>7, TryTreqRefusedInv
<1>8. ASSUME ForwardTreq(w) PROVE IInv'
  BY <1>8, ForwardTreqInv
<1>9. ASSUME RefuseTreq(w) PROVE IInv'
  BY <1>9, RefuseTreqInv
<1>10. ASSUME Abandon(w) PROVE IInv'
  BY <1>10, AbandonInv
<1>11. ASSUME AbandonAfterNap(w) PROVE IInv'
  BY <1>11, AbandonAfterNapInv
<1>12. ASSUME StartTask(w) PROVE IInv'
  BY <1>12, StartTaskInv
<1>13. ASSUME CallLeaf(w) PROVE IInv'
  BY <1>13, CallLeafInv
<1>14. ASSUME EnterDoTwo(w) PROVE IInv'
  BY <1>14, EnterDoTwoInv
<1>15. ASSUME SpawnTask(w) PROVE IInv'
  BY <1>15, SpawnTaskInv
<1>16. ASSUME RunStat2(w) PROVE IInv'
  BY <1>16, RunStat2Inv
<1>17. ASSUME EndDoTwo(w) PROVE IInv'
  BY <1>17, EndDoTwoInv
<1>18. ASSUME WaitRslt(w) PROVE IInv'
  BY <1>18, WaitRsltInv
<1>19. ASSUME GetRslt(w) PROVE IInv'
  BY <1>19, GetRsltInv
<1>20. ASSUME SendRslt(w) PROVE IInv'
  BY <1>20, SendRsltInv
<1>21. ASSUME TaskDone(w) PROVE IInv'
  BY <1>21, TaskDoneInv
<1>22. ASSUME DeallocateTask(w) PROVE IInv'
  BY <1>22, DeallocateTaskInv
<1> QED
  BY <1>1, <1>2, <1>3, <1>4, <1>5, <1>6, <1>7, <1>8, <1>9, <1>10, <1>11, <1>12, <1>13,
     <1>14, <1>15, <1>16, <1>17, <1>18, <1>19, <1>20, <1>21, <1>22 DEF Step

LEMMA StepInv == IInv /\ [Next]_vars => IInv'
<1> SUFFICES ASSUME IInv, [Next]_vars PROVE IInv'
  OBVIOUS
<1>1. ASSUME NEW w \in Worker, Step(w) PROVE IInv'
  BY <1>1, WorkerStepInv
<1>2. ASSUME OutsideTask PROVE IInv'
  BY <1>2, OutsideTaskInv
<1>3. ASSUME OutsideNone PROVE IInv'
  BY <1>3, OutsideNoneInv
<1>4. ASSUME OutsideRack PROVE IInv'
  BY <1>4, OutsideRackInv
<1>5. ASSUME UNCHANGED vars PROVE IInv'
  BY <1>5, StutterInv
<1> QED
  BY <1>1, <1>2, <1>3, <1>4, <1>5 DEF Next

(* In every state a node can reach, each worker's stacks have the form that *)
(* the handlers other threads execute on them rely on, every subtask not    *)
(* completed has its task and every task its task-home, and each accepted   *)
(* request is the only one of a worker that still waits, or is still owed   *)
(* an answer: whatever the interleaving of worker.sc's critical sections.   *)
THEOREM WorkerInvariant == Spec => []IInv
<1>1. Init => IInv
  BY InitInv
<1>2. IInv /\ [Next]_vars => IInv'
  BY StepInv
<1> QED
  BY <1>1, <1>2, PTL DEF Spec

(* The stacks, flags and counters of struct thread-data keep their types;   *)
(* in particular w-none never becomes negative.                             *)
THEOREM WorkerTypes == Spec => []TypeOK
<1>1. IInv => TypeOK
  BY DEF IInv
<1> QED
  BY <1>1, WorkerInvariant, PTL

(* wait-rslt finds a subtask on top of the stack, and it is the second half *)
(* of the do-two being left, however deep the worker has been stealing back *)
(* in between.                                                              *)
THEOREM WorkerOwnResult == Spec => []OwnResult
<1>1. IInv => OwnResult
  BY NewestSub DEF OwnResult
<1> QED
  BY <1>1, WorkerInvariant, PTL

LEMMA LinkedSubtasks == IInv => SubtaskLink
<1> SUFFICES ASSUME IInv PROVE SubtaskLink
  OBVIOUS
<1>1. /\ \A v \in Worker : \A j \in DOMAIN task[v] : Unsent(v, j) => HasHome(v, j)
      /\ \A v \in Worker : \A j, k \in DOMAIN task[v] :
           Unsent(v, j) /\ task[v][k].stat \in Live /\ task[v][j].rslt = task[v][k].rslt => j = k
  BY DEF IInv, Homes
<1>2. ASSUME NEW w \in Worker, NEW i \in DOMAIN sub[w], sub[w][i].stat = "INITIALIZED"
      PROVE  LET v == sub[w][i].to
                 E == {j \in DOMAIN task[v] : task[v][j].rslt = <<w, i>> /\ task[v][j].stat \in Live}
             IN  \E j \in E : E = {j} /\ ~ResultSent(v, j) /\ task[v][j].body = sub[w][i].body
  <2>1. PICK v \in Worker : v = sub[w][i].to
    <3>1. sub[w][i] \in TaskHome
      BY StackTypes, ElementOfSeq DEF IInv
    <3> QED
      BY <3>1 DEF TaskHome
  <2>2. PICK j \in DOMAIN task[v] : Unsent(v, j) /\ task[v][j].rslt = <<w, i>>
                                    /\ task[v][j].body = sub[w][i].body
    BY <1>2, <2>1 DEF IInv, Executors
  <2> DEFINE E == {k \in DOMAIN task[v] : task[v][k].rslt = <<w, i>> /\ task[v][k].stat \in Live}
  <2>3. task[v][j].stat \in Live /\ ~ResultSent(v, j)
    BY <2>2 DEF Unsent
  <2>4. \A k \in E : j = k
    BY <1>1, <2>2
  <2>5. j \in E /\ E = {j}
    BY <2>2, <2>3, <2>4
  <2> QED
    BY <2>1, <2>2, <2>3, <2>5
<1>3. ASSUME NEW v \in Worker, NEW j \in DOMAIN task[v],
             task[v][j].stat \in Live, task[v][j].rslt # OUTSIDE, ~ResultSent(v, j)
      PROVE  /\ task[v][j].rslt[2] \in DOMAIN sub[task[v][j].rslt[1]]
             /\ sub[task[v][j].rslt[1]][task[v][j].rslt[2]].stat = "INITIALIZED"
             /\ sub[task[v][j].rslt[1]][task[v][j].rslt[2]].to = v
  <2>1. HasHome(v, j)
    BY <1>1, <1>3 DEF Unsent
  <2> QED
    BY <2>1 DEF HasHome
<1> QED
  BY <1>2, <1>3 DEF SubtaskLink

(* A half that was given away and is not completed has exactly one task, in *)
(* the worker that its task-home names; a task with a result still to send  *)
(* finds its task-home under the id it was given, although ids are stack    *)
(* heights and are used again: recv-rslt writes to the right entry.         *)
THEOREM WorkerSubtaskLink == Spec => []SubtaskLink
<1>1. IInv => SubtaskLink
  BY LinkedSubtasks
<1> QED
  BY <1>1, WorkerInvariant, PTL

-----------------------------------------------------------------------------
(***************************************************************************)
(* Where a task may be written                                             *)
(***************************************************************************)
(* The step writes no task into an entry of v. *)
NoTaskFor(v) ==
  task'[v] # task[v] /\ task'[v] # <<>> => Last(task'[v]).stat # "INITIALIZED"

LEMMA LastOfTop ==
  ASSUME TypeOK, NEW w \in Worker, task[w] # <<>>, NEW t
  PROVE  Last(WithTop(task[w], t)) = t
<1>1. PICK s \in Seq(Task) : s = task[w]
  BY StackTypes
<1>2. PICK S : S = Task \cup {t}
  OBVIOUS
<1>3. s \in Seq(S) /\ t \in S
  <2>1. Len(s) \in Nat /\ s \in [1..Len(s) -> Task]
    BY LenProperties, ElementOfSeq
  <2>2. \A n \in Nat : \A x \in [1..n -> S] : x \in Seq(S)
    BY IsASeq
  <2> QED
    BY <1>2, <2>1, <2>2
<1> QED
  BY <1>1, <1>3, WithTopOf

(* w replaces the entry on top of its stack by one that is no new task. *)
LEMMA NoTaskOnTop ==
  ASSUME TypeOK, NEW w \in Worker, task[w] # <<>>, NEW t, t.stat # "INITIALIZED",
         task' = [task EXCEPT ![w] = WithTop(task[w], t)]
  PROVE  \A v \in Worker : NoTaskFor(v)
<1>1. task'[w] = WithTop(task[w], t) /\ \A v \in Worker \ {w} : task'[v] = task[v]
  BY DEF TypeOK
<1>2. Last(WithTop(task[w], t)) = t
  BY LastOfTop
<1> QED
  BY <1>1, <1>2 DEF NoTaskFor

(* The steps of a task that goes on with its do-twos *)
LEMMA NoTaskByRunning ==
  ASSUME IInv, NEW w \in Worker,
         \/ CallLeaf(w) \/ EnterDoTwo(w) \/ RunStat2(w) \/ EndDoTwo(w) \/ GetRslt(w)
  PROVE  \A v \in Worker : NoTaskFor(v)
<1>1. pc[w] \in {"run", "wait"}
  BY DEF CallLeaf, EnterDoTwo, RunStat2, EndDoTwo, GetRslt
<1>2. /\ TypeOK /\ task[w] # <<>> /\ Top(w) \in Task
      /\ Top(w).stat \in {"STARTED", "SUSPENDED"}
  BY <1>1, AtTop DEF TopStat
<1>3. \A t : t.stat # "INITIALIZED" /\ task' = [task EXCEPT ![w] = WithTop(task[w], t)]
        => \A v \in Worker : NoTaskFor(v)
  BY <1>2, NoTaskOnTop
<1>4. CASE CallLeaf(w)
  <2>1. PICK t : t = [Top(w) EXCEPT !.ret = TRUE]
    OBVIOUS
  <2>2. t.stat # "INITIALIZED" /\ task' = [task EXCEPT ![w] = WithTop(task[w], t)]
    BY <1>2, <1>4, <2>1 DEF CallLeaf, Task
  <2> QED
    BY <1>3, <2>2
<1>5. CASE EnterDoTwo(w)
  <2>1. PICK t : t = [Top(w) EXCEPT !.frames =
               Append(@, [node |-> Current(Top(w)), spawned |-> 0, stat2 |-> FALSE])]
    OBVIOUS
  <2>2. t.stat # "INITIALIZED" /\ task' = [task EXCEPT ![w] = WithTop(task[w], t)]
    BY <1>2, <1>5, <2>1 DEF EnterDoTwo, Task
  <2> QED
    BY <1>3, <2>2
<1>6. CASE RunStat2(w)
  <2>1. PICK t : t = [Top(w) EXCEPT !.frames = WithTop(@,
               [Last(Top(w).frames) EXCEPT !.stat2 = TRUE]), !.ret = FALSE]
    OBVIOUS
  <2>2. t.stat # "INITIALIZED" /\ task' = [task EXCEPT ![w] = WithTop(task[w], t)]
    BY <1>2, <1>6, <2>1 DEF RunStat2, Task
  <2> QED
    BY <1>3, <2>2
<1>7. CASE EndDoTwo(w) \/ GetRslt(w)
  <2>1. PICK t : t = [Top(w) EXCEPT !.stat = "STARTED", !.frames = Front(@)]
    OBVIOUS
  <2>2. t.stat # "INITIALIZED" /\ task' = [task EXCEPT ![w] = WithTop(task[w], t)]
    BY <1>2, <1>7, <2>1 DEF EndDoTwo, GetRslt, FinishDoTwo, Task
  <2> QED
    BY <1>3, <2>2
<1> QED
  BY <1>4, <1>5, <1>6, <1>7

(* The steps that set the status of the entry on top *)
LEMMA NoTaskByStatus ==
  ASSUME IInv, NEW w \in Worker,
         \/ SendTreq(w) \/ Abandon(w) \/ AbandonAfterNap(w) \/ StartTask(w)
         \/ WaitRslt(w) \/ TaskDone(w)
  PROVE  \A v \in Worker : NoTaskFor(v)
<1>1. pc[w] \in {"flush", "reply", "nap", "wait", "done"}
  BY DEF SendTreq, Abandon, AbandonAfterNap, StartTask, WaitRslt, TaskDone
<1>2. TypeOK /\ task[w] # <<>> /\ Top(w) \in Task
  BY <1>1, AtTop
<1>3. \A t : t.stat # "INITIALIZED" /\ task' = [task EXCEPT ![w] = WithTop(task[w], t)]
        => \A v \in Worker : NoTaskFor(v)
  BY <1>2, NoTaskOnTop
<1>4. CASE \/ SendTreq(w) \/ WaitRslt(w) \/ TaskDone(w)
  <2>1. PICK s \in {"ALLOCATED", "SUSPENDED", "DONE"} : SetStat(w, s)
    BY <1>4 DEF SendTreq, WaitRslt, TaskDone
  <2>2. PICK t : t = [Top(w) EXCEPT !.stat = s]
    OBVIOUS
  <2>3. t.stat # "INITIALIZED" /\ task' = [task EXCEPT ![w] = WithTop(task[w], t)]
    BY <1>2, <2>1, <2>2 DEF SetStat, Task
  <2> QED
    BY <1>3, <2>3
<1>5. CASE Abandon(w) \/ AbandonAfterNap(w)
  <2>1. PICK h : task' = [task EXCEPT ![w] =
               WithTop(task[w], [Top(w) EXCEPT !.stat = "DONE", !.rslt = h])]
    BY <1>5 DEF Abandon, AbandonAfterNap, GiveUp
  <2>2. PICK t : t = [Top(w) EXCEPT !.stat = "DONE", !.rslt = h]
    OBVIOUS
  <2>3. t.stat # "INITIALIZED" /\ task' = [task EXCEPT ![w] = WithTop(task[w], t)]
    BY <1>2, <2>1, <2>2 DEF Task
  <2> QED
    BY <1>3, <2>3
<1>6. CASE StartTask(w)
  <2>1. PICK t : t = [Top(w) EXCEPT !.stat = "STARTED", !.frames = <<>>, !.ret = FALSE]
    OBVIOUS
  <2>2. t.stat # "INITIALIZED" /\ task' = [task EXCEPT ![w] = WithTop(task[w], t)]
    BY <1>2, <1>6, <2>1 DEF StartTask, Task
  <2> QED
    BY <1>3, <2>2
<1> QED
  BY <1>4, <1>5, <1>6

(* recv-none, in each of the four places that refuse a request *)
LEMMA NoTaskByNone ==
  ASSUME IInv, NEW w \in Worker,
         RefuseTreq(w) \/ FlushBeforeTreq(w) \/ FlushAfterTask(w) \/ OutsideNone
  PROVE  \A v \in Worker : NoTaskFor(v)
<1>1. TypeOK /\ First \in Worker
  BY WorkerAssumption DEF IInv, WorkerAssumption
<1>2. PICK r \in Worker : /\ \E pcs : RecvNone(r, pcs)
                          /\ wnone[r] > 0 \/ task[r] # <<>>
  <2>1. CASE RefuseTreq(w)
    BY <2>1, AtTop DEF RefuseTreq
  <2>2. CASE FlushBeforeTreq(w) \/ FlushAfterTask(w)
    <3>1. PICK i \in DOMAIN treq[w] : RecvNone(treq[w][i].from, pc)
      BY <2>2 DEF FlushBeforeTreq, FlushAfterTask, FlushOne, Topmost, ToFlush
    <3>2. PICK r \in Worker : r = treq[w][i].from
      BY <1>1, StackTypes DEF Request
    <3>3. Expecting(r) \/ wnone[r] = 1
      <4>1. treq[w][i] \in ToSet(treq[w])
        BY ElementsOf
      <4> QED
        BY <1>1, <3>2, <4>1, NoRequest DEF IInv
    <3>4. wnone[r] > 0 \/ task[r] # <<>>
      BY <3>3, AtTop DEF Expecting
    <3> QED
      BY <3>1, <3>2, <3>4
  <2>3. CASE OutsideNone
    <3>1. Expecting(First)
      BY <2>3 DEF OutsideNone, IInv, Requests
    <3>2. task[First] # <<>> /\ RecvNone(First, pc)
      BY <1>1, <2>3, <3>1, AtTop DEF Expecting, OutsideNone
    <3> QED
      BY <1>1, <3>2
  <2> QED
    BY <2>1, <2>2, <2>3
<1>3. CASE task' = task
  BY <1>3 DEF NoTaskFor
<1>4. CASE SetStat(r, "NONE") /\ task[r] # <<>>
  <2>1. PICK t : t = [Top(r) EXCEPT !.stat = "NONE"]
    OBVIOUS
  <2>2. t.stat # "INITIALIZED" /\ task' = [task EXCEPT ![r] = WithTop(task[r], t)]
    BY <1>1, <1>4, <2>1, TopOf DEF SetStat, Task
  <2> QED
    BY <1>1, <1>4, <2>2, NoTaskOnTop
<1> QED
  BY <1>2, <1>3, <1>4 DEF RecvNone

(* What deallocate-task uncovers is a suspended task. *)
LEMMA NoTaskByStack ==
  ASSUME IInv, NEW w \in Worker, AllocateTask(w) \/ DeallocateTask(w)
  PROVE  \A v \in Worker : NoTaskFor(v)
<1>1. TypeOK /\ Stacks(w)
  BY DEF IInv
<1>2. PICK s \in Seq(Task) : s = task[w]
  BY <1>1, StackTypes
<1>3. CASE AllocateTask(w)
  <2>1. PICK t : t = [stat |-> "ALLOCATED", rslt |-> TERM, body |-> Root, frames |-> <<>>,
                      ret |-> FALSE]
    OBVIOUS
  <2>2. t \in Task /\ t.stat = "ALLOCATED"
    <3>1. <<>> \in Seq(Frame) /\ Root \in Node
      BY EmptySeq, ComputationAssumption DEF ComputationAssumption
    <3> QED
      BY <2>1, <3>1 DEF Task, TaskStat, Address
  <2>3. task'[w] = Append(s, t) /\ \A v \in Worker \ {w} : task'[v] = task[v]
    BY <1>1, <1>2, <1>3, <2>1 DEF AllocateTask, TypeOK
  <2>4. Last(Append(s, t)) = t
    BY <2>2, AppendOf
  <2> QED
    BY <2>2, <2>3, <2>4 DEF NoTaskFor
<1>4. CASE DeallocateTask(w)
  <2>1. task[w] # <<>>
    BY <1>4, AtTop DEF DeallocateTask
  <2>2. PICK u : u = Front(s)
    OBVIOUS
  <2>3. task'[w] = u /\ \A v \in Worker \ {w} : task'[v] = task[v]
    BY <1>1, <1>2, <1>4, <2>2 DEF DeallocateTask, TypeOK
  <2>4. PICK n \in Nat \ {0} : n = Len(s)
    BY <1>2, <2>1, FrontOf
  <2>5. u \in Seq(Task) /\ Len(u) = n - 1 /\ DOMAIN u = 1..(n - 1)
        /\ \A j \in DOMAIN u : u[j] = s[j]
    BY <1>2, <2>1, <2>2, <2>4, FrontOf
  <2>6. \A j \in 1..(n - 1) : s[j].stat = "SUSPENDED"
    BY <1>1, <1>2, <2>4 DEF Stacks
  <2>7. u # <<>> => Last(u).stat = "SUSPENDED"
    <3>1. u # <<>> => Last(u) = u[Len(u)] /\ Len(u) \in DOMAIN u
      BY <2>5, LastOf
    <3> QED
      BY <2>5, <2>6, <3>1
  <2> QED
    BY <2>3, <2>7 DEF NoTaskFor
<1> QED
  BY <1>3, <1>4

(* A task is written by spawning and by the outside only, for a request: its *)
(* sender waits and is owed no other answer.                                 *)
LEMMA TaskForRequester ==
  ASSUME IInv, NEW w \in Worker, SpawnTask(w)
  PROVE  \E r \in Worker : /\ Expecting(r) /\ wnone[r] = 0
                           /\ \A v \in Worker \ {r} : NoTaskFor(v)
<1>1. /\ TypeOK /\ pc[w] = "spawn" /\ task[w] # <<>> /\ Top(w) \in Task
      /\ Top(w).stat = "STARTED" /\ treq[w] # <<>>
  BY AtTop DEF SpawnTask, TopStat
<1>2. Last(treq[w]) \in ToSet(treq[w])
  BY <1>1, StackTypes, LastOf, ElementsOf
<1>3. PICK r \in Worker : r = Last(treq[w]).from
  BY <1>1, <1>2, RequestType
<1>4. Expecting(r) /\ wnone[r] = 0 /\ r # w
  <2>1. Accepted(w, Last(treq[w])) /\ ~Leaving(w, Last(treq[w]).waiting)
    BY <1>1, <1>2 DEF IInv, Requests, Leaving
  <2>2. Expecting(r)
    BY <1>3, <2>1 DEF Accepted
  <2> QED
    BY <1>1, <2>2, AtTop DEF Expecting
<1>5. PICK i \in Oldest(Top(w)) :
        task' = [task EXCEPT
              ![w] = WithTop(task[w], [Top(w) EXCEPT !.frames[i].spawned = Len(sub[w]) + 1]),
              ![r] = Initialized(r, <<w, Len(sub[w]) + 1>>, Right[Top(w).frames[i].node])]
  BY <1>3 DEF SpawnTask
<1>6. PICK t : t = [Top(w) EXCEPT !.frames[i].spawned = Len(sub[w]) + 1]
  OBVIOUS
<1>7. t.stat = "STARTED"
  BY <1>1, <1>6 DEF Task
<1>8. task'[w] = WithTop(task[w], t) /\ \A v \in Worker \ {w, r} : task'[v] = task[v]
  BY <1>1, <1>4, <1>5, <1>6 DEF TypeOK
<1>9. Last(WithTop(task[w], t)) = t
  BY <1>1, LastOfTop
<1> QED
  BY <1>4, <1>7, <1>8, <1>9 DEF NoTaskFor

LEMMA TaskFromOutside ==
  ASSUME IInv, OutsideTask
  PROVE  /\ First \in Worker /\ Expecting(First) /\ wnone[First] = 0
         /\ \A v \in Worker \ {First} : NoTaskFor(v)
<1>1. First \in Worker /\ TypeOK /\ Expecting(First)
  BY WorkerAssumption DEF WorkerAssumption, OutsideTask, IInv, Requests
<1>2. wnone[First] = 0
  BY <1>1, AtTop DEF Expecting
<1>3. \A v \in Worker \ {First} : task'[v] = task[v]
  BY <1>1 DEF OutsideTask, TypeOK
<1> QED
  BY <1>1, <1>2, <1>3 DEF NoTaskFor

LEMMA WorkerStepNone ==
  ASSUME IInv, NEW w \in Worker, Step(w), NEW v \in Worker, ~NoTaskFor(v)
  PROVE  Expecting(v) /\ wnone[v] = 0
<1>1. CASE \/ CallLeaf(w) \/ EnterDoTwo(w) \/ RunStat2(w) \/ EndDoTwo(w) \/ GetRslt(w)
  BY <1>1, NoTaskByRunning
<1>2. CASE \/ SendTreq(w) \/ Abandon(w) \/ AbandonAfterNap(w) \/ StartTask(w)
           \/ WaitRslt(w) \/ TaskDone(w)
  BY <1>2, NoTaskByStatus
<1>3. CASE RefuseTreq(w) \/ FlushBeforeTreq(w) \/ FlushAfterTask(w)
  BY <1>3, NoTaskByNone
<1>4. CASE AllocateTask(w) \/ DeallocateTask(w)
  BY <1>4, NoTaskByStack
<1>5. CASE SpawnTask(w)
  BY <1>5, TaskForRequester
<1>6. CASE \/ AwaitNone(w) \/ AwaitedNone(w) \/ ForwardTreq(w) \/ Sleep(w) \/ Nap(w)
           \/ RetryTreq(w) \/ EndSpawn(w) \/ CallWaitRslt(w) \/ EndTask(w) \/ SendRslt(w)
           \/ SendRsltOutside(w) \/ SendRack(w) \/ CountRack(w)
           \/ \E u \in Worker : TryTreqAccepted(w, u) \/ TryTreqRefused(w, u)
  <2>1. task' = task
    BY <1>6 DEF AwaitNone, AwaitedNone, ForwardTreq, Sleep, Nap, RetryTreq, EndSpawn,
         CallWaitRslt, EndTask, SendRslt, SendRsltOutside, SendRack, CountRack,
         TryTreqAccepted, TryTreqRefused
  <2> QED
    BY <2>1 DEF NoTaskFor
<1> QED
  BY <1>1, <1>2, <1>3, <1>4, <1>5, <1>6 DEF Step

(* "We can guarantee that the response is none" (worker.sc, where w-none is *)
(* increased): a task is written only into the entry of a worker that waits *)
(* for an answer and is owed no answer to an abandoned request, so none of  *)
(* the running tasks is ever overwritten.                                   *)
THEOREM WorkerNoneGuarantee == Spec => NoneGuarantee
<1>1. ASSUME IInv, [Next]_vars
      PROVE  [\A w \in Worker :
                task'[w] # task[w] /\ task'[w] # <<>> /\ Last(task'[w]).stat = "INITIALIZED"
                => Expecting(w) /\ wnone[w] = 0]_vars
  <2>1. ASSUME NEW v \in Worker, ~NoTaskFor(v) PROVE Expecting(v) /\ wnone[v] = 0
    <3>1. CASE \E w \in Worker : Step(w)
      BY <1>1, <2>1, <3>1, WorkerStepNone
    <3>2. CASE OutsideTask
      BY <1>1, <2>1, <3>2, TaskFromOutside
    <3>3. CASE OutsideNone
      BY <1>1, <2>1, <3>3, NoTaskByNone
    <3>4. CASE OutsideRack \/ UNCHANGED vars
      BY <2>1, <3>4 DEF OutsideRack, vars, NoTaskFor
    <3> QED
      BY <1>1, <3>1, <3>2, <3>3, <3>4 DEF Next
  <2> QED
    BY <2>1 DEF NoTaskFor
<1> QED
  BY <1>1, WorkerInvariant, PTL DEF Spec, NoneGuarantee

(***************************************************************************)
(* Requests and answers                                                    *)
(***************************************************************************)

(* Nobody is owed an answer who was not, and no request is taken away. *)
LEMMA ReplyQuiet ==
  ASSUME ReplyInv,
         \A v \in Worker : Owed(v)' => Owed(v) /\ (HasRequest(v) => HasRequest(v)'),
         outside'.treq = outside.treq
  PROVE  ReplyInv'
  BY DEF ReplyInv

(* A worker that a step leaves alone, or only wakes *)
Alone(v) == pc'[v] \in {pc[v], Woken(pc[v])} /\ task'[v] = task[v]

LEMMA AloneExpects ==
  ASSUME NEW v \in Worker, Alone(v)
  PROVE  Expecting(v)' <=> Expecting(v)
  BY DEF Alone, Expecting, Top, Woken

(* Most steps leave requests and w-none as they are, and do not make a *)
(* worker wait for an answer.                                          *)
LEMMA OwnStep ==
  ASSUME TypeOK, NEW w \in Worker,
         \/ AwaitNone(w) \/ AwaitedNone(w) \/ AllocateTask(w) \/ SendTreq(w)
         \/ \E v \in Worker : TryTreqRefused(w, v)
         \/ Sleep(w) \/ Nap(w) \/ RetryTreq(w) \/ AbandonAfterNap(w) \/ StartTask(w)
         \/ CallLeaf(w) \/ EnterDoTwo(w) \/ EndSpawn(w) \/ RunStat2(w)
         \/ CallWaitRslt(w) \/ EndDoTwo(w) \/ WaitRslt(w) \/ GetRslt(w) \/ EndTask(w)
         \/ SendRslt(w) \/ SendRsltOutside(w) \/ SendRack(w) \/ CountRack(w)
         \/ TaskDone(w) \/ DeallocateTask(w)
  PROVE  /\ treq' = treq /\ wnone' = wnone /\ outside'.treq = outside.treq
         /\ \A v \in Worker \ {w} : Alone(v)
         /\ Expecting(w)' => Expecting(w)
<1> USE DEF TypeOK, Alone, Goto
<1>1. CASE \/ AwaitNone(w) \/ AwaitedNone(w) \/ Nap(w) \/ RetryTreq(w)
           \/ EndSpawn(w) \/ CallWaitRslt(w) \/ EndTask(w)
           \/ SendRsltOutside(w) \/ SendRack(w) \/ CountRack(w)
  BY <1>1 DEF AwaitNone, AwaitedNone, Nap, RetryTreq, EndSpawn, CallWaitRslt, EndTask,
       SendRsltOutside, SendRack, CountRack, Expecting
<1>2. CASE Sleep(w)
  BY <1>2 DEF Sleep, Expecting, Top
<1>3. CASE \E v \in Worker : TryTreqRefused(w, v)
  BY <1>3 DEF TryTreqRefused, Expecting
<1>4. CASE AllocateTask(w) \/ SendTreq(w) \/ StartTask(w) \/ WaitRslt(w)
           \/ TaskDone(w) \/ DeallocateTask(w)
  BY <1>4 DEF AllocateTask, SendTreq, StartTask, WaitRslt, TaskDone, DeallocateTask,
       SetStat, Expecting
<1>5. CASE AbandonAfterNap(w)
  BY <1>5 DEF AbandonAfterNap, GiveUp, Expecting
<1>6. CASE CallLeaf(w) \/ EnterDoTwo(w) \/ RunStat2(w) \/ EndDoTwo(w) \/ GetRslt(w)
  BY <1>6 DEF CallLeaf, EnterDoTwo, RunStat2, EndDoTwo, GetRslt, FinishDoTwo, Expecting
<1>7. CASE SendRslt(w)
  BY <1>7 DEF SendRslt, Expecting, Woken
<1> QED
  BY <1>1, <1>2, <1>3, <1>4, <1>5, <1>6, <1>7

LEMMA OwnReply ==
  ASSUME ReplyInv, NEW w \in Worker,
         treq' = treq, wnone' = wnone, outside'.treq = outside.treq,
         \A v \in Worker \ {w} : Alone(v),
         Expecting(w)' => Expecting(w)
  PROVE  ReplyInv'
<1>1. ASSUME NEW v \in Worker, Owed(v)' PROVE Owed(v)
  BY <1>1, AloneExpects DEF Owed
<1>2. \A v \in Worker : HasRequest(v)' <=> HasRequest(v)
  BY DEF HasRequest
<1> QED
  BY <1>1, <1>2, ReplyQuiet

(* recv-none answers r, for good. *)
LEMMA NoneAnswers ==
  ASSUME IInv, NEW r \in Worker, NEW pcs, RecvNone(r, pcs),
         \/ pcs = pc /\ Owed(r)
         \/ pcs = [pc EXCEPT ![r] = "reply"] /\ pc[r] = "ask"
  PROVE  /\ ~Owed(r)'
         /\ \A v \in Worker \ {r} : Alone(v) /\ wnone'[v] = wnone[v]
<1>1. TypeOK /\ NoneBound(r)
  BY DEF IInv
<1>2. /\ pc[r] # "ask" => pc'[r] \in {pc[r], Woken(pc[r])}
      /\ \A v \in Worker \ {r} : pc'[v] = pc[v]
  BY <1>1 DEF RecvNone, TypeOK
<1>3. CASE wnone[r] > 0
  <2>1. wnone[r] = 1 /\ wnone'[r] = 0 /\ task' = task
        /\ \A v \in Worker \ {r} : wnone'[v] = wnone[v]
    BY <1>1, <1>3 DEF RecvNone, NoneBound, TypeOK
  <2>2. pc[r] \notin {"flush", "ask", "reply", "sleep", "nap"} /\ ~Expecting(r)
    BY <1>1, <2>1 DEF NoneBound, Expecting
  <2>3. ~Expecting(r)'
    BY <1>2, <2>2 DEF Expecting, Woken
  <2> QED
    BY <1>2, <2>1, <2>3 DEF Owed, Alone
<1>4. CASE ~(wnone[r] > 0)
  <2>1. wnone[r] = 0 /\ wnone' = wnone /\ SetStat(r, "NONE")
    BY <1>1, <1>4 DEF NoneBound, RecvNone
  <2>2. pc[r] \in {"ask", "reply", "sleep"} /\ task[r] # <<>> /\ Top(r) \in Task
    BY <2>1, AtTop DEF Owed, Expecting
  <2>3. PICK t : t = [Top(r) EXCEPT !.stat = "NONE"]
    OBVIOUS
  <2>4. t \in Task /\ t.stat = "NONE" /\ task' = [task EXCEPT ![r] = WithTop(task[r], t)]
    BY <2>1, <2>2, <2>3 DEF Task, TaskStat, SetStat
  <2>5. NewTop(r, t) /\ \A v \in Worker \ {r} : task'[v] = task[v]
    BY <1>1, <2>2, <2>4, TopReplaced
  <2>6. ~Expecting(r)'
    BY <2>4, <2>5 DEF Expecting, NewTop
  <2> QED
    BY <1>2, <2>1, <2>5, <2>6 DEF Owed, Alone
<1> QED
  BY <1>3, <1>4

LEMMA FlushOneReply ==
  ASSUME IInv, ReplyInv, NEW w \in Worker, NEW head, FlushOne(w, head)
  PROVE  ReplyInv'
<1>1. TypeOK /\ outside' = outside
  BY DEF IInv, FlushOne
<1>2. PICK i \in DOMAIN treq[w] :
        /\ RecvNone(treq[w][i].from, pc)
        /\ treq' = [treq EXCEPT ![w] = RemoveAt(@, i)]
  BY DEF FlushOne, Topmost, ToFlush
<1>3. PICK r \in Worker : r = treq[w][i].from
  BY <1>1, StackTypes DEF Request
<1>4. Owed(r)
  <2>1. treq[w][i] \in ToSet(treq[w])
    BY ElementsOf
  <2> QED
    BY <1>1, <1>3, <2>1, NoRequest DEF IInv, Owed
<1>5. /\ ~Owed(r)'
      /\ \A v \in Worker \ {r} : Alone(v) /\ wnone'[v] = wnone[v]
  <2>1. RecvNone(r, pc)
    BY <1>2, <1>3
  <2> QED
    BY <1>4, <2>1, NoneAnswers
<1>6. ASSUME NEW v \in Worker \ {r}, HasRequest(v) PROVE HasRequest(v)'
  <2>0. PICK x \in Worker : \E k \in DOMAIN treq[x] : treq[x][k].from = v
    BY <1>6 DEF HasRequest
  <2>1. PICK k \in DOMAIN treq[x] : treq[x][k].from = v
    BY <2>0
  <2>2. CASE x # w
    BY <1>1, <1>2, <2>1, <2>2 DEF HasRequest, TypeOK
  <2>3. CASE x = w
    <3>1. k # i
      BY <1>3, <2>1, <2>3
    <3>2. PICK q \in Seq(Request) : q = treq[w]
      BY <1>1 DEF TypeOK
    <3>3. PICK n \in Nat : n = Len(q)
      BY <3>2, LenProperties
    <3>4. DOMAIN q = 1..n /\ i \in 1..n /\ k \in 1..n
      BY <2>1, <2>3, <3>2, <3>3, LenProperties
    <3>5. PICK u : u = RemoveAt(q, i)
      OBVIOUS
    <3>6. DOMAIN u = 1..(n - 1)
      BY <3>2, <3>3, <3>4, <3>5, RemoveAtOf
    <3>7. ASSUME NEW l \in 1..(n - 1) PROVE u[l] = q[IF l < i THEN l ELSE l + 1]
      BY <3>2, <3>3, <3>4, <3>5, <3>7, RemoveAtOf
    <3>8. treq'[w] = u
      BY <1>1, <1>2, <3>2, <3>5 DEF TypeOK
    <3>9. PICK l \in 1..(n - 1) : k = IF l < i THEN l ELSE l + 1
      <4>1. k < i => k \in 1..(n - 1)
        BY <3>3, <3>4
      <4>2. ~(k < i) => k - 1 \in 1..(n - 1) /\ ~(k - 1 < i) /\ k = (k - 1) + 1
        BY <3>1, <3>3, <3>4
      <4> QED
        BY <4>1, <4>2
    <3>10. u[l].from = v
      BY <2>1, <2>3, <3>2, <3>7, <3>9
    <3> QED
      BY <3>6, <3>8, <3>10 DEF HasRequest
  <2> QED
    BY <2>2, <2>3
<1>7. ASSUME NEW v \in Worker, Owed(v)'
      PROVE  Owed(v) /\ (HasRequest(v) => HasRequest(v)')
  <2>1. v # r
    BY <1>5, <1>7
  <2> QED
    BY <1>5, <1>6, <1>7, <2>1, AloneExpects DEF Owed
<1> QED
  BY <1>1, <1>7, ReplyQuiet

LEMMA AcceptedReply ==
  ASSUME IInv, ReplyInv, NEW w \in Worker, NEW v \in Worker, TryTreqAccepted(w, v)
  PROVE  ReplyInv'
<1>1. TypeOK /\ wnone' = wnone /\ outside' = outside
  BY DEF IInv, TryTreqAccepted
<1>2. PICK q : /\ q.from = w
               /\ q \in Request
               /\ treq' = [treq EXCEPT ![v] = Append(@, q)]
  <2>1. PICK q : q = [from |-> w, waiting |-> IF AsksAny(w) THEN TERM ELSE FromAddr(w)]
    OBVIOUS
  <2>2. q.from = w /\ q \in Request
    BY <1>1, <2>1, FromAddrOf DEF Request, Address
  <2> QED
    BY <2>1, <2>2 DEF TryTreqAccepted
<1>3. PICK s \in Seq(Request) : s = treq[v]
  BY <1>1 DEF TypeOK
<1>4. treq'[v] = Append(s, q) /\ \A x \in Worker \ {v} : treq'[x] = treq[x]
  BY <1>1, <1>2, <1>3 DEF TypeOK
<1>5. /\ DOMAIN treq'[v] = 1..(Len(s) + 1) /\ DOMAIN s = 1..Len(s) /\ Len(s) \in Nat
      /\ treq'[v][Len(s) + 1] = q /\ \A k \in DOMAIN s : treq'[v][k] = s[k]
  BY <1>2, <1>4, AppendOf
<1>6. HasRequest(w)'
  BY <1>2, <1>5 DEF HasRequest
<1>7. ASSUME NEW u \in Worker, HasRequest(u) PROVE HasRequest(u)'
  <2>1. PICK x \in Worker : \E k \in DOMAIN treq[x] : treq[x][k].from = u
    BY <1>7 DEF HasRequest
  <2> QED
    BY <1>3, <1>4, <1>5, <2>1 DEF HasRequest
<1>8. \A u \in Worker \ {w} : Alone(u)
  BY <1>1 DEF TryTreqAccepted, Goto, Alone, TypeOK
<1>9. ASSUME NEW u \in Worker \ {w}, Owed(u)' PROVE Owed(u)
  BY <1>1, <1>8, <1>9, AloneExpects DEF Owed
<1> QED
  BY <1>1, <1>6, <1>7, <1>9 DEF ReplyInv

LEMMA ForwardReply ==
  ASSUME IInv, ReplyInv, NEW w \in Worker, ForwardTreq(w)
  PROVE  ReplyInv'
<1>1. TypeOK /\ wnone' = wnone /\ treq' = treq /\ task' = task /\ w = First
  BY DEF IInv, ForwardTreq
<1>2. outside'.treq
  BY <1>1 DEF ForwardTreq, TypeOK
<1>3. \A u \in Worker \ {w} : Alone(u)
  BY <1>1 DEF ForwardTreq, Goto, Alone, TypeOK
<1>4. ASSUME NEW u \in Worker \ {w}, Owed(u)' PROVE Owed(u)
  BY <1>1, <1>3, <1>4, AloneExpects DEF Owed
<1>5. \A u \in Worker : HasRequest(u)' <=> HasRequest(u)
  BY <1>1 DEF HasRequest
<1> QED
  BY <1>1, <1>2, <1>4, <1>5 DEF ReplyInv

LEMMA RefuseReply ==
  ASSUME IInv, ReplyInv, NEW w \in Worker, RefuseTreq(w)
  PROVE  ReplyInv'
<1>1. treq' = treq /\ outside' = outside /\ pc[w] = "ask"
  BY DEF RefuseTreq
<1>2. ~Owed(w)' /\ \A v \in Worker \ {w} : Alone(v) /\ wnone'[v] = wnone[v]
  BY <1>1, NoneAnswers DEF RefuseTreq
<1>3. ASSUME NEW v \in Worker, Owed(v)' PROVE Owed(v)
  BY <1>2, <1>3, AloneExpects DEF Owed
<1>4. \A v \in Worker : HasRequest(v)' <=> HasRequest(v)
  BY <1>1 DEF HasRequest
<1> QED
  BY <1>1, <1>3, <1>4, ReplyQuiet

(* The request that is abandoned is the one that was waited for. *)
LEMMA AbandonReply ==
  ASSUME IInv, ReplyInv, NEW w \in Worker, Abandon(w)
  PROVE  ReplyInv'
<1>1. /\ TypeOK /\ treq' = treq /\ outside' = outside /\ pc[w] = "reply" /\ wnone[w] = 0
      /\ Top(w).stat \in {"ALLOCATED", "NONE"}
  BY AtTop DEF Abandon, TopStat
<1>2. /\ \A v \in Worker \ {w} : Alone(v) /\ wnone'[v] = wnone[v]
      /\ pc'[w] = "drain"
      /\ wnone'[w] = IF Top(w).stat # "NONE" THEN 1 ELSE 0
  BY <1>1 DEF Abandon, GiveUp, Goto, Alone, TypeOK
<1>3. ASSUME NEW v \in Worker, Owed(v)' PROVE Owed(v)
  BY <1>1, <1>2, <1>3, AloneExpects DEF Owed, Expecting
<1>4. \A v \in Worker : HasRequest(v)' <=> HasRequest(v)
  BY <1>1 DEF HasRequest
<1> QED
  BY <1>1, <1>3, <1>4, ReplyQuiet

(* The requester gets the task. *)
LEMMA SpawnReply ==
  ASSUME IInv, ReplyInv, NEW w \in Worker, SpawnTask(w)
  PROVE  ReplyInv'
<1>1. /\ TypeOK /\ pc[w] = "spawn" /\ treq[w] # <<>> /\ Top(w).stat = "STARTED"
      /\ wnone' = wnone /\ outside' = outside
  BY AtTop DEF SpawnTask, TopStat
<1>2. Last(treq[w]) \in ToSet(treq[w]) /\ treq[w] \in Seq(Request)
  BY <1>1, StackTypes, LastOf, ElementsOf
<1>3. PICK r \in Worker : r = Last(treq[w]).from
  BY <1>1, <1>2, RequestType
<1>4. Expecting(r) /\ wnone[r] = 0 /\ r # w /\ task[r] # <<>>
  <2>1. Accepted(w, Last(treq[w])) /\ ~Leaving(w, Last(treq[w]).waiting)
    BY <1>1, <1>2 DEF IInv, Requests, Leaving
  <2>2. Expecting(r)
    BY <1>3, <2>1 DEF Accepted
  <2> QED
    BY <1>1, <2>2, AtTop DEF Expecting
<1>5. PICK i \in Oldest(Top(w)) :
        /\ task' = [task EXCEPT
              ![w] = WithTop(task[w], [Top(w) EXCEPT !.frames[i].spawned = Len(sub[w]) + 1]),
              ![r] = Initialized(r, <<w, Len(sub[w]) + 1>>, Right[Top(w).frames[i].node])]
        /\ pc' = [pc EXCEPT ![r] = Woken(pc[r])]
  BY <1>3 DEF SpawnTask
<1>6. PICK t : t = [Top(r) EXCEPT !.stat = "INITIALIZED", !.rslt = <<w, Len(sub[w]) + 1>>,
                                  !.body = Right[Top(w).frames[i].node]]
  OBVIOUS
<1>7. task'[r] = WithTop(task[r], t) /\ \A v \in Worker \ {w, r} : task'[v] = task[v]
  BY <1>1, <1>4, <1>5, <1>6 DEF TypeOK, Initialized
<1>8. ~Expecting(r)'
  <2>1. Top(r) \in Task
    BY <1>1, <1>4, TopOf
  <2>2. t.stat = "INITIALIZED"
    BY <1>6, <2>1 DEF Task
  <2>3. Top(r)' = t
    BY <1>1, <1>4, <1>7, LastOfTop DEF Top
  <2> QED
    BY <2>2, <2>3 DEF Expecting
<1>9. pc'[w] = "spawn" /\ \A v \in Worker \ {w, r} : Alone(v)
  BY <1>1, <1>4, <1>5, <1>7 DEF Alone, TypeOK
<1>10. ASSUME NEW v \in Worker, Owed(v)' PROVE Owed(v) /\ v # r
  BY <1>1, <1>4, <1>8, <1>9, <1>10, AloneExpects DEF Owed, Expecting
<1>11. /\ treq'[w] = Front(treq[w]) /\ \A x \in Worker \ {w} : treq'[x] = treq[x]
  BY <1>1 DEF SpawnTask, TypeOK
<1>12. /\ DOMAIN treq[w] = 1..Len(treq[w]) /\ DOMAIN treq'[w] = 1..(Len(treq[w]) - 1)
       /\ Len(treq[w]) \in Nat
       /\ \A k \in DOMAIN treq'[w] : treq'[w][k] = treq[w][k]
       /\ treq[w][Len(treq[w])].from = r
  BY <1>1, <1>2, <1>3, <1>11, FrontOf, LastOf
<1>13. ASSUME NEW v \in Worker \ {r}, HasRequest(v) PROVE HasRequest(v)'
  <2>1. PICK x \in Worker : \E k \in DOMAIN treq[x] : treq[x][k].from = v
    BY <1>13 DEF HasRequest
  <2>2. CASE x # w
    BY <1>11, <2>1, <2>2 DEF HasRequest
  <2>3. CASE x = w
    <3>1. PICK k \in DOMAIN treq[w] : treq[w][k].from = v
      BY <2>1, <2>3
    <3>2. k \in DOMAIN treq'[w]
      BY <1>12, <3>1
    <3> QED
      BY <1>12, <3>1, <3>2 DEF HasRequest
  <2> QED
    BY <2>2, <2>3
<1> QED
  BY <1>1, <1>10, <1>13, ReplyQuiet

LEMMA OutsideReply ==
  ASSUME IInv, ReplyInv, OutsideTask \/ OutsideNone
  PROVE  ReplyInv'
<1>1. /\ TypeOK /\ First \in Worker /\ outside.treq /\ treq' = treq
      /\ Expecting(First) /\ task[First] # <<>> /\ Top(First) \in Task /\ wnone[First] = 0
  <2>1. outside.treq /\ First \in Worker /\ Expecting(First)
    BY WorkerAssumption DEF OutsideTask, OutsideNone, WorkerAssumption, IInv, Requests
  <2> QED
    BY <2>1, AtTop DEF OutsideTask, OutsideNone, Expecting
<1>2. ~Owed(First)' /\ \A v \in Worker \ {First} : Alone(v) /\ wnone'[v] = wnone[v]
  <2>1. CASE OutsideNone
    BY <1>1, <2>1, NoneAnswers DEF OutsideNone, Owed
  <2>2. CASE OutsideTask
    <3>1. PICK t : t = [Top(First) EXCEPT !.stat = "INITIALIZED", !.rslt = OUTSIDE, !.body = Root]
      OBVIOUS
    <3>2. t.stat = "INITIALIZED"
      BY <1>1, <3>1 DEF Task
    <3>3. /\ task'[First] = WithTop(task[First], t) /\ wnone' = wnone
          /\ \A v \in Worker \ {First} : Alone(v)
      BY <1>1, <2>2, <3>1 DEF OutsideTask, Initialized, Alone, TypeOK
    <3>4. Top(First)' = t
      BY <1>1, <3>3, LastOfTop DEF Top
    <3> QED
      BY <1>1, <3>2, <3>3, <3>4 DEF Owed, Expecting
  <2> QED
    BY <2>1, <2>2
<1>3. ASSUME NEW v \in Worker, Owed(v)' PROVE Owed(v) /\ v # First
  BY <1>2, <1>3, AloneExpects DEF Owed
<1>4. \A v \in Worker : HasRequest(v)' <=> HasRequest(v)
  BY <1>1 DEF HasRequest
<1> QED
  BY <1>3, <1>4 DEF ReplyInv

LEMMA ReplyStep == IInv /\ ReplyInv /\ [Next]_vars => ReplyInv'
<1> SUFFICES ASSUME IInv, ReplyInv, [Next]_vars PROVE ReplyInv'
  OBVIOUS
<1>1. ASSUME NEW w \in Worker,
         \/ AwaitNone(w) \/ AwaitedNone(w) \/ AllocateTask(w) \/ SendTreq(w)
         \/ \E v \in Worker : TryTreqRefused(w, v)
         \/ Sleep(w) \/ Nap(w) \/ RetryTreq(w) \/ AbandonAfterNap(w) \/ StartTask(w)
         \/ CallLeaf(w) \/ EnterDoTwo(w) \/ EndSpawn(w) \/ RunStat2(w)
         \/ CallWaitRslt(w) \/ EndDoTwo(w) \/ WaitRslt(w) \/ GetRslt(w) \/ EndTask(w)
         \/ SendRslt(w) \/ SendRsltOutside(w) \/ SendRack(w) \/ CountRack(w)
         \/ TaskDone(w) \/ DeallocateTask(w)
      PROVE  ReplyInv'
  <2>1. TypeOK
    BY DEF IInv
  <2>2. /\ treq' = treq /\ wnone' = wnone /\ outside'.treq = outside.treq
        /\ \A v \in Worker \ {w} : Alone(v)
        /\ Expecting(w)' => Expecting(w)
    BY <1>1, <2>1, OwnStep
  <2> QED
    BY <2>2, OwnReply
<1>2. ASSUME NEW w \in Worker, FlushBeforeTreq(w) \/ FlushAfterTask(w) PROVE ReplyInv'
  <2>1. PICK head : FlushOne(w, head)
    BY <1>2 DEF FlushBeforeTreq, FlushAfterTask
  <2> QED
    BY <2>1, FlushOneReply
<1>3. ASSUME NEW w \in Worker,
             \/ ForwardTreq(w) \/ RefuseTreq(w) \/ Abandon(w) \/ SpawnTask(w)
             \/ \E v \in Worker : TryTreqAccepted(w, v)
      PROVE  ReplyInv'
  BY <1>3, AcceptedReply, ForwardReply, RefuseReply, AbandonReply, SpawnReply
<1>4. ASSUME NEW w \in Worker, Step(w) PROVE ReplyInv'
  BY <1>1, <1>2, <1>3, <1>4 DEF Step
<1>5. CASE OutsideTask \/ OutsideNone
  BY <1>5, OutsideReply
<1>6. CASE OutsideRack \/ UNCHANGED vars
  <2>1. /\ pc' = pc /\ task' = task /\ treq' = treq /\ wnone' = wnone
        /\ outside'.treq = outside.treq
    BY <1>6 DEF OutsideRack, vars, IInv, TypeOK
  <2>2. \A v \in Worker : (Owed(v)' <=> Owed(v)) /\ (HasRequest(v)' <=> HasRequest(v))
    BY <2>1 DEF Owed, Expecting, Top, HasRequest
  <2> QED
    BY <2>1, <2>2, ReplyQuiet
<1> QED
  BY <1>4, <1>5, <1>6 DEF Next

LEMMA CountedRequests ==
  ASSUME IInv, ReplyInv
  PROVE  ReplyAccounting
<1> SUFFICES ASSUME NEW w \in Worker
             PROVE  Unanswered(w) = wnone[w] + IF Expecting(w) THEN 1 ELSE 0
  BY DEF ReplyAccounting
<1>1. TypeOK /\ Requests /\ wnone[w] \in {0, 1} /\ (Expecting(w) => wnone[w] = 0)
  BY DEF IInv, NoneBound, Expecting
<1> DEFINE P == {p \in UNION {{v} \X DOMAIN treq[v] : v \in Worker} :
                   treq[p[1]][p[2]].from = w}
           out == IF w = First /\ outside.treq THEN 1 ELSE 0
<1>2. Unanswered(w) = Cardinality(P) + out
  BY DEF Unanswered
<1>3. CASE HasRequest(w)
  <2>1. PICK v \in Worker : \E i \in DOMAIN treq[v] : treq[v][i].from = w
    BY <1>3 DEF HasRequest
  <2>2. PICK i \in DOMAIN treq[v] : treq[v][i].from = w
    BY <2>1
  <2>3. P = {<<v, i>>}
    <3>1. <<v, i>> \in P
      BY <2>2
    <3>2. ASSUME NEW p \in P PROVE p = <<v, i>>
      <4>1. PICK u \in Worker : p \in {u} \X DOMAIN treq[u]
        OBVIOUS
      <4>2. PICK k \in DOMAIN treq[u] : p = <<u, k>>
        BY <4>1
      <4>3. treq[u][k].from = treq[v][i].from
        BY <2>2, <4>2
      <4> QED
        BY <1>1, <4>2, <4>3 DEF Requests
    <3> QED
      BY <3>1, <3>2
  <2>4. Cardinality(P) = 1
    BY <2>3, FS_Singleton
  <2>5. out = 0
    BY <1>1, <2>2 DEF Requests
  <2>6. Expecting(w) \/ wnone[w] = 1
    BY <1>1, <2>2, NoRequest
  <2> HIDE DEF P, out
  <2> QED
    BY <1>1, <1>2, <2>4, <2>5, <2>6
<1>4. CASE ~HasRequest(w)
  <2>1. P = {}
    BY <1>4 DEF HasRequest
  <2>2. Cardinality(P) = 0
    BY <2>1, FS_EmptySet
  <2>3. out = 1 => Expecting(w)
    BY <1>1 DEF Requests
  <2>4. Owed(w) => out = 1
    BY <1>4 DEF ReplyInv
  <2>5. out \in {0, 1}
    OBVIOUS
  <2> HIDE DEF P, out
  <2> QED
    BY <1>1, <1>2, <2>2, <2>3, <2>4, <2>5 DEF Owed
<1> QED
  BY <1>3, <1>4

(* w-none and the state of the allocated entry account for every answer     *)
(* still to come: no request of send-treq-to-initialize-task is answered    *)
(* twice, or never, wherever it is refused or abandoned.                    *)
THEOREM WorkerReplyAccounting == Spec => []ReplyAccounting
<1>1. Init => ReplyInv
  BY DEF Init, ReplyInv, Owed, Expecting
<1>2. IInv /\ ReplyInv /\ [Next]_vars => ReplyInv'
  BY ReplyStep
<1>3. IInv /\ ReplyInv => ReplyAccounting
  BY CountedRequests
<1> QED
  BY <1>1, <1>2, <1>3, WorkerInvariant, PTL DEF Spec

(***************************************************************************)
(* Racks                                                                   *)
(***************************************************************************)

(* What RackInv and RackAccounting say of v is not changed. *)
RackSame(v) ==
  /\ pc'[v] = "rack" => pc[v] = "rack"
  /\ pc'[v] = "count" <=> pc[v] = "count"
  /\ \A j \in DOMAIN task'[v] : FromOutside(v, j)' =>
       /\ j \in DOMAIN task[v] /\ FromOutside(v, j)
       /\ pc[v] \in {"count", "done"} /\ j = Len(task[v]) =>
            pc'[v] \in {"count", "done"} /\ j = Len(task'[v])

LEMMA RackQuiet ==
  ASSUME RackInv, RackAccounting, \A v \in Worker : RackSame(v),
         ackTo' = ackTo, wrack' = wrack, outside'.rack = outside.rack,
         outside'.task => outside.task
  PROVE  RackInv' /\ RackAccounting'
<1>1. RackAccounting'
  BY DEF RackSame, RackAccounting
<1>2. RackInv'
  BY DEF RackSame, RackInv
<1> QED
  BY <1>1, <1>2

LEMMA AloneRack ==
  ASSUME NEW v \in Worker, Alone(v)
  PROVE  RackSame(v)
  BY DEF Alone, RackSame, FromOutside, Woken

(* The entry on top of the stack is replaced: it does not become the first *)
(* task, and the first task does not leave "count" and "done" alive.       *)
LEMMA EntryRack ==
  ASSUME TypeOK, NEW w \in Worker, task[w] # <<>>, NEW t,
         task'[w] = WithTop(task[w], t),
         pc'[w] \notin {"rack", "count"}, pc[w] # "count",
         t.stat \in Live => /\ t.rslt # OUTSIDE \/ (Top(w).stat \in Live /\ t.rslt = Top(w).rslt)
                            /\ pc[w] # "done"
  PROVE  RackSame(w)
<1>1. PICK s \in Seq(Task) : s = task[w]
  BY StackTypes
<1>2. PICK S : S = Task \cup {t}
  OBVIOUS
<1>3. s \in Seq(S) /\ t \in S /\ s # <<>>
  <2>1. Len(s) \in Nat /\ s \in [1..Len(s) -> Task]
    BY LenProperties, ElementOfSeq
  <2>2. \A n \in Nat : \A x \in [1..n -> S] : x \in Seq(S)
    BY IsASeq
  <2> QED
    BY <1>1, <1>2, <2>1, <2>2
<1>4. PICK u : u = WithTop(s, t)
  OBVIOUS
<1>5. DOMAIN u = 1..Len(s) /\ u[Len(s)] = t /\ DOMAIN s = 1..Len(s)
  <2>1. DOMAIN WithTop(s, t) = 1..Len(s) /\ WithTop(s, t)[Len(s)] = t
    BY <1>3, WithTopOf
  <2>2. DOMAIN u = 1..Len(s) /\ u[Len(s)] = t
    BY <1>4, <2>1
  <2>3. DOMAIN s = 1..Len(s)
    BY <1>3, LastOf
  <2> QED
    BY <2>1, <2>2, <2>3
<1>6. ASSUME NEW j \in DOMAIN s, j # Len(s) PROVE u[j] = s[j]
  BY <1>3, <1>4, <1>6, WithTopAt
<1>7. Top(w) = s[Len(s)]
  BY <1>1 DEF Top, Last
<1> QED
  BY <1>1, <1>4, <1>5, <1>6, <1>7 DEF RackSame, FromOutside

LEMMA TopRack ==
  ASSUME TypeOK, NEW w \in Worker, task[w] # <<>>, NEW t,
         task' = [task EXCEPT ![w] = WithTop(task[w], t)],
         \A v \in Worker \ {w} : pc'[v] = pc[v],
         pc'[w] \notin {"rack", "count"}, pc[w] # "count",
         t.stat \in Live => /\ Top(w).stat \in Live /\ t.rslt = Top(w).rslt
                            /\ pc[w] # "done"
  PROVE  \A v \in Worker : RackSame(v)
<1>1. task'[w] = WithTop(task[w], t) /\ \A v \in Worker \ {w} : Alone(v)
  BY DEF TypeOK, Alone
<1> QED
  BY <1>1, EntryRack, AloneRack

(* recv-none *)
LEMMA NoneRack ==
  ASSUME IInv, NEW r \in Worker, NEW pcs, RecvNone(r, pcs),
         \/ pcs = pc /\ Owed(r)
         \/ pcs = [pc EXCEPT ![r] = "reply"] /\ pc[r] = "ask"
  PROVE  \A v \in Worker : RackSame(v)
<1>1. TypeOK /\ NoneBound(r)
  BY DEF IInv
<1>2. \A v \in Worker \ {r} : RackSame(v)
  BY NoneAnswers, AloneRack
<1>3. pc'[r] \in {pc[r], Woken(pc[r])} \/ (pc[r] = "ask" /\ pc'[r] = "reply")
  BY <1>1 DEF RecvNone, TypeOK, Woken
<1>4. CASE wnone[r] > 0
  <2>1. task' = task /\ pc[r] # "ask"
    BY <1>1, <1>4 DEF RecvNone, NoneBound
  <2> QED
    BY <1>2, <1>3, <2>1, AloneRack DEF Alone
<1>5. CASE ~(wnone[r] > 0)
  <2>1. wnone[r] = 0 /\ SetStat(r, "NONE")
    BY <1>1, <1>5 DEF NoneBound, RecvNone
  <2>2. pc[r] \in {"ask", "reply", "sleep"} /\ task[r] # <<>> /\ Top(r) \in Task
    BY <2>1, AtTop DEF Owed, Expecting
  <2>3. PICK t : t = [Top(r) EXCEPT !.stat = "NONE"]
    OBVIOUS
  <2>4. /\ t \in Task /\ t.stat \notin Live
        /\ task' = [task EXCEPT ![r] = WithTop(task[r], t)]
    BY <2>1, <2>2, <2>3 DEF Task, TaskStat, SetStat, Live
  <2>5. pc'[r] \notin {"rack", "count"} /\ task'[r] = WithTop(task[r], t)
    BY <1>1, <1>3, <2>2, <2>4 DEF Woken, TypeOK
  <2> QED
    BY <1>1, <1>2, <2>2, <2>4, <2>5, EntryRack
<1> QED
  BY <1>4, <1>5

(* The steps that change at most the entry on top *)
LEMMA TaskRack ==
  ASSUME IInv, NEW w \in Worker,
         \/ SendTreq(w) \/ StartTask(w) \/ CallLeaf(w) \/ EnterDoTwo(w) \/ RunStat2(w)
         \/ EndDoTwo(w) \/ WaitRslt(w) \/ GetRslt(w) \/ TaskDone(w)
         \/ Abandon(w) \/ AbandonAfterNap(w)
  PROVE  \A v \in Worker : RackSame(v)
<1>1. /\ TypeOK /\ task[w] # <<>> /\ Top(w) \in Task /\ Top(w).stat \in TopStat(pc[w])
      /\ pc[w] # "count"
  BY AtTop DEF SendTreq, StartTask, CallLeaf, EnterDoTwo, RunStat2, EndDoTwo, WaitRslt,
       GetRslt, TaskDone, Abandon, AbandonAfterNap
<1>2. /\ \A v \in Worker \ {w} : pc'[v] = pc[v]
      /\ pc'[w] \notin {"rack", "count"}
  <2>1. CASE SendTreq(w) \/ StartTask(w) \/ EnterDoTwo(w) \/ WaitRslt(w) \/ GetRslt(w)
             \/ TaskDone(w) \/ Abandon(w) \/ AbandonAfterNap(w)
    <3>1. \E label \in {"ask", "run", "spawn", "enter", "drain"} : Goto(w, label)
      BY <2>1 DEF SendTreq, StartTask, EnterDoTwo, WaitRslt, GetRslt, TaskDone, Abandon,
           AbandonAfterNap, GiveUp
    <3> QED
      BY <1>1, <3>1 DEF Goto, TypeOK
  <2>2. CASE CallLeaf(w) \/ RunStat2(w) \/ EndDoTwo(w)
    BY <2>2 DEF CallLeaf, RunStat2, EndDoTwo
  <2> QED
    BY <2>1, <2>2
<1>3. ASSUME NEW t, task' = [task EXCEPT ![w] = WithTop(task[w], t)],
             t.stat \in Live =>
               /\ Top(w).stat \in Live /\ t.rslt = Top(w).rslt /\ pc[w] # "done"
      PROVE  \A v \in Worker : RackSame(v)
  BY <1>1, <1>2, <1>3, TopRack
<1>4. CASE SendTreq(w)
  <2>1. PICK t : t = [Top(w) EXCEPT !.stat = "ALLOCATED"]
    OBVIOUS
  <2>2. t.stat = "ALLOCATED" /\ task' = [task EXCEPT ![w] = WithTop(task[w], t)]
    BY <1>1, <1>4, <2>1 DEF SendTreq, SetStat, Task
  <2> QED
    BY <1>3, <2>2 DEF Live
<1>5. CASE TaskDone(w)
  <2>1. PICK t : t = [Top(w) EXCEPT !.stat = "DONE"]
    OBVIOUS
  <2>2. t.stat = "DONE" /\ task' = [task EXCEPT ![w] = WithTop(task[w], t)]
    BY <1>1, <1>5, <2>1 DEF TaskDone, SetStat, Task
  <2> QED
    BY <1>3, <2>2 DEF Live
<1>6. CASE Abandon(w) \/ AbandonAfterNap(w)
  <2>1. PICK head :
          task' = [task EXCEPT ![w] = WithTop(task[w],
                     [Top(w) EXCEPT !.stat = "DONE", !.rslt = head])]
    BY <1>6 DEF Abandon, AbandonAfterNap, GiveUp
  <2>2. PICK t : t = [Top(w) EXCEPT !.stat = "DONE", !.rslt = head]
    OBVIOUS
  <2>3. t.stat = "DONE" /\ task' = [task EXCEPT ![w] = WithTop(task[w], t)]
    BY <1>1, <2>1, <2>2 DEF Task
  <2> QED
    BY <1>3, <2>3 DEF Live
<1>7. CASE WaitRslt(w)
  <2>1. PICK t : t = [Top(w) EXCEPT !.stat = "SUSPENDED"]
    OBVIOUS
  <2>2. /\ t.rslt = Top(w).rslt /\ task' = [task EXCEPT ![w] = WithTop(task[w], t)]
        /\ Top(w).stat \in Live /\ pc[w] # "done"
    BY <1>1, <1>7, <2>1 DEF WaitRslt, SetStat, Task, TopStat, Live
  <2> QED
    BY <1>3, <2>2
<1>8. CASE StartTask(w)
  <2>1. PICK t : t = [Top(w) EXCEPT !.stat = "STARTED", !.frames = <<>>, !.ret = FALSE]
    OBVIOUS
  <2>2. /\ t.rslt = Top(w).rslt /\ task' = [task EXCEPT ![w] = WithTop(task[w], t)]
        /\ Top(w).stat \in Live /\ pc[w] # "done"
    BY <1>1, <1>8, <2>1 DEF StartTask, Task, Live
  <2> QED
    BY <1>3, <2>2
<1>9. CASE CallLeaf(w)
  <2>1. PICK t : t = [Top(w) EXCEPT !.ret = TRUE]
    OBVIOUS
  <2>2. /\ t.rslt = Top(w).rslt /\ task' = [task EXCEPT ![w] = WithTop(task[w], t)]
        /\ Top(w).stat \in Live /\ pc[w] # "done"
    BY <1>1, <1>9, <2>1 DEF CallLeaf, Task, TopStat, Live
  <2> QED
    BY <1>3, <2>2
<1>10. CASE EnterDoTwo(w)
  <2>1. PICK t : t = [Top(w) EXCEPT !.frames =
          Append(Top(w).frames, [node |-> Current(Top(w)), spawned |-> 0, stat2 |-> FALSE])]
    OBVIOUS
  <2>2. task' = [task EXCEPT ![w] = WithTop(task[w], t)]
    BY <1>1, <1>10, <2>1 DEF EnterDoTwo
  <2>3. t.rslt = Top(w).rslt /\ Top(w).stat \in Live /\ pc[w] # "done"
    BY <1>1, <1>10, <2>1 DEF EnterDoTwo, Task, TopStat, Live
  <2> QED
    BY <1>3, <2>2, <2>3
<1>11. CASE RunStat2(w)
  <2>1. PICK t : t = [Top(w) EXCEPT
               !.frames = WithTop(Top(w).frames, [Last(Top(w).frames) EXCEPT !.stat2 = TRUE]),
               !.ret = FALSE]
    OBVIOUS
  <2>2. task' = [task EXCEPT ![w] = WithTop(task[w], t)]
    BY <1>1, <1>11, <2>1 DEF RunStat2
  <2>3. t.rslt = Top(w).rslt /\ Top(w).stat \in Live /\ pc[w] # "done"
    BY <1>1, <1>11, <2>1 DEF RunStat2, Task, TopStat, Live
  <2> QED
    BY <1>3, <2>2, <2>3
<1>12. CASE EndDoTwo(w) \/ GetRslt(w)
  <2>1. PICK t : t = [Top(w) EXCEPT !.stat = "STARTED", !.frames = Front(Top(w).frames)]
    OBVIOUS
  <2>2. task' = [task EXCEPT ![w] = WithTop(task[w], t)]
    BY <1>1, <1>12, <2>1 DEF EndDoTwo, GetRslt, FinishDoTwo
  <2>3. t.rslt = Top(w).rslt /\ Top(w).stat \in Live /\ pc[w] # "done"
    BY <1>1, <1>12, <2>1 DEF EndDoTwo, GetRslt, Task, TopStat, Live
  <2> QED
    BY <1>3, <2>2, <2>3
<1> QED
  BY <1>4, <1>5, <1>6, <1>7, <1>8, <1>9, <1>10, <1>11, <1>12

(* Steps that leave the stacks alone, and allocate-task and deallocate-task *)
LEMMA QuietRack ==
  ASSUME IInv, NEW w \in Worker,
         \/ AwaitNone(w) \/ AwaitedNone(w) \/ ForwardTreq(w) \/ Sleep(w) \/ Nap(w)
         \/ RetryTreq(w) \/ EndSpawn(w) \/ CallWaitRslt(w) \/ EndTask(w)
         \/ AllocateTask(w) \/ DeallocateTask(w)
         \/ \E v \in Worker : TryTreqAccepted(w, v) \/ TryTreqRefused(w, v)
  PROVE  \A v \in Worker : RackSame(v)
<1>1. TypeOK
  BY DEF IInv
<1>2. CASE \/ AwaitNone(w) \/ AwaitedNone(w) \/ ForwardTreq(w) \/ Sleep(w) \/ Nap(w)
           \/ RetryTreq(w) \/ EndSpawn(w) \/ CallWaitRslt(w) \/ EndTask(w)
           \/ \E v \in Worker : TryTreqAccepted(w, v) \/ TryTreqRefused(w, v)
  <2>1. task' = task /\ \A v \in Worker \ {w} : pc'[v] = pc[v]
    BY <1>1, <1>2 DEF AwaitNone, AwaitedNone, ForwardTreq, Sleep, Nap, RetryTreq, EndSpawn,
         CallWaitRslt, EndTask, TryTreqAccepted, TryTreqRefused, Goto, TypeOK
  <2>2. pc[w] \notin {"count", "done"} /\ pc'[w] \notin {"rack", "count"}
    BY <1>1, <1>2 DEF AwaitNone, AwaitedNone, ForwardTreq, Sleep, Nap, RetryTreq, EndSpawn,
         CallWaitRslt, EndTask, TryTreqAccepted, TryTreqRefused, Goto, TypeOK
  <2> QED
    BY <2>1, <2>2, AloneRack DEF Alone, RackSame, FromOutside
<1>3. CASE AllocateTask(w)
  <2>1. PICK t : t = [stat |-> "ALLOCATED", rslt |-> TERM, body |-> Root, frames |-> <<>>,
                      ret |-> FALSE]
    OBVIOUS
  <2>2. t \in Task /\ t.stat \notin Live
    BY <2>1, ComputationAssumption DEF ComputationAssumption, Task, TaskStat, Address, Live
  <2>3. /\ task'[w] = Append(task[w], t) /\ pc[w] = "enter" /\ pc'[w] = "flush"
        /\ \A v \in Worker \ {w} : Alone(v)
    BY <1>1, <1>3, <2>1 DEF AllocateTask, Goto, Alone, TypeOK
  <2>4. /\ DOMAIN task'[w] = 1..(Len(task[w]) + 1) /\ DOMAIN task[w] = 1..Len(task[w])
        /\ Len(task[w]) \in Nat
        /\ task'[w][Len(task[w]) + 1] = t
        /\ \A j \in DOMAIN task[w] : task'[w][j] = task[w][j]
    BY <1>1, <2>2, <2>3, StackTypes, AppendOf
  <2>5. RackSame(w)
    <3>1. ASSUME NEW j \in DOMAIN task'[w], FromOutside(w, j)'
          PROVE  j \in DOMAIN task[w] /\ FromOutside(w, j)
      <4>1. j # Len(task[w]) + 1
        BY <2>2, <2>4, <3>1 DEF FromOutside
      <4>2. j \in DOMAIN task[w]
        BY <2>4, <3>1, <4>1
      <4> QED
        BY <2>4, <3>1, <4>2 DEF FromOutside
    <3> QED
      BY <2>3, <3>1 DEF RackSame
  <2> QED
    BY <2>3, <2>5, AloneRack
<1>4. CASE DeallocateTask(w)
  <2>1. /\ task'[w] = Front(task[w]) /\ pc[w] = "drain" /\ pc'[w] \in {"enter", "wait"}
        /\ task[w] # <<>> /\ \A v \in Worker \ {w} : Alone(v)
    BY <1>1, <1>4, AtTop DEF DeallocateTask, Goto, Alone, TypeOK
  <2>2. /\ DOMAIN task'[w] = 1..(Len(task[w]) - 1) /\ DOMAIN task[w] = 1..Len(task[w])
        /\ Len(task[w]) \in Nat
        /\ \A j \in DOMAIN task'[w] : task'[w][j] = task[w][j]
    BY <1>1, <2>1, StackTypes, FrontOf
  <2>3. RackSame(w)
    BY <2>1, <2>2 DEF RackSame, FromOutside
  <2> QED
    BY <2>1, <2>3, AloneRack
<1> QED
  BY <1>2, <1>3, <1>4

(* make-and-send-task: the new task's address is not the outside. *)
LEMMA SpawnRack ==
  ASSUME IInv, NEW w \in Worker, SpawnTask(w)
  PROVE  \A v \in Worker : RackSame(v)
<1>1. /\ TypeOK /\ pc[w] = "spawn" /\ treq[w] # <<>> /\ Top(w).stat = "STARTED"
      /\ task[w] # <<>> /\ Top(w) \in Task
  BY AtTop DEF SpawnTask, TopStat
<1>2. Last(treq[w]) \in ToSet(treq[w]) /\ treq[w] \in Seq(Request)
  BY <1>1, StackTypes, LastOf, ElementsOf
<1>3. PICK r \in Worker : r = Last(treq[w]).from
  BY <1>1, <1>2, RequestType
<1>4. Expecting(r) /\ r # w /\ task[r] # <<>> /\ Top(r) \in Task
  <2>1. Accepted(w, Last(treq[w])) /\ ~Leaving(w, Last(treq[w]).waiting)
    BY <1>1, <1>2 DEF IInv, Requests, Leaving
  <2>2. Expecting(r)
    BY <1>3, <2>1 DEF Accepted
  <2> QED
    BY <1>1, <2>2, AtTop DEF Expecting
<1>5. PICK i \in Oldest(Top(w)) :
        /\ task' = [task EXCEPT
              ![w] = WithTop(task[w], [Top(w) EXCEPT !.frames[i].spawned = Len(sub[w]) + 1]),
              ![r] = Initialized(r, <<w, Len(sub[w]) + 1>>, Right[Top(w).frames[i].node])]
        /\ pc' = [pc EXCEPT ![r] = Woken(pc[r])]
  BY <1>3 DEF SpawnTask
<1>6. PICK t : t = [Top(r) EXCEPT !.stat = "INITIALIZED", !.rslt = <<w, Len(sub[w]) + 1>>,
                                  !.body = Right[Top(w).frames[i].node]]
  OBVIOUS
<1>7. PICK x : x = [Top(w) EXCEPT !.frames[i].spawned = Len(sub[w]) + 1]
  OBVIOUS
<1>8. /\ task'[r] = WithTop(task[r], t) /\ task'[w] = WithTop(task[w], x)
      /\ pc'[w] = "spawn" /\ pc[r] \in {"reply", "sleep"} /\ pc'[r] = "reply"
      /\ \A v \in Worker \ {w, r} : Alone(v)
  BY <1>1, <1>4, <1>5, <1>6, <1>7 DEF TypeOK, Initialized, Alone, Expecting, Woken
<1>9. t.rslt # OUTSIDE
  <2>1. t.rslt = <<w, Len(sub[w]) + 1>>
    BY <1>4, <1>6 DEF Task
  <2> QED
    BY <2>1 DEF OUTSIDE
<1>10. x.rslt = Top(w).rslt /\ Top(w).stat \in Live
  BY <1>1, <1>7 DEF Task, Live
<1>11. RackSame(r)
  BY <1>1, <1>4, <1>8, <1>9, EntryRack
<1>12. RackSame(w)
  BY <1>1, <1>8, <1>10, EntryRack
<1> QED
  BY <1>8, <1>11, <1>12, AloneRack

(* Some request is refused, by the worker that accepted it, by its own      *)
(* sender, or outside.                                                      *)
LEMMA FlushOneRack ==
  ASSUME IInv, NEW w \in Worker, NEW head, FlushOne(w, head)
  PROVE  \A v \in Worker : RackSame(v)
<1>1. TypeOK
  BY DEF IInv
<1>2. PICK i \in DOMAIN treq[w] : RecvNone(treq[w][i].from, pc)
  BY DEF FlushOne, Topmost, ToFlush
<1>3. PICK r \in Worker : r = treq[w][i].from
  BY <1>1, StackTypes DEF Request
<1>4. Owed(r)
  <2>1. treq[w][i] \in ToSet(treq[w])
    BY ElementsOf
  <2> QED
    BY <1>1, <1>3, <2>1, NoRequest DEF IInv, Owed
<1>5. RecvNone(r, pc)
  BY <1>2, <1>3
<1> QED
  BY <1>4, <1>5, NoneRack

LEMMA RefuseRack ==
  ASSUME IInv, NEW w \in Worker, RefuseTreq(w)
  PROVE  \A v \in Worker : RackSame(v)
<1>1. RecvNone(w, [pc EXCEPT ![w] = "reply"]) /\ pc[w] = "ask"
  BY DEF RefuseTreq
<1> QED
  BY <1>1, NoneRack

LEMMA OutsideNoneRack ==
  ASSUME IInv, OutsideNone
  PROVE  \A v \in Worker : RackSame(v)
<1>1. RecvNone(First, pc) /\ outside.treq /\ First \in Worker
  BY WorkerAssumption DEF OutsideNone, WorkerAssumption
<1>2. Owed(First)
  BY <1>1 DEF IInv, Requests, Owed
<1> QED
  BY <1>1, <1>2, NoneRack

(* A step that leaves the stacks alone *)
LEMMA SameStacksRack ==
  ASSUME RackInv, task' = task, outside'.task = outside.task,
         \A v \in Worker : pc'[v] = "rack" => ackTo'[v] = v,
         outside'.rack =>
           /\ ~outside.task
           /\ \A v \in Worker : \A j \in DOMAIN task[v] : FromOutside(v, j) =>
                pc'[v] \in {"count", "done"} /\ j = Len(task[v])
  PROVE  RackInv'
  BY DEF RackInv, FromOutside

(* No rack is owed from outside while the task from outside still has to be *)
(* completed.                                                               *)
LEMMA NoOutsideRack ==
  ASSUME RackInv, NEW w \in Worker, NEW j \in DOMAIN task[w], FromOutside(w, j),
         pc[w] \notin {"count", "done"}
  PROVE  ~outside.rack
  BY DEF RackInv

(* recv-rslt: the task-home names the worker that sends the result, so the  *)
(* rack that follows goes to it.                                            *)
LEMMA SendRsltRack ==
  ASSUME IInv, RackInv, RackAccounting, NEW w \in Worker, SendRslt(w)
  PROVE  RackInv' /\ RackAccounting'
<1>1. /\ TypeOK /\ Homes /\ pc[w] = "rslt" /\ task[w] # <<>> /\ Top(w).stat = "STARTED"
      /\ Top(w).rslt # OUTSIDE
      /\ task' = task /\ wrack' = wrack /\ outside' = outside
  BY AtTop DEF SendRslt, TopStat, IInv
<1>2. PICK j \in DOMAIN task[w] : j = Len(task[w]) /\ Top(w) = task[w][j]
  BY <1>1, StackTypes, LastOf DEF Top
<1>3. Unsent(w, j)
  BY <1>1, <1>2 DEF Unsent, Live, ResultSent
<1>4. PICK x \in Worker : \E y \in Nat \ {0} :
        task[w][j].rslt = <<x, y>> /\ sub[x][y].to = w
  BY <1>1, <1>3, HomeOf
<1>5. PICK y \in Nat \ {0} : task[w][j].rslt = <<x, y>> /\ sub[x][y].to = w
  BY <1>4
<1>6. ackTo' = [ackTo EXCEPT ![w] = w]
  <2>1. Top(w).rslt[1] = x /\ Top(w).rslt[2] = y
    BY <1>2, <1>5
  <2>2. ackTo' = [ackTo EXCEPT ![w] = sub[Top(w).rslt[1]][Top(w).rslt[2]].to]
    BY DEF SendRslt
  <2> QED
    BY <1>5, <2>1, <2>2
<1>7. \A v \in Worker \ {w} : pc'[v] \in {pc[v], Woken(pc[v])} /\ ackTo'[v] = ackTo[v]
  BY <1>1, <1>6 DEF SendRslt, TypeOK
<1>8. ackTo'[w] = w /\ pc'[w] # "count"
  BY <1>1, <1>6 DEF SendRslt, TypeOK, Woken
<1>9. \A v \in Worker : pc'[v] = "rack" => ackTo'[v] = v
  BY <1>7, <1>8 DEF RackInv, Woken
<1>10. ASSUME outside.rack, NEW v \in Worker, NEW k \in DOMAIN task[v], FromOutside(v, k)
       PROVE  pc'[v] \in {"count", "done"} /\ k = Len(task[v])
  <2>1. pc[v] \in {"count", "done"} /\ k = Len(task[v])
    BY <1>10 DEF RackInv
  <2> QED
    BY <1>1, <1>7, <2>1 DEF Woken
<1>11. RackInv'
  BY <1>1, <1>9, <1>10, SameStacksRack DEF RackInv
<1>12. \A v \in Worker : pc'[v] = "count" <=> pc[v] = "count"
  BY <1>1, <1>7, <1>8 DEF Woken
<1> QED
  BY <1>1, <1>11, <1>12 DEF RackAccounting

(* The result of the task from outside, of which there is one. *)
LEMMA SendRsltOutsideRack ==
  ASSUME IInv, RackInv, RackAccounting, NEW w \in Worker, SendRsltOutside(w)
  PROVE  RackInv' /\ RackAccounting'
<1>1. /\ TypeOK /\ pc[w] = "rslt" /\ task[w] # <<>> /\ Top(w).stat = "STARTED"
      /\ Top(w).rslt = OUTSIDE
      /\ task' = task /\ wrack' = wrack /\ ackTo' = ackTo
      /\ outside' = [outside EXCEPT !.rack = TRUE] /\ pc' = [pc EXCEPT ![w] = "count"]
  BY AtTop DEF SendRsltOutside, TopStat, IInv, Goto
<1>2. PICK j \in DOMAIN task[w] : j = Len(task[w]) /\ Top(w) = task[w][j]
  BY <1>1, StackTypes, LastOf DEF Top
<1>3. FromOutside(w, j)
  BY <1>1, <1>2 DEF FromOutside, Live
<1>4. w = First /\ ~outside.task /\ ~outside.rack
  BY <1>1, <1>3, NoOutsideRack DEF RackInv
<1>5. /\ outside'.task = outside.task /\ outside'.rack
      /\ pc'[w] = "count" /\ \A v \in Worker \ {w} : pc'[v] = pc[v]
  BY <1>1 DEF TypeOK
<1>6. ASSUME NEW v \in Worker, NEW k \in DOMAIN task[v], FromOutside(v, k)
      PROVE  pc'[v] \in {"count", "done"} /\ k = Len(task[v])
  <2>1. v = w
    BY <1>4, <1>6 DEF RackInv
  <2>2. k = j
    BY <1>3, <1>6, <2>1 DEF RackInv
  <2> QED
    BY <1>2, <1>5, <2>1, <2>2
<1>7. \A v \in Worker : pc'[v] = "rack" => ackTo'[v] = v
  BY <1>1, <1>5 DEF RackInv
<1>8. RackInv'
  BY <1>1, <1>4, <1>5, <1>6, <1>7, SameStacksRack
<1>9. ASSUME NEW v \in Worker
      PROVE  wrack'[v] = (IF v = First /\ outside'.rack THEN 1 ELSE 0)
                         - (IF pc'[v] = "count" THEN 1 ELSE 0)
  BY <1>1, <1>4, <1>5 DEF RackAccounting
<1> QED
  BY <1>8, <1>9 DEF RackAccounting

(* recv-rack and the sender's own count *)
LEMMA RacksCounted ==
  ASSUME IInv, RackInv, RackAccounting, NEW w \in Worker, SendRack(w) \/ CountRack(w)
  PROVE  RackInv' /\ RackAccounting'
<1>1. /\ TypeOK /\ task' = task /\ ackTo' = ackTo /\ outside' = outside
      /\ \A v \in Worker \ {w} : pc'[v] = pc[v]
      /\ pc'[w] \in {"count", "done"}
  BY DEF SendRack, CountRack, Goto, IInv, TypeOK
<1>2. \A v \in Worker : pc'[v] = "rack" => ackTo'[v] = v
  BY <1>1 DEF RackInv
<1>3. ASSUME outside.rack, NEW v \in Worker, NEW k \in DOMAIN task[v], FromOutside(v, k)
      PROVE  pc'[v] \in {"count", "done"} /\ k = Len(task[v])
  BY <1>1, <1>3 DEF RackInv
<1>4. RackInv'
  BY <1>1, <1>2, <1>3, SameStacksRack DEF RackInv
<1>5. /\ \A v \in Worker \ {w} : wrack'[v] = wrack[v]
      /\ \/ pc[w] = "rack" /\ pc'[w] = "count" /\ wrack'[w] = wrack[w] - 1
         \/ pc[w] = "count" /\ pc'[w] = "done" /\ wrack'[w] = wrack[w] + 1
  <2>1. CASE SendRack(w)
    <3>1. pc[w] = "rack" /\ wrack' = [wrack EXCEPT ![ackTo[w]] = @ - 1]
      BY <2>1 DEF SendRack
    <3>2. ackTo[w] = w
      BY <3>1 DEF RackInv
    <3> QED
      BY <1>1, <2>1, <3>1, <3>2 DEF SendRack, Goto, TypeOK
  <2>2. CASE CountRack(w)
    BY <1>1, <2>2 DEF CountRack, Goto, TypeOK
  <2> QED
    BY <2>1, <2>2
<1>6. ASSUME NEW v \in Worker
      PROVE  wrack'[v] = (IF v = First /\ outside'.rack THEN 1 ELSE 0)
                         - (IF pc'[v] = "count" THEN 1 ELSE 0)
  <2>1. /\ wrack[v] = (IF v = First /\ outside.rack THEN 1 ELSE 0)
                      - (IF pc[v] = "count" THEN 1 ELSE 0)
        /\ outside'.rack = outside.rack
    BY <1>1 DEF RackAccounting
  <2>2. CASE v # w
    BY <1>1, <1>5, <2>1, <2>2
  <2>3. CASE v = w
    BY <1>5, <2>1, <2>3
  <2> QED
    BY <2>2, <2>3
<1> QED
  BY <1>4, <1>6 DEF RackAccounting

LEMMA OutsideRackRack ==
  ASSUME IInv, RackInv, RackAccounting, OutsideRack
  PROVE  RackInv' /\ RackAccounting'
<1>1. /\ TypeOK /\ task' = task /\ ackTo' = ackTo /\ pc' = pc
      /\ outside.rack /\ ~outside'.rack /\ outside'.task = outside.task
      /\ wrack' = [wrack EXCEPT ![First] = @ - 1] /\ First \in Worker
  BY WorkerAssumption DEF OutsideRack, IInv, TypeOK, WorkerAssumption
<1>2. RackInv'
  BY <1>1, SameStacksRack DEF RackInv
<1>3. ASSUME NEW v \in Worker
      PROVE  wrack'[v] = (IF v = First /\ outside'.rack THEN 1 ELSE 0)
                         - (IF pc'[v] = "count" THEN 1 ELSE 0)
  <2>1. wrack[v] = (IF v = First THEN 1 ELSE 0) - (IF pc[v] = "count" THEN 1 ELSE 0)
    BY <1>1 DEF RackAccounting
  <2>2. wrack'[v] = IF v = First THEN wrack[v] - 1 ELSE wrack[v]
    BY <1>1 DEF TypeOK
  <2> QED
    BY <1>1, <2>1, <2>2
<1> QED
  BY <1>2, <1>3 DEF RackAccounting

(* The initial task is given to the 0-th worker, once. *)
LEMMA OutsideTaskRack ==
  ASSUME IInv, RackInv, RackAccounting, OutsideTask
  PROVE  RackInv' /\ RackAccounting'
<1>1. /\ TypeOK /\ First \in Worker /\ outside.task /\ Expecting(First)
      /\ task[First] # <<>> /\ Top(First) \in Task /\ Len(task[First]) = 1
  <2>1. outside.task /\ First \in Worker /\ Expecting(First) /\ Len(task[First]) = 1
    BY WorkerAssumption DEF OutsideTask, WorkerAssumption, IInv, Requests
  <2> QED
    BY <2>1, AtTop DEF OutsideTask, Expecting
<1>2. PICK t : t = [Top(First) EXCEPT !.stat = "INITIALIZED", !.rslt = OUTSIDE, !.body = Root]
  OBVIOUS
<1>3. t \in Task
  BY <1>1, <1>2, ComputationAssumption
    DEF ComputationAssumption, Task, TaskStat, Address
<1>4. /\ task' = [task EXCEPT ![First] = WithTop(task[First], t)]
      /\ outside' = [outside EXCEPT !.task = FALSE, !.treq = FALSE]
      /\ pc' = [pc EXCEPT ![First] = Woken(pc[First])]
      /\ ackTo' = ackTo /\ wrack' = wrack
  BY <1>2 DEF OutsideTask, Initialized
<1>5. /\ ~outside'.task /\ outside'.rack = outside.rack /\ ~outside.rack
      /\ pc[First] \in {"reply", "sleep"} /\ pc'[First] = "reply"
      /\ \A v \in Worker \ {First} : pc'[v] = pc[v] /\ task'[v] = task[v]
  BY <1>1, <1>4 DEF TypeOK, RackInv, Expecting, Woken
<1>6. \A v \in Worker : \A j \in DOMAIN task[v] : ~FromOutside(v, j)
  BY <1>1 DEF RackInv
<1>7. DOMAIN task'[First] = {1}
  <2>1. task[First] \in Seq(Task)
    BY <1>1 DEF TypeOK
  <2>2. DOMAIN WithTop(task[First], t) = 1..Len(task[First])
    BY <1>1, <1>3, <2>1, WithTopOf
  <2> QED
    BY <1>1, <1>4, <2>2 DEF TypeOK
<1>8. ASSUME NEW v \in Worker, NEW j \in DOMAIN task'[v], FromOutside(v, j)'
      PROVE  v = First
  BY <1>5, <1>6, <1>8 DEF FromOutside
<1>9. RackInv'
  <2>1. \A v \in Worker : pc'[v] = "rack" => ackTo'[v] = v
    BY <1>4, <1>5 DEF RackInv
  <2>2. ASSUME NEW v \in Worker, NEW j \in DOMAIN task'[v], FromOutside(v, j)'
        PROVE  v = First /\ \A k \in DOMAIN task'[v] : k = j
    BY <1>7, <1>8, <2>2
  <2> QED
    BY <1>5, <2>1, <2>2 DEF RackInv
<1>10. \A v \in Worker : pc'[v] = "count" <=> pc[v] = "count"
  BY <1>5
<1> QED
  BY <1>4, <1>5, <1>9, <1>10 DEF RackAccounting

LEMMA RackStep ==
  ASSUME IInv, RackInv, RackAccounting, [Next]_vars
  PROVE  RackInv' /\ RackAccounting'
<1>1. ASSUME NEW w \in Worker,
             \/ AwaitNone(w) \/ AwaitedNone(w) \/ AllocateTask(w)
             \/ FlushBeforeTreq(w) \/ SendTreq(w)
             \/ \E v \in Worker : TryTreqAccepted(w, v) \/ TryTreqRefused(w, v)
             \/ ForwardTreq(w) \/ RefuseTreq(w)
             \/ Abandon(w) \/ Sleep(w) \/ Nap(w) \/ RetryTreq(w) \/ AbandonAfterNap(w)
             \/ StartTask(w)
             \/ CallLeaf(w) \/ EnterDoTwo(w) \/ SpawnTask(w) \/ EndSpawn(w)
             \/ RunStat2(w) \/ CallWaitRslt(w) \/ EndDoTwo(w) \/ WaitRslt(w) \/ GetRslt(w)
             \/ EndTask(w) \/ TaskDone(w) \/ FlushAfterTask(w) \/ DeallocateTask(w)
      PROVE  RackInv' /\ RackAccounting'
  <2>1. \A v \in Worker : RackSame(v)
    <3>1. CASE FlushBeforeTreq(w) \/ FlushAfterTask(w)
      <4>1. PICK head : FlushOne(w, head)
        BY <3>1 DEF FlushBeforeTreq, FlushAfterTask
      <4> QED
        BY <4>1, FlushOneRack
    <3> QED
      BY <1>1, <3>1, TaskRack, QuietRack, SpawnRack, RefuseRack
  <2>2. ackTo' = ackTo /\ wrack' = wrack
    BY <1>1 DEF AwaitNone, AwaitedNone, AllocateTask, FlushBeforeTreq, SendTreq,
         TryTreqAccepted, TryTreqRefused, ForwardTreq, RefuseTreq, Abandon, Sleep, Nap,
         RetryTreq, AbandonAfterNap, StartTask, CallLeaf, EnterDoTwo, SpawnTask, EndSpawn,
         RunStat2, CallWaitRslt, EndDoTwo, WaitRslt, GetRslt, EndTask, TaskDone,
         FlushAfterTask, DeallocateTask, FlushOne
  <2>3. outside'.rack = outside.rack /\ outside'.task = outside.task
    <3>1. CASE ForwardTreq(w)
      BY <3>1 DEF ForwardTreq, IInv, TypeOK
    <3>2. CASE ~ForwardTreq(w)
      BY <1>1, <3>2 DEF AwaitNone, AwaitedNone, AllocateTask, FlushBeforeTreq, SendTreq,
           TryTreqAccepted, TryTreqRefused, RefuseTreq, Abandon, Sleep, Nap,
           RetryTreq, AbandonAfterNap, StartTask, CallLeaf, EnterDoTwo, SpawnTask, EndSpawn,
           RunStat2, CallWaitRslt, EndDoTwo, WaitRslt, GetRslt, EndTask, TaskDone,
           FlushAfterTask, DeallocateTask, FlushOne
    <3> QED
      BY <3>1, <3>2
  <2> QED
    BY <2>1, <2>2, <2>3, RackQuiet
<1>2. ASSUME NEW w \in Worker,
             SendRslt(w) \/ SendRsltOutside(w) \/ SendRack(w) \/ CountRack(w)
      PROVE  RackInv' /\ RackAccounting'
  BY <1>2, SendRsltRack, SendRsltOutsideRack, RacksCounted
<1>3. ASSUME NEW w \in Worker, Step(w) PROVE RackInv' /\ RackAccounting'
  BY <1>1, <1>2, <1>3 DEF Step
<1>4. CASE OutsideNone
  <2>1. /\ \A v \in Worker : RackSame(v)
        /\ ackTo' = ackTo /\ wrack' = wrack
        /\ outside'.rack = outside.rack /\ outside'.task = outside.task
    BY <1>4, OutsideNoneRack DEF OutsideNone, IInv, TypeOK
  <2> QED
    BY <2>1, RackQuiet
<1>5. CASE UNCHANGED vars
  <2>1. \A v \in Worker : RackSame(v)
    BY <1>5 DEF vars, RackSame, FromOutside
  <2> QED
    BY <1>5, <2>1, RackQuiet DEF vars
<1> QED
  BY <1>3, <1>4, <1>5, OutsideTaskRack, OutsideRackRack DEF Next

(* A worker's w-rack is the racks that are on their way to it: whoever      *)
(* waits for w-rack to fall before it accepts a request does not wait for a *)
(* rack that has been taken already, or that goes to someone else.          *)
THEOREM WorkerRackAccounting == Spec => []RackAccounting
<1>1. Init => RackInv /\ RackAccounting
  BY DEF Init, RackInv, RackAccounting, FromOutside
<1>2. IInv /\ RackInv /\ RackAccounting /\ [Next]_vars => RackInv' /\ RackAccounting'
  BY RackStep
<1> QED
  BY <1>1, <1>2, WorkerInvariant, PTL DEF Spec
=============================================================================
