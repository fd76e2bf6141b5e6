------------------------- MODULE TascellCancelProofs -------------------------
(***************************************************************************)
(* Proofs about TascellCancel, for any number of workers, subtasks, frames *)
(* and exception tags.                                                     *)
(*                                                                         *)
(* What a throw breaks off is found again by the order of two stacks: the  *)
(* subtasks of a worker lie in the order of the tasks that own them, and   *)
(* those of one task in the order of its frames.  So the newest subtask is *)
(* one of the innermost region that has any, whichever way the regions     *)
(* above it were left (Nested), and each region has as many as it counts   *)
(* (Counted).                                                              *)
(***************************************************************************)
EXTENDS TascellCancel, TLAPS, SequenceTheorems, FiniteSetTheorems

T(w) == thr[w].tasks
S(w) == thr[w].sub
Alive(t) == task[t].stat \in {"initialized", "started"}
IsStarted(t) == task[t].stat = "started"
InSub(s) == \E w \in Worker : s \in ToSet(S(w))

(* a task that has another one above it on its worker's stack *)
Waiting(t) == IsStarted(t) /\ task[t].pc = "wait" /\ TopFrame(t).spn > 0

Stacks ==
  /\ \A v, w \in Worker : \A i \in DOMAIN T(v), j \in DOMAIN T(w) :
       T(v)[i] = T(w)[j] => v = w /\ i = j
  /\ \A t \in Task : Alive(t) <=> \E w \in Worker : t \in ToSet(T(w))
  /\ \A w \in Worker : \A i \in DOMAIN T(w) : i < Len(T(w)) => Waiting(T(w)[i])
  /\ \A w \in Worker : thr[w].sending => T(w) # <<>> /\ IsStarted(Top(w))
  /\ \A t \in Task : t > spawned => task[t] = NoTask /\ home[t] = NoHome

Framed(fs) ==
  /\ fs # <<>>
  /\ \A i \in DOMAIN fs : /\ i = 1 <=> fs[i].kind = "body"
                          /\ fs[i].kind \in {"body", "catch"} => fs[i].spn = 0
                          /\ fs[i].kind = "two" => fs[i].spn <= 1
Frames == \A t \in Task : /\ IsStarted(t) => Framed(task[t].frames)
                          /\ task[t].stat = "initialized" => task[t].pc = "run" /\ task[t].frames = <<>>

Subs ==
  /\ \A v, w \in Worker : \A i \in DOMAIN S(v), j \in DOMAIN S(w) :
       S(v)[i] = S(w)[j] => v = w /\ i = j
  /\ \A w \in Worker : \A s \in ToSet(S(w)) :
       /\ s \in 1..spawned
       /\ home[s].owner \in ToSet(T(w)) /\ IsStarted(home[s].owner)
       /\ home[s].region \in DOMAIN task[home[s].owner].frames
  /\ \A s \in Task : home[s].stat = "initialized" <=> Alive(s)
  /\ \A s \in Task \ {Root} : Alive(s) => InSub(s)

Nested ==
  \A w \in Worker : \A i, j \in DOMAIN S(w) : \A k, l \in DOMAIN T(w) :
    /\ i < j
    /\ T(w)[k] = home[S(w)[i]].owner
    /\ T(w)[l] = home[S(w)[j]].owner
    => k < l \/ (k = l /\ home[S(w)[i]].region <= home[S(w)[j]].region)

SpawnedIn(t, i) == {s \in SubtasksOf(t) : home[s].region = i}
Counted ==
  \A t \in Task : IsStarted(t) =>
    \A i \in DOMAIN task[t].frames : Cardinality(SpawnedIn(t, i)) = task[t].frames[i].spn

(* Who backtracks because it was cancelled has been sent a cncl, or has to *)
(* take an exception of a subtask on its way.                              *)
Thrown(t) == {s \in SubtasksOf(t) : home[s].stat = "exception"}
CancelReason ==
  \A w \in Worker : thr[w].exiting = "cancel" =>
    /\ T(w) # <<>> /\ IsStarted(Top(w)) /\ task[Top(w)].pc = "unwind"
    /\ home[Top(w)].msg_cncl = 2 \/ Thrown(Top(w)) # {}

Structure == Stacks /\ Frames /\ Subs /\ Nested /\ Counted

IInv == /\ TypeOK /\ Structure /\ CancelAccounting /\ CancelReason /\ AbortedIfCancelled

(***************************************************************************)
(* Sequences and maxima                                                    *)
(***************************************************************************)
LEMMA FrontOf ==
  ASSUME NEW X, NEW q \in Seq(X), q # <<>>
  PROVE  /\ Front(q) \in Seq(X) /\ Len(Front(q)) = Len(q) - 1
         /\ DOMAIN Front(q) = 1..Len(q) - 1 /\ DOMAIN q = 1..Len(q)
         /\ \A i \in 1..Len(q) - 1 : i \in DOMAIN q /\ Front(q)[i] = q[i]
         /\ Len(q) \in DOMAIN q /\ Len(q) \in Nat \ {0}
         /\ Last(q) = q[Len(q)] /\ Last(q) \in X
<1> DEFINE n == Len(q)
           u == SubSeq(q, 1, n - 1)
<1>1. n \in Nat \ {0} /\ DOMAIN q = 1..n /\ \A i \in 1..n : q[i] \in X
  BY LenProperties, EmptySeq, ElementOfSeq
<1>2. u \in Seq(X) /\ Len(u) = (IF 1 <= n - 1 THEN (n - 1) - 1 + 1 ELSE 0)
      /\ \A i \in 1..((n - 1) - 1 + 1) : u[i] = q[1 + i - 1]
  <2>1. 1 \in Int /\ n - 1 \in Int /\ \A i \in 1..(n - 1) : q[i] \in X
    BY <1>1
  <2> HIDE DEF n
  <2> QED
    BY <2>1, SubSeqProperties
<1>3. Front(q) = u /\ Last(q) = q[n]
  BY DEF Front, Last
<1> HIDE DEF u, n
<1>4. Len(u) = n - 1 /\ \A i \in 1..(n - 1) : u[i] = q[i]
  BY <1>1, <1>2
<1>5. DOMAIN u = 1..(n - 1)
  BY <1>2, <1>4, LenProperties
<1>6. /\ u \in Seq(X) /\ Len(u) = n - 1 /\ DOMAIN u = 1..n - 1 /\ DOMAIN q = 1..n
      /\ \A i \in 1..n - 1 : i \in 1..n /\ u[i] = q[i]
      /\ n \in 1..n /\ n \in Nat \ {0} /\ q[n] \in X
  BY <1>1, <1>2, <1>4, <1>5
<1>7. Front(q) = u /\ Last(q) = q[n] /\ Len(q) = n
  BY <1>3 DEF n
<1> QED
  BY <1>6, <1>7

LEMMA AppendOf ==
  ASSUME NEW X, NEW q \in Seq(X), NEW x \in X
  PROVE  /\ Append(q, x) \in Seq(X) /\ Len(Append(q, x)) = Len(q) + 1
         /\ DOMAIN Append(q, x) = 1..Len(q) + 1 /\ DOMAIN q = 1..Len(q)
         /\ \A i \in DOMAIN q : Append(q, x)[i] = q[i]
         /\ Append(q, x)[Len(q) + 1] = x
         /\ Last(Append(q, x)) = x
  BY DEF Last

LEMMA FrontSet ==
  ASSUME NEW X, NEW q \in Seq(X), q # <<>>, \A i, j \in DOMAIN q : q[i] = q[j] => i = j
  PROVE  ToSet(Front(q)) = ToSet(q) \ {Last(q)} /\ Last(q) \in ToSet(q)
<1> DEFINE n == Len(q)
           u == Front(q)
<1>1. /\ DOMAIN u = 1..n - 1 /\ DOMAIN q = 1..n /\ n \in Nat \ {0}
      /\ \A i \in 1..n - 1 : u[i] = q[i]
      /\ Last(q) = q[n]
  BY FrontOf
<1> HIDE DEF n, u
<1>2. \A i \in 1..n : i # n => i \in 1..n - 1
  BY <1>1
<1>3. ToSet(u) = ToSet(q) \ {q[n]}
  BY <1>1, <1>2 DEF ToSet
<1> QED
  BY <1>1, <1>3 DEF ToSet, u

LEMMA AppendSet ==
  ASSUME NEW X, NEW q \in Seq(X), NEW x \in X
  PROVE  ToSet(Append(q, x)) = ToSet(q) \cup {x}
<1>1. /\ DOMAIN Append(q, x) = 1..Len(q) + 1 /\ DOMAIN q = 1..Len(q)
      /\ \A i \in DOMAIN q : Append(q, x)[i] = q[i]
      /\ Append(q, x)[Len(q) + 1] = x /\ Len(q) \in Nat
  BY AppendOf
<1> QED
  BY <1>1 DEF ToSet

LEMMA MaxOf ==
  ASSUME NEW n \in Nat, NEW X \in SUBSET (0..n), X # {}
  PROVE  Max(X) \in X
<1> DEFINE Y == {n - x : x \in X}
           R == OpToRel(<, Nat)
<1>1. Y \subseteq Nat /\ Y # {}
  <2>1. \A x \in X : n - x \in Nat
    OBVIOUS
  <2> QED
    BY <2>1
<1>2. PICK y \in Y : \A z \in Y : ~(<<z, y>> \in R)
  <2>1. IsWellFoundedOn(R, Nat)
    BY NatLessThanWellFounded
  <2> HIDE DEF Y, R
  <2> QED
    BY <1>1, <2>1, WFMin
<1>3. \A z \in Y : ~(z < y)
  BY <1>1, <1>2 DEF OpToRel
<1>4. PICK m \in X : y = n - m
  OBVIOUS
<1>5. \A x \in X : m >= x
  <2> TAKE x \in X
  <2>1. n - x \in Y
    OBVIOUS
  <2>2. ~(n - x < n - m)
    BY <1>3, <1>4, <2>1
  <2>3. x \in Int /\ m \in Int /\ n \in Int
    OBVIOUS
  <2> QED
    BY <2>2, <2>3
<1> QED
  BY <1>4, <1>5 DEF Max

(***************************************************************************)
(* The stacks                                                              *)
(***************************************************************************)
Thread == [tasks : Seq(Task), sub : Seq(Task),
           exiting : {"normal", "exception", "cancel"},
           tag : Tag \cup {0}, req_cncl : BOOLEAN, sending : BOOLEAN]
TaskState == [stat : {"none", "initialized", "started", "done"},
              pc : {"run", "wait", "unwind"}, cancellation : Nat, frames : Seq(Frame)]
TaskHome == [stat : {"none", "initialized", "done", "exception", "aborted"},
             owner : Task, eldest : Task, msg_cncl : 0..2,
             tag : Tag \cup {0}, region : Nat, hole : BOOLEAN]

LEMMA TypeParts ==
  TypeOK <=> /\ thr \in [Worker -> Thread] /\ task \in [Task -> TaskState]
             /\ home \in [Task -> TaskHome]
             /\ spawned \in 0..MaxSub /\ entered \in 0..MaxEnter
  BY DEF TypeOK, Thread, TaskState, TaskHome

LEMMA TypePartsNext ==
  TypeOK' <=> /\ thr' \in [Worker -> Thread] /\ task' \in [Task -> TaskState]
              /\ home' \in [Task -> TaskHome]
              /\ spawned' \in 0..MaxSub /\ entered' \in 0..MaxEnter
  BY DEF TypeOK, Thread, TaskState, TaskHome

LEMMA Types ==
  ASSUME TypeOK
  PROVE  /\ \A w \in Worker : T(w) \in Seq(Task) /\ S(w) \in Seq(Task)
         /\ \A w \in Worker : ToSet(T(w)) \subseteq Task /\ ToSet(S(w)) \subseteq Task
         /\ \A t \in Task : /\ task[t].frames \in Seq(Frame) /\ task[t].cancellation \in Nat
                            /\ home[t].owner \in Task /\ home[t].region \in Nat
                            /\ \A i \in DOMAIN task[t].frames :
                                 task[t].frames[i] \in Frame /\ task[t].frames[i].spn \in Nat
         /\ spawned \in Nat /\ Root \in Task /\ MaxSub \in Nat
<1>1. \A w \in Worker : T(w) \in Seq(Task) /\ S(w) \in Seq(Task)
  BY DEF TypeOK, T, S
<1>2. \A t \in Task : /\ task[t].frames \in Seq(Frame) /\ task[t].cancellation \in Nat
                      /\ home[t].owner \in Task /\ home[t].region \in Nat
  BY DEF TypeOK
<1>3. \A t \in Task : \A i \in DOMAIN task[t].frames :
                                 task[t].frames[i] \in Frame /\ task[t].frames[i].spn \in Nat
  <2> TAKE t \in Task
  <2>1. task[t].frames \in Seq(Frame)
    BY <1>2
  <2>2. \A i \in DOMAIN task[t].frames : task[t].frames[i] \in Frame
    BY <2>1, ElementOfSeq, LenProperties
  <2> QED
    BY <2>2 DEF Frame
<1>4. \A w \in Worker : ToSet(T(w)) \subseteq Task /\ ToSet(S(w)) \subseteq Task
  BY <1>1 DEF ToSet
<1>5. spawned \in Nat /\ Root \in Task /\ MaxSub \in Nat
  BY CancelAssumption DEF CancelAssumption, TypeOK, Root, Task
<1> QED
  BY <1>1, <1>2, <1>3, <1>4, <1>5

LEMMA TopIs ==
  ASSUME TypeOK, NEW w \in Worker, T(w) # <<>>
  PROVE  /\ Len(T(w)) \in DOMAIN T(w) /\ Top(w) = T(w)[Len(T(w))]
         /\ Top(w) \in ToSet(T(w)) /\ Top(w) \in Task
<1>1. T(w) \in Seq(Task) /\ Top(w) = Last(T(w))
  BY Types DEF Top, T
<1>2. /\ Len(T(w)) \in DOMAIN T(w) /\ Top(w) = T(w)[Len(T(w))] /\ Top(w) \in Task
  BY <1>1, FrontOf
<1> QED
  BY <1>2 DEF ToSet

LEMMA OnlyOn ==
  ASSUME Stacks, NEW v \in Worker, NEW w \in Worker, NEW t, t \in ToSet(T(v)), t \in ToSet(T(w))
  PROVE  v = w
  BY DEF Stacks, ToSet

LEMMA TopAlive ==
  ASSUME TypeOK, Stacks, NEW w \in Worker, T(w) # <<>>
  PROVE  /\ Alive(Top(w)) /\ Top(w) <= spawned /\ Top(w) \in Task
         /\ \A t \in Task : t > spawned => t # Top(w)
<1>1. Top(w) \in ToSet(T(w)) /\ Top(w) \in Task
  BY TopIs
<1>2. Alive(Top(w))
  BY <1>1 DEF Stacks
<1>3. Top(w) <= spawned
  <2>1. Top(w) > spawned => task[Top(w)] = NoTask
    BY <1>1 DEF Stacks
  <2>2. NoTask.stat = "none"
    BY DEF NoTask
  <2>3. ~(Top(w) > spawned)
    BY <1>2, <2>1, <2>2 DEF Alive
  <2>4. Top(w) \in Int /\ spawned \in Int
    BY <1>1, Types DEF Task
  <2> QED
    BY <2>3, <2>4
<1>4. \A t \in Task : t > spawned => t # Top(w)
  BY <1>1, <1>2 DEF Stacks, Alive, NoTask
<1> QED
  BY <1>1, <1>2, <1>3, <1>4

(* The tasks below the top one are waiting, and those of other workers are *)
(* other tasks.                                                            *)
LEMMA NotTop ==
  ASSUME TypeOK, Stacks, NEW w \in Worker, T(w) # <<>>,
         NEW v \in Worker, NEW i \in DOMAIN T(v), T(v)[i] = Top(w)
  PROVE  v = w /\ i = Len(T(w))
  BY TopIs DEF Stacks

LEMMA OtherTop ==
  ASSUME TypeOK, Stacks, NEW v \in Worker, NEW w \in Worker, v # w, T(v) # <<>>, T(w) # <<>>
  PROVE  Top(v) # Top(w)
  BY TopIs, NotTop

LEMMA ExecutorIs ==
  ASSUME Stacks, NEW w \in Worker, NEW t, t \in ToSet(T(w))
  PROVE  Executor(t) = w
  BY OnlyOn DEF Executor, T

LEMMA HomeIs ==
  ASSUME Subs, NEW w \in Worker, NEW s, s \in ToSet(S(w))
  PROVE  HomeOf(s) = w
<1>1. \A v \in Worker : s \in ToSet(S(v)) => v = w
  BY DEF Subs, ToSet
<1> QED
  BY <1>1 DEF HomeOf, S

(* The subtasks of a task are on the stack of the worker that runs it. *)
LEMMA OwnStack ==
  ASSUME TypeOK, Stacks, Subs, NEW w \in Worker, NEW t \in Task, t \in ToSet(T(w))
  PROVE  SubtasksOf(t) = {s \in ToSet(S(w)) : home[s].owner = t}
<1>1. \A v \in Worker : \A s \in ToSet(S(v)) : home[s].owner = t => v = w
  BY OnlyOn DEF Subs
<1> QED
  BY <1>1, Types DEF SubtasksOf, S

LEMMA FiniteTasks ==
  ASSUME TypeOK, NEW t
  PROVE  /\ IsFiniteSet(Task) /\ IsFiniteSet(SubtasksOf(t)) /\ IsFiniteSet(Thrown(t))
         /\ \A i : IsFiniteSet(SpawnedIn(t, i))
<1>1. IsFiniteSet(Task)
  BY FS_Interval, Types DEF Task
<1>2. SubtasksOf(t) \in SUBSET Task
  BY DEF SubtasksOf
<1>3. Thrown(t) \in SUBSET Task /\ \A i : SpawnedIn(t, i) \in SUBSET Task
  BY <1>2 DEF Thrown, SpawnedIn
<1> QED
  BY <1>1, <1>2, <1>3, FS_Subset

(***************************************************************************)
(* Steps that leave the stacks and the frames alone                        *)
(***************************************************************************)
SameStacks == \A v \in Worker : T(v)' = T(v) /\ S(v)' = S(v)
SameFrames == \A t \in Task : task'[t].stat = task[t].stat /\ task'[t].frames = task[t].frames
SameHomes == \A s \in Task : /\ home'[s].owner = home[s].owner /\ home'[s].stat = home[s].stat
                             /\ home'[s].region = home[s].region
(* What has not been spawned has neither changed. *)
Untouched == spawned' = spawned
             /\ \A t \in Task : t > spawned => task'[t] = task[t] /\ home'[t] = home[t]

LEMMA SameSubtasks ==
  ASSUME SameStacks, \A s \in Task : home'[s].owner = home[s].owner, NEW t
  PROVE  SubtasksOf(t)' = SubtasksOf(t)
<1>1. \A v \in Worker : thr'[v].sub = thr[v].sub
  BY DEF SameStacks, S
<1> QED
  BY <1>1 DEF SubtasksOf

LEMMA SameTop ==
  ASSUME NEW v, T(v)' = T(v)
  PROVE  Top(v)' = Top(v)
  BY DEF Top, T

LEMMA QuietStacks ==
  ASSUME TypeOK, Stacks, SameStacks, SameFrames, Untouched,
         NEW w \in Worker, T(w) # <<>>, IsStarted(Top(w)),
         \A v \in Worker \ {w} : thr'[v].sending = thr[v].sending,
         \A t \in Task \ {Top(w)} : task'[t].pc = task[t].pc
  PROVE  Stacks'
<1>1. \A u, v \in Worker : \A i \in DOMAIN T(u)', j \in DOMAIN T(v)' :
        T(u)'[i] = T(v)'[j] => u = v /\ i = j
  BY DEF Stacks, SameStacks
<1>2. \A t \in Task : Alive(t)' <=> \E v \in Worker : t \in ToSet(T(v)')
  BY DEF Stacks, SameStacks, SameFrames, Alive
<1>3. ASSUME NEW v \in Worker, NEW i \in DOMAIN T(v)', i < Len(T(v)')
      PROVE  LET t == T(v)'[i] IN
             task'[t].stat = "started" /\ task'[t].pc = "wait" /\ Last(task'[t].frames).spn > 0
  <2>1. T(v)' = T(v) /\ T(v)[i] \in Task /\ i \in DOMAIN T(v)
    BY <1>3, Types, ElementOfSeq, LenProperties DEF SameStacks
  <2>2. Waiting(T(v)[i])
    BY <1>3, <2>1 DEF Stacks
  <2>3. T(v)[i] # Top(w)
    BY <1>3, <2>1, NotTop
  <2> QED
    BY <2>1, <2>2, <2>3 DEF Waiting, IsStarted, TopFrame, SameFrames
<1>4. ASSUME NEW v \in Worker, thr'[v].sending
      PROVE  T(v)' # <<>> /\ task'[Top(v)'].stat = "started"
  <2>1. T(v)' = T(v) /\ Top(v)' = Top(v)
    BY SameTop DEF SameStacks
  <2>2. T(v) # <<>> /\ IsStarted(Top(v))
    BY <1>4 DEF Stacks
  <2>3. Top(v) \in Task
    BY <2>2, TopIs
  <2> QED
    BY <2>1, <2>2, <2>3 DEF SameFrames, IsStarted
<1>5. \A t \in Task : t > spawned' => task'[t] = NoTask /\ home'[t] = NoHome
  BY DEF Stacks, Untouched
<1> QED
  BY <1>1, <1>2, <1>3, <1>4, <1>5 DEF Stacks, Waiting, IsStarted, TopFrame

LEMMA QuietSubs ==
  ASSUME TypeOK, Subs, SameStacks, SameFrames, SameHomes, spawned' = spawned
  PROVE  Subs'
<1>1. \A u, v \in Worker : \A i \in DOMAIN S(u)', j \in DOMAIN S(v)' :
        S(u)'[i] = S(v)'[j] => u = v /\ i = j
  BY DEF Subs, SameStacks
<1>2. ASSUME NEW w \in Worker, NEW s \in ToSet(S(w)')
      PROVE  /\ s \in 1..spawned'
             /\ home'[s].owner \in ToSet(T(w)') /\ task'[home'[s].owner].stat = "started"
             /\ home'[s].region \in DOMAIN task'[home'[s].owner].frames
  <2>1. S(w)' = S(w) /\ T(w)' = T(w)
    BY DEF SameStacks
  <2>2. s \in ToSet(S(w)) /\ s \in Task
    BY <1>2, <2>1, Types
  <2>3. home'[s].owner = home[s].owner /\ home'[s].region = home[s].region
        /\ home[s].owner \in Task
    BY <2>2, Types DEF SameHomes
  <2> QED
    BY <2>1, <2>2, <2>3 DEF Subs, IsStarted, SameFrames
<1>3. \A s \in Task : home'[s].stat = "initialized" <=> Alive(s)'
  BY DEF Subs, SameHomes, SameFrames, Alive
<1>4. \A s \in Task \ {Root} : Alive(s)' => InSub(s)'
  BY DEF Subs, SameFrames, SameStacks, Alive, InSub
<1> QED
  BY <1>1, <1>2, <1>3, <1>4 DEF Subs, IsStarted

LEMMA QuietNested ==
  ASSUME TypeOK, Nested, SameStacks,
         \A s \in Task : home'[s].owner = home[s].owner /\ home'[s].region = home[s].region
  PROVE  Nested'
<1> SUFFICES ASSUME NEW w \in Worker, NEW i \in DOMAIN S(w)', NEW j \in DOMAIN S(w)',
                    NEW k \in DOMAIN T(w)', NEW l \in DOMAIN T(w)', i < j,
                    T(w)'[k] = home'[S(w)'[i]].owner, T(w)'[l] = home'[S(w)'[j]].owner
             PROVE  k < l \/ (k = l /\ home'[S(w)'[i]].region <= home'[S(w)'[j]].region)
  BY DEF Nested
<1>1. T(w)' = T(w) /\ S(w)' = S(w)
  BY DEF SameStacks
<1>2. S(w)[i] \in Task /\ S(w)[j] \in Task
  BY <1>1, Types, ElementOfSeq, LenProperties
<1> QED
  BY <1>1, <1>2 DEF Nested

LEMMA QuietCounted ==
  ASSUME TypeOK, Counted, SameStacks, SameFrames, SameHomes
  PROVE  Counted'
<1> SUFFICES ASSUME NEW t \in Task, IsStarted(t)', NEW i \in DOMAIN task'[t].frames
             PROVE  Cardinality(SpawnedIn(t, i)') = task'[t].frames[i].spn
  BY DEF Counted
<1>1. SubtasksOf(t)' = SubtasksOf(t)
  BY SameSubtasks DEF SameHomes
<1>2. SpawnedIn(t, i)' = SpawnedIn(t, i)
  BY <1>1 DEF SpawnedIn, SameHomes, SubtasksOf
<1> QED
  BY <1>2 DEF Counted, SameFrames, IsStarted

LEMMA Quiet ==
  ASSUME TypeOK, Structure, SameStacks, SameFrames, SameHomes, Untouched,
         NEW w \in Worker, T(w) # <<>>, IsStarted(Top(w)),
         \A v \in Worker \ {w} : thr'[v].sending = thr[v].sending,
         \A t \in Task \ {Top(w)} : task'[t].pc = task[t].pc
  PROVE  Structure'
<1>1. Stacks /\ Frames /\ Subs /\ Nested /\ Counted
  BY DEF Structure
<1>2. Stacks'
  BY <1>1, QuietStacks
<1>3. Frames'
  <2>1. \A t \in Task : task[t].stat = "initialized" => task'[t].pc = task[t].pc
    BY DEF IsStarted
  <2> QED
    BY <1>1, <2>1 DEF Frames, SameFrames, IsStarted
<1>4. Subs'
  BY <1>1, QuietSubs DEF Untouched
<1>5. Nested'
  BY <1>1, QuietNested DEF SameHomes
<1>6. Counted'
  BY <1>1, QuietCounted
<1> QED
  BY <1>2, <1>3, <1>4, <1>5, <1>6 DEF Structure

(* A task's count changes only with the exceptions of its subtasks. *)
LEMMA SameAccount ==
  ASSUME CancelAccounting,
         \A t \in Task : IsStarted(t)' =>
           /\ IsStarted(t) /\ Thrown(t)' = Thrown(t)
           /\ task'[t].cancellation = task[t].cancellation
           /\ home'[t].msg_cncl = 2 <=> home[t].msg_cncl = 2
  PROVE  CancelAccounting'
  BY DEF CancelAccounting, Thrown, IsStarted

LEMMA SameThrown ==
  ASSUME SameStacks, SameHomes, NEW t
  PROVE  Thrown(t)' = Thrown(t)
<1>1. SubtasksOf(t)' = SubtasksOf(t)
  BY SameSubtasks DEF SameHomes
<1> QED
  BY <1>1 DEF Thrown, SameHomes, SubtasksOf

LEMMA QuietStep ==
  ASSUME IInv, TypeOK', CancelAccounting', SameStacks, SameFrames, SameHomes, Untouched,
         NEW w \in Worker, T(w) # <<>>, IsStarted(Top(w)),
         \A v \in Worker \ {w} :
           thr'[v].sending = thr[v].sending /\ thr'[v].exiting = thr[v].exiting,
         \A t \in Task \ {Top(w)} : task'[t].pc = task[t].pc,
         \A t \in Task : home[t].msg_cncl = 2 => home'[t].msg_cncl = 2,
         thr'[w].exiting = "cancel" =>
           task'[Top(w)].pc = "unwind"
           /\ (home[Top(w)].msg_cncl = 2 \/ Thrown(Top(w)) # {})
  PROVE  IInv'
<1>1. TypeOK /\ Structure /\ CancelReason /\ AbortedIfCancelled
  BY DEF IInv
<1>2. Structure'
  BY <1>1, Quiet
<1>3. AbortedIfCancelled'
  BY <1>1 DEF AbortedIfCancelled, SameHomes
<1>4. CancelReason'
  <2> SUFFICES ASSUME NEW v \in Worker, thr'[v].exiting = "cancel"
               PROVE  /\ T(v)' # <<>> /\ task'[Top(v)'].stat = "started"
                      /\ task'[Top(v)'].pc = "unwind"
                      /\ home'[Top(v)'].msg_cncl = 2 \/ Thrown(Top(v))' # {}
    BY DEF CancelReason, IsStarted
  <2>1. T(v)' = T(v) /\ Top(v)' = Top(v) /\ Thrown(Top(v))' = Thrown(Top(v))
    BY SameTop, SameThrown DEF SameStacks
  <2>2. CASE v = w
    <3>1. Top(w) \in Task
      BY <1>1, TopIs
    <3> QED
      BY <2>1, <2>2, <3>1 DEF SameFrames, IsStarted
  <2>3. CASE v # w
    <3>1. thr[v].exiting = "cancel"
      BY <2>3
    <3>2. /\ T(v) # <<>> /\ IsStarted(Top(v)) /\ task[Top(v)].pc = "unwind"
          /\ home[Top(v)].msg_cncl = 2 \/ Thrown(Top(v)) # {}
      BY <1>1, <3>1 DEF CancelReason
    <3>3. Top(v) \in Task
      BY <1>1, <3>2, TopIs
    <3>4. Top(v) # Top(w)
      BY <1>1, <2>3, <3>2, OtherTop DEF Structure
    <3> QED
      BY <2>1, <3>2, <3>3, <3>4 DEF SameFrames, IsStarted
  <2> QED
    BY <2>2, <2>3
<1> QED
  BY <1>1, <1>2, <1>3, <1>4 DEF IInv

LEMMA Acting ==
  ASSUME IInv, NEW w \in Worker, thr[w].tasks # <<>>, task[Top(w)].stat = "started"
  PROVE  /\ TypeOK /\ Structure /\ Stacks /\ Frames /\ Subs /\ Nested /\ Counted
         /\ CancelAccounting /\ CancelReason /\ AbortedIfCancelled
         /\ T(w) # <<>> /\ IsStarted(Top(w)) /\ Top(w) \in Task /\ Top(w) <= spawned
         /\ \A t \in Task : t > spawned => t # Top(w)
         /\ Framed(task[Top(w)].frames)
<1>1. /\ TypeOK /\ Structure /\ Stacks /\ Frames /\ Subs /\ Nested /\ Counted
      /\ CancelAccounting /\ CancelReason /\ AbortedIfCancelled
      /\ T(w) # <<>> /\ IsStarted(Top(w))
  BY DEF IInv, Structure, T, IsStarted
<1>2. Top(w) \in Task /\ Top(w) <= spawned /\ \A t \in Task : t > spawned => t # Top(w)
  BY <1>1, TopAlive
<1> QED
  BY <1>1, <1>2 DEF Frames

LEMMA ThrowStep ==
  ASSUME IInv, NEW w \in Worker, NEW g \in Tag, Throw(w, g)
  PROVE  IInv'
<1>1. /\ TypeOK /\ Structure /\ CancelAccounting
      /\ T(w) # <<>> /\ IsStarted(Top(w)) /\ Top(w) \in Task
      /\ \A t \in Task : t > spawned => t # Top(w)
  BY Acting DEF Throw, Running, Busy
<1>2. /\ thr' = [thr EXCEPT ![w].exiting = "exception", ![w].tag = g]
      /\ task' = [task EXCEPT ![Top(w)].pc = "unwind"]
      /\ home' = home /\ spawned' = spawned /\ entered' = entered
  BY DEF Throw
<1>3. TypeOK'
  <2>1. thr' \in [Worker -> Thread]
    BY <1>1, <1>2, TypeParts DEF Thread
  <2>2. task' \in [Task -> TaskState]
    BY <1>1, <1>2, TypeParts DEF TaskState
  <2> QED
    BY <1>1, <1>2, <2>1, <2>2, TypeParts, TypePartsNext
<1>4. SameStacks /\ SameFrames /\ SameHomes
  BY <1>1, <1>2 DEF SameStacks, SameFrames, SameHomes, T, S, TypeOK
<1>5. Untouched
  BY <1>1, <1>2 DEF Untouched, TypeOK
<1>6. CancelAccounting'
  BY <1>1, <1>2, <1>4, SameThrown, SameAccount DEF TypeOK, IsStarted
<1>7. /\ \A v \in Worker \ {w} :
           thr'[v].sending = thr[v].sending /\ thr'[v].exiting = thr[v].exiting
      /\ \A t \in Task \ {Top(w)} : task'[t].pc = task[t].pc
      /\ thr'[w].exiting = "exception"
  BY <1>1, <1>2 DEF TypeOK
<1> QED
  BY <1>1, <1>2, <1>3, <1>4, <1>5, <1>6, <1>7, QuietStep

LEMMA StartWaitStep ==
  ASSUME IInv, NEW w \in Worker, StartWait(w)
  PROVE  IInv'
<1>1. /\ TypeOK /\ Structure /\ CancelAccounting /\ CancelReason
      /\ T(w) # <<>> /\ IsStarted(Top(w)) /\ Top(w) \in Task
      /\ \A t \in Task : t > spawned => t # Top(w)
  BY Acting DEF StartWait, Running, Busy
<1>2. /\ task' = [task EXCEPT ![Top(w)].pc = "wait"]
      /\ thr' = thr /\ home' = home /\ spawned' = spawned /\ entered' = entered
      /\ task[Top(w)].pc = "run"
  BY DEF StartWait, Running
<1>3. TypeOK'
  <2>1. task' \in [Task -> TaskState]
    BY <1>1, <1>2, TypeParts DEF TaskState
  <2> QED
    BY <1>1, <1>2, <2>1, TypeParts, TypePartsNext
<1>4. SameStacks /\ SameFrames /\ SameHomes
  BY <1>1, <1>2 DEF SameStacks, SameFrames, SameHomes, T, S, TypeOK
<1>5. Untouched
  BY <1>1, <1>2 DEF Untouched, TypeOK
<1>6. CancelAccounting'
  BY <1>1, <1>2, <1>4, SameThrown, SameAccount DEF TypeOK, IsStarted
<1>7. thr[w].exiting # "cancel"
  BY <1>1, <1>2 DEF CancelReason
<1>8. \A t \in Task \ {Top(w)} : task'[t].pc = task[t].pc
  BY <1>1, <1>2 DEF TypeOK
<1> QED
  BY <1>1, <1>2, <1>3, <1>4, <1>5, <1>6, <1>7, <1>8, QuietStep

LEMMA PollCnclStep ==
  ASSUME IInv, NEW w \in Worker, PollCncl(w)
  PROVE  IInv'
<1>1. /\ TypeOK /\ Structure /\ CancelAccounting /\ CancelReason
      /\ T(w) # <<>> /\ IsStarted(Top(w)) /\ Top(w) \in Task
  BY Acting DEF PollCncl, Running, Busy
<1>2. /\ thr' = [thr EXCEPT ![w].sending = TRUE]
      /\ task' = task /\ home' = home /\ spawned' = spawned /\ entered' = entered
      /\ task[Top(w)].pc = "run"
  BY DEF PollCncl, Running
<1>3. TypeOK'
  <2>1. thr' \in [Worker -> Thread]
    BY <1>1, <1>2, TypeParts DEF Thread
  <2> QED
    BY <1>1, <1>2, <2>1, TypeParts, TypePartsNext
<1>4. SameStacks /\ SameFrames /\ SameHomes /\ Untouched
  BY <1>1, <1>2 DEF SameStacks, SameFrames, SameHomes, T, S, TypeOK, Untouched
<1>5. CancelAccounting'
  BY <1>1, <1>2, <1>4, SameThrown, SameAccount DEF IsStarted
<1>6. thr[w].exiting # "cancel"
  BY <1>1, <1>2 DEF CancelReason
<1>7. /\ \A v \in Worker \ {w} :
           thr'[v].sending = thr[v].sending /\ thr'[v].exiting = thr[v].exiting
      /\ thr'[w].exiting = thr[w].exiting
  BY <1>1, <1>2 DEF TypeOK
<1> QED
  BY <1>1, <1>2, <1>3, <1>4, <1>5, <1>6, <1>7, QuietStep

(* A task whose count is raised has a cncl, or a subtask with an exception. *)
LEMMA Raised ==
  ASSUME TypeOK, CancelAccounting, NEW t \in Task, IsStarted(t), task[t].cancellation > 0
  PROVE  home[t].msg_cncl = 2 \/ Thrown(t) # {}
<1>1. task[t].cancellation \in
        Cardinality(Thrown(t))..Cardinality(Thrown(t)) + (IF home[t].msg_cncl = 2 THEN 1 ELSE 0)
  BY DEF CancelAccounting, Thrown, IsStarted
<1>2. Thrown(t) = {} => Cardinality(Thrown(t)) = 0
  BY FS_EmptySet
<1>3. task[t].cancellation \in Nat
  BY DEF TypeOK
<1> QED
  BY <1>1, <1>2, <1>3

LEMMA CancelStep ==
  ASSUME IInv, NEW w \in Worker, Cancel(w)
  PROVE  IInv'
<1>1. /\ TypeOK /\ Structure /\ CancelAccounting
      /\ T(w) # <<>> /\ IsStarted(Top(w)) /\ Top(w) \in Task
      /\ \A t \in Task : t > spawned => t # Top(w)
  BY Acting DEF Cancel, Running, Busy
<1>2. /\ thr' = [thr EXCEPT ![w].exiting = "cancel"]
      /\ task' = [task EXCEPT ![Top(w)].pc = "unwind"]
      /\ home' = home /\ spawned' = spawned /\ entered' = entered
      /\ task[Top(w)].cancellation > 0
  BY DEF Cancel
<1>3. TypeOK'
  <2>1. thr' \in [Worker -> Thread]
    BY <1>1, <1>2, TypeParts DEF Thread
  <2>2. task' \in [Task -> TaskState]
    BY <1>1, <1>2, TypeParts DEF TaskState
  <2> QED
    BY <1>1, <1>2, <2>1, <2>2, TypeParts, TypePartsNext
<1>4. SameStacks /\ SameFrames /\ SameHomes
  BY <1>1, <1>2 DEF SameStacks, SameFrames, SameHomes, T, S, TypeOK
<1>5. Untouched
  BY <1>1, <1>2 DEF Untouched, TypeOK
<1>6. CancelAccounting'
  BY <1>1, <1>2, <1>4, SameThrown, SameAccount DEF TypeOK, IsStarted
<1>7. /\ \A v \in Worker \ {w} :
           thr'[v].sending = thr[v].sending /\ thr'[v].exiting = thr[v].exiting
      /\ \A t \in Task \ {Top(w)} : task'[t].pc = task[t].pc
      /\ task'[Top(w)].pc = "unwind"
  BY <1>1, <1>2 DEF TypeOK
<1>8. home[Top(w)].msg_cncl = 2 \/ Thrown(Top(w)) # {}
  BY <1>1, <1>2, Raised
<1> QED
  BY <1>1, <1>2, <1>3, <1>4, <1>5, <1>6, <1>7, <1>8, QuietStep

LEMMA SendEndStep ==
  ASSUME IInv, NEW w \in Worker, SendEnd(w)
  PROVE  IInv'
<1> DEFINE t == Top(w)
           polled == task[t].pc = "run"
           cancelled == polled /\ task[t].cancellation > 0
<1>1. /\ TypeOK /\ Structure /\ CancelAccounting /\ CancelReason
      /\ T(w) # <<>> /\ IsStarted(t) /\ t \in Task
      /\ \A k \in Task : k > spawned => k # t
  <2>1. T(w) # <<>> /\ IsStarted(Top(w))
    BY DEF SendEnd, IInv, Structure, Stacks
  <2> QED
    BY <2>1, Acting DEF T, IsStarted
<1>2. /\ thr' = [thr EXCEPT ![w].sending = FALSE,
                        ![w].req_cncl = @ /\ ~polled,
                        ![w].exiting = IF cancelled THEN "cancel" ELSE @]
      /\ task' = [task EXCEPT ![t].pc = IF cancelled THEN "unwind" ELSE @]
      /\ home' = home /\ spawned' = spawned /\ entered' = entered
  BY DEF SendEnd
<1>3. PICK r : r = [thr[w] EXCEPT !.sending = FALSE,
                       !.req_cncl = thr[w].req_cncl /\ ~polled,
                       !.exiting = IF cancelled THEN "cancel" ELSE thr[w].exiting]
  OBVIOUS
<1>4. /\ cancelled => task[t].cancellation > 0
      /\ cancelled \in BOOLEAN /\ polled \in BOOLEAN
      /\ thr' = [thr EXCEPT ![w] = r]
      /\ thr \in [Worker -> Thread]
  BY <1>1, <1>2, <1>3, TypeParts
<1> HIDE DEF t, polled, cancelled
<1>5. /\ r \in Thread /\ r.tasks = thr[w].tasks /\ r.sub = thr[w].sub
       /\ r.exiting = IF cancelled THEN "cancel" ELSE thr[w].exiting
  BY <1>3, <1>4 DEF Thread
<1>6. TypeOK'
  <2>1. thr' \in [Worker -> Thread]
    BY <1>4, <1>5
  <2>2. task' \in [Task -> TaskState]
    BY <1>1, <1>2, TypeParts DEF TaskState
  <2> QED
    BY <1>1, <1>2, <2>1, <2>2, TypeParts, TypePartsNext
<1>7. SameStacks /\ SameFrames /\ SameHomes
  <2>1. SameStacks
    BY <1>4, <1>5 DEF SameStacks, T, S
  <2> QED
    BY <1>1, <1>2, <2>1 DEF SameFrames, SameHomes, TypeOK
<1>8. Untouched
  BY <1>1, <1>2 DEF Untouched, TypeOK
<1>9. CancelAccounting'
  BY <1>1, <1>2, <1>7, SameThrown, SameAccount DEF TypeOK, IsStarted
<1>10. /\ \A v \in Worker \ {w} :
            thr'[v].sending = thr[v].sending /\ thr'[v].exiting = thr[v].exiting
       /\ \A k \in Task \ {t} : task'[k].pc = task[k].pc
       /\ task'[t].pc = IF cancelled THEN "unwind" ELSE task[t].pc
  BY <1>1, <1>2, <1>4 DEF TypeOK
<1>11. thr'[w].exiting = IF cancelled THEN "cancel" ELSE thr[w].exiting
  BY <1>4, <1>5
<1>12. home[t].msg_cncl = 2 \/ Thrown(t) # {} \/ thr'[w].exiting # "cancel"
  BY <1>1, <1>4, <1>11, Raised DEF CancelReason, t
<1>13. thr'[w].exiting = "cancel" => task'[t].pc = "unwind"
  BY <1>1, <1>10, <1>11 DEF CancelReason, t
<1> QED
  BY <1>1, <1>2, <1>6, <1>7, <1>8, <1>9, <1>10, <1>12, <1>13, QuietStep DEF t

LEMMA Raising ==
  ASSUME NEW k \in Thread, NEW X
  PROVE  LET r == RaiseFlag(k, X) IN
         /\ r \in Thread /\ r.tasks = k.tasks /\ r.sub = k.sub /\ r.sending = k.sending
         /\ r.exiting = k.exiting /\ r.tag = k.tag
  BY DEF RaiseFlag, Thread

LEMMA Flagging ==
  ASSUME NEW h \in [Task -> TaskHome], NEW X, \A s \in X : h[s].msg_cncl # 2
  PROVE  /\ Flagged(h, X) \in [Task -> TaskHome]
         /\ \A s \in Task : /\ Flagged(h, X)[s].owner = h[s].owner
                            /\ Flagged(h, X)[s].stat = h[s].stat
                            /\ Flagged(h, X)[s].region = h[s].region
                            /\ Flagged(h, X)[s].eldest = h[s].eldest
                            /\ Flagged(h, X)[s].hole = h[s].hole
                            /\ Flagged(h, X)[s].msg_cncl =
                                 IF s \in X THEN 1 ELSE h[s].msg_cncl
                            /\ s \notin X => Flagged(h, X)[s] = h[s]
                            /\ Flagged(h, X)[s].msg_cncl = 2 <=> h[s].msg_cncl = 2
  BY DEF Flagged, TaskHome

LEMMA Cancellable ==
  ASSUME TypeOK, Subs, NEW w \in Worker, NEW o, NEW e
  PROVE  \A s \in ToCancel(w, o, e) :
           s \in ToSet(S(w)) /\ s \in 1..spawned /\ s \in Task /\ home[s].msg_cncl # 2
           /\ home[s].owner = o /\ home[s].stat = "initialized" /\ home[s].msg_cncl = 0
<1>1. \A s \in ToCancel(w, o, e) :
           s \in ToSet(S(w)) /\ home[s].msg_cncl = 0 /\ home[s].owner = o
           /\ home[s].stat = "initialized"
  BY DEF ToCancel, S, ToSet
<1>2. \A s \in ToSet(S(w)) : s \in 1..spawned /\ s \in Task
  BY Types DEF Subs
<1> QED
  BY <1>1, <1>2

LEMMA WaitCancelStep ==
  ASSUME IInv, NEW w \in Worker, WaitCancel(w)
  PROVE  IInv'
<1>1. /\ TypeOK /\ Structure /\ Subs /\ CancelAccounting /\ CancelReason
      /\ T(w) # <<>> /\ IsStarted(Top(w)) /\ Top(w) \in Task
  BY Acting DEF WaitCancel, WaitsFor, Busy
<1>2. PICK X : X = Useless(w)
  OBVIOUS
<1>3. /\ home' = Flagged(home, X)
      /\ thr' = [thr EXCEPT ![w] = [RaiseFlag(thr[w], X) EXCEPT !.sending = TRUE]]
      /\ task' = task /\ spawned' = spawned /\ entered' = entered
      /\ thr[w].exiting = "exception"
  BY <1>2 DEF WaitCancel, MustCancel
<1>4. \A s \in X : s \in 1..spawned /\ s \in Task /\ home[s].msg_cncl # 2
  BY <1>1, <1>2, Cancellable DEF Useless
<1>5. home \in [Task -> TaskHome] /\ thr \in [Worker -> Thread]
  BY <1>1, TypeParts
<1>6. /\ home' \in [Task -> TaskHome]
      /\ \A s \in Task : /\ home'[s].owner = home[s].owner
                         /\ home'[s].stat = home[s].stat
                         /\ home'[s].region = home[s].region
                         /\ s \notin X => home'[s] = home[s]
                         /\ home'[s].msg_cncl = 2 <=> home[s].msg_cncl = 2
  BY <1>3, <1>4, <1>5, Flagging
<1>7. PICK r : r = RaiseFlag(thr[w], X)
  OBVIOUS
<1>8. r \in Thread /\ r.tasks = thr[w].tasks /\ r.sub = thr[w].sub
      /\ r.exiting = thr[w].exiting
  BY <1>5, <1>7, Raising
<1>9. /\ thr' = [thr EXCEPT ![w] = [r EXCEPT !.sending = TRUE]]
      /\ [r EXCEPT !.sending = TRUE] \in Thread
  BY <1>3, <1>7, <1>8 DEF Thread
<1>10. thr' \in [Worker -> Thread]
  BY <1>5, <1>9
<1>11. TypeOK'
  BY <1>1, <1>3, <1>6, <1>10, TypeParts, TypePartsNext
<1>12. SameStacks /\ SameFrames /\ SameHomes
  <2>1. SameStacks
    BY <1>5, <1>8, <1>9 DEF SameStacks, T, S, Thread
  <2> QED
    BY <1>3, <1>6, <2>1 DEF SameFrames, SameHomes
<1>13. Untouched
  <2>1. \A t \in Task : t > spawned => t \notin X
    BY <1>1, <1>4, Types
  <2> QED
    BY <1>3, <1>6, <2>1 DEF Untouched
<1>14. CancelAccounting'
  BY <1>1, <1>3, <1>6, <1>12, SameThrown, SameAccount DEF IsStarted
<1>15. /\ \A v \in Worker \ {w} :
           thr'[v].sending = thr[v].sending /\ thr'[v].exiting = thr[v].exiting
       /\ thr'[w].exiting = "exception"
  BY <1>3, <1>5, <1>8, <1>9 DEF Thread
<1> QED
  BY <1>1, <1>3, <1>6, <1>11, <1>12, <1>13, <1>14, <1>15, QuietStep

LEMMA SendCnclStep ==
  ASSUME IInv, NEW w \in Worker, SendCncl(w)
  PROVE  IInv'
<1>1. /\ TypeOK /\ Structure /\ Stacks /\ Subs /\ CancelAccounting /\ CancelReason
      /\ T(w) # <<>> /\ IsStarted(Top(w)) /\ Top(w) \in Task
  <2>1. T(w) # <<>> /\ IsStarted(Top(w))
    BY DEF SendCncl, IInv, Structure, Stacks
  <2> QED
    BY <2>1, Acting DEF T, IsStarted
<1>2. PICK s : s = Max(ToSend(w))
  OBVIOUS
<1>3. s \in ToSend(w)
  <2>1. ToSend(w) \in SUBSET (0..MaxSub) /\ ToSend(w) # {} /\ MaxSub \in Nat
    BY <1>1, Types DEF ToSend, Task, S, SendCncl
  <2> QED
    BY <1>2, <2>1, MaxOf
<1>4. s \in ToSet(S(w)) /\ s \in 1..spawned /\ s \in Task /\ s # Root
      /\ home[s].stat = "initialized" /\ home[s].msg_cncl = 1
  <2>1. s \in ToSet(S(w)) /\ home[s].stat = "initialized" /\ home[s].msg_cncl = 1
    BY <1>3 DEF ToSend, S
  <2>2. s \in 1..spawned /\ s \in Task
    BY <1>1, <2>1, Types DEF Subs
  <2> QED
    BY <1>1, <2>1, <2>2, Types DEF Root
<1>5. PICK v \in Worker : s \in ToSet(T(v))
  BY <1>1, <1>4 DEF Subs, Stacks
<1>6. Executor(s) = v
  BY <1>1, <1>5, ExecutorIs
<1>7. PICK X : X = ToCancel(v, s, Everything)
  OBVIOUS
<1>8. /\ home' = [Flagged(home, X) EXCEPT ![s].msg_cncl = 2]
      /\ thr' = [thr EXCEPT ![v] = RaiseFlag(thr[v], X)]
      /\ task' = [task EXCEPT ![s].cancellation = @ + 1]
      /\ spawned' = spawned /\ entered' = entered /\ ~thr[v].sending /\ thr[w].sending
  BY <1>2, <1>6, <1>7 DEF SendCncl, Unlocked
<1>9. \A k \in X : k \in 1..spawned /\ k \in Task /\ home[k].msg_cncl = 0
  BY <1>1, <1>7, Cancellable
<1>10. home \in [Task -> TaskHome] /\ thr \in [Worker -> Thread] /\ task \in [Task -> TaskState]
  BY <1>1, TypeParts
<1>11. /\ Flagged(home, X) \in [Task -> TaskHome]
       /\ \A k \in Task : /\ Flagged(home, X)[k].owner = home[k].owner
                          /\ Flagged(home, X)[k].stat = home[k].stat
                          /\ Flagged(home, X)[k].region = home[k].region
                          /\ k \notin X => Flagged(home, X)[k] = home[k]
                          /\ Flagged(home, X)[k].msg_cncl = 2 <=> home[k].msg_cncl = 2
  BY <1>9, <1>10, Flagging
<1>12. /\ home' \in [Task -> TaskHome]
       /\ \A k \in Task : /\ home'[k].owner = home[k].owner
                          /\ home'[k].stat = home[k].stat
                          /\ home'[k].region = home[k].region
                          /\ k \notin X \cup {s} => home'[k] = home[k]
                          /\ k # s => (home'[k].msg_cncl = 2 <=> home[k].msg_cncl = 2)
       /\ home'[s].msg_cncl = 2
  <2>1. PICK f : f = Flagged(home, X)
    OBVIOUS
  <2>2. PICK g : g = [f[s] EXCEPT !.msg_cncl = 2]
    OBVIOUS
  <2>3. f[s] \in TaskHome /\ home' = [f EXCEPT ![s] = g] /\ f \in [Task -> TaskHome]
    BY <1>4, <1>8, <1>11, <2>1, <2>2
  <2>4. /\ g \in TaskHome /\ g.owner = f[s].owner /\ g.stat = f[s].stat
        /\ g.region = f[s].region /\ g.msg_cncl = 2
    BY <2>2, <2>3 DEF TaskHome
  <2> QED
    BY <1>4, <1>11, <2>1, <2>3, <2>4
<1>13. PICK r : r = RaiseFlag(thr[v], X)
  OBVIOUS
<1>14. /\ r \in Thread /\ r.tasks = thr[v].tasks /\ r.sub = thr[v].sub
       /\ r.exiting = thr[v].exiting /\ r.sending = thr[v].sending
       /\ thr' = [thr EXCEPT ![v] = r]
  BY <1>8, <1>10, <1>13, Raising
<1>15. TypeOK'
  <2>1. thr' \in [Worker -> Thread]
    BY <1>10, <1>14
  <2>2. task' \in [Task -> TaskState]
    <3>1. [task[s] EXCEPT !.cancellation = task[s].cancellation + 1] \in TaskState
      <4>1. PICK c \in Nat : c = task[s].cancellation + 1
        BY <1>4, <1>10 DEF TaskState
      <4>2. [task[s] EXCEPT !.cancellation = c] \in TaskState
        BY <1>4, <1>10 DEF TaskState
      <4> QED
        BY <4>1, <4>2
    <3> QED
      BY <1>4, <1>8, <1>10, <3>1
  <2> QED
    BY <1>1, <1>8, <1>12, <2>1, <2>2, TypeParts, TypePartsNext
<1>16. SameStacks /\ SameFrames /\ SameHomes
  <2>1. SameStacks
    BY <1>10, <1>14 DEF SameStacks, T, S
  <2>2. SameFrames
    BY <1>4, <1>8, <1>10 DEF SameFrames, TaskState
  <2> QED
    BY <1>12, <2>1, <2>2 DEF SameHomes
<1>17. Untouched
  <2>1. \A t \in Task : t > spawned => t \notin X /\ t # s
    BY <1>1, <1>4, <1>9, Types
  <2> QED
    BY <1>8, <1>10, <1>12, <2>1 DEF Untouched
<1>18. \A t \in Task : /\ t # s => task'[t].cancellation = task[t].cancellation
                       /\ task'[t].pc = task[t].pc
  BY <1>4, <1>8, <1>10 DEF TaskState
<1>19. task'[s].cancellation = task[s].cancellation + 1 /\ task[s].cancellation \in Nat
  BY <1>4, <1>8, <1>10 DEF TaskState
<1>20. CancelAccounting'
  <2> SUFFICES ASSUME NEW t \in Task, task'[t].stat = "started"
               PROVE  task'[t].cancellation \in Cardinality(Thrown(t)')
                        ..Cardinality(Thrown(t)') + (IF home'[t].msg_cncl = 2 THEN 1 ELSE 0)
    BY DEF CancelAccounting, Thrown
  <2>1. Thrown(t)' = Thrown(t) /\ task[t].stat = "started"
    BY <1>16, SameThrown DEF SameFrames
  <2>2. task[t].cancellation \in Cardinality(Thrown(t))
          ..Cardinality(Thrown(t)) + (IF home[t].msg_cncl = 2 THEN 1 ELSE 0)
    BY <1>1, <2>1 DEF CancelAccounting, Thrown
  <2>3. Cardinality(Thrown(t)) \in Nat
    BY <1>1, FiniteTasks, FS_CardinalityType
  <2>4. CASE t = s
    BY <1>4, <1>12, <1>19, <2>1, <2>2, <2>3, <2>4
  <2>5. CASE t # s
    BY <1>12, <1>18, <2>1, <2>2, <2>3, <2>5
  <2> QED
    BY <2>4, <2>5
<1>21. \A u \in Worker :
           thr'[u].sending = thr[u].sending /\ thr'[u].exiting = thr[u].exiting
  BY <1>10, <1>14
<1> QED
  BY <1>1, <1>12, <1>15, <1>16, <1>17, <1>18, <1>20, <1>21, QuietStep DEF CancelReason

(***************************************************************************)
(* Steps that enter or leave a frame                                       *)
(***************************************************************************)
LEMMA HasSpawned ==
  ASSUME TypeOK, Counted, NEW t \in Task, IsStarted(t),
         NEW i \in DOMAIN task[t].frames, NEW s \in SpawnedIn(t, i)
  PROVE  task[t].frames[i].spn > 0
<1>1. Cardinality(SpawnedIn(t, i)) = task[t].frames[i].spn /\ task[t].frames[i].spn \in Nat
  BY Types DEF Counted
<1>2. Cardinality(SpawnedIn(t, i)) # 0
  BY FiniteTasks, FS_EmptySet
<1> QED
  BY <1>1, <1>2

(* The frames of two lists that both have one at i spawned the same, and *)
(* one that is in one list only spawned nothing.                          *)
SameSpawned(fs, gs) ==
  /\ \A i \in DOMAIN fs \cap DOMAIN gs : gs[i].spn = fs[i].spn
  /\ \A i \in DOMAIN fs \ DOMAIN gs : fs[i].spn = 0
  /\ \A i \in DOMAIN gs \ DOMAIN fs : gs[i].spn = 0

LEMMA FrameStacks ==
  ASSUME TypeOK, Stacks, Frames, Untouched, NEW w \in Worker, T(w) # <<>>,
         \A v \in Worker : T(v)' = T(v) /\ thr'[v].sending = thr[v].sending,
         \A t \in Task \ {Top(w)} : task'[t] = task[t],
         task'[Top(w)].stat = "started", Framed(task'[Top(w)].frames)
  PROVE  /\ Stacks' /\ Frames' /\ Top(w) \in Task
         /\ \A t \in Task :
              /\ Alive(t)' <=> Alive(t)
              /\ IsStarted(t) => task'[t].stat = "started"
              /\ task'[t].stat = "started" => IsStarted(t) \/ t = Top(w)
              /\ task[t].stat = "initialized" => task[t].frames = <<>>
<1>1. Stacks /\ Top(w) \in Task /\ Alive(Top(w))
  BY TopAlive
<1>2. \A t \in Task :
        /\ Alive(t)' <=> Alive(t)
        /\ IsStarted(t) => task'[t].stat = "started"
        /\ task'[t].stat = "started" => IsStarted(t) \/ t = Top(w)
        /\ task[t].stat = "initialized" => task[t].frames = <<>>
  BY <1>1 DEF IsStarted, Alive, Frames
<1>3. Stacks'
  <2>1. \A u, v \in Worker : \A i \in DOMAIN T(u)', j \in DOMAIN T(v)' :
          T(u)'[i] = T(v)'[j] => u = v /\ i = j
    BY <1>1 DEF Stacks
  <2>2. \A t \in Task : Alive(t)' <=> \E v \in Worker : t \in ToSet(T(v)')
    BY <1>1, <1>2 DEF Stacks
  <2>3. ASSUME NEW v \in Worker, NEW i \in DOMAIN T(v)', i < Len(T(v)')
        PROVE  LET t == T(v)'[i] IN
               task'[t].stat = "started" /\ task'[t].pc = "wait" /\ Last(task'[t].frames).spn > 0
    <3>1. T(v)' = T(v) /\ T(v)[i] \in Task /\ i \in DOMAIN T(v)
      BY <2>3, Types, ElementOfSeq, LenProperties
    <3>2. Waiting(T(v)[i])
      BY <1>1, <2>3, <3>1 DEF Stacks
    <3>3. T(v)[i] # Top(w)
      BY <1>1, <2>3, <3>1, NotTop
    <3> QED
      BY <3>1, <3>2, <3>3 DEF Waiting, IsStarted, TopFrame
  <2>4. ASSUME NEW v \in Worker, thr'[v].sending
        PROVE  T(v)' # <<>> /\ task'[Top(v)'].stat = "started"
    <3>1. T(v)' = T(v) /\ Top(v)' = Top(v)
      BY SameTop
    <3>2. T(v) # <<>> /\ IsStarted(Top(v))
      BY <1>1, <2>4 DEF Stacks
    <3>3. Top(v) \in Task
      BY <3>2, TopIs
    <3> QED
      BY <1>2, <3>1, <3>2, <3>3
  <2>5. \A t \in Task : t > spawned' => task'[t] = NoTask /\ home'[t] = NoHome
    BY <1>1 DEF Stacks, Untouched
  <2> QED
    BY <2>1, <2>2, <2>3, <2>4, <2>5 DEF Stacks, Waiting, IsStarted, TopFrame
<1>4. Frames'
  BY <1>1, <1>2 DEF Frames, IsStarted, Alive
<1> QED
  BY <1>1, <1>2, <1>3, <1>4

LEMMA FrameStructure ==
  ASSUME TypeOK, Structure, SameStacks, SameHomes, Untouched,
         NEW w \in Worker, T(w) # <<>>,
         \A v \in Worker : thr'[v].sending = thr[v].sending,
         \A t \in Task \ {Top(w)} : task'[t] = task[t],
         task'[Top(w)].stat = "started", Framed(task'[Top(w)].frames),
         SameSpawned(task[Top(w)].frames, task'[Top(w)].frames)
  PROVE  Structure'
<1>1. Stacks /\ Frames /\ Subs /\ Nested /\ Counted
  BY DEF Structure
<1>2. /\ Stacks' /\ Frames' /\ Top(w) \in Task
      /\ \A t \in Task :
           /\ Alive(t)' <=> Alive(t)
           /\ IsStarted(t) => task'[t].stat = "started"
           /\ task'[t].stat = "started" => IsStarted(t) \/ t = Top(w)
           /\ task[t].stat = "initialized" => task[t].frames = <<>>
  BY <1>1, FrameStacks DEF SameStacks
<1>5. Subs'
  <2>1. \A u, v \in Worker : \A i \in DOMAIN S(u)', j \in DOMAIN S(v)' :
          S(u)'[i] = S(v)'[j] => u = v /\ i = j
    BY <1>1 DEF Subs, SameStacks
  <2>2. ASSUME NEW v \in Worker, NEW s \in ToSet(S(v)')
        PROVE  /\ s \in 1..spawned'
               /\ home'[s].owner \in ToSet(T(v)') /\ task'[home'[s].owner].stat = "started"
               /\ home'[s].region \in DOMAIN task'[home'[s].owner].frames
    <3>1. S(v)' = S(v) /\ T(v)' = T(v)
      BY DEF SameStacks
    <3>2. s \in ToSet(S(v)) /\ s \in Task
      BY <2>2, <3>1, Types
    <3>3. home'[s].owner = home[s].owner /\ home'[s].region = home[s].region
          /\ home[s].owner \in Task /\ s \in 1..spawned
          /\ home[s].owner \in ToSet(T(v)) /\ IsStarted(home[s].owner)
          /\ home[s].region \in DOMAIN task[home[s].owner].frames
      BY <1>1, <3>2, Types DEF SameHomes, Subs
    <3>4. CASE home[s].owner # Top(w)
      BY <1>2, <3>1, <3>3, <3>4 DEF IsStarted, Untouched
    <3>5. CASE home[s].owner = Top(w)
      <4>1. s \in SpawnedIn(Top(w), home[s].region)
        BY <3>2, <3>5 DEF SpawnedIn, SubtasksOf, S
      <4>2. task[Top(w)].frames[home[s].region].spn > 0
        BY <1>1, <3>3, <3>5, <4>1, HasSpawned
      <4>3. home[s].region \in DOMAIN task'[Top(w)].frames
        BY <3>3, <3>5, <4>2 DEF SameSpawned
      <4> QED
        BY <3>1, <3>3, <3>5, <4>3 DEF IsStarted, Untouched
    <3> QED
      BY <3>4, <3>5
  <2>3. \A s \in Task : home'[s].stat = "initialized" <=> Alive(s)'
    BY <1>1, <1>2 DEF Subs, SameHomes
  <2>4. \A s \in Task \ {Root} : Alive(s)' => InSub(s)'
    BY <1>1, <1>2 DEF Subs, SameStacks, InSub
  <2> QED
    BY <2>1, <2>2, <2>3, <2>4 DEF Subs, IsStarted
<1>6. Nested'
  BY <1>1, QuietNested DEF SameHomes
<1>7. Counted'
  <2> SUFFICES ASSUME NEW t \in Task, task'[t].stat = "started", NEW i \in DOMAIN task'[t].frames
               PROVE  Cardinality(SpawnedIn(t, i)') = task'[t].frames[i].spn
    BY DEF Counted, IsStarted
  <2>1. SubtasksOf(t)' = SubtasksOf(t)
    BY SameSubtasks DEF SameHomes
  <2>2. SpawnedIn(t, i)' = SpawnedIn(t, i)
    BY <2>1 DEF SpawnedIn, SameHomes, SubtasksOf
  <2>3. i \in DOMAIN task[t].frames => IsStarted(t)
    BY <1>1, <1>2 DEF IsStarted, Alive
  <2>4. CASE i \in DOMAIN task[t].frames
    <3>1. task'[t].frames[i].spn = task[t].frames[i].spn
      BY <2>4 DEF SameSpawned
    <3> QED
      BY <1>1, <2>2, <2>3, <2>4, <3>1 DEF Counted
  <2>5. CASE i \notin DOMAIN task[t].frames
    <3>1. t = Top(w) /\ task'[t].frames[i].spn = 0
      BY <2>5 DEF SameSpawned
    <3>2. SpawnedIn(t, i) = {}
      BY <1>1, <2>5 DEF SpawnedIn, SubtasksOf, Subs, S
    <3> QED
      BY <2>2, <3>1, <3>2, FS_EmptySet
  <2> QED
    BY <2>4, <2>5
<1> QED
  BY <1>2, <1>5, <1>6, <1>7 DEF Structure

(* The rest of the invariant, for a worker that is not cancelled or goes on *)
(* backtracking.                                                            *)
LEMMA FrameStep ==
  ASSUME IInv, TypeOK', SameStacks, home' = home, spawned' = spawned,
         NEW w \in Worker, T(w) # <<>>, IsStarted(Top(w)),
         \A v \in Worker : thr'[v].sending = thr[v].sending,
         \A v \in Worker \ {w} : thr'[v].exiting = thr[v].exiting,
         thr'[w].exiting = "cancel" =>
           thr[w].exiting = "cancel" /\ task'[Top(w)].pc = "unwind",
         \A t \in Task \ {Top(w)} : task'[t] = task[t],
         task'[Top(w)].stat = "started", Framed(task'[Top(w)].frames),
         task'[Top(w)].cancellation = task[Top(w)].cancellation,
         SameSpawned(task[Top(w)].frames, task'[Top(w)].frames)
  PROVE  IInv'
<1>1. /\ TypeOK /\ Structure /\ CancelAccounting /\ CancelReason /\ AbortedIfCancelled
      /\ Top(w) \in Task /\ \A t \in Task : t > spawned => t # Top(w)
  <2>1. TypeOK /\ Structure /\ Stacks /\ CancelAccounting /\ CancelReason /\ AbortedIfCancelled
    BY DEF IInv, Structure
  <2> QED
    BY <2>1, TopAlive
<1>2. SameHomes /\ Untouched
  BY <1>1 DEF SameHomes, Untouched
<1>3. Structure'
  BY <1>1, <1>2, FrameStructure
<1>4. \A t \in Task : Thrown(t)' = Thrown(t)
  BY <1>2, SameThrown
<1>5. CancelAccounting'
  BY <1>1, <1>4, SameAccount DEF IsStarted
<1>6. AbortedIfCancelled'
  BY <1>1 DEF AbortedIfCancelled
<1>7. CancelReason'
  <2> SUFFICES ASSUME NEW v \in Worker, thr'[v].exiting = "cancel"
               PROVE  /\ T(v)' # <<>> /\ task'[Top(v)'].stat = "started"
                      /\ task'[Top(v)'].pc = "unwind"
                      /\ home'[Top(v)'].msg_cncl = 2 \/ Thrown(Top(v))' # {}
    BY DEF CancelReason, IsStarted
  <2>1. T(v)' = T(v) /\ Top(v)' = Top(v) /\ Thrown(Top(v))' = Thrown(Top(v))
    BY <1>2, SameTop, SameThrown DEF SameStacks
  <2>2. /\ T(v) # <<>> /\ IsStarted(Top(v)) /\ task[Top(v)].pc = "unwind"
        /\ home[Top(v)].msg_cncl = 2 \/ Thrown(Top(v)) # {}
    BY <1>1 DEF CancelReason
  <2>3. Top(v) \in Task
    BY <1>1, <2>2, TopIs
  <2>4. v # w => Top(v) # Top(w)
    BY <1>1, <2>2, OtherTop DEF Structure
  <2> QED
    BY <2>1, <2>2, <2>3, <2>4 DEF IsStarted
<1> QED
  BY <1>1, <1>3, <1>5, <1>6, <1>7 DEF IInv

LEMMA FramesBelow ==
  ASSUME NEW fs \in Seq(Frame), Framed(fs), Last(fs).kind # "body", Last(fs).spn = 0,
         NEW b \in BOOLEAN
  PROVE  /\ Front(fs) \in Seq(Frame) /\ Framed(Front(fs)) /\ SameSpawned(fs, Front(fs))
         /\ Leave(fs, b) \in Seq(Frame) /\ Framed(Leave(fs, b)) /\ SameSpawned(fs, Leave(fs, b))
<1> DEFINE n == Len(fs)
<1>1. /\ Front(fs) \in Seq(Frame) /\ Len(Front(fs)) = n - 1
      /\ DOMAIN Front(fs) = 1..n - 1 /\ DOMAIN fs = 1..n
      /\ \A i \in 1..n - 1 : i \in DOMAIN fs /\ Front(fs)[i] = fs[i]
      /\ n \in DOMAIN fs /\ n \in Nat \ {0} /\ Last(fs) = fs[n]
  <2>1. fs # <<>>
    BY DEF Framed
  <2> QED
    BY <2>1, FrontOf
<1> HIDE DEF n
<1>2. n > 1
  BY <1>1 DEF Framed
<1>3. Framed(Front(fs))
  <2>1. Front(fs) # <<>>
    BY <1>1, <1>2, EmptySeq
  <2> QED
    BY <1>1, <2>1 DEF Framed
<1>4. SameSpawned(fs, Front(fs))
  BY <1>1 DEF SameSpawned
<1>5. PICK gs : gs = Front(fs)
  OBVIOUS
<1>6. PICK h \in BOOLEAN : h = (gs[n - 1].hole \/ Last(fs).hole \/ b)
  OBVIOUS
<1>7. n - 1 \in DOMAIN gs /\ gs[n - 1] \in Frame /\ gs \in Seq(Frame) /\ DOMAIN gs = 1..n - 1
  BY <1>1, <1>2, <1>5, ElementOfSeq
<1>8. PICK g : g = [gs[n - 1] EXCEPT !.hole = h]
  OBVIOUS
<1>9. g \in Frame /\ g.kind = gs[n - 1].kind /\ g.spn = gs[n - 1].spn
  BY <1>7, <1>8 DEF Frame
<1>10. Leave(fs, b) = [gs EXCEPT ![n - 1] = g]
  <2>1. Leave(fs, b) = [gs EXCEPT ![n - 1].hole = @ \/ Last(fs).hole \/ b]
    BY <1>1, <1>5 DEF Leave
  <2> QED
    BY <1>6, <1>8, <2>1
<1>11. PICK ls : ls = [gs EXCEPT ![n - 1] = g]
  OBVIOUS
<1>12. /\ ls \in Seq(Frame) /\ DOMAIN ls = 1..n - 1 /\ Len(ls) = n - 1
       /\ \A i \in 1..n - 1 : ls[i].kind = gs[i].kind /\ ls[i].spn = gs[i].spn
  BY <1>1, <1>5, <1>7, <1>9, <1>11, ExceptSeq
<1>13. Framed(ls)
  <2>1. ls # <<>>
    BY <1>1, <1>2, <1>12, EmptySeq
  <2> QED
    BY <1>3, <1>5, <1>7, <1>12, <2>1 DEF Framed
<1>14. SameSpawned(fs, ls)
  BY <1>4, <1>5, <1>7, <1>12 DEF SameSpawned
<1> QED
  BY <1>1, <1>3, <1>4, <1>10, <1>11, <1>12, <1>13, <1>14

LEMMA EnterStep ==
  ASSUME IInv, NEW w \in Worker, NEW k \in Kind \cup {"catch"}, NEW g \in Tag \cup {0},
         Enter(w, k, g)
  PROVE  IInv'
<1>1. /\ TypeOK /\ Structure /\ CancelReason
      /\ T(w) # <<>> /\ IsStarted(Top(w)) /\ Top(w) \in Task
      /\ Framed(task[Top(w)].frames) /\ task[Top(w)].pc = "run"
  BY Acting DEF Enter, Running, Busy
<1>2. PICK fs : fs = task[Top(w)].frames
  OBVIOUS
<1>3. PICK f : f = NewFrame(k, g)
  OBVIOUS
<1>4. fs \in Seq(Frame) /\ Framed(fs) /\ task \in [Task -> TaskState]
      /\ thr \in [Worker -> Thread] /\ home \in [Task -> TaskHome]
  BY <1>1, <1>2, Types, TypeParts
<1>5. f \in Frame /\ f.spn = 0 /\ f.kind # "body"
  BY <1>3, CancelAssumption DEF NewFrame, Frame, CancelAssumption
<1>6. PICK gs : gs = Append(fs, f)
  OBVIOUS
<1>7. /\ gs \in Seq(Frame) /\ DOMAIN gs = 1..Len(fs) + 1 /\ DOMAIN fs = 1..Len(fs)
      /\ \A i \in DOMAIN fs : gs[i] = fs[i]
      /\ gs[Len(fs) + 1] = f /\ Len(gs) = Len(fs) + 1 /\ Len(fs) \in Nat
  BY <1>4, <1>5, <1>6, AppendOf, LenProperties
<1>8. Framed(gs)
  <2>1. gs # <<>> /\ Len(fs) # 0
    BY <1>4, <1>7, EmptySeq DEF Framed
  <2> QED
    BY <1>4, <1>5, <1>7, <2>1 DEF Framed
<1>9. SameSpawned(fs, gs)
  BY <1>5, <1>7 DEF SameSpawned
<1>10. /\ task' = [task EXCEPT ![Top(w)] = [task[Top(w)] EXCEPT !.frames = gs]]
       /\ entered' = entered + 1 /\ entered < MaxEnter
       /\ thr' = thr /\ home' = home /\ spawned' = spawned
  BY <1>2, <1>3, <1>6 DEF Enter
<1>11. PICK r : r = [task[Top(w)] EXCEPT !.frames = gs]
  OBVIOUS
<1>12. /\ r \in TaskState /\ r.stat = "started" /\ r.frames = gs
       /\ r.cancellation = task[Top(w)].cancellation
       /\ task' = [task EXCEPT ![Top(w)] = r]
  BY <1>1, <1>4, <1>7, <1>10, <1>11 DEF TaskState, IsStarted
<1>13. TypeOK'
  <2>1. entered' \in 0..MaxEnter
    BY <1>1, <1>10, CancelAssumption DEF TypeOK, CancelAssumption
  <2> QED
    BY <1>1, <1>4, <1>10, <1>12, <2>1, TypeParts, TypePartsNext
<1>14. task'[Top(w)] = r /\ \A t \in Task \ {Top(w)} : task'[t] = task[t]
  BY <1>1, <1>4, <1>12
<1>15. SameStacks
  BY <1>10 DEF SameStacks, T, S
<1>16. thr[w].exiting # "cancel"
  BY <1>1 DEF CancelReason
<1> QED
  BY <1>1, <1>2, <1>8, <1>9, <1>10, <1>12, <1>13, <1>14, <1>15, <1>16, FrameStep

LEMMA EndFrameStep ==
  ASSUME IInv, NEW w \in Worker, EndFrame(w)
  PROVE  IInv'
<1>1. /\ TypeOK /\ Structure /\ CancelReason
      /\ T(w) # <<>> /\ IsStarted(Top(w)) /\ Top(w) \in Task
      /\ Framed(task[Top(w)].frames) /\ task[Top(w)].pc \in {"run", "wait"}
  BY Acting DEF EndFrame, Busy
<1>2. PICK fs : fs = task[Top(w)].frames
  OBVIOUS
<1>3. PICK p \in {"run", "wait", "unwind"} :
        task' = [task EXCEPT ![Top(w)].frames = Leave(@, FALSE), ![Top(w)].pc = p]
  BY DEF EndFrame
<1>4. fs \in Seq(Frame) /\ Framed(fs) /\ task \in [Task -> TaskState]
  BY <1>1, <1>2, Types, TypeParts
<1>5. Last(fs).kind # "body" /\ Last(fs).spn = 0
  BY <1>2 DEF EndFrame, TopFrame, NoneLeft
<1>6. PICK gs : gs = Leave(fs, FALSE)
  OBVIOUS
<1>7. gs \in Seq(Frame) /\ Framed(gs) /\ SameSpawned(fs, gs)
  BY <1>4, <1>5, <1>6, FramesBelow
<1>8. PICK r : r = [task[Top(w)] EXCEPT !.frames = gs, !.pc = p]
  OBVIOUS
<1>9. /\ r \in TaskState /\ r.stat = "started" /\ r.frames = gs
      /\ r.cancellation = task[Top(w)].cancellation
  <2>1. task[Top(w)] \in TaskState /\ task[Top(w)].stat = "started"
    BY <1>1, <1>4 DEF IsStarted
  <2> QED
    BY <1>7, <1>8, <2>1 DEF TaskState
<1>10. /\ task' = [task EXCEPT ![Top(w)] = r]
       /\ thr' = thr /\ home' = home /\ spawned' = spawned /\ entered' = entered
  BY <1>1, <1>2, <1>3, <1>4, <1>6, <1>8 DEF EndFrame
<1>11. TypeOK'
  BY <1>1, <1>4, <1>9, <1>10, TypeParts, TypePartsNext
<1>12. task'[Top(w)] = r /\ \A t \in Task \ {Top(w)} : task'[t] = task[t]
  BY <1>1, <1>4, <1>10
<1>13. SameStacks
  BY <1>10 DEF SameStacks, T, S
<1>14. thr[w].exiting # "cancel"
  BY <1>1 DEF CancelReason
<1> QED
  BY <1>1, <1>2, <1>7, <1>9, <1>10, <1>11, <1>12, <1>13, <1>14, FrameStep

LEMMA UnwindStep ==
  ASSUME IInv, NEW w \in Worker, Unwind(w)
  PROVE  IInv'
<1>1. /\ TypeOK /\ Structure /\ CancelReason
      /\ T(w) # <<>> /\ IsStarted(Top(w)) /\ Top(w) \in Task
      /\ Framed(task[Top(w)].frames) /\ task[Top(w)].pc = "unwind"
  <2>1. /\ T(w) # <<>> /\ TypeOK /\ Stacks /\ Frames
        /\ thr[w].tasks # <<>> /\ task[Top(w)].pc = "unwind"
    BY DEF Unwind, Busy, T, IInv, Structure
  <2>2. Alive(Top(w)) /\ Top(w) \in Task
    BY <2>1, TopAlive
  <2>3. task[Top(w)].stat = "started"
    BY <2>1, <2>2 DEF Frames, Alive
  <2> QED
    BY <2>1, <2>3, Acting
<1>2. PICK fs : fs = task[Top(w)].frames
  OBVIOUS
<1>3. PICK caught \in BOOLEAN :
        /\ task' = [task EXCEPT ![Top(w)].frames = Front(@),
                                ![Top(w)].pc = IF caught THEN "run" ELSE @]
        /\ thr' = [thr EXCEPT ![w].exiting = IF caught THEN "normal" ELSE @]
        /\ home' = home /\ spawned' = spawned /\ entered' = entered
  BY DEF Unwind
<1>4. fs \in Seq(Frame) /\ Framed(fs) /\ task \in [Task -> TaskState]
      /\ thr \in [Worker -> Thread]
  BY <1>1, <1>2, Types, TypeParts
<1>5. Last(fs).kind # "body" /\ Last(fs).spn = 0
  BY <1>2 DEF Unwind, TopFrame, NoneLeft
<1>6. PICK gs : gs = Front(fs)
  OBVIOUS
<1>7. gs \in Seq(Frame) /\ Framed(gs) /\ SameSpawned(fs, gs)
  BY <1>4, <1>5, <1>6, FramesBelow
<1>8. PICK p \in {"run", "wait", "unwind"} : p = IF caught THEN "run" ELSE "unwind"
  OBVIOUS
<1>9. PICK r : r = [task[Top(w)] EXCEPT !.frames = gs, !.pc = p]
  OBVIOUS
<1>10. /\ r \in TaskState /\ r.stat = "started" /\ r.frames = gs /\ r.pc = p
       /\ r.cancellation = task[Top(w)].cancellation
  <2>1. task[Top(w)] \in TaskState /\ task[Top(w)].stat = "started"
    BY <1>1, <1>4 DEF IsStarted
  <2> QED
    BY <1>7, <1>9, <2>1 DEF TaskState
<1>11. task' = [task EXCEPT ![Top(w)] = r]
  BY <1>1, <1>2, <1>3, <1>4, <1>6, <1>8, <1>9
<1>12. TypeOK'
  <2>1. thr' \in [Worker -> Thread]
    BY <1>3, <1>4 DEF Thread
  <2> QED
    BY <1>1, <1>3, <1>4, <1>10, <1>11, <2>1, TypeParts, TypePartsNext
<1>13. task'[Top(w)] = r /\ \A t \in Task \ {Top(w)} : task'[t] = task[t]
  BY <1>1, <1>4, <1>11
<1>14. /\ SameStacks
       /\ \A v \in Worker : thr'[v].sending = thr[v].sending
       /\ \A v \in Worker \ {w} : thr'[v].exiting = thr[v].exiting
       /\ thr'[w].exiting = IF caught THEN "normal" ELSE thr[w].exiting
  BY <1>3, <1>4 DEF SameStacks, T, S, Thread
<1>15. home' = home /\ spawned' = spawned
  BY <1>3
<1>16. /\ task'[Top(w)].stat = "started" /\ Framed(task'[Top(w)].frames)
       /\ task'[Top(w)].cancellation = task[Top(w)].cancellation
       /\ SameSpawned(task[Top(w)].frames, task'[Top(w)].frames)
       /\ task'[Top(w)].pc = IF caught THEN "run" ELSE "unwind"
  BY <1>2, <1>7, <1>8, <1>10, <1>13
<1>17. thr'[w].exiting = "cancel" => thr[w].exiting = "cancel" /\ task'[Top(w)].pc = "unwind"
  BY <1>14, <1>16
<1> QED
  BY <1>1, <1>12, <1>13, <1>14, <1>15, <1>16, <1>17, FrameStep

LEMMA StartStep ==
  ASSUME IInv, NEW w \in Worker, Start(w)
  PROVE  IInv'
<1>1. /\ TypeOK /\ Structure /\ Stacks /\ Frames /\ Subs
      /\ CancelAccounting /\ CancelReason /\ AbortedIfCancelled
      /\ T(w) # <<>>
  BY DEF IInv, Structure, Start, Busy, T
<1>2. Top(w) \in Task /\ \A t \in Task : t > spawned => t # Top(w)
  BY <1>1, TopAlive
<1>3. PICK r : r = Started(task[Top(w)])
  OBVIOUS
<1>4. /\ task' = [task EXCEPT ![Top(w)] = r]
      /\ thr' = thr /\ home' = home /\ spawned' = spawned /\ entered' = entered
      /\ task[Top(w)].stat = "initialized"
  BY <1>3 DEF Start
<1>5. task \in [Task -> TaskState]
  BY <1>1, TypeParts
<1>6. /\ r \in TaskState /\ r.stat = "started" /\ r.cancellation = 0
      /\ r.frames = <<NewFrame("body", 0)>>
  <2>1. NewFrame("body", 0) \in Frame
    BY DEF NewFrame, Frame
  <2>2. <<NewFrame("body", 0)>> \in Seq(Frame)
    BY <2>1
  <2> QED
    BY <1>2, <1>3, <1>5, <2>2 DEF Started, TaskState
<1>7. TypeOK'
  BY <1>1, <1>2, <1>4, <1>5, <1>6, TypeParts, TypePartsNext
<1>8. task'[Top(w)] = r /\ \A t \in Task \ {Top(w)} : task'[t] = task[t]
  BY <1>2, <1>4, <1>5
<1>9. SameStacks /\ SameHomes /\ Untouched
  BY <1>2, <1>4, <1>8 DEF SameStacks, SameHomes, Untouched, T, S
<1>10. Framed(r.frames) /\ SameSpawned(task[Top(w)].frames, r.frames)
  BY <1>1, <1>2, <1>4, <1>6 DEF Framed, SameSpawned, NewFrame, Frames
<1>11. Structure'
  BY <1>1, <1>4, <1>6, <1>8, <1>9, <1>10, FrameStructure
<1>12. \A t \in Task : Thrown(t)' = Thrown(t)
  BY <1>9, SameThrown
<1>13. Thrown(Top(w)) = {}
  BY <1>1, <1>4 DEF Thrown, SubtasksOf, Subs, S, IsStarted
<1>14. CancelAccounting'
  <2> SUFFICES ASSUME NEW t \in Task, task'[t].stat = "started"
               PROVE  task'[t].cancellation \in Cardinality(Thrown(t)')
                        ..Cardinality(Thrown(t)') + (IF home'[t].msg_cncl = 2 THEN 1 ELSE 0)
    BY DEF CancelAccounting, Thrown
  <2>1. CASE t = Top(w)
    <3>1. task'[t].cancellation = 0 /\ Cardinality(Thrown(t)') = 0
      BY <1>6, <1>8, <1>12, <1>13, <2>1, FS_EmptySet
    <3>2. PICK d \in {0, 1} : d = IF home'[t].msg_cncl = 2 THEN 1 ELSE 0
      OBVIOUS
    <3> QED
      BY <3>1, <3>2
  <2>2. CASE t # Top(w)
    BY <1>1, <1>4, <1>8, <1>12, <2>2 DEF CancelAccounting, Thrown
  <2> QED
    BY <2>1, <2>2
<1>15. AbortedIfCancelled'
  BY <1>1, <1>4 DEF AbortedIfCancelled
<1>16. CancelReason'
  <2> SUFFICES ASSUME NEW v \in Worker, thr'[v].exiting = "cancel"
               PROVE  /\ T(v)' # <<>> /\ task'[Top(v)'].stat = "started"
                      /\ task'[Top(v)'].pc = "unwind"
                      /\ home'[Top(v)'].msg_cncl = 2 \/ Thrown(Top(v))' # {}
    BY DEF CancelReason, IsStarted
  <2>1. T(v)' = T(v) /\ Top(v)' = Top(v) /\ Thrown(Top(v))' = Thrown(Top(v))
    BY <1>9, SameTop, SameThrown DEF SameStacks
  <2>2. /\ T(v) # <<>> /\ task[Top(v)].stat = "started" /\ task[Top(v)].pc = "unwind"
        /\ home[Top(v)].msg_cncl = 2 \/ Thrown(Top(v)) # {}
    BY <1>1, <1>4 DEF CancelReason, IsStarted
  <2>3. Top(v) \in Task /\ Top(v) # Top(w)
    BY <1>1, <1>4, <2>2, TopIs
  <2> QED
    BY <1>4, <1>8, <2>1, <2>2, <2>3
<1> QED
  BY <1>7, <1>11, <1>14, <1>15, <1>16 DEF IInv

(***************************************************************************)
(* A subtask is spawned                                                    *)
(***************************************************************************)
(* The region that spawns is the innermost one that has spawned any. *)
LEMMA SpawnsInnermost ==
  ASSUME NEW t, task[t].frames \in Seq(Frame), Framed(task[t].frames), NEW i \in SpawnFrame(t)
  PROVE  LET fs == task[t].frames IN
         /\ i \in DOMAIN fs /\ fs[i].kind \in {"two", "many"}
         /\ fs[i].kind = "two" => fs[i].spn = 0
         /\ \A j \in DOMAIN fs : j > i => fs[j].spn = 0
<1> DEFINE fs == task[t].frames
           region == {j \in DOMAIN fs : fs[j].kind \in {"two", "many"}}
<1>1. /\ i \in region /\ CanSpawn(fs[i])
      /\ ~\E j \in region : j > i /\ fs[j].spn > 0
  BY DEF SpawnFrame
<1>2. \A j \in DOMAIN fs : fs[j].spn \in Nat /\ fs[j].kind \in {"body", "catch", "two", "many"}
  <2> TAKE j \in DOMAIN fs
  <2>1. fs[j] \in Frame
    BY ElementOfSeq, LenProperties
  <2> QED
    BY <2>1 DEF Frame
<1>3. \A j \in DOMAIN fs : j \notin region => fs[j].spn = 0
  BY <1>2 DEF Framed
<1> QED
  BY <1>1, <1>2, <1>3 DEF CanSpawn

(* The frames gs are fs but for the spn of the i-th (and their tags). *)
Recounted(fs, gs, i, n) ==
  /\ DOMAIN gs = DOMAIN fs /\ Len(gs) = Len(fs)
  /\ \A j \in DOMAIN fs : /\ gs[j].kind = fs[j].kind /\ gs[j].hole = fs[j].hole
                          /\ gs[j].spn = IF j = i THEN n ELSE fs[j].spn

(* What Spawn does: worker w gives subtask s of its task t, spawned by the *)
(* i-th frame of t, to worker v.                                           *)
Gives(w, v, t, s, i) ==
  /\ t = Top(w) /\ s = spawned + 1 /\ v # w
  /\ IsStarted(t) /\ task[t].pc = "run"
  /\ T(v) # <<>> => Waiting(Top(v)) /\ ~thr[v].sending
  /\ s \in Task /\ task[s] = NoTask /\ home[s] = NoHome
  /\ T(v)' = Append(T(v), s) /\ \A u \in Worker \ {v} : T(u)' = T(u)
  /\ S(w)' = Append(S(w), s) /\ \A u \in Worker \ {w} : S(u)' = S(u)
  /\ \A u \in Worker : thr'[u].sending = thr[u].sending
  /\ \A u \in Worker \ {w} : thr'[u].exiting = thr[u].exiting
  /\ thr'[w].exiting = "normal"
  /\ \A x \in Task \ {t, s} : task'[x] = task[x]
  /\ task'[s].stat = "initialized" /\ task'[s].pc = "run" /\ task'[s].frames = <<>>
  /\ task'[t].stat = "started" /\ task'[t].pc = "run"
  /\ task'[t].cancellation = task[t].cancellation
  /\ Recounted(task[t].frames, task'[t].frames, i, task[t].frames[i].spn + 1)
  /\ \A x \in Task \ {s} : home'[x] = home[x]
  /\ home'[s].stat = "initialized" /\ home'[s].owner = t /\ home'[s].region = i
  /\ home'[s].msg_cncl = 0
  /\ spawned' = spawned + 1

LEMMA Recount ==
  ASSUME NEW fs \in Seq(Frame), NEW i \in DOMAIN fs, NEW n \in Nat,
         NEW gs, gs = [fs EXCEPT ![i].spn = n]
  PROVE  gs \in Seq(Frame) /\ Recounted(fs, gs, i, n)
<1>1. PICK f : f = [fs[i] EXCEPT !.spn = n]
  OBVIOUS
<1>2. fs[i] \in Frame /\ DOMAIN fs = 1..Len(fs)
  BY ElementOfSeq, LenProperties
<1>3. f \in Frame /\ f.kind = fs[i].kind /\ f.hole = fs[i].hole /\ f.spn = n
  BY <1>1, <1>2 DEF Frame
<1>4. gs = [fs EXCEPT ![i] = f]
  BY <1>1
<1>5. gs \in Seq(Frame) /\ Len(gs) = Len(fs) /\ DOMAIN gs = DOMAIN fs
  BY <1>2, <1>3, <1>4, ExceptSeq, LenProperties
<1>6. \A j \in DOMAIN fs : gs[j] = IF j = i THEN f ELSE fs[j]
  BY <1>4
<1> QED
  BY <1>3, <1>5, <1>6 DEF Recounted

LEMMA SpawnGives ==
  ASSUME IInv, NEW w \in Worker, NEW v \in Worker, Spawn(w, v)
  PROVE  /\ TypeOK'
         /\ \E i \in SpawnFrame(Top(w)) : Gives(w, v, Top(w), spawned + 1, i)
<1> DEFINE t == Top(w)
           s == spawned + 1
<1>1. /\ TypeOK /\ Stacks /\ Subs /\ Counted
      /\ T(w) # <<>> /\ IsStarted(t) /\ t \in Task /\ t <= spawned
      /\ Framed(task[t].frames) /\ task[t].pc = "run"
  BY Acting DEF Spawn, Running, Busy
<1>2. /\ task \in [Task -> TaskState] /\ thr \in [Worker -> Thread] /\ home \in [Task -> TaskHome]
      /\ spawned \in Nat /\ task[t].frames \in Seq(Frame)
  BY <1>1, TypeParts, Types
<1>3. s \in Task /\ s # t /\ s > spawned /\ s \in Nat /\ s # Root /\ s \in 0..MaxSub
  BY <1>1, <1>2, Types DEF Spawn, Task, Root
<1>4. task[s] = NoTask /\ home[s] = NoHome
  BY <1>1, <1>3 DEF Stacks
<1>5. PICK i \in SpawnFrame(t) :
        /\ task' = [task EXCEPT ![t].frames[i].spn = task[t].frames[i].spn + 1,
                                ![s].stat = "initialized"]
        /\ home' = [home EXCEPT ![s] =
             [NoHome EXCEPT !.stat = "initialized", !.owner = t, !.region = i,
                !.eldest = IF task[t].frames[i].spn = 0 THEN s
                           ELSE home[Last(thr[w].sub)].eldest]]
  BY DEF Spawn
<1>6. i \in DOMAIN task[t].frames /\ i \in Nat /\ task[t].frames[i].spn \in Nat
  <2>1. i \in DOMAIN task[t].frames
    BY <1>1, <1>2, SpawnsInnermost
  <2> QED
    BY <1>1, <1>2, <2>1, Types, LenProperties
<1>7. PICK e \in Task : e = IF task[t].frames[i].spn = 0 THEN s
                            ELSE home[Last(thr[w].sub)].eldest
  <2>1. CASE task[t].frames[i].spn = 0
    BY <1>3, <2>1
  <2>2. CASE task[t].frames[i].spn # 0
    <3>1. SpawnedIn(t, i) # {}
      BY <1>1, <1>6, <2>2, FS_EmptySet DEF Counted
    <3>2. SubtasksOf(t) = {x \in ToSet(S(w)) : home[x].owner = t}
      BY <1>1, OwnStack, TopIs
    <3>3. S(w) # <<>> /\ S(w) \in Seq(Task)
      <4>1. ToSet(S(w)) # {}
        BY <3>1, <3>2 DEF SpawnedIn
      <4> QED
        BY <1>1, <4>1, Types DEF ToSet
    <3>4. Last(thr[w].sub) \in Task
      BY <3>3, FrontOf DEF S
    <3> QED
      BY <1>2, <2>2, <3>4 DEF TaskHome
  <2> QED
    BY <2>1, <2>2
<1>8. PICK fs : fs = [task[t].frames EXCEPT ![i].spn = task[t].frames[i].spn + 1]
  OBVIOUS
<1>9. fs \in Seq(Frame) /\ Recounted(task[t].frames, fs, i, task[t].frames[i].spn + 1)
  <2>1. task[t].frames[i].spn + 1 \in Nat
    BY <1>6
  <2> QED
    BY <1>2, <1>6, <1>8, <2>1, Recount
<1>10. PICK r : r = [task[t] EXCEPT !.frames = fs]
  OBVIOUS
<1>11. PICK k : k = [NoTask EXCEPT !.stat = "initialized"]
  OBVIOUS
<1>12. PICK h : h = [NoHome EXCEPT !.stat = "initialized", !.owner = t, !.region = i, !.eldest = e]
  OBVIOUS
<1> HIDE DEF t, s
<1>13. /\ r \in TaskState /\ r.stat = task[t].stat /\ r.pc = task[t].pc
       /\ r.cancellation = task[t].cancellation /\ r.frames = fs
  BY <1>1, <1>2, <1>9, <1>10 DEF TaskState
<1>14. k \in TaskState /\ k.stat = "initialized" /\ k.pc = "run" /\ k.frames = <<>>
  <2>1. NoTask \in TaskState /\ NoTask.pc = "run" /\ NoTask.frames = <<>>
    <3>1. <<>> \in Seq(Frame)
      OBVIOUS
    <3> QED
      BY <3>1 DEF TaskState, NoTask
  <2> QED
    BY <1>11, <2>1 DEF TaskState
<1>15. /\ h \in TaskHome /\ h.stat = "initialized" /\ h.owner = t /\ h.region = i
       /\ h.msg_cncl = 0
  <2>1. Root \in Task
    BY <1>1, Types
  <2>2. NoHome \in TaskHome /\ NoHome.msg_cncl = 0
    BY <2>1 DEF TaskHome, NoHome
  <2> QED
    BY <1>1, <1>6, <1>12, <2>2 DEF TaskHome
<1>16. task' = [task EXCEPT ![t] = r, ![s] = k]
  BY <1>1, <1>2, <1>3, <1>4, <1>5, <1>8, <1>10, <1>11
<1>17. home' = [home EXCEPT ![s] = h]
  BY <1>5, <1>7, <1>12
<1>18. /\ thr' = [thr EXCEPT ![w].sub = Append(@, s), ![w].exiting = "normal",
                             ![v].tasks = Append(@, s)]
       /\ v # w /\ spawned' = s /\ entered' = entered /\ Asks(v, w)
  BY DEF Spawn, s
<1>19. PICK rw : rw = [thr[w] EXCEPT !.sub = Append(S(w), s), !.exiting = "normal"]
  OBVIOUS
<1>20. PICK rv : rv = [thr[v] EXCEPT !.tasks = Append(T(v), s)]
  OBVIOUS
<1>21. thr' = [thr EXCEPT ![w] = rw, ![v] = rv]
  BY <1>2, <1>18, <1>19, <1>20 DEF S, T
<1>22. Append(S(w), s) \in Seq(Task) /\ Append(T(v), s) \in Seq(Task)
  BY <1>1, <1>3, Types
<1>23. /\ rw \in Thread /\ rw.tasks = thr[w].tasks /\ rw.sub = Append(S(w), s)
       /\ rw.exiting = "normal" /\ rw.sending = thr[w].sending
  BY <1>2, <1>19, <1>22 DEF Thread
<1>24. /\ rv \in Thread /\ rv.tasks = Append(T(v), s) /\ rv.sub = thr[v].sub
       /\ rv.exiting = thr[v].exiting /\ rv.sending = thr[v].sending
  BY <1>2, <1>20, <1>22 DEF Thread
<1>25. TypeOK'
  <2>1. thr' \in [Worker -> Thread]
    BY <1>2, <1>21, <1>23, <1>24
  <2>2. task' \in [Task -> TaskState]
    BY <1>2, <1>13, <1>14, <1>16
  <2>3. home' \in [Task -> TaskHome]
    BY <1>2, <1>15, <1>17
  <2> QED
    BY <1>1, <1>3, <1>18, <2>1, <2>2, <2>3, TypeParts, TypePartsNext
<1>26. /\ T(v)' = Append(T(v), s) /\ \A u \in Worker \ {v} : T(u)' = T(u)
       /\ S(w)' = Append(S(w), s) /\ \A u \in Worker \ {w} : S(u)' = S(u)
       /\ \A u \in Worker : thr'[u].sending = thr[u].sending
       /\ \A u \in Worker \ {w} : thr'[u].exiting = thr[u].exiting
       /\ thr'[w].exiting = "normal"
  BY <1>2, <1>18, <1>21, <1>23, <1>24 DEF T, S
<1>27. /\ \A x \in Task \ {t, s} : task'[x] = task[x]
       /\ task'[s] = k /\ task'[t] = r
       /\ \A x \in Task \ {s} : home'[x] = home[x]
       /\ home'[s] = h
  BY <1>1, <1>2, <1>3, <1>16, <1>17
<1>28. T(v) # <<>> => Waiting(Top(v)) /\ ~thr[v].sending
  BY <1>18 DEF Asks, WaitsFor, Busy, Waiting, IsStarted, T
<1>29. Gives(w, v, t, s, i)
  BY <1>1, <1>3, <1>4, <1>9, <1>13, <1>14, <1>15, <1>18, <1>26, <1>27, <1>28
     DEF Gives, IsStarted, t, s
<1> QED
  BY <1>25, <1>29 DEF t, s

LEMMA GivesStacks ==
  ASSUME TypeOK, Stacks, Frames, NEW w \in Worker, NEW v \in Worker, T(w) # <<>>,
         NEW i, Gives(w, v, Top(w), spawned + 1, i)
  PROVE  Stacks'
<1> DEFINE s == spawned + 1
<1>1. /\ s \in Task /\ ~Alive(s) /\ s \in Nat /\ spawned \in Nat
      /\ T(v) \in Seq(Task) /\ Top(w) \in Task
      /\ Alive(Top(w)) /\ \A u \in Worker : s \notin ToSet(T(u))
  <2>1. s \in Task /\ ~Alive(s)
    BY DEF Gives, Alive, NoTask
  <2> QED
    BY <2>1, Types, TopIs, TopAlive DEF Stacks
<1>2. /\ DOMAIN T(v)' = 1..Len(T(v)) + 1 /\ DOMAIN T(v) = 1..Len(T(v)) /\ Len(T(v)) \in Nat
      /\ \A j \in DOMAIN T(v) : T(v)'[j] = T(v)[j]
      /\ T(v)'[Len(T(v)) + 1] = s /\ Len(T(v)') = Len(T(v)) + 1
      /\ ToSet(T(v)') = ToSet(T(v)) \cup {s}
      /\ Top(v)' = s
  <2>1. T(v)' = Append(T(v), s)
    BY DEF Gives
  <2>2. Top(v)' = Last(T(v)')
    BY DEF Top, T
  <2> QED
    BY <1>1, <2>1, <2>2, AppendOf, AppendSet, LenProperties
<1>3. \A u \in Worker \ {v} : T(u)' = T(u) /\ Top(u)' = Top(u)
  BY SameTop DEF Gives
<1>4. \A u \in Worker : \A j \in DOMAIN T(u) : T(u)[j] # s /\ T(u)[j] \in Task
  BY <1>1, Types DEF ToSet
<1> HIDE DEF s
<1>5. ASSUME NEW x \in Worker, NEW y \in Worker, NEW j \in DOMAIN T(x)', NEW k \in DOMAIN T(y)',
             T(x)'[j] = T(y)'[k]
      PROVE  x = y /\ j = k
  <2>1. CASE T(x)'[j] = s
    <3>1. x = v /\ y = v
      BY <1>3, <1>4, <1>5, <2>1
    <3>2. j \notin DOMAIN T(v) /\ k \notin DOMAIN T(v)
      BY <1>2, <1>4, <1>5, <2>1, <3>1
    <3> QED
      BY <1>2, <3>1, <3>2
  <2>2. CASE T(x)'[j] # s
    <3>1. j \in DOMAIN T(x) /\ T(x)'[j] = T(x)[j]
      BY <1>2, <1>3, <2>2
    <3>2. k \in DOMAIN T(y) /\ T(y)'[k] = T(y)[k]
      BY <1>2, <1>3, <1>5, <2>2
    <3>3. T(x)[j] = T(y)[k]
      BY <1>5, <3>1, <3>2
    <3> QED
      BY <3>1, <3>2, <3>3 DEF Stacks
  <2> QED
    BY <2>1, <2>2
<1>6. ASSUME NEW x \in Task
      PROVE  Alive(x)' <=> \E u \in Worker : x \in ToSet(T(u)')
  <2>1. CASE x = s
    BY <1>2, <2>1 DEF Gives, Alive, s
  <2>2. CASE x # s
    <3>1. Alive(x)' <=> Alive(x)
      BY <1>1, <2>2 DEF Gives, Alive, IsStarted, s
    <3> QED
      BY <1>2, <1>3, <2>2, <3>1 DEF Stacks
  <2> QED
    BY <2>1, <2>2
<1>7. ASSUME NEW x \in Task, Waiting(x), x # Top(w)
      PROVE  task'[x] = task[x]
  <2>1. x # s
    BY <1>1, <1>7 DEF Waiting, IsStarted, Alive
  <2> QED
    BY <1>7, <2>1 DEF Gives, s
<1>8. ASSUME NEW u \in Worker, NEW j \in DOMAIN T(u)', j < Len(T(u)')
      PROVE  LET t == T(u)'[j] IN
             task'[t].stat = "started" /\ task'[t].pc = "wait" /\ Last(task'[t].frames).spn > 0
  <2>1. j \in DOMAIN T(u) /\ T(u)'[j] = T(u)[j]
    BY <1>2, <1>3, <1>8
  <2>2. Waiting(T(u)[j]) /\ T(u)[j] # Top(w)
    <3>1. CASE u = v /\ j = Len(T(u))
      <4>1. T(v) # <<>> /\ T(v)[j] = Top(v)
        BY <1>1, <2>1, <3>1, TopIs
      <4>2. v # w /\ Waiting(Top(v))
        BY <4>1 DEF Gives
      <4> QED
        BY <3>1, <4>1, <4>2, OtherTop
    <3>2. CASE ~(u = v /\ j = Len(T(u)))
      <4>1. j < Len(T(u))
        BY <1>2, <1>3, <1>8, <2>1, <3>2
      <4> QED
        BY <2>1, <4>1, NotTop DEF Stacks
    <3> QED
      BY <3>1, <3>2
  <2>3. T(u)[j] \in Task
    BY <1>4, <2>1
  <2>4. task'[T(u)[j]] = task[T(u)[j]]
    BY <1>7, <2>2, <2>3
  <2> QED
    BY <2>1, <2>2, <2>4 DEF Waiting, IsStarted, TopFrame
<1>9. ASSUME NEW u \in Worker, thr'[u].sending
      PROVE  T(u)' # <<>> /\ task'[Top(u)'].stat = "started"
  <2>1. T(u) # <<>> /\ IsStarted(Top(u))
    BY <1>9 DEF Stacks, Gives
  <2>2. u # v
    BY <1>9, <2>1 DEF Gives
  <2>3. Top(u) \in Task /\ Top(u) # s
    BY <1>1, <2>1, TopIs DEF IsStarted, Alive
  <2>4. task'[Top(u)].stat = "started"
    BY <2>1, <2>3 DEF Gives, IsStarted, s
  <2> QED
    BY <1>3, <2>1, <2>2, <2>4
<1>10. ASSUME NEW x \in Task, x > spawned'
       PROVE  task'[x] = NoTask /\ home'[x] = NoHome
  <2>1. spawned' = spawned + 1 /\ x \in Nat
    BY DEF Gives, Task
  <2>2. x > spawned /\ x # s
    BY <1>1, <1>10, <2>1 DEF s
  <2>3. x # Top(w)
    BY <2>2, TopAlive
  <2> QED
    BY <2>2, <2>3 DEF Gives, Stacks, s
<1> QED
  BY <1>5, <1>6, <1>8, <1>9, <1>10 DEF Stacks, Waiting, IsStarted, TopFrame

LEMMA GivesFrames ==
  ASSUME TypeOK, Frames, NEW w \in Worker, NEW v \in Worker, T(w) # <<>>,
         NEW i \in SpawnFrame(Top(w)), Gives(w, v, Top(w), spawned + 1, i)
  PROVE  Frames'
<1> DEFINE t == Top(w)
           s == spawned + 1
           fs == task[t].frames
           gs == task'[t].frames
<1>1. t \in Task /\ IsStarted(t) /\ fs \in Seq(Frame)
  BY TopIs, Types DEF Gives
<1>2. Framed(fs)
  BY <1>1 DEF Frames
<1>3. Recounted(fs, gs, i, fs[i].spn + 1)
  BY DEF Gives
<1>4. /\ i \in DOMAIN fs /\ fs[i].kind \in {"two", "many"}
      /\ fs[i].kind = "two" => fs[i].spn = 0
  BY <1>1, <1>2, SpawnsInnermost
<1>5. gs # <<>>
  <2>1. DOMAIN fs # {} /\ DOMAIN gs = DOMAIN fs
    BY <1>3, <1>4 DEF Recounted
  <2> QED
    BY <2>1
<1>6. Framed(gs)
  <2> HIDE DEF fs, gs
  <2> QED
    BY <1>2, <1>3, <1>4, <1>5 DEF Framed, Recounted
<1>7. \A x \in Task : x = t \/ x = s \/ task'[x] = task[x]
  BY DEF Gives
<1>8. task'[t].stat = "started" /\ task'[s].stat = "initialized" /\ task'[s].pc = "run"
      /\ task'[s].frames = <<>>
  BY DEF Gives
<1> HIDE DEF s
<1> QED
  BY <1>6, <1>7, <1>8 DEF Frames, IsStarted

(* The subtask is the newest of its owner, on the owner's worker. *)
LEMMA GivenSub ==
  ASSUME TypeOK, Stacks, Subs, NEW w \in Worker, NEW v \in Worker, T(w) # <<>>,
         NEW i, Gives(w, v, Top(w), spawned + 1, i)
  PROVE  LET s == spawned + 1 IN
         /\ s \in Task /\ s \in Nat /\ spawned \in Nat /\ Top(w) \in Task /\ Top(w) # s
         /\ S(w) \in Seq(Task)
         /\ DOMAIN S(w)' = 1..Len(S(w)) + 1 /\ DOMAIN S(w) = 1..Len(S(w)) /\ Len(S(w)) \in Nat
         /\ \A j \in DOMAIN S(w) : S(w)'[j] = S(w)[j]
         /\ S(w)'[Len(S(w)) + 1] = s
         /\ ToSet(S(w)') = ToSet(S(w)) \cup {s}
         /\ \A u \in Worker \ {w} : S(u)' = S(u)
         /\ \A u \in Worker : \A j \in DOMAIN S(u) : S(u)[j] # s /\ S(u)[j] \in ToSet(S(u))
         /\ \A u \in Worker : s \notin ToSet(S(u)) /\ ToSet(S(u)) \subseteq Task
<1> DEFINE s == spawned + 1
<1>1. /\ s \in Task /\ s \in Nat /\ spawned \in Nat /\ S(w) \in Seq(Task)
      /\ Top(w) \in Task /\ Top(w) # s
      /\ \A u \in Worker : s \notin ToSet(S(u)) /\ ToSet(S(u)) \subseteq Task
  <2>1. \A u \in Worker : s \notin ToSet(S(u))
    BY Types DEF Subs
  <2>2. Alive(Top(w)) /\ Top(w) \in Task
    BY TopAlive
  <2>3. s \in Task /\ ~Alive(s)
    BY DEF Gives, Alive, NoTask
  <2> QED
    BY <2>1, <2>2, <2>3, Types
<1>2. S(w)' = Append(S(w), s) /\ \A u \in Worker \ {w} : S(u)' = S(u)
  BY DEF Gives
<1>3. /\ DOMAIN S(w)' = 1..Len(S(w)) + 1 /\ DOMAIN S(w) = 1..Len(S(w)) /\ Len(S(w)) \in Nat
      /\ \A j \in DOMAIN S(w) : S(w)'[j] = S(w)[j]
      /\ S(w)'[Len(S(w)) + 1] = s /\ ToSet(S(w)') = ToSet(S(w)) \cup {s}
  BY <1>1, <1>2, AppendOf, AppendSet, LenProperties
<1>4. \A u \in Worker : \A j \in DOMAIN S(u) : S(u)[j] # s /\ S(u)[j] \in ToSet(S(u))
  BY <1>1 DEF ToSet
<1> HIDE DEF s
<1> QED
  BY <1>1, <1>2, <1>3, <1>4 DEF s

LEMMA GivesSubs ==
  ASSUME TypeOK, Stacks, Subs, NEW w \in Worker, NEW v \in Worker, T(w) # <<>>,
         NEW i \in DOMAIN task[Top(w)].frames, Gives(w, v, Top(w), spawned + 1, i)
  PROVE  Subs'
<1> DEFINE s == spawned + 1
<1>1. /\ s \in Task /\ s \in Nat /\ spawned \in Nat /\ Top(w) \in Task /\ Top(w) # s
      /\ DOMAIN S(w)' = 1..Len(S(w)) + 1 /\ DOMAIN S(w) = 1..Len(S(w)) /\ Len(S(w)) \in Nat
      /\ \A j \in DOMAIN S(w) : S(w)'[j] = S(w)[j]
      /\ S(w)'[Len(S(w)) + 1] = s
      /\ ToSet(S(w)') = ToSet(S(w)) \cup {s}
      /\ \A u \in Worker \ {w} : S(u)' = S(u)
      /\ \A u \in Worker : \A j \in DOMAIN S(u) : S(u)[j] # s /\ S(u)[j] \in ToSet(S(u))
      /\ \A u \in Worker : s \notin ToSet(S(u)) /\ ToSet(S(u)) \subseteq Task
  BY GivenSub
<1>2. /\ Top(w) \in ToSet(T(w)) /\ IsStarted(Top(w)) /\ task[s] = NoTask /\ home[s] = NoHome
      /\ \A x \in Task \ {Top(w), s} : task'[x] = task[x]
      /\ \A x \in Task \ {s} : home'[x] = home[x]
      /\ home'[s].stat = "initialized" /\ home'[s].owner = Top(w) /\ home'[s].region = i
      /\ task'[s].stat = "initialized" /\ task'[Top(w)].stat = "started"
      /\ DOMAIN task'[Top(w)].frames = DOMAIN task[Top(w)].frames
      /\ spawned' = s
  BY TopIs DEF Gives, Recounted
<1>3. \A u \in Worker : ToSet(T(u)) \subseteq ToSet(T(u)')
  <2>1. T(v) \in Seq(Task) /\ T(v)' = Append(T(v), s) /\ \A u \in Worker \ {v} : T(u)' = T(u)
    BY Types DEF Gives
  <2>2. ToSet(Append(T(v), s)) = ToSet(T(v)) \cup {s}
    BY <1>1, <2>1, AppendSet
  <2> QED
    BY <2>1, <2>2
<1> HIDE DEF s
<1>4. ASSUME NEW x \in Worker, NEW y \in Worker, NEW j \in DOMAIN S(x)', NEW k \in DOMAIN S(y)',
             S(x)'[j] = S(y)'[k]
      PROVE  x = y /\ j = k
  <2>1. CASE S(x)'[j] = s
    <3>1. x = w /\ y = w
      BY <1>1, <1>4, <2>1
    <3>2. j \notin DOMAIN S(w) /\ k \notin DOMAIN S(w)
      BY <1>1, <1>4, <2>1, <3>1
    <3> QED
      BY <1>1, <3>1, <3>2
  <2>2. CASE S(x)'[j] # s
    <3>1. j \in DOMAIN S(x) /\ S(x)'[j] = S(x)[j]
      BY <1>1, <2>2
    <3>2. k \in DOMAIN S(y) /\ S(y)'[k] = S(y)[k]
      BY <1>1, <1>4, <2>2
    <3>3. S(x)[j] = S(y)[k]
      BY <1>4, <3>1, <3>2
    <3> QED
      BY <3>1, <3>2, <3>3 DEF Subs
  <2> QED
    BY <2>1, <2>2
<1>5. ASSUME NEW u \in Worker, NEW x \in ToSet(S(u)')
      PROVE  /\ x \in 1..spawned'
             /\ home'[x].owner \in ToSet(T(u)') /\ task'[home'[x].owner].stat = "started"
             /\ home'[x].region \in DOMAIN task'[home'[x].owner].frames
  <2>1. CASE x = s
    <3>1. u = w
      BY <1>1, <1>5, <2>1
    <3> QED
      BY <1>1, <1>2, <1>3, <2>1, <3>1 DEF s
  <2>2. CASE x # s
    <3>1. x \in ToSet(S(u))
      BY <1>1, <1>5, <2>2
    <3>2. /\ x \in 1..spawned /\ home[x].owner \in ToSet(T(u)) /\ IsStarted(home[x].owner)
          /\ home[x].region \in DOMAIN task[home[x].owner].frames
      BY <3>1 DEF Subs
    <3>3. home'[x] = home[x] /\ home[x].owner \in Task /\ home[x].owner # s
      BY <1>1, <1>2, <2>2, <3>1, <3>2, Types DEF IsStarted, NoTask
    <3> QED
      BY <1>1, <1>2, <1>3, <3>2, <3>3 DEF IsStarted, s
  <2> QED
    BY <2>1, <2>2
<1>6. ASSUME NEW x \in Task
      PROVE  Alive(x)' <=> Alive(x) \/ x = s
  BY <1>1, <1>2 DEF Alive, IsStarted
<1>7. ASSUME NEW x \in Task
      PROVE  home'[x].stat = "initialized" <=> Alive(x)'
  <2>1. CASE x = s
    BY <1>2, <1>6, <2>1
  <2>2. CASE x # s
    <3>1. home[x].stat = "initialized" <=> Alive(x)
      BY DEF Subs
    <3>2. home'[x] = home[x] /\ (Alive(x)' <=> Alive(x))
      BY <1>2, <1>6, <2>2
    <3> QED
      BY <3>1, <3>2
  <2> QED
    BY <2>1, <2>2
<1>8. ASSUME NEW x \in Task \ {Root}, Alive(x)'
      PROVE  InSub(x)'
  BY <1>1, <1>6, <1>8 DEF Subs, InSub
<1> QED
  BY <1>4, <1>5, <1>7, <1>8 DEF Subs, IsStarted

(* The innermost region with subtasks is the one that spawned, or none. *)
LEMMA GivesNested ==
  ASSUME TypeOK, Stacks, Subs, Nested, Counted, NEW w \in Worker, NEW v \in Worker, T(w) # <<>>,
         NEW i \in DOMAIN task[Top(w)].frames, Gives(w, v, Top(w), spawned + 1, i),
         \A j \in DOMAIN task[Top(w)].frames : j > i => task[Top(w)].frames[j].spn = 0
  PROVE  Nested'
<1> DEFINE s == spawned + 1
           t == Top(w)
<1>1. /\ s \in Task /\ s \in Nat /\ spawned \in Nat /\ t \in Task /\ t # s
      /\ DOMAIN S(w)' = 1..Len(S(w)) + 1 /\ DOMAIN S(w) = 1..Len(S(w)) /\ Len(S(w)) \in Nat
      /\ \A j \in DOMAIN S(w) : S(w)'[j] = S(w)[j]
      /\ S(w)'[Len(S(w)) + 1] = s
      /\ \A u \in Worker \ {w} : S(u)' = S(u)
      /\ \A u \in Worker : \A j \in DOMAIN S(u) : S(u)[j] # s /\ S(u)[j] \in ToSet(S(u))
      /\ \A u \in Worker : s \notin ToSet(S(u)) /\ ToSet(S(u)) \subseteq Task
  BY GivenSub
<1>2. /\ IsStarted(t) /\ v # w
      /\ \A x \in Task \ {s} : home'[x] = home[x]
      /\ home'[s].owner = t /\ home'[s].region = i
      /\ \A u \in Worker \ {v} : T(u)' = T(u)
      /\ task[s] = NoTask
  BY DEF Gives
<1>3. /\ DOMAIN T(v)' = 1..Len(T(v)) + 1 /\ DOMAIN T(v) = 1..Len(T(v)) /\ Len(T(v)) \in Nat
      /\ \A j \in DOMAIN T(v) : T(v)'[j] = T(v)[j]
      /\ T(v)'[Len(T(v)) + 1] = s
  <2>1. T(v) \in Seq(Task) /\ T(v)' = Append(T(v), s)
    BY Types DEF Gives
  <2> QED
    BY <1>1, <2>1, AppendOf, LenProperties
<1>4. /\ Len(T(w)) \in DOMAIN T(w) /\ t = T(w)[Len(T(w))] /\ t \in ToSet(T(w))
      /\ DOMAIN T(w) = 1..Len(T(w)) /\ Len(T(w)) \in Nat
  BY TopIs, Types, LenProperties
<1>5. \A x \in ToSet(S(w)) : home[x].owner = t => home[x].region <= i
  <2> SUFFICES ASSUME NEW x \in ToSet(S(w)), home[x].owner = t, ~(home[x].region <= i)
               PROVE  FALSE
    OBVIOUS
  <2>1. home[x].region \in DOMAIN task[t].frames /\ x \in Task
    BY <1>1 DEF Subs
  <2>2. x \in SpawnedIn(t, home[x].region)
    BY <2>1, OwnStack, <1>1, <1>4 DEF SpawnedIn
  <2>3. task[t].frames[home[x].region].spn > 0
    BY <1>1, <1>2, <2>1, <2>2, HasSpawned
  <2>4. home[x].region \in Nat /\ i \in Nat
    BY <1>1, <2>1, Types, LenProperties
  <2> QED
    BY <2>1, <2>3, <2>4
<1> HIDE DEF s, t
<1> SUFFICES ASSUME NEW u \in Worker, NEW j \in DOMAIN S(u)', NEW k \in DOMAIN S(u)',
                    NEW p \in DOMAIN T(u)', NEW q \in DOMAIN T(u)', j < k,
                    T(u)'[p] = home'[S(u)'[j]].owner, T(u)'[q] = home'[S(u)'[k]].owner
             PROVE  p < q \/ (p = q /\ home'[S(u)'[j]].region <= home'[S(u)'[k]].region)
  BY DEF Nested
<1>6. j \in DOMAIN S(u) /\ S(u)'[j] = S(u)[j]
  <2>1. CASE u = w
    BY <1>1, <2>1
  <2>2. CASE u # w
    BY <1>1, <2>2
  <2> QED
    BY <2>1, <2>2
<1>7. /\ home'[S(u)'[j]] = home[S(u)[j]] /\ S(u)[j] \in ToSet(S(u)) /\ S(u)[j] \in Task
      /\ home[S(u)[j]].owner \in ToSet(T(u)) /\ IsStarted(home[S(u)[j]].owner)
      /\ home[S(u)[j]].owner # s
  <2>1. S(u)[j] \in ToSet(S(u)) /\ S(u)[j] # s /\ S(u)[j] \in Task
    BY <1>1, <1>6
  <2>2. home[S(u)[j]].owner \in ToSet(T(u)) /\ IsStarted(home[S(u)[j]].owner)
    BY <2>1 DEF Subs
  <2> QED
    BY <1>2, <1>6, <2>1, <2>2 DEF IsStarted, NoTask
<1>8. p \in DOMAIN T(u) /\ T(u)[p] = home[S(u)[j]].owner
  BY <1>2, <1>3, <1>7
<1>9. CASE u = w /\ S(u)'[k] = s
  <2>1. T(w)' = T(w) /\ T(w)[q] = t /\ q \in DOMAIN T(w)
    BY <1>2, <1>9
  <2>2. q = Len(T(w))
    BY <1>4, <2>1 DEF Stacks
  <2>3. CASE p = q
    <3>1. home[S(u)[j]].owner = t
      BY <1>8, <1>9, <2>1, <2>3
    <3>2. home[S(u)[j]].region <= i
      BY <1>5, <1>7, <1>9, <3>1
    <3> QED
      BY <1>2, <1>7, <1>9, <2>3, <3>2
  <2>4. CASE p # q
    BY <1>4, <1>8, <1>9, <2>2, <2>4
  <2> QED
    BY <2>3, <2>4
<1>10. CASE ~(u = w /\ S(u)'[k] = s)
  <2>1. k \in DOMAIN S(u) /\ S(u)'[k] = S(u)[k]
    <3>1. CASE u = w
      BY <1>1, <1>10, <3>1
    <3>2. CASE u # w
      BY <1>1, <3>2
    <3> QED
      BY <3>1, <3>2
  <2>2. home'[S(u)'[k]] = home[S(u)[k]] /\ S(u)[k] \in ToSet(S(u))
    BY <1>1, <1>2, <2>1
  <2>3. /\ home[S(u)[k]].owner \in ToSet(T(u)) /\ IsStarted(home[S(u)[k]].owner)
        /\ home[S(u)[k]].owner # s
    BY <1>2, <2>2 DEF Subs, IsStarted, NoTask
  <2>4. q \in DOMAIN T(u) /\ T(u)[q] = home[S(u)[k]].owner
    BY <1>2, <1>3, <2>2, <2>3
  <2> QED
    BY <1>6, <1>7, <1>8, <2>1, <2>2, <2>4 DEF Nested
<1> QED
  BY <1>9, <1>10
LEMMA GivesCounted ==
  ASSUME TypeOK, Stacks, Subs, Counted, NEW w \in Worker, NEW v \in Worker, T(w) # <<>>,
         NEW i \in DOMAIN task[Top(w)].frames, Gives(w, v, Top(w), spawned + 1, i)
  PROVE  Counted' /\ \A x : Thrown(x)' = Thrown(x)
<1> DEFINE s == spawned + 1
           t == Top(w)
<1>1. /\ s \in Task /\ t \in Task /\ t # s
      /\ ToSet(S(w)') = ToSet(S(w)) \cup {s}
      /\ \A u \in Worker \ {w} : S(u)' = S(u)
      /\ \A u \in Worker : s \notin ToSet(S(u))
  BY GivenSub
<1>2. /\ IsStarted(t)
      /\ \A x \in Task \ {t, s} : task'[x] = task[x]
      /\ \A x \in Task \ {s} : home'[x] = home[x]
      /\ home'[s].stat = "initialized" /\ home'[s].owner = t /\ home'[s].region = i
      /\ task'[s].stat = "initialized"
      /\ Recounted(task[t].frames, task'[t].frames, i, task[t].frames[i].spn + 1)
  BY DEF Gives
<1> HIDE DEF s, t
<1>3. \A y \in Task : InSub(y)' <=> InSub(y) \/ y = s
  BY <1>1 DEF InSub
<1>4. ~InSub(s)
  BY <1>1 DEF InSub
<1>5. \A x : SubtasksOf(x)' = {y \in Task : home'[y].owner = x /\ InSub(y)'}
  BY DEF SubtasksOf, InSub, S
<1>6. \A x : SubtasksOf(x) = {y \in Task : home[y].owner = x /\ InSub(y)}
  BY DEF SubtasksOf, InSub, S
<1>7. \A x : /\ s \notin SubtasksOf(x)
             /\ SubtasksOf(x)' = SubtasksOf(x) \cup (IF x = t THEN {s} ELSE {})
  BY <1>1, <1>2, <1>3, <1>4, <1>5, <1>6
<1>8. \A x : \A y \in SubtasksOf(x) : y \in Task /\ home'[y] = home[y]
  BY <1>2, <1>6, <1>7
<1>9. \A x : Thrown(x)' = Thrown(x)
  BY <1>2, <1>7, <1>8 DEF Thrown
<1>10. \A x, j : /\ s \notin SpawnedIn(x, j)
                 /\ SpawnedIn(x, j)' = SpawnedIn(x, j) \cup (IF x = t /\ j = i THEN {s} ELSE {})
  BY <1>2, <1>7, <1>8 DEF SpawnedIn
<1>11. ASSUME NEW x \in Task, task'[x].stat = "started", NEW j \in DOMAIN task'[x].frames
       PROVE  Cardinality(SpawnedIn(x, j)') = task'[x].frames[j].spn
  <2>1. CASE x = t
    <3>1. j \in DOMAIN task[t].frames /\ Cardinality(SpawnedIn(t, j)) = task[t].frames[j].spn
      BY <1>1, <1>2, <1>11, <2>1 DEF Counted, Recounted
    <3>2. CASE j = i
      <4>1. SpawnedIn(x, j)' = SpawnedIn(t, i) \cup {s} /\ s \notin SpawnedIn(t, i)
        BY <1>10, <2>1, <3>2
      <4>2. IsFiniteSet(SpawnedIn(t, i))
        BY FiniteTasks, <1>1
      <4>3. Cardinality(SpawnedIn(x, j)') = Cardinality(SpawnedIn(t, i)) + 1
        BY <4>1, <4>2, FS_AddElement
      <4> QED
        BY <1>2, <2>1, <3>1, <3>2, <4>3 DEF Recounted
    <3>3. CASE j # i
      <4>1. SpawnedIn(x, j)' = SpawnedIn(t, j)
        BY <1>10, <2>1, <3>3
      <4> QED
        BY <1>2, <2>1, <3>1, <3>3, <4>1 DEF Recounted
    <3> QED
      BY <3>2, <3>3
  <2>2. CASE x # t
    <3>1. x # s
      BY <1>2, <1>11
    <3>2. task'[x] = task[x]
      BY <1>2, <2>2, <3>1
    <3>3. SpawnedIn(x, j)' = SpawnedIn(x, j)
      BY <1>10, <2>2
    <3> QED
      BY <1>11, <3>2, <3>3 DEF Counted, IsStarted
  <2> QED
    BY <2>1, <2>2
<1>12. Counted'
  BY <1>11 DEF Counted, IsStarted
<1> QED
  BY <1>9, <1>12

LEMMA SpawnStep ==
  ASSUME IInv, NEW w \in Worker, NEW v \in Worker, Spawn(w, v)
  PROVE  IInv'
<1>1. /\ TypeOK /\ Stacks /\ Frames /\ Subs /\ Nested /\ Counted
      /\ CancelAccounting /\ CancelReason /\ AbortedIfCancelled
      /\ T(w) # <<>> /\ Top(w) \in Task /\ IsStarted(Top(w)) /\ Framed(task[Top(w)].frames)
  BY Acting DEF Spawn, Running, Busy
<1>2. TypeOK' /\ spawned \in Nat
  BY SpawnGives, <1>1, Types
<1>3. PICK i \in SpawnFrame(Top(w)) : Gives(w, v, Top(w), spawned + 1, i)
  BY SpawnGives
<1>4. /\ i \in DOMAIN task[Top(w)].frames
      /\ \A j \in DOMAIN task[Top(w)].frames : j > i => task[Top(w)].frames[j].spn = 0
  BY <1>1, SpawnsInnermost, Types
<1>5. Stacks' /\ Frames' /\ Subs' /\ Nested' /\ Counted'
  BY <1>1, <1>3, <1>4, GivesStacks, GivesFrames, GivesSubs, GivesNested, GivesCounted
<1>6. \A x : Thrown(x)' = Thrown(x)
  BY <1>1, <1>3, <1>4, GivesCounted
<1> DEFINE s == spawned + 1
<1>7. /\ s \in Task /\ Top(w) # s
      /\ \A x \in Task \ {Top(w), s} : task'[x] = task[x]
      /\ \A x \in Task \ {s} : home'[x] = home[x]
      /\ home'[s].stat = "initialized" /\ task'[s].stat = "initialized"
      /\ task'[Top(w)].cancellation = task[Top(w)].cancellation
      /\ \A u \in Worker \ {w} : thr'[u].exiting = thr[u].exiting
      /\ thr'[w].exiting = "normal" /\ v # w
      /\ \A u \in Worker \ {v} : T(u)' = T(u)
      /\ T(v) # <<>> => Waiting(Top(v))
      /\ task[s] = NoTask
  BY <1>1, <1>3, TopAlive DEF Gives, IsStarted, NoTask
<1> HIDE DEF s
<1>8. CancelAccounting'
  <2>1. \A x \in Task : IsStarted(x)' => /\ IsStarted(x) /\ Thrown(x)' = Thrown(x)
                                         /\ task'[x].cancellation = task[x].cancellation
                                         /\ home'[x].msg_cncl = 2 <=> home[x].msg_cncl = 2
    BY <1>1, <1>6, <1>7 DEF IsStarted
  <2> QED
    BY <1>1, <2>1, SameAccount
<1>9. AbortedIfCancelled'
  BY <1>1, <1>7 DEF AbortedIfCancelled
<1>10. ASSUME NEW u \in Worker, thr'[u].exiting = "cancel"
       PROVE  /\ T(u)' # <<>> /\ task'[Top(u)'].stat = "started"
              /\ task'[Top(u)'].pc = "unwind"
              /\ home'[Top(u)'].msg_cncl = 2 \/ Thrown(Top(u))' # {}
  <2>1. u # w /\ thr[u].exiting = "cancel"
    BY <1>7, <1>10
  <2>2. /\ T(u) # <<>> /\ IsStarted(Top(u)) /\ task[Top(u)].pc = "unwind"
        /\ home[Top(u)].msg_cncl = 2 \/ Thrown(Top(u)) # {}
    BY <1>1, <2>1 DEF CancelReason
  <2>3. u # v
    BY <1>7, <2>2 DEF Waiting
  <2>4. T(u)' = T(u) /\ Top(u)' = Top(u)
    BY <1>7, <2>3, SameTop
  <2>5. Top(u) \in Task /\ Top(u) # s /\ Top(u) # Top(w)
    BY <1>1, <1>7, <2>1, <2>2, TopIs, OtherTop DEF IsStarted, NoTask
  <2> QED
    BY <1>6, <1>7, <2>2, <2>4, <2>5 DEF IsStarted
<1>11. CancelReason'
  BY <1>10 DEF CancelReason, IsStarted
<1> QED
  BY <1>2, <1>5, <1>8, <1>9, <1>11 DEF IInv, Structure
(***************************************************************************)
(* A subtask is waited for                                                 *)
(***************************************************************************)
(* What wait-rslt takes is a subtask of the region it is called for. *)
LEMMA OwnSubtask ==
  ASSUME TypeOK, Stacks, Frames, Subs, Nested, Counted, NEW w \in Worker, WaitsFor(w)
  PROVE  LET s == Last(S(w)) IN
         /\ S(w) # <<>> /\ s \in ToSet(S(w)) /\ s \in Task
         /\ home[s].owner = Top(w) /\ home[s].region = Len(task[Top(w)].frames)
         /\ Len(task[Top(w)].frames) \in DOMAIN task[Top(w)].frames
<1> DEFINE t == Top(w)
           n == Len(task[t].frames)
           s == Last(S(w))
<1>1. /\ T(w) # <<>> /\ IsStarted(t) /\ task[t].frames # <<>> /\ t \in ToSet(T(w)) /\ t \in Task
      /\ Last(task[t].frames).spn > 0
      /\ Len(T(w)) \in DOMAIN T(w) /\ t = T(w)[Len(T(w))] /\ DOMAIN T(w) = 1..Len(T(w))
      /\ Len(T(w)) \in Nat
  <2>1. T(w) # <<>> /\ IsStarted(t) /\ Last(task[t].frames).spn > 0
    BY DEF WaitsFor, Busy, T, IsStarted, TopFrame
  <2>2. /\ t \in ToSet(T(w)) /\ t \in Task /\ Len(T(w)) \in DOMAIN T(w) /\ t = T(w)[Len(T(w))]
        /\ DOMAIN T(w) = 1..Len(T(w)) /\ Len(T(w)) \in Nat
    BY <2>1, TopIs, Types, LenProperties
  <2>3. task[t].frames # <<>>
    BY <2>1, <2>2 DEF Frames, Framed
  <2> QED
    BY <2>1, <2>2, <2>3
<1>2. /\ n \in DOMAIN task[t].frames /\ task[t].frames[n].spn > 0 /\ n \in Nat
      /\ DOMAIN task[t].frames = 1..n
  BY <1>1, Types, FrontOf
<1> HIDE DEF t, n
<1>3. SpawnedIn(t, n) # {}
  <2>1. Cardinality(SpawnedIn(t, n)) = task[t].frames[n].spn
    BY <1>1, <1>2 DEF Counted
  <2>2. Cardinality(SpawnedIn(t, n)) # 0
    BY <1>2, <2>1
  <2>3. SpawnedIn(t, n) = {} => Cardinality(SpawnedIn(t, n)) = 0
    BY FS_EmptySet
  <2> QED
    BY <2>2, <2>3
<1>4. PICK x \in ToSet(S(w)) : home[x].owner = t /\ home[x].region = n
  BY <1>1, <1>3, OwnStack DEF SpawnedIn
<1>5. S(w) # <<>>
  BY <1>4 DEF ToSet
<1>6. /\ Len(S(w)) \in DOMAIN S(w) /\ s = S(w)[Len(S(w))] /\ DOMAIN S(w) = 1..Len(S(w))
      /\ Len(S(w)) \in Nat /\ s \in Task /\ s \in ToSet(S(w))
  <2>1. /\ Len(S(w)) \in DOMAIN S(w) /\ s = S(w)[Len(S(w))] /\ DOMAIN S(w) = 1..Len(S(w))
        /\ Len(S(w)) \in Nat /\ s \in Task
    BY <1>5, Types, FrontOf
  <2> QED
    BY <2>1 DEF ToSet
<1>7. PICK a \in DOMAIN S(w) : S(w)[a] = x
  BY <1>4 DEF ToSet
<1>8. /\ home[s].owner \in ToSet(T(w)) /\ home[s].region \in DOMAIN task[home[s].owner].frames
  BY <1>6 DEF Subs
<1>9. PICK p \in DOMAIN T(w) : T(w)[p] = home[s].owner
  BY <1>8 DEF ToSet
<1>10. CASE a = Len(S(w))
  BY <1>2, <1>4, <1>5, <1>6, <1>7, <1>10 DEF t, n
<1>11. CASE a # Len(S(w))
  <2>1. a < Len(S(w))
    BY <1>6, <1>11
  <2>2. Len(T(w)) < p \/ (Len(T(w)) = p /\ home[S(w)[a]].region <= home[S(w)[Len(S(w))]].region)
    BY <1>1, <1>4, <1>6, <1>7, <1>9, <2>1 DEF Nested
  <2>3. Len(T(w)) = p /\ n <= home[s].region
    BY <1>1, <1>4, <1>6, <1>7, <1>9, <2>2
  <2>4. home[s].owner = t
    BY <1>1, <1>9, <2>3
  <2>5. home[s].region = n
    BY <1>2, <1>8, <2>3, <2>4
  <2> QED
    BY <1>2, <1>5, <1>6, <2>4, <2>5 DEF t, n
<1> QED
  BY <1>10, <1>11

(* Worker w takes its newest subtask s away from the top frame of its task; *)
(* gs are the frames with one subtask less, of which the top one may then   *)
(* be left.                                                                 *)
Takes(w, t, s, gs) ==
  /\ t = Top(w) /\ T(w) # <<>> /\ IsStarted(t) /\ S(w) # <<>>
  /\ s = Last(S(w)) /\ home[s].stat # "initialized"
  /\ home[s].owner = t /\ home[s].region = Len(task[t].frames)
  /\ Len(task[t].frames) \in DOMAIN task[t].frames
  /\ TopFrame(t).spn > 0
  /\ \A u \in Worker : T(u)' = T(u) /\ thr'[u].sending = thr[u].sending
  /\ S(w)' = Front(S(w)) /\ \A u \in Worker \ {w} : S(u)' = S(u)
  /\ home' = home /\ spawned' = spawned
  /\ \A x \in Task \ {t} : task'[x] = task[x]
  /\ task'[t].stat = "started"
  /\ Recounted(task[t].frames, gs, Len(task[t].frames), TopFrame(t).spn - 1)
  /\ SameSpawned(gs, task'[t].frames) /\ Framed(task'[t].frames)

LEMMA TakenSub ==
  ASSUME TypeOK, Subs, NEW w \in Worker, NEW t, NEW s, NEW gs, Takes(w, t, s, gs)
  PROVE  /\ ToSet(S(w)') = ToSet(S(w)) \ {s} /\ s \in ToSet(S(w)) /\ s \in Task /\ t \in Task
         /\ DOMAIN S(w)' \subseteq DOMAIN S(w)
         /\ \A j \in DOMAIN S(w)' : S(w)'[j] = S(w)[j]
         /\ \A x : /\ SubtasksOf(x)' = SubtasksOf(x) \ {s}
                   /\ SpawnedIn(x, home[s].region)' = SpawnedIn(x, home[s].region) \ {s}
                   /\ \A j : j # home[s].region => SpawnedIn(x, j)' = SpawnedIn(x, j)
                   /\ x # t => SubtasksOf(x)' = SubtasksOf(x) /\ \A j : SpawnedIn(x, j)' = SpawnedIn(x, j)
         /\ s \in SpawnedIn(t, home[s].region)
<1>1. /\ S(w) # <<>> /\ s = Last(S(w)) /\ S(w)' = Front(S(w)) /\ home' = home
      /\ \A u \in Worker \ {w} : S(u)' = S(u)
      /\ home[s].owner = t
  BY DEF Takes
<1>2. S(w) \in Seq(Task) /\ \A i, j \in DOMAIN S(w) : S(w)[i] = S(w)[j] => i = j
  BY Types DEF Subs
<1>3. /\ ToSet(S(w)') = ToSet(S(w)) \ {s} /\ s \in ToSet(S(w))
      /\ DOMAIN S(w)' \subseteq DOMAIN S(w)
      /\ \A j \in DOMAIN S(w)' : S(w)'[j] = S(w)[j]
  BY <1>1, <1>2, FrontOf, FrontSet
<1>4. s \in Task /\ t \in Task
  BY <1>1, <1>3, Types DEF Takes
<1>5. \A y \in Task : InSub(y)' <=> InSub(y) /\ y # s
  <2>1. \A u \in Worker \ {w} : s \notin ToSet(S(u))
    BY <1>3 DEF Subs, ToSet
  <2> QED
    BY <1>1, <1>3, <2>1 DEF InSub
<1>6. \A x : SubtasksOf(x)' = {y \in Task : home'[y].owner = x /\ InSub(y)'}
  BY DEF SubtasksOf, InSub, S
<1>7. \A x : SubtasksOf(x) = {y \in Task : home[y].owner = x /\ InSub(y)}
  BY DEF SubtasksOf, InSub, S
<1>8. \A x : SubtasksOf(x)' = SubtasksOf(x) \ {s}
  BY <1>1, <1>5, <1>6, <1>7
<1>9. \A x : /\ SpawnedIn(x, home[s].region)' = SpawnedIn(x, home[s].region) \ {s}
             /\ \A j : j # home[s].region => SpawnedIn(x, j)' = SpawnedIn(x, j)
  BY <1>1, <1>8 DEF SpawnedIn
<1>10. \A x : x # t => s \notin SubtasksOf(x)
  BY <1>1, <1>7
<1>11. \A x : x # t => SubtasksOf(x)' = SubtasksOf(x) /\ \A j : SpawnedIn(x, j)' = SpawnedIn(x, j)
  BY <1>1, <1>8, <1>10 DEF SpawnedIn
<1>12. s \in SpawnedIn(t, home[s].region)
  BY <1>1, <1>3, <1>4 DEF SpawnedIn, SubtasksOf, S
<1> QED
  BY <1>3, <1>4, <1>8, <1>9, <1>11, <1>12
LEMMA TakesStructure ==
  ASSUME TypeOK, Structure, NEW w \in Worker, NEW t, NEW s, NEW gs, Takes(w, t, s, gs)
  PROVE  Structure'
<1> DEFINE fs == task[t].frames
           hs == task'[t].frames
           n == Len(fs)
<1>1. Stacks /\ Frames /\ Subs /\ Nested /\ Counted
  BY DEF Structure
<1>2. /\ ToSet(S(w)') = ToSet(S(w)) \ {s} /\ s \in ToSet(S(w)) /\ s \in Task /\ t \in Task
      /\ DOMAIN S(w)' \subseteq DOMAIN S(w)
      /\ \A j \in DOMAIN S(w)' : S(w)'[j] = S(w)[j]
      /\ \A x : /\ SubtasksOf(x)' = SubtasksOf(x) \ {s}
                /\ SpawnedIn(x, home[s].region)' = SpawnedIn(x, home[s].region) \ {s}
                /\ \A j : j # home[s].region => SpawnedIn(x, j)' = SpawnedIn(x, j)
                /\ x # t => SubtasksOf(x)' = SubtasksOf(x) /\ \A j : SpawnedIn(x, j)' = SpawnedIn(x, j)
      /\ s \in SpawnedIn(t, home[s].region)
  BY <1>1, TakenSub
<1>3. /\ home[s].owner = t /\ home[s].region = n /\ IsStarted(t) /\ n \in DOMAIN fs
      /\ home[s].stat # "initialized" /\ fs[n].spn > 0 /\ fs[n].spn \in Nat
      /\ home' = home /\ spawned' = spawned
      /\ \A u \in Worker : T(u)' = T(u)
      /\ \A u \in Worker \ {w} : S(u)' = S(u)
      /\ \A x \in Task \ {t} : task'[x] = task[x]
      /\ DOMAIN gs = DOMAIN fs
      /\ \A j \in DOMAIN fs : gs[j].spn = IF j = n THEN fs[n].spn - 1 ELSE fs[j].spn
      /\ SameSpawned(gs, hs)
  <2>1. TopFrame(t) = fs[n]
    BY DEF TopFrame, Last
  <2> QED
    BY <1>2, <2>1, Types DEF Takes, Recounted
<1>4. Untouched
  BY <1>1, <1>2, <1>3, TopAlive DEF Untouched, Takes
<1>5. /\ Stacks' /\ Frames' /\ Top(w) \in Task
      /\ \A x \in Task :
           /\ Alive(x)' <=> Alive(x)
           /\ IsStarted(x) => task'[x].stat = "started"
           /\ task'[x].stat = "started" => IsStarted(x) \/ x = Top(w)
           /\ task[x].stat = "initialized" => task[x].frames = <<>>
  BY <1>1, <1>4, FrameStacks DEF Takes
<1> HIDE DEF fs, hs, n
<1>6. ASSUME NEW x \in ToSet(S(w)), x # s, home[x].owner = t
      PROVE  home[x].region \in DOMAIN hs
  <2>1. home[x].region \in DOMAIN fs /\ x \in Task
    BY <1>1, <1>6, Types DEF Subs, fs
  <2>2. x \in SpawnedIn(t, home[x].region)
    BY <1>6, <2>1 DEF SpawnedIn, SubtasksOf, S
  <2>3. gs[home[x].region].spn # 0
    <3>1. CASE home[x].region = n
      <4>1. /\ Cardinality(SpawnedIn(t, n)) = fs[n].spn /\ IsFiniteSet(SpawnedIn(t, n))
            /\ s \in SpawnedIn(t, n) /\ x \in SpawnedIn(t, n)
        BY <1>1, <1>2, <1>3, <2>2, <3>1, FiniteTasks DEF Counted, fs
      <4>2. fs[n].spn # 1
        BY <1>6, <4>1, FS_Singleton
      <4> QED
        BY <1>3, <3>1, <4>2
    <3>2. CASE home[x].region # n
      <4>1. fs[home[x].region].spn > 0
        BY <1>1, <1>2, <1>3, <2>1, <2>2, HasSpawned DEF fs
      <4> QED
        BY <1>3, <2>1, <3>2, <4>1
    <3> QED
      BY <3>1, <3>2
  <2> QED
    BY <1>3, <2>1, <2>3 DEF SameSpawned
<1>7. Subs'
  <2>1. \A u, v \in Worker : \A i \in DOMAIN S(u)', j \in DOMAIN S(v)' :
          S(u)'[i] = S(v)'[j] => u = v /\ i = j
    <3> SUFFICES ASSUME NEW u \in Worker, NEW v \in Worker, NEW i \in DOMAIN S(u)',
                        NEW j \in DOMAIN S(v)', S(u)'[i] = S(v)'[j]
                 PROVE  u = v /\ i = j
      OBVIOUS
    <3>1. i \in DOMAIN S(u) /\ S(u)'[i] = S(u)[i]
      BY <1>2, <1>3
    <3>2. j \in DOMAIN S(v) /\ S(v)'[j] = S(v)[j]
      BY <1>2, <1>3
    <3>3. S(u)[i] = S(v)[j]
      BY <3>1, <3>2
    <3> QED
      BY <1>1, <3>1, <3>2, <3>3 DEF Subs
  <2>2. ASSUME NEW u \in Worker, NEW x \in ToSet(S(u)')
        PROVE  /\ x \in 1..spawned'
               /\ home'[x].owner \in ToSet(T(u)') /\ task'[home'[x].owner].stat = "started"
               /\ home'[x].region \in DOMAIN task'[home'[x].owner].frames
    <3>1. x \in ToSet(S(u)) /\ (u = w => x # s)
      BY <1>2, <1>3, <2>2
    <3>2. /\ x \in 1..spawned /\ home[x].owner \in ToSet(T(u)) /\ IsStarted(home[x].owner)
          /\ home[x].region \in DOMAIN task[home[x].owner].frames
          /\ home[x].owner \in Task /\ x \in Task
      BY <1>1, <3>1, Types DEF Subs
    <3>3. CASE home[x].owner = t
      <4>1. t \in ToSet(T(w))
        BY TopIs DEF Takes
      <4>2. u = w
        BY <1>1, <3>2, <3>3, <4>1, OnlyOn
      <4> QED
        BY <1>3, <1>5, <1>6, <3>1, <3>2, <3>3, <4>2 DEF hs, IsStarted
    <3>4. CASE home[x].owner # t
      BY <1>3, <3>2, <3>4 DEF IsStarted
    <3> QED
      BY <3>3, <3>4
  <2>3. \A x \in Task : home'[x].stat = "initialized" <=> Alive(x)'
    BY <1>1, <1>3, <1>5 DEF Subs
  <2>4. ASSUME NEW x \in Task \ {Root}, Alive(x)'
        PROVE  \E u \in Worker : x \in ToSet(S(u)')
    <3>1. Alive(x)
      BY <1>5, <2>4
    <3>2. InSub(x) /\ x # s
      BY <1>1, <1>3, <3>1 DEF Subs
    <3>3. PICK u \in Worker : x \in ToSet(S(u))
      BY <3>2 DEF InSub
    <3>4. x \in ToSet(S(u)')
      BY <1>2, <1>3, <3>2, <3>3
    <3> QED
      BY <3>4
  <2> QED
    BY <2>1, <2>2, <2>3, <2>4 DEF Subs, IsStarted, InSub
<1>8. Nested'
  <2> SUFFICES ASSUME NEW u \in Worker, NEW i \in DOMAIN S(u)', NEW j \in DOMAIN S(u)',
                      NEW k \in DOMAIN T(u)', NEW l \in DOMAIN T(u)', i < j,
                      T(u)'[k] = home'[S(u)'[i]].owner, T(u)'[l] = home'[S(u)'[j]].owner
               PROVE  k < l \/ (k = l /\ home'[S(u)'[i]].region <= home'[S(u)'[j]].region)
    BY DEF Nested
  <2>1. i \in DOMAIN S(u) /\ S(u)'[i] = S(u)[i] /\ j \in DOMAIN S(u) /\ S(u)'[j] = S(u)[j]
    BY <1>2, <1>3
  <2> QED
    BY <1>1, <1>3, <2>1 DEF Nested
<1>9. ASSUME NEW x \in Task, task'[x].stat = "started", NEW j \in DOMAIN task'[x].frames
      PROVE  Cardinality(SpawnedIn(x, j)') = task'[x].frames[j].spn
  <2>1. CASE x # t
    <3>1. task'[x] = task[x] /\ SpawnedIn(x, j)' = SpawnedIn(x, j)
      BY <1>2, <1>3, <2>1
    <3> QED
      BY <1>1, <1>9, <3>1 DEF Counted, IsStarted
  <2>2. CASE x = t /\ j \in DOMAIN fs
    <3>1. hs[j].spn = IF j = n THEN fs[n].spn - 1 ELSE fs[j].spn
      BY <1>3, <1>9, <2>2 DEF SameSpawned, hs
    <3>2. Cardinality(SpawnedIn(t, j)) = fs[j].spn /\ IsFiniteSet(SpawnedIn(t, j))
      BY <1>1, <1>2, <1>3, <2>2, FiniteTasks DEF Counted, fs
    <3>3. CASE j = n
      <4>1. SpawnedIn(t, j)' = SpawnedIn(t, n) \ {s} /\ s \in SpawnedIn(t, n)
        BY <1>2, <1>3, <3>3
      <4>2. Cardinality(SpawnedIn(t, n) \ {s}) = Cardinality(SpawnedIn(t, n)) - 1
        BY <3>2, <3>3, <4>1, FS_RemoveElement
      <4> QED
        BY <2>2, <3>1, <3>2, <3>3, <4>1, <4>2 DEF hs
    <3>4. CASE j # n
      <4>1. SpawnedIn(t, j)' = SpawnedIn(t, j)
        BY <1>2, <1>3, <3>4
      <4>2. Cardinality(SpawnedIn(x, j)') = fs[j].spn
        BY <2>2, <3>2, <4>1
      <4> QED
        BY <2>2, <3>1, <3>4, <4>2 DEF hs
    <3> QED
      BY <3>3, <3>4
  <2>3. CASE x = t /\ j \notin DOMAIN fs
    <3>1. hs[j].spn = 0
      BY <1>3, <1>9, <2>3 DEF SameSpawned, hs
    <3>2. SpawnedIn(t, j) = {}
      BY <1>1, <2>3 DEF SpawnedIn, SubtasksOf, Subs, S, fs
    <3>3. SpawnedIn(t, j)' = {}
      BY <1>2, <1>3, <2>3, <3>2
    <3> QED
      BY <2>3, <3>1, <3>3, FS_EmptySet DEF hs
  <2> QED
    BY <2>1, <2>2, <2>3
<1>10. Counted'
  BY <1>9 DEF Counted, IsStarted
<1> QED
  BY <1>5, <1>7, <1>8, <1>10 DEF Structure
LEMMA OneTaken ==
  ASSUME NEW fs \in Seq(Frame), fs # <<>>, Last(fs).spn > 0
  PROVE  LET gs == [fs EXCEPT ![Len(fs)].spn = @ - 1] IN
         /\ gs \in Seq(Frame) /\ Recounted(fs, gs, Len(fs), Last(fs).spn - 1)
         /\ gs # <<>> /\ Len(gs) = Len(fs) /\ Last(gs).kind = Last(fs).kind
         /\ Last(gs).spn = Last(fs).spn - 1 /\ Last(fs).spn \in Nat /\ Last(gs).spn \in Nat
         /\ Framed(fs) => Framed(gs)
<1>1. /\ Len(fs) \in DOMAIN fs /\ Last(fs) = fs[Len(fs)] /\ Last(fs) \in Frame
      /\ Len(fs) \in Nat /\ DOMAIN fs = 1..Len(fs)
  BY FrontOf
<1>2. Last(fs).spn \in Nat /\ Last(fs).spn - 1 \in Nat
  BY <1>1 DEF Frame
<1>3. PICK gs : gs = [fs EXCEPT ![Len(fs)].spn = Last(fs).spn - 1]
  OBVIOUS
<1>4. gs \in Seq(Frame) /\ Recounted(fs, gs, Len(fs), Last(fs).spn - 1)
  BY <1>1, <1>2, <1>3, Recount
<1>5. gs # <<>> /\ Len(gs) = Len(fs) /\ Last(gs) = gs[Len(fs)]
  <2>1. Len(gs) = Len(fs) /\ DOMAIN gs # {}
    BY <1>1, <1>4 DEF Recounted
  <2> QED
    BY <2>1 DEF Last
<1>6. Last(gs).kind = Last(fs).kind /\ Last(gs).spn = Last(fs).spn - 1
  BY <1>1, <1>4, <1>5 DEF Recounted
<1>7. ASSUME Framed(fs)
      PROVE  Framed(gs)
  <2>1. \A i \in DOMAIN fs : fs[i].spn \in Nat
    <3> TAKE i \in DOMAIN fs
    <3>1. fs[i] \in Frame
      BY ElementOfSeq, LenProperties
    <3> QED
      BY <3>1 DEF Frame
  <2> QED
    BY <1>1, <1>2, <1>4, <1>5, <1>7, <2>1 DEF Framed, Recounted
<1> QED
  BY <1>1, <1>2, <1>3, <1>4, <1>5, <1>6, <1>7

LEMMA HoleOnly ==
  ASSUME NEW gs \in Seq(Frame), gs # <<>>, NEW b \in BOOLEAN
  PROVE  LET hs == [gs EXCEPT ![Len(gs)].hole = @ \/ b] IN
         hs \in Seq(Frame) /\ SameSpawned(gs, hs) /\ (Framed(gs) => Framed(hs))
<1>1. /\ Len(gs) \in DOMAIN gs /\ gs[Len(gs)] \in Frame /\ Len(gs) \in Nat
      /\ DOMAIN gs = 1..Len(gs)
  BY FrontOf
<1>2. PICK h \in BOOLEAN : h = (gs[Len(gs)].hole \/ b)
  OBVIOUS
<1>3. PICK g : g = [gs[Len(gs)] EXCEPT !.hole = h]
  OBVIOUS
<1>4. g \in Frame /\ g.kind = gs[Len(gs)].kind /\ g.spn = gs[Len(gs)].spn
  BY <1>1, <1>3 DEF Frame
<1>5. PICK hs : hs = [gs EXCEPT ![Len(gs)] = g]
  OBVIOUS
<1>6. hs = [gs EXCEPT ![Len(gs)].hole = @ \/ b]
  BY <1>2, <1>3, <1>5
<1>7. /\ hs \in Seq(Frame) /\ DOMAIN hs = DOMAIN gs /\ Len(hs) = Len(gs)
      /\ \A i \in DOMAIN gs : hs[i].kind = gs[i].kind /\ hs[i].spn = gs[i].spn
  BY <1>1, <1>4, <1>5, ExceptSeq, LenProperties
<1>8. SameSpawned(gs, hs)
  BY <1>7 DEF SameSpawned
<1>9. ASSUME Framed(gs)
      PROVE  Framed(hs)
  <2>1. hs # <<>>
    BY <1>1, <1>7
  <2> QED
    BY <1>7, <1>9, <2>1 DEF Framed
<1> QED
  BY <1>6, <1>7, <1>8, <1>9

(* The step of wait-rslt and its caller, as far as the invariant goes. *)
LEMMA WaitEndTakes ==
  ASSUME IInv, NEW w \in Worker, WaitEnd(w)
  PROVE  LET t == Top(w)
             s == Last(S(w))
             thrown == home[s].stat = "exception" IN
         /\ TypeOK' /\ entered' = entered
         /\ \E gs : Takes(w, t, s, gs)
         /\ task'[t].cancellation = TakeFlag(task[t].cancellation, thrown)
         /\ \A u \in Worker \ {w} : thr'[u].exiting = thr[u].exiting
         /\ thr'[w].exiting = ExitingAfter(thr[w].exiting, thrown)
         /\ task[t].pc = "unwind" => task'[t].pc = "unwind"
         /\ LET fs == task[t].frames
                gs == [fs EXCEPT ![Len(fs)].spn = @ - 1]
                lost == home[s].stat # "done" \/ home[s].hole
                collected == task[t].pc = "wait" /\ Last(gs).kind = "two"
            IN  /\ task'[t].frames = IF collected THEN Leave(gs, lost)
                                     ELSE [gs EXCEPT ![Len(gs)].hole = @ \/ lost]
                /\ task'[t].pc = IF collected THEN AfterGet(thrown) ELSE task[t].pc
<1> DEFINE t == Top(w)
           s == Last(S(w))
           thrown == home[s].stat = "exception"
           fs == task[t].frames
           gs == [fs EXCEPT ![Len(fs)].spn = @ - 1]
           lost == home[s].stat # "done" \/ home[s].hole
           collected == task[t].pc = "wait" /\ Last(gs).kind = "two"
           hs == IF collected THEN Leave(gs, lost) ELSE [gs EXCEPT ![Len(gs)].hole = @ \/ lost]
<1>1. /\ TypeOK /\ Stacks /\ Frames /\ Subs /\ Nested /\ Counted /\ CancelAccounting
      /\ T(w) # <<>> /\ IsStarted(t) /\ t \in Task /\ Framed(fs)
      /\ WaitsFor(w)
  BY Acting DEF WaitEnd, WaitsFor, Busy
<1>2. /\ S(w) # <<>> /\ s \in ToSet(S(w)) /\ s \in Task
      /\ home[s].owner = t /\ home[s].region = Len(fs) /\ Len(fs) \in DOMAIN fs
  BY <1>1, OwnSubtask
<1>3. /\ fs \in Seq(Frame) /\ S(w) \in Seq(Task) /\ fs # <<>> /\ Last(fs).spn > 0
      /\ task \in [Task -> TaskState] /\ thr \in [Worker -> Thread]
      /\ home \in [Task -> TaskHome]
  BY <1>1, Types, TypeParts DEF WaitsFor, TopFrame, Framed
<1>4. /\ gs \in Seq(Frame) /\ Recounted(fs, gs, Len(fs), Last(fs).spn - 1)
      /\ gs # <<>> /\ Last(gs).kind = Last(fs).kind
      /\ Last(gs).spn = Last(fs).spn - 1 /\ Last(fs).spn \in Nat
      /\ Framed(gs)
  BY <1>1, <1>3, OneTaken
<1>5. hs \in Seq(Frame) /\ SameSpawned(gs, hs) /\ Framed(hs)
  <2> HIDE DEF gs, fs
  <2>1. lost \in BOOLEAN
    BY <1>2, <1>3 DEF TaskHome
  <2> HIDE DEF lost
  <2>2. CASE collected
    <3>1. Last(gs).spn = 0
      <4>1. Last(fs).spn <= 1
        BY <1>1, <1>2, <1>4, <2>2 DEF Framed, Last
      <4> QED
        BY <1>3, <1>4, <4>1
    <3>2. Last(gs).kind # "body"
      BY <2>2
    <3> QED
      BY <1>4, <2>1, <2>2, <3>1, <3>2, FramesBelow
  <2>3. CASE ~collected
    <3>1. hs = [gs EXCEPT ![Len(gs)].hole = @ \/ lost]
      BY <2>3
    <3> HIDE DEF hs
    <3> QED
      BY <1>4, <2>1, <3>1, HoleOnly
  <2> QED
    BY <2>2, <2>3
<1>6. /\ thr' = [thr EXCEPT ![w].sub = Front(@),
                            ![w].exiting = ExitingAfter(@, thrown),
                            ![w].tag = IF thrown THEN home[s].tag ELSE @]
      /\ home' = home /\ spawned' = spawned /\ entered' = entered
      /\ Ended(s)
  BY DEF WaitEnd, S
<1>7. task' = [task EXCEPT ![home[s].owner].cancellation = TakeFlag(@, thrown),
                           ![t].frames = hs,
                           ![t].pc = IF collected THEN AfterGet(thrown) ELSE @]
  BY DEF WaitEnd, S
<1>8. PICK rs : rs = hs
  OBVIOUS
<1>9. PICK p : p = IF collected THEN AfterGet(thrown) ELSE task[t].pc
  OBVIOUS
<1>10. PICK c : c = TakeFlag(task[t].cancellation, thrown)
  OBVIOUS
<1>11. p \in {"run", "wait", "unwind"} /\ (task[t].pc = "unwind" => p = "unwind")
  BY <1>1, <1>3, <1>9 DEF TaskState, AfterGet
<1> HIDE DEF hs, collected
<1>12. c \in Nat
  <2>1. CASE thrown
    <3>1. s \in Thrown(t) /\ IsFiniteSet(Thrown(t))
      BY <1>1, <1>2, <2>1, FiniteTasks DEF Thrown, SubtasksOf, S
    <3>2. Cardinality(Thrown(t)) # 0 /\ Cardinality(Thrown(t)) \in Nat
      BY <3>1, FS_EmptySet, FS_CardinalityType
    <3>3. PICK d \in {0, 1} : task[t].cancellation \in Cardinality(Thrown(t))..Cardinality(Thrown(t)) + d
      BY <1>1 DEF CancelAccounting, Thrown, IsStarted
    <3> QED
      BY <1>10, <2>1, <3>2, <3>3 DEF TakeFlag
  <2>2. CASE ~thrown
    BY <1>1, <1>10, <2>2, Types DEF TakeFlag
  <2> QED
    BY <2>1, <2>2
<1>13. task' = [task EXCEPT ![t] = [task[t] EXCEPT !.cancellation = c, !.frames = rs, !.pc = p]]
  BY <1>1, <1>2, <1>3, <1>7, <1>8, <1>9, <1>10
<1>14. PICK r : r = [task[t] EXCEPT !.cancellation = c, !.frames = rs, !.pc = p]
  OBVIOUS
<1>15. /\ r \in TaskState /\ r.stat = "started" /\ r.frames = rs /\ r.pc = p
       /\ r.cancellation = c
  <2>1. task[t] \in TaskState /\ task[t].stat = "started" /\ rs \in Seq(Frame)
    BY <1>1, <1>3, <1>5, <1>8 DEF IsStarted
  <2> QED
    BY <1>11, <1>12, <1>14, <2>1 DEF TaskState
<1>16. task' = [task EXCEPT ![t] = r]
  BY <1>13, <1>14
<1>17. PICK k : k = [thr[w] EXCEPT !.sub = Front(S(w)),
                                   !.exiting = ExitingAfter(thr[w].exiting, thrown),
                                   !.tag = IF thrown THEN home[s].tag ELSE thr[w].tag]
  OBVIOUS
<1>18. thr' = [thr EXCEPT ![w] = k]
  BY <1>3, <1>6, <1>17 DEF S
<1>19. /\ k \in Thread /\ k.tasks = thr[w].tasks /\ k.sub = Front(S(w))
       /\ k.exiting = ExitingAfter(thr[w].exiting, thrown) /\ k.sending = thr[w].sending
  <2>1. Front(S(w)) \in Seq(Task)
    BY <1>2, <1>3, FrontOf
  <2>2. PICK e \in {"normal", "exception", "cancel"} : e = ExitingAfter(thr[w].exiting, thrown)
    BY <1>3 DEF ExitingAfter, Thread
  <2>3. PICK g \in Tag \cup {0} : g = IF thrown THEN home[s].tag ELSE thr[w].tag
    BY <1>2, <1>3 DEF Thread, TaskHome
  <2>4. PICK q \in Seq(Task) : q = Front(S(w))
    BY <2>1
  <2>5. k = [thr[w] EXCEPT !.sub = q, !.exiting = e, !.tag = g]
    BY <1>17, <2>2, <2>3, <2>4
  <2>6. thr[w] \in Thread
    BY <1>3
  <2>7. k \in Thread /\ k.tasks = thr[w].tasks /\ k.sub = q /\ k.exiting = e /\ k.sending = thr[w].sending
    BY <2>5, <2>6 DEF Thread
  <2> QED
    BY <2>2, <2>4, <2>7
<1>20. TypeOK'
  <2>1. /\ thr \in [Worker -> Thread] /\ task \in [Task -> TaskState] /\ home \in [Task -> TaskHome]
        /\ spawned \in 0..MaxSub /\ entered \in 0..MaxEnter
    BY <1>1, TypeParts
  <2>2. thr' \in [Worker -> Thread]
    BY <2>1, <1>18, <1>19
  <2>3. task' \in [Task -> TaskState]
    BY <2>1, <1>15, <1>16
  <2> QED
    BY <2>1, <2>2, <2>3, <1>6, TypePartsNext
<1>21. /\ \A u \in Worker : T(u)' = T(u) /\ thr'[u].sending = thr[u].sending
       /\ S(w)' = Front(S(w)) /\ \A u \in Worker \ {w} : S(u)' = S(u)
       /\ \A u \in Worker \ {w} : thr'[u].exiting = thr[u].exiting
       /\ thr'[w].exiting = ExitingAfter(thr[w].exiting, thrown)
  BY <1>3, <1>18, <1>19 DEF T, S
<1>22. task'[t] = r /\ \A x \in Task \ {t} : task'[x] = task[x]
  BY <1>1, <1>3, <1>16
<1>23. Takes(w, t, s, gs)
  <2>1. home[s].stat # "initialized"
    BY <1>6 DEF Ended
  <2>2. TopFrame(t) = Last(fs)
    BY DEF TopFrame
  <2> HIDE DEF gs
  <2> QED
    BY <1>1, <1>2, <1>3, <1>4, <1>5, <1>6, <1>8, <1>15, <1>21, <1>22, <2>1, <2>2 DEF Takes
<1> QED
  BY <1>6, <1>8, <1>9, <1>10, <1>11, <1>15, <1>20, <1>21, <1>22, <1>23 DEF hs, collected

LEMMA WaitEndStep ==
  ASSUME IInv, NEW w \in Worker, WaitEnd(w)
  PROVE  IInv'
<1>0. PICK t, s : t = Top(w) /\ s = Last(S(w))
  OBVIOUS
<1> DEFINE thrown == home[s].stat = "exception"
<1>1. /\ TypeOK' /\ \E gs : Takes(w, t, s, gs)
      /\ task'[t].cancellation = TakeFlag(task[t].cancellation, thrown)
      /\ \A u \in Worker \ {w} : thr'[u].exiting = thr[u].exiting
      /\ thr'[w].exiting = ExitingAfter(thr[w].exiting, thrown)
      /\ task[t].pc = "unwind" => task'[t].pc = "unwind"
  BY <1>0, WaitEndTakes
<1>2. PICK gs : Takes(w, t, s, gs)
  BY <1>1
<1>3. /\ TypeOK /\ Structure /\ Stacks /\ Subs /\ CancelAccounting /\ CancelReason
      /\ AbortedIfCancelled /\ t \in Task
  BY <1>0, Acting DEF WaitEnd, WaitsFor, Busy
<1>4. Structure'
  BY <1>2, <1>3, TakesStructure
<1>5. /\ s \in Task /\ s \in SubtasksOf(t)
      /\ \A x : /\ SubtasksOf(x)' = SubtasksOf(x) \ {s}
                /\ x # t => SubtasksOf(x)' = SubtasksOf(x)
  BY <1>2, <1>3, TakenSub DEF SpawnedIn
<1>6. /\ home' = home /\ spawned' = spawned /\ IsStarted(t) /\ T(w) # <<>>
      /\ \A u \in Worker : T(u)' = T(u)
      /\ \A x \in Task \ {t} : task'[x] = task[x]
  BY <1>2 DEF Takes
<1>7. /\ \A x : Thrown(x)' = Thrown(x) \ {s}
      /\ \A x : x # t => Thrown(x)' = Thrown(x)
      /\ s \in Thrown(t) <=> thrown
  BY <1>5, <1>6 DEF Thrown
<1>8. AbortedIfCancelled'
  BY <1>3, <1>6 DEF AbortedIfCancelled
<1>9. CancelAccounting'
  <2> SUFFICES ASSUME NEW x \in Task, task'[x].stat = "started"
               PROVE  task'[x].cancellation \in Cardinality(Thrown(x)')
                        ..Cardinality(Thrown(x)') + (IF home'[x].msg_cncl = 2 THEN 1 ELSE 0)
    BY DEF CancelAccounting, Thrown
  <2>1. CASE x # t
    BY <1>3, <1>6, <1>7, <2>1 DEF CancelAccounting, Thrown
  <2>2. CASE x = t
    <3>1. PICK d \in {0, 1} : d = IF home[t].msg_cncl = 2 THEN 1 ELSE 0
      OBVIOUS
    <3>2. task[t].cancellation \in Cardinality(Thrown(t))..Cardinality(Thrown(t)) + d
      BY <1>3, <1>6, <3>1 DEF CancelAccounting, Thrown, IsStarted
    <3>3. Cardinality(Thrown(t)) \in Nat /\ IsFiniteSet(Thrown(t))
      BY <1>3, FiniteTasks, FS_CardinalityType
    <3>4. CASE thrown
      <4>1. Cardinality(Thrown(t)') = Cardinality(Thrown(t)) - 1
        BY <1>7, <3>3, <3>4, FS_RemoveElement
      <4>2. task'[t].cancellation = task[t].cancellation - 1
        BY <1>1, <3>4 DEF TakeFlag
      <4>3. task'[t].cancellation \in Cardinality(Thrown(t)')..Cardinality(Thrown(t)') + d
        BY <3>2, <3>3, <4>1, <4>2
      <4> QED
        BY <1>6, <2>2, <3>1, <4>3
    <3>5. CASE ~thrown
      <4>1. Thrown(t)' = Thrown(t) /\ task'[t].cancellation = task[t].cancellation
        BY <1>1, <1>7, <3>5 DEF TakeFlag
      <4> QED
        BY <1>6, <2>2, <3>1, <3>2, <4>1
    <3> QED
      BY <3>4, <3>5
  <2> QED
    BY <2>1, <2>2
<1>10. ASSUME NEW u \in Worker, thr'[u].exiting = "cancel"
       PROVE  /\ T(u)' # <<>> /\ task'[Top(u)'].stat = "started"
              /\ task'[Top(u)'].pc = "unwind"
              /\ home'[Top(u)'].msg_cncl = 2 \/ Thrown(Top(u))' # {}
  <2>1. thr[u].exiting = "cancel" /\ (u = w => ~thrown)
    BY <1>1, <1>10 DEF ExitingAfter
  <2>2. /\ T(u) # <<>> /\ IsStarted(Top(u)) /\ task[Top(u)].pc = "unwind"
        /\ home[Top(u)].msg_cncl = 2 \/ Thrown(Top(u)) # {}
    BY <1>3, <2>1 DEF CancelReason
  <2>3. T(u)' = T(u) /\ Top(u)' = Top(u)
    BY <1>6, SameTop
  <2>4. CASE u = w
    <3>1. Thrown(t)' = Thrown(t)
      BY <1>7, <2>1, <2>4
    <3>2. task'[t].stat = "started"
      BY <1>2 DEF Takes
    <3> QED
      BY <1>0, <1>1, <1>6, <2>2, <2>3, <2>4, <3>1, <3>2
  <2>5. CASE u # w
    <3>1. Top(u) \in Task /\ Top(u) # t
      BY <1>0, <1>3, <1>6, <2>2, <2>5, TopIs, OtherTop
    <3> QED
      BY <1>6, <1>7, <2>2, <2>3, <3>1 DEF IsStarted
  <2> QED
    BY <2>4, <2>5
<1>11. CancelReason'
  BY <1>10 DEF CancelReason, IsStarted
<1> QED
  BY <1>1, <1>4, <1>8, <1>9, <1>11 DEF IInv
(***************************************************************************)
(* A task ends                                                             *)
(***************************************************************************)
(* What Finish does: task t of worker w ends for the reason why. *)
Ends(w, t, why) ==
  /\ T(w) # <<>> /\ t = Top(w) /\ IsStarted(t) /\ ~thr[w].sending /\ SubtasksOf(t) = {}
  /\ why = Outcome(thr[w].exiting)
  /\ T(w)' = Front(T(w)) /\ \A u \in Worker \ {w} : T(u)' = T(u)
  /\ \A u \in Worker : S(u)' = S(u) /\ thr'[u].sending = thr[u].sending
  /\ \A u \in Worker \ {w} : thr'[u].exiting = thr[u].exiting
  /\ thr'[w].exiting = "normal"
  /\ \A x \in Task :
       /\ task'[x].frames = task[x].frames /\ task'[x].pc = task[x].pc
       /\ task'[x].stat = IF x = t THEN "done" ELSE task[x].stat
       /\ task'[x].cancellation = IF why = "exception" /\ t \in SubtasksOf(x)
                                  THEN task[x].cancellation + 1 ELSE task[x].cancellation
       /\ home'[x].owner = home[x].owner /\ home'[x].region = home[x].region
       /\ home'[x].msg_cncl = 2 <=> home[x].msg_cncl = 2
       /\ home'[x].stat = IF x = t THEN why ELSE home[x].stat
  /\ Untouched

(* A task that is at its end has no subtasks left. *)
LEMMA NoSubtasks ==
  ASSUME TypeOK, Stacks, Frames, Subs, Counted, NEW t \in Task, IsStarted(t),
         TopFrame(t).kind = "body"
  PROVE  SubtasksOf(t) = {}
<1> SUFFICES ASSUME NEW x \in SubtasksOf(t)
             PROVE  FALSE
  OBVIOUS
<1>1. Framed(task[t].frames) /\ task[t].frames \in Seq(Frame) /\ task[t].frames # <<>>
  BY Types DEF Frames, Framed
<1>2. DOMAIN task[t].frames = {1} /\ task[t].frames[1].spn = 0
  <2>1. /\ DOMAIN task[t].frames = 1..Len(task[t].frames) /\ Len(task[t].frames) \in Nat
        /\ TopFrame(t) = task[t].frames[Len(task[t].frames)]
        /\ Len(task[t].frames) \in DOMAIN task[t].frames
    BY <1>1, FrontOf DEF TopFrame
  <2>2. Len(task[t].frames) = 1
    BY <1>1, <2>1 DEF Framed
  <2> QED
    BY <1>1, <2>1, <2>2 DEF Framed
<1>3. /\ x \in Task /\ home[x].owner = t /\ home[x].region \in DOMAIN task[t].frames
  BY DEF SubtasksOf, Subs, S
<1>4. x \in SpawnedIn(t, 1)
  BY <1>2, <1>3 DEF SpawnedIn
<1>5. task[t].frames[1].spn > 0
  BY <1>2, <1>4, HasSpawned
<1> QED
  BY <1>2, <1>5

LEMMA FinishEnds ==
  ASSUME IInv, NEW w \in Worker, Finish(w)
  PROVE  LET t == Top(w)
             why == Outcome(thr[w].exiting) IN
         /\ TypeOK' /\ Ends(w, t, why)
         /\ home'[t].hole = TopFrame(t).hole
         /\ \A x \in Task \ {t} : home'[x].hole = home[x].hole
         /\ \A x \in Task :
              \/ home'[x].msg_cncl = home[x].msg_cncl
              \/ /\ t # Root /\ why = "exception" /\ x # t
                 /\ x \in ToCancel(HomeOf(t), home[t].owner, home[t].eldest)
<1>0. PICK t : t = Top(w)
  OBVIOUS
<1>1. /\ TypeOK /\ Stacks /\ Frames /\ Subs /\ Nested /\ Counted
      /\ T(w) # <<>> /\ IsStarted(t) /\ t \in Task /\ t <= spawned
      /\ \A x \in Task : x > spawned => x # t
  BY <1>0, Acting DEF Finish, Busy
<1>2. /\ task \in [Task -> TaskState] /\ thr \in [Worker -> Thread] /\ home \in [Task -> TaskHome]
      /\ T(w) \in Seq(Task) /\ Front(T(w)) \in Seq(Task)
  BY <1>1, Types, TypeParts, FrontOf
<1>3. SubtasksOf(t) = {} /\ ~thr[w].sending
  BY <1>0, <1>1, NoSubtasks DEF Finish, Busy
<1>4. PICK v, o, why, X :
        /\ o = home[t].owner /\ v = HomeOf(t) /\ why = Outcome(thr[w].exiting)
        /\ X = IF t # Root /\ why = "exception" THEN ToCancel(v, o, home[t].eldest) \ {t} ELSE {}
  OBVIOUS
<1>5. /\ home' = [Flagged(home, X) EXCEPT ![t].stat = why, ![t].tag = thr[w].tag,
                                          ![t].hole = TopFrame(t).hole]
      /\ task' = [task EXCEPT ![t].stat = "done",
                              ![o].cancellation = IF t # Root /\ why = "exception"
                                                  THEN @ + 1 ELSE @]
      /\ thr' = LET ended == [thr EXCEPT ![w].tasks = Front(@), ![w].exiting = "normal"]
                IN  IF t = Root THEN ended ELSE [ended EXCEPT ![v] = RaiseFlag(@, X)]
      /\ spawned' = spawned /\ entered' = entered
  BY <1>0, <1>4 DEF Finish
<1>6. ASSUME t # Root
      PROVE  /\ v \in Worker /\ t \in ToSet(S(v)) /\ IsStarted(o) /\ o # t /\ t \in SubtasksOf(o)
  <2>1. InSub(t)
    BY <1>1, <1>6 DEF Subs, Alive, IsStarted
  <2>2. PICK u \in Worker : t \in ToSet(S(u))
    BY <2>1 DEF InSub
  <2>3. v = u
    BY <1>1, <1>4, <2>2, HomeIs
  <2>4. t \in SubtasksOf(o) /\ IsStarted(o)
    BY <1>1, <1>4, <2>2 DEF SubtasksOf, S, Subs
  <2> QED
    BY <1>3, <2>2, <2>3, <2>4
<1>7. \A x : t \in SubtasksOf(x) <=> t # Root /\ x = o
  <2>1. \A x : t \in SubtasksOf(x) => x = o
    BY <1>4 DEF SubtasksOf
  <2>2. \A x : t \in SubtasksOf(x) => t # Root
    BY <1>1 DEF SubtasksOf, Subs, S, Root
  <2> QED
    BY <1>6, <2>1, <2>2
<1>8. \A x \in X : x \in Task /\ x \in 1..spawned /\ home[x].msg_cncl # 2 /\ x # t
  BY <1>1, <1>4, <1>6, Cancellable
<1>9. why \in {"done", "exception", "aborted"}
  <2>1. thr[w].exiting \in {"normal", "exception", "cancel"}
    BY <1>2 DEF Thread
  <2> QED
    BY <1>4, <2>1 DEF Outcome
<1>10. PICK h : h = Flagged(home, X)
  OBVIOUS
<1>11. /\ h \in [Task -> TaskHome]
       /\ \A x \in Task : /\ h[x].owner = home[x].owner /\ h[x].stat = home[x].stat
                          /\ h[x].region = home[x].region /\ h[x].hole = home[x].hole
                          /\ x \notin X => h[x] = home[x]
                          /\ h[x].msg_cncl = 2 <=> home[x].msg_cncl = 2
  BY <1>2, <1>8, <1>10, Flagging
<1>12. PICK g \in Tag \cup {0} : g = thr[w].tag
  BY <1>2 DEF Thread
<1>13. PICK b \in BOOLEAN : b = TopFrame(t).hole
  <2>1. TopFrame(t) \in Frame
    <3>1. task[t].frames \in Seq(Frame) /\ task[t].frames # <<>>
      BY <1>1, Types DEF Frames, Framed
    <3> QED
      BY <3>1, FrontOf DEF TopFrame
  <2> QED
    BY <2>1 DEF Frame
<1>14. PICK r : r = [h[t] EXCEPT !.stat = why, !.tag = g, !.hole = b]
  OBVIOUS
<1>15. /\ r \in TaskHome /\ r.stat = why /\ r.owner = h[t].owner /\ r.region = h[t].region
       /\ r.msg_cncl = h[t].msg_cncl /\ r.hole = b
  <2>1. h[t] \in TaskHome
    BY <1>1, <1>11
  <2> QED
    BY <1>9, <1>14, <2>1 DEF TaskHome
<1>16. home' = [h EXCEPT ![t] = r]
  BY <1>5, <1>10, <1>12, <1>13, <1>14
<1>17. /\ home' \in [Task -> TaskHome]
       /\ \A x \in Task :
            /\ home'[x].owner = home[x].owner /\ home'[x].region = home[x].region
            /\ home'[x].msg_cncl = 2 <=> home[x].msg_cncl = 2
            /\ home'[x].stat = IF x = t THEN why ELSE home[x].stat
            /\ x \notin X /\ x # t => home'[x] = home[x]
            /\ x # t => home'[x].hole = home[x].hole
            /\ x \notin X => home'[x].msg_cncl = home[x].msg_cncl
       /\ home'[t].hole = b
  BY <1>1, <1>11, <1>15, <1>16
<1>18. ASSUME NEW x \in Task
       PROVE  /\ task'[x] \in TaskState
              /\ task'[x].frames = task[x].frames /\ task'[x].pc = task[x].pc
              /\ task'[x].stat = IF x = t THEN "done" ELSE task[x].stat
              /\ task'[x].cancellation = IF why = "exception" /\ t \in SubtasksOf(x)
                                         THEN task[x].cancellation + 1 ELSE task[x].cancellation
  <2>1. CASE t = Root
    <3>1. task' = [task EXCEPT ![t].stat = "done", ![o].cancellation = @]
      BY <1>5, <2>1
    <3>2. task' = [task EXCEPT ![t] = [task[t] EXCEPT !.stat = "done"]]
      BY <1>1, <1>2, <3>1 DEF TaskState
    <3>3. task'[x] = IF x = t THEN [task[t] EXCEPT !.stat = "done"] ELSE task[x]
      BY <1>2, <3>2
    <3>4. t \notin SubtasksOf(x)
      BY <1>7, <2>1
    <3>5. task[x] \in TaskState
      BY <1>2
    <3> QED
      BY <3>3, <3>4, <3>5 DEF TaskState
  <2>2. CASE t # Root
    <3>1. PICK n : n = IF why = "exception" THEN task[o].cancellation + 1 ELSE task[o].cancellation
      OBVIOUS
    <3>2. o # t /\ o \in Task
      BY <1>1, <1>4, <1>6, <2>2, Types
    <3>3. n \in Nat
      BY <1>1, <3>1, <3>2, Types
    <3>4. task' = [task EXCEPT ![t] = [task[t] EXCEPT !.stat = "done"],
                               ![o] = [task[o] EXCEPT !.cancellation = n]]
      BY <1>1, <1>2, <1>5, <2>2, <3>1, <3>2
    <3>5. task'[x] = CASE x = t -> [task[t] EXCEPT !.stat = "done"]
                       [] x = o -> [task[o] EXCEPT !.cancellation = n]
                       [] OTHER -> task[x]
      BY <1>2, <3>2, <3>4
    <3>6. t \in SubtasksOf(x) <=> x = o
      BY <1>7, <2>2
    <3>7. task[x] \in TaskState
      BY <1>2
    <3>8. CASE x = t
      BY <3>2, <3>5, <3>6, <3>7, <3>8 DEF TaskState
    <3>9. CASE x = o
      <4>1. task'[x] = [task[x] EXCEPT !.cancellation = n] /\ x # t
        BY <3>2, <3>5, <3>9
      <4> QED
        BY <3>1, <3>3, <3>6, <3>7, <3>9, <4>1 DEF TaskState
    <3>10. CASE x # t /\ x # o
      BY <3>5, <3>6, <3>7, <3>10
    <3> QED
      BY <3>8, <3>9, <3>10
  <2> QED
    BY <2>1, <2>2
<1>19. task' \in [Task -> TaskState]
  <2>1. DOMAIN task' = Task /\ task' = [x \in DOMAIN task' |-> task'[x]]
    BY <1>2, <1>5
  <2> QED
    BY <1>18, <2>1
<1>20. PICK k : k = [thr[w] EXCEPT !.tasks = Front(T(w)), !.exiting = "normal"]
  OBVIOUS
<1>21. /\ k \in Thread /\ k.tasks = Front(T(w)) /\ k.exiting = "normal"
       /\ k.sub = thr[w].sub /\ k.sending = thr[w].sending
  BY <1>2, <1>20 DEF Thread
<1>22. PICK e : e = [thr EXCEPT ![w] = k]
  OBVIOUS
<1>23. e = [thr EXCEPT ![w].tasks = Front(@), ![w].exiting = "normal"]
  BY <1>2, <1>20, <1>22 DEF T
<1>24. thr' = IF t = Root THEN e ELSE [e EXCEPT ![v] = RaiseFlag(e[v], X)]
  BY <1>5, <1>23
<1>25. /\ e \in [Worker -> Thread] /\ e[w] = k /\ \A u \in Worker \ {w} : e[u] = thr[u]
  BY <1>2, <1>21, <1>22
<1>26. /\ thr' \in [Worker -> Thread]
       /\ \A u \in Worker : /\ thr'[u].tasks = e[u].tasks /\ thr'[u].sub = e[u].sub
                            /\ thr'[u].sending = e[u].sending /\ thr'[u].exiting = e[u].exiting
  <2>1. CASE t = Root
    BY <1>24, <1>25, <2>1
  <2>2. CASE t # Root
    <3>1. PICK f : f = RaiseFlag(e[v], X)
      OBVIOUS
    <3>2. v \in Worker /\ e[v] \in Thread
      BY <1>6, <1>25, <2>2
    <3>3. /\ f \in Thread /\ f.tasks = e[v].tasks /\ f.sub = e[v].sub
          /\ f.sending = e[v].sending /\ f.exiting = e[v].exiting
      BY <3>1, <3>2, Raising
    <3>4. thr' = [e EXCEPT ![v] = f]
      BY <1>24, <2>2, <3>1
    <3> QED
      BY <1>25, <3>2, <3>3, <3>4
  <2> QED
    BY <2>1, <2>2
<1>27. TypeOK'
  BY <1>1, <1>5, <1>17, <1>19, <1>26, TypeParts, TypePartsNext
<1>28. /\ T(w)' = Front(T(w)) /\ \A u \in Worker \ {w} : T(u)' = T(u)
       /\ \A u \in Worker : S(u)' = S(u) /\ thr'[u].sending = thr[u].sending
       /\ \A u \in Worker \ {w} : thr'[u].exiting = thr[u].exiting
       /\ thr'[w].exiting = "normal"
  BY <1>21, <1>25, <1>26 DEF T, S
<1>29. Untouched
  <2>1. ASSUME NEW x \in Task, x > spawned
        PROVE  task'[x] = task[x] /\ home'[x] = home[x]
    <3>1. x \notin X /\ x # t
      BY <1>1, <1>8, <2>1, Types
    <3>2. t # Root => x # o
      <4>1. t # Root => IsStarted(o) /\ task[x] = NoTask
        BY <1>1, <1>6, <2>1 DEF Stacks
      <4> QED
        BY <4>1 DEF IsStarted, NoTask
    <3>3. task'[x] = task[x]
      BY <1>2, <1>5, <3>1, <3>2, <2>1 DEF TaskState
    <3> QED
      BY <1>17, <3>1, <3>3
  <2> QED
    BY <1>5, <2>1 DEF Untouched
<1>30. Ends(w, t, why)
  BY <1>0, <1>1, <1>3, <1>4, <1>17, <1>18, <1>28, <1>29 DEF Ends
<1>31. \A x \in X : /\ t # Root /\ why = "exception" /\ x # t
                    /\ x \in ToCancel(HomeOf(t), home[t].owner, home[t].eldest)
  BY <1>4
<1> QED
  BY <1>0, <1>4, <1>13, <1>17, <1>27, <1>30, <1>31
LEMMA EndsStructure ==
  ASSUME TypeOK, Structure, NEW w \in Worker, NEW t, NEW why, why # "initialized",
         Ends(w, t, why)
  PROVE  Structure'
<1>1. Stacks /\ Frames /\ Subs /\ Nested /\ Counted
  BY DEF Structure
<1>2. /\ T(w) # <<>> /\ t = Top(w) /\ IsStarted(t) /\ ~thr[w].sending /\ SubtasksOf(t) = {}
      /\ T(w)' = Front(T(w)) /\ \A u \in Worker \ {w} : T(u)' = T(u)
      /\ \A u \in Worker : S(u)' = S(u) /\ thr'[u].sending = thr[u].sending
      /\ \A x \in Task :
           /\ task'[x].frames = task[x].frames /\ task'[x].pc = task[x].pc
           /\ task'[x].stat = IF x = t THEN "done" ELSE task[x].stat
           /\ home'[x].owner = home[x].owner /\ home'[x].region = home[x].region
           /\ home'[x].stat = IF x = t THEN why ELSE home[x].stat
      /\ Untouched
  BY DEF Ends
<1>3. t \in Task /\ t \in ToSet(T(w)) /\ T(w) \in Seq(Task) /\ Len(T(w)) \in Nat
  BY <1>2, TopIs, Types, LenProperties
<1>4. /\ ToSet(T(w)') = ToSet(T(w)) \ {t}
      /\ DOMAIN T(w)' = 1..Len(T(w)) - 1 /\ DOMAIN T(w) = 1..Len(T(w))
      /\ Len(T(w)') = Len(T(w)) - 1
      /\ \A i \in 1..Len(T(w)) - 1 : i \in DOMAIN T(w) /\ T(w)'[i] = T(w)[i]
  <2>1. \A i, j \in DOMAIN T(w) : T(w)[i] = T(w)[j] => i = j
    BY <1>1 DEF Stacks
  <2>2. t = Last(T(w))
    BY <1>2 DEF Top, T
  <2> QED
    BY <1>2, <1>3, <2>1, <2>2, FrontOf, FrontSet
<1>5. \A u \in Worker : /\ ToSet(T(u)') = ToSet(T(u)) \ {t}
                        /\ DOMAIN T(u)' \subseteq DOMAIN T(u)
                        /\ \A i \in DOMAIN T(u)' : T(u)'[i] = T(u)[i]
  <2> SUFFICES ASSUME NEW u \in Worker
               PROVE  /\ ToSet(T(u)') = ToSet(T(u)) \ {t}
                      /\ DOMAIN T(u)' \subseteq DOMAIN T(u)
                      /\ \A i \in DOMAIN T(u)' : T(u)'[i] = T(u)[i]
    OBVIOUS
  <2>1. CASE u = w
    BY <1>4, <2>1
  <2>2. CASE u # w
    <3>1. t \notin ToSet(T(u))
      BY <1>1, <1>3, <2>2, OnlyOn
    <3> QED
      BY <1>2, <2>2, <3>1
  <2> QED
    BY <2>1, <2>2
<1>6. \A x \in Task : Alive(x)' <=> Alive(x) /\ x # t
  BY <1>2 DEF Alive
<1>7. Stacks'
  <2>1. \A u, v \in Worker : \A i \in DOMAIN T(u)', j \in DOMAIN T(v)' :
          T(u)'[i] = T(v)'[j] => u = v /\ i = j
    <3> SUFFICES ASSUME NEW u \in Worker, NEW v \in Worker, NEW i \in DOMAIN T(u)',
                        NEW j \in DOMAIN T(v)', T(u)'[i] = T(v)'[j]
                 PROVE  u = v /\ i = j
      OBVIOUS
    <3>1. i \in DOMAIN T(u) /\ j \in DOMAIN T(v) /\ T(u)[i] = T(v)[j]
      BY <1>5
    <3> QED
      BY <1>1, <3>1 DEF Stacks
  <2>2. \A x \in Task : Alive(x)' <=> \E u \in Worker : x \in ToSet(T(u)')
    BY <1>1, <1>5, <1>6 DEF Stacks
  <2>3. ASSUME NEW u \in Worker, NEW i \in DOMAIN T(u)', i < Len(T(u)')
        PROVE  LET x == T(u)'[i] IN
               task'[x].stat = "started" /\ task'[x].pc = "wait" /\ Last(task'[x].frames).spn > 0
    <3>1. i \in DOMAIN T(u) /\ T(u)'[i] = T(u)[i] /\ i < Len(T(u))
      <4>1. CASE u = w
        BY <1>3, <1>4, <2>3, <4>1
      <4>2. CASE u # w
        BY <1>2, <2>3, <4>2
      <4> QED
        BY <4>1, <4>2
    <3>2. Waiting(T(u)[i]) /\ T(u)[i] \in Task
      BY <1>1, <3>1, Types, ElementOfSeq, LenProperties DEF Stacks
    <3>3. T(u)[i] # t
      BY <1>1, <1>2, <3>1, NotTop
    <3> QED
      BY <1>2, <3>1, <3>2, <3>3 DEF Waiting, IsStarted, TopFrame
  <2>4. ASSUME NEW u \in Worker, thr'[u].sending
        PROVE  T(u)' # <<>> /\ task'[Top(u)'].stat = "started"
    <3>1. u # w /\ T(u) # <<>> /\ IsStarted(Top(u))
      BY <1>1, <1>2, <2>4 DEF Stacks
    <3>2. T(u)' = T(u) /\ Top(u)' = Top(u)
      BY <1>2, <3>1, SameTop
    <3>3. Top(u) \in Task /\ Top(u) # t
      BY <1>1, <1>2, <3>1, TopIs, OtherTop
    <3> QED
      BY <1>2, <3>1, <3>2, <3>3 DEF IsStarted
  <2>5. \A x \in Task : x > spawned' => task'[x] = NoTask /\ home'[x] = NoHome
    BY <1>1, <1>2 DEF Stacks, Untouched
  <2> QED
    BY <2>1, <2>2, <2>3, <2>4, <2>5 DEF Stacks, Waiting, IsStarted, TopFrame
<1>8. Frames'
  BY <1>1, <1>2 DEF Frames, IsStarted
<1>9. Subs'
  <2>1. \A u, v \in Worker : \A i \in DOMAIN S(u)', j \in DOMAIN S(v)' :
          S(u)'[i] = S(v)'[j] => u = v /\ i = j
    BY <1>1, <1>2 DEF Subs
  <2>2. ASSUME NEW u \in Worker, NEW x \in ToSet(S(u)')
        PROVE  /\ x \in 1..spawned'
               /\ home'[x].owner \in ToSet(T(u)') /\ task'[home'[x].owner].stat = "started"
               /\ home'[x].region \in DOMAIN task'[home'[x].owner].frames
    <3>1. x \in ToSet(S(u))
      BY <1>2, <2>2
    <3>2. /\ x \in 1..spawned /\ home[x].owner \in ToSet(T(u)) /\ IsStarted(home[x].owner)
          /\ home[x].region \in DOMAIN task[home[x].owner].frames
          /\ home[x].owner \in Task /\ x \in Task
      BY <1>1, <3>1, Types DEF Subs
    <3>3. home[x].owner # t
      BY <1>2, <3>1, <3>2 DEF SubtasksOf, S
    <3>4. /\ spawned' = spawned
          /\ home'[x].owner = home[x].owner /\ home'[x].region = home[x].region
          /\ task'[home[x].owner].stat = task[home[x].owner].stat
          /\ task'[home[x].owner].frames = task[home[x].owner].frames
      BY <1>2, <3>2, <3>3 DEF Untouched
    <3> QED
      BY <1>5, <3>2, <3>3, <3>4 DEF IsStarted
  <2>3. ASSUME NEW x \in Task
        PROVE  home'[x].stat = "initialized" <=> Alive(x)'
    BY <1>1, <1>2, <1>6 DEF Subs
  <2>4. \A x \in Task \ {Root} : Alive(x)' => InSub(x)'
    BY <1>1, <1>2, <1>6 DEF Subs, InSub
  <2> QED
    BY <2>1, <2>2, <2>3, <2>4 DEF Subs, IsStarted
<1>10. Nested'
  <2> SUFFICES ASSUME NEW u \in Worker, NEW i \in DOMAIN S(u)', NEW j \in DOMAIN S(u)',
                      NEW k \in DOMAIN T(u)', NEW l \in DOMAIN T(u)', i < j,
                      T(u)'[k] = home'[S(u)'[i]].owner, T(u)'[l] = home'[S(u)'[j]].owner
               PROVE  k < l \/ (k = l /\ home'[S(u)'[i]].region <= home'[S(u)'[j]].region)
    BY DEF Nested
  <2>1. S(u)' = S(u) /\ S(u)[i] \in Task /\ S(u)[j] \in Task
    BY <1>2, Types, ElementOfSeq, LenProperties
  <2>2. /\ k \in DOMAIN T(u) /\ l \in DOMAIN T(u)
        /\ T(u)[k] = home[S(u)[i]].owner /\ T(u)[l] = home[S(u)[j]].owner
    BY <1>2, <1>5, <2>1
  <2> QED
    BY <1>1, <1>2, <2>1, <2>2 DEF Nested
<1>11. ASSUME NEW x \in Task, task'[x].stat = "started", NEW j \in DOMAIN task'[x].frames
       PROVE  Cardinality(SpawnedIn(x, j)') = task'[x].frames[j].spn
  <2>1. SubtasksOf(x)' = SubtasksOf(x)
    BY <1>2 DEF SubtasksOf, S
  <2>2. SpawnedIn(x, j)' = SpawnedIn(x, j)
    BY <1>2, <2>1 DEF SpawnedIn, SubtasksOf
  <2>3. IsStarted(x) /\ task'[x].frames = task[x].frames
    BY <1>2, <1>11 DEF IsStarted
  <2> QED
    BY <1>1, <1>11, <2>2, <2>3 DEF Counted
<1>12. Counted'
  BY <1>11 DEF Counted, IsStarted
<1> QED
  BY <1>7, <1>8, <1>9, <1>10, <1>12 DEF Structure

LEMMA FinishStep ==
  ASSUME IInv, NEW w \in Worker, Finish(w)
  PROVE  IInv'
<1>0. PICK t, why : t = Top(w) /\ why = Outcome(thr[w].exiting)
  OBVIOUS
<1>1. TypeOK' /\ Ends(w, t, why)
  BY <1>0, FinishEnds
<1>2. /\ TypeOK /\ Structure /\ Stacks /\ CancelAccounting /\ CancelReason /\ AbortedIfCancelled
      /\ t \in Task /\ T(w) # <<>>
  BY <1>0, Acting DEF Finish, Busy
<1>3. /\ thr[w].exiting \in {"normal", "exception", "cancel"}
      /\ why = Outcome(thr[w].exiting)
  BY <1>0, <1>2, TypeParts DEF Thread
<1>4. why \in {"done", "exception", "aborted"} /\ (why = "aborted" => thr[w].exiting = "cancel")
  BY <1>3 DEF Outcome
<1>5. Structure'
  BY <1>1, <1>2, <1>4, EndsStructure
<1>6. /\ t = Top(w) /\ SubtasksOf(t) = {}
      /\ \A u \in Worker \ {w} : T(u)' = T(u)
      /\ \A u \in Worker : S(u)' = S(u)
      /\ \A u \in Worker \ {w} : thr'[u].exiting = thr[u].exiting
      /\ thr'[w].exiting = "normal"
      /\ \A x \in Task :
           /\ task'[x].pc = task[x].pc
           /\ task'[x].stat = IF x = t THEN "done" ELSE task[x].stat
           /\ task'[x].cancellation = IF why = "exception" /\ t \in SubtasksOf(x)
                                      THEN task[x].cancellation + 1 ELSE task[x].cancellation
           /\ home'[x].owner = home[x].owner
           /\ home'[x].msg_cncl = 2 <=> home[x].msg_cncl = 2
           /\ home'[x].stat = IF x = t THEN why ELSE home[x].stat
  BY <1>1 DEF Ends
<1>7. Thrown(t) = {}
  BY <1>6 DEF Thrown
<1>8. home[t].stat = "initialized"
  BY <1>1, <1>2 DEF Ends, Structure, Subs, Alive, IsStarted
<1>9. \A x : SubtasksOf(x)' = SubtasksOf(x)
  BY <1>6 DEF SubtasksOf, S
<1>10. \A x : /\ Thrown(x)' = Thrown(x) \cup (IF why = "exception" /\ t \in SubtasksOf(x)
                                              THEN {t} ELSE {})
              /\ t \notin Thrown(x)
  <2>1. \A x : SubtasksOf(x) \subseteq Task
    BY DEF SubtasksOf
  <2>2. \A x : Thrown(x)' = {s \in SubtasksOf(x) : home'[s].stat = "exception"}
    BY <1>9 DEF Thrown
  <2> QED
    BY <1>2, <1>6, <1>8, <2>1, <2>2 DEF Thrown
<1>11. CancelAccounting'
  <2> SUFFICES ASSUME NEW x \in Task, task'[x].stat = "started"
               PROVE  task'[x].cancellation \in Cardinality(Thrown(x)')
                        ..Cardinality(Thrown(x)') + (IF home'[x].msg_cncl = 2 THEN 1 ELSE 0)
    BY DEF CancelAccounting, Thrown
  <2>1. PICK d \in {0, 1} : d = IF home[x].msg_cncl = 2 THEN 1 ELSE 0
    OBVIOUS
  <2>2. task[x].cancellation \in Cardinality(Thrown(x))..Cardinality(Thrown(x)) + d
    BY <1>2, <1>6, <2>1 DEF CancelAccounting, Thrown
  <2>3. Cardinality(Thrown(x)) \in Nat /\ IsFiniteSet(Thrown(x))
    BY <1>2, FiniteTasks, FS_CardinalityType
  <2>4. task'[x].cancellation \in Cardinality(Thrown(x)')..Cardinality(Thrown(x)') + d
    <3>1. CASE why = "exception" /\ t \in SubtasksOf(x)
      <4>1. Thrown(x)' = Thrown(x) \cup {t} /\ t \notin Thrown(x)
        BY <1>10, <3>1
      <4>2. Cardinality(Thrown(x)') = Cardinality(Thrown(x)) + 1
        BY <2>3, <4>1, FS_AddElement
      <4>3. task'[x].cancellation = task[x].cancellation + 1
        BY <1>6, <3>1
      <4> QED
        BY <2>2, <2>3, <4>2, <4>3
    <3>2. CASE ~(why = "exception" /\ t \in SubtasksOf(x))
      <4>1. Thrown(x)' = Thrown(x)
        BY <1>10, <3>2
      <4>2. task'[x].cancellation = task[x].cancellation
        BY <1>6, <3>2
      <4> QED
        BY <2>2, <4>1, <4>2
    <3> QED
      BY <3>1, <3>2
  <2>5. d = IF home'[x].msg_cncl = 2 THEN 1 ELSE 0
    BY <1>6, <2>1
  <2> QED
    BY <2>4, <2>5
<1>12. AbortedIfCancelled'
  <2>1. why = "aborted" => home[t].msg_cncl = 2
    BY <1>0, <1>2, <1>4, <1>7 DEF CancelReason
  <2> QED
    BY <1>2, <1>6, <2>1 DEF AbortedIfCancelled
<1>13. ASSUME NEW u \in Worker, thr'[u].exiting = "cancel"
       PROVE  /\ T(u)' # <<>> /\ task'[Top(u)'].stat = "started"
              /\ task'[Top(u)'].pc = "unwind"
              /\ home'[Top(u)'].msg_cncl = 2 \/ Thrown(Top(u))' # {}
  <2>1. u # w /\ thr[u].exiting = "cancel"
    BY <1>6, <1>13
  <2>2. /\ T(u) # <<>> /\ IsStarted(Top(u)) /\ task[Top(u)].pc = "unwind"
        /\ home[Top(u)].msg_cncl = 2 \/ Thrown(Top(u)) # {}
    BY <1>2, <2>1 DEF CancelReason
  <2>3. T(u)' = T(u) /\ Top(u)' = Top(u)
    BY <1>6, <2>1, SameTop
  <2>4. Top(u) \in Task /\ Top(u) # t
    BY <1>2, <1>6, <2>1, <2>2, TopIs, OtherTop
  <2>5. Thrown(Top(u))' = Thrown(Top(u)) \cup (IF why = "exception" /\ t \in SubtasksOf(Top(u))
                                               THEN {t} ELSE {})
    BY <1>10, <2>3
  <2> QED
    BY <1>6, <2>2, <2>3, <2>4, <2>5 DEF IsStarted
<1>14. CancelReason'
  BY <1>13 DEF CancelReason, IsStarted
<1> QED
  BY <1>1, <1>5, <1>11, <1>12, <1>14 DEF IInv

(***************************************************************************)
(* The theorems                                                            *)
(***************************************************************************)
LEMMA InitIInv ==
  ASSUME Init
  PROVE  IInv
<1>1. /\ thr = [w \in Worker |-> [tasks |-> IF w = Main THEN <<Root>> ELSE <<>>,
                              sub |-> <<>>, exiting |-> "normal", tag |-> 0,
                              req_cncl |-> FALSE, sending |-> FALSE]]
      /\ task = [t \in Task |-> IF t = Root THEN Started(NoTask) ELSE NoTask]
      /\ home = [t \in Task |-> IF t = Root THEN [NoHome EXCEPT !.stat = "initialized"]
                                        ELSE NoHome]
      /\ spawned = 0 /\ entered = 0
  BY DEF Init
<1>2. Root \in Task /\ Root = 0 /\ Main \in Worker /\ MaxSub \in Nat /\ MaxEnter \in Nat
  BY CancelAssumption DEF CancelAssumption, Root, Task
<1>3. PICK body : body = NewFrame("body", 0)
  OBVIOUS
<1>4. body \in Frame /\ body.kind = "body" /\ body.spn = 0
  BY <1>3 DEF NewFrame, Frame
<1>5. /\ NoTask \in TaskState /\ NoTask.stat = "none"
      /\ NoHome \in TaskHome /\ NoHome.stat = "none" /\ NoHome.msg_cncl = 0
  <2>1. NoTask \in TaskState /\ NoTask.stat = "none"
    BY DEF NoTask, TaskState
  <2>2. NoHome \in TaskHome /\ NoHome.stat = "none" /\ NoHome.msg_cncl = 0
    BY <1>2 DEF NoHome, TaskHome
  <2> QED
    BY <2>1, <2>2
<1>6. /\ task[Root] \in TaskState /\ task[Root].stat = "started" /\ task[Root].cancellation = 0
      /\ task[Root].frames = <<body>>
  <2>1. task[Root] = [stat |-> "started", pc |-> "run", cancellation |-> 0, frames |-> <<body>>]
    BY <1>1, <1>2, <1>3 DEF Started, NoTask
  <2>2. <<body>> \in Seq(Frame)
    BY <1>4
  <2> QED
    BY <2>1, <2>2 DEF TaskState
<1>7. \A t \in Task \ {Root} : task[t] = NoTask /\ home[t] = NoHome
  BY <1>1, <1>2
<1>8. /\ home[Root] \in TaskHome /\ home[Root].stat = "initialized"
  <2>1. home[Root] = [NoHome EXCEPT !.stat = "initialized"]
    BY <1>1, <1>2
  <2> QED
    BY <1>5, <2>1 DEF TaskHome
<1>9. /\ thr \in [Worker -> Thread]
      /\ T(Main) = <<Root>> /\ \A w \in Worker \ {Main} : T(w) = <<>>
      /\ \A w \in Worker : S(w) = <<>> /\ thr[w].exiting = "normal" /\ ~thr[w].sending
  <2>1. <<Root>> \in Seq(Task) /\ <<>> \in Seq(Task)
    BY <1>2
  <2> QED
    BY <1>1, <1>2, <2>1 DEF Thread, T, S
<1>10. TypeOK
  <2>1. task \in [Task -> TaskState]
    BY <1>1, <1>5, <1>6, <1>7
  <2>2. home \in [Task -> TaskHome]
    BY <1>1, <1>5, <1>7, <1>8
  <2> QED
    BY <1>1, <1>2, <1>9, <2>1, <2>2, TypeParts
<1>11. \A t \in Task : (Alive(t) <=> t = Root) /\ (IsStarted(t) <=> t = Root)
  BY <1>5, <1>6, <1>7 DEF Alive, IsStarted
<1>12. ToSet(T(Main)) = {Root} /\ \A w \in Worker \ {Main} : ToSet(T(w)) = {}
  BY <1>9 DEF ToSet
<1>13. \A w \in Worker : ToSet(S(w)) = {} /\ DOMAIN S(w) = {}
  BY <1>9 DEF ToSet
<1>14. Stacks
  <2>1. \A v, w \in Worker : \A i \in DOMAIN T(v), j \in DOMAIN T(w) :
          T(v)[i] = T(w)[j] => v = w /\ i = j
    BY <1>9
  <2>2. \A w \in Worker : \A i \in DOMAIN T(w) : ~(i < Len(T(w)))
    BY <1>9
  <2>3. \A t \in Task : t > spawned => task[t] = NoTask /\ home[t] = NoHome
    BY <1>1, <1>2, <1>7
  <2> QED
    BY <1>2, <1>9, <1>11, <1>12, <2>1, <2>2, <2>3 DEF Stacks
<1>15. Frames
  <2>1. Framed(<<body>>)
    BY <1>4 DEF Framed
  <2> QED
    BY <1>5, <1>6, <1>7, <1>11, <2>1 DEF Frames
<1>16. \A t : SubtasksOf(t) = {}
  BY <1>13 DEF SubtasksOf, S
<1>17. Subs
  <2>1. \A t \in Task : home[t].stat = "initialized" <=> t = Root
    BY <1>5, <1>7, <1>8
  <2> QED
    BY <1>11, <1>13, <2>1 DEF Subs
<1>18. Nested
  BY <1>13 DEF Nested
<1>19. Counted
  <2> SUFFICES ASSUME NEW t \in Task, IsStarted(t), NEW i \in DOMAIN task[t].frames
               PROVE  Cardinality(SpawnedIn(t, i)) = task[t].frames[i].spn
    BY DEF Counted
  <2>1. t = Root /\ i = 1 /\ task[t].frames[i].spn = 0
    BY <1>4, <1>6, <1>11
  <2>2. SpawnedIn(t, i) = {}
    BY <1>16 DEF SpawnedIn
  <2> QED
    BY <2>1, <2>2, FS_EmptySet
<1>20. CancelAccounting
  <2> SUFFICES ASSUME NEW t \in Task, task[t].stat = "started"
               PROVE  task[t].cancellation \in Cardinality(Thrown(t))
                        ..Cardinality(Thrown(t)) + (IF home[t].msg_cncl = 2 THEN 1 ELSE 0)
    BY DEF CancelAccounting, Thrown
  <2>1. Thrown(t) = {}
    BY <1>16 DEF Thrown
  <2>2. Cardinality(Thrown(t)) = 0 /\ task[t].cancellation = 0
    BY <1>6, <1>11, <2>1, FS_EmptySet DEF IsStarted
  <2>3. PICK d \in {0, 1} : d = IF home[t].msg_cncl = 2 THEN 1 ELSE 0
    OBVIOUS
  <2> QED
    BY <2>2, <2>3
<1>21. CancelReason
  BY <1>9 DEF CancelReason
<1>22. AbortedIfCancelled
  BY <1>5, <1>7, <1>8 DEF AbortedIfCancelled
<1> QED
  BY <1>10, <1>14, <1>15, <1>17, <1>18, <1>19, <1>20, <1>21, <1>22 DEF IInv, Structure

LEMMA NextIInv ==
  ASSUME IInv, [Next]_vars
  PROVE  IInv'
<1>1. ASSUME NEW w \in Worker, Step(w)
      PROVE  IInv'
  <2>1. CASE \E k \in Kind : Enter(w, k, 0)
    <3>1. PICK k \in Kind : Enter(w, k, 0)
      BY <2>1
    <3>2. k \in Kind \cup {"catch"} /\ 0 \in Tag \cup {0}
      OBVIOUS
    <3> QED
      BY <3>1, <3>2, EnterStep
  <2>2. CASE \E g \in Tag : Enter(w, "catch", g) \/ Throw(w, g)
    <3>1. PICK g \in Tag : Enter(w, "catch", g) \/ Throw(w, g)
      BY <2>2
    <3>2. "catch" \in Kind \cup {"catch"} /\ g \in Tag \cup {0}
      OBVIOUS
    <3>3. CASE Enter(w, "catch", g)
      BY <3>2, <3>3, EnterStep
    <3>4. CASE Throw(w, g)
      BY <3>4, ThrowStep
    <3> QED
      BY <3>1, <3>3, <3>4
  <2>3. CASE EndFrame(w)
    BY <2>3, EndFrameStep
  <2>4. CASE StartWait(w)
    BY <2>4, StartWaitStep
  <2>5. CASE PollCncl(w)
    BY <2>5, PollCnclStep
  <2>6. CASE Cancel(w)
    BY <2>6, CancelStep
  <2>7. CASE SendCncl(w)
    BY <2>7, SendCnclStep
  <2>8. CASE SendEnd(w)
    BY <2>8, SendEndStep
  <2>9. CASE WaitCancel(w)
    BY <2>9, WaitCancelStep
  <2>10. CASE WaitEnd(w)
    BY <2>10, WaitEndStep
  <2>11. CASE Unwind(w)
    BY <2>11, UnwindStep
  <2>12. CASE Start(w)
    BY <2>12, StartStep
  <2>13. CASE Finish(w)
    BY <2>13, FinishStep
  <2> QED
    BY <1>1, <2>1, <2>2, <2>3, <2>4, <2>5, <2>6, <2>7, <2>8, <2>9, <2>10, <2>11, <2>12, <2>13
       DEF Step
<1>2. ASSUME NEW w \in Worker, NEW v \in Worker, Spawn(w, v)
      PROVE  IInv'
  BY <1>2, SpawnStep
<1>3. CASE UNCHANGED vars
  <2>1. thr' = thr /\ task' = task /\ home' = home /\ spawned' = spawned /\ entered' = entered
    BY <1>3 DEF vars
  <2>2. /\ TypeOK /\ Stacks /\ Frames /\ Subs /\ Nested /\ Counted
        /\ CancelAccounting /\ CancelReason /\ AbortedIfCancelled
    BY DEF IInv, Structure
  <2>3. TypeOK'
    BY <2>1, <2>2 DEF TypeOK
  <2>4. Stacks'
    BY <2>1, <2>2 DEF Stacks, T, Top, Waiting, IsStarted, Alive, TopFrame
  <2>5. Frames'
    BY <2>1, <2>2 DEF Frames, IsStarted
  <2>6. SameStacks /\ SameFrames /\ SameHomes
    BY <2>1 DEF SameStacks, SameFrames, SameHomes, T, S
  <2>7. Subs' /\ Nested' /\ Counted'
    BY <2>1, <2>2, <2>6, QuietSubs, QuietNested, QuietCounted DEF SameHomes
  <2>8. \A t : Thrown(t)' = Thrown(t)
    BY <2>6, SameThrown
  <2>9. CancelAccounting'
    BY <2>1, <2>2, <2>8, SameAccount DEF IsStarted
  <2>10. CancelReason'
    BY <2>1, <2>2 DEF CancelReason, T, Top, IsStarted, Thrown, SubtasksOf
  <2>11. AbortedIfCancelled'
    BY <2>1, <2>2 DEF AbortedIfCancelled
  <2> QED
    BY <2>3, <2>4, <2>5, <2>7, <2>9, <2>10, <2>11 DEF IInv, Structure
<1> QED
  BY <1>1, <1>2, <1>3 DEF Next

(* The invariant holds of every execution. *)
THEOREM Invariance == Spec => []IInv
<1>1. Init => IInv
  BY InitIInv
<1>2. IInv /\ [Next]_vars => IInv'
  BY NextIInv
<1> QED
  BY <1>1, <1>2, PTL DEF Spec

(* The subtask stacks hold exactly what the open regions have spawned, and   *)
(* wait-rslt takes a subtask of the region it is called for, whichever way   *)
(* regions are left.                                                         *)
THEOREM SubtasksAreOwn == Spec => []OwnSubtasks
<1>1. IInv => OwnSubtasks
  <2> SUFFICES ASSUME IInv
               PROVE  OwnSubtasks
    OBVIOUS
  <2>1. TypeOK /\ Stacks /\ Frames /\ Subs /\ Nested /\ Counted
    BY DEF IInv, Structure
  <2>2. \A w \in Worker : \A s \in ToSet(thr[w].sub) :
          /\ home[s].owner \in ToSet(thr[w].tasks)
          /\ home[s].region \in DOMAIN task[home[s].owner].frames
    BY <2>1 DEF Subs, T, S
  <2>3. \A t \in Task : \A i \in DOMAIN task[t].frames : task[t].stat = "started" =>
          Cardinality({s \in SubtasksOf(t) : home[s].region = i}) = task[t].frames[i].spn
    BY <2>1 DEF Counted, IsStarted, SpawnedIn
  <2>4. ASSUME NEW w \in Worker, WaitsFor(w)
        PROVE  LET s == Last(thr[w].sub) IN
               home[s].owner = Top(w) /\ home[s].region = Len(task[Top(w)].frames)
    BY <2>1, <2>4, OwnSubtask DEF S
  <2> QED
    BY <2>1, <2>2, <2>3, <2>4 DEF OwnSubtasks
<1> QED
  BY <1>1, Invariance, PTL

(* A task's cancellation count is the number of exceptions it has still to   *)
(* take from its subtasks, and its cncl.                                     *)
THEOREM CancellationIsAccounted == Spec => []CancelAccounting
<1>1. IInv => CancelAccounting
  BY DEF IInv
<1> QED
  BY <1>1, Invariance, PTL

(* Only a task that was sent a cncl ends as aborted. *)
THEOREM AbortedWasCancelled == Spec => []AbortedIfCancelled
<1>1. IInv => AbortedIfCancelled
  BY DEF IInv
<1> QED
  BY <1>1, Invariance, PTL

(***************************************************************************)
(* Programs that use do-two only                                           *)
(*                                                                         *)
(* A do-two has at most one subtask at a time, and its worker goes on      *)
(* throwing at once when that subtask has ended with an exception: so a    *)
(* worker that runs is not throwing, and work is given up only where the   *)
(* task that wanted it has been cancelled or is about to leave.  Neither   *)
(* is true of do-many (the run cancel_many violates NoHole).               *)
(***************************************************************************)
NoMany == \A t \in Task : \A i \in DOMAIN task[t].frames : task[t].frames[i].kind # "many"

ExitingAsDone ==
  \A w \in Worker : IF T(w) # <<>> /\ IsStarted(Top(w))
                    THEN thr[w].exiting = "normal" <=> task[Top(w)].pc \in {"run", "wait"}
                    ELSE thr[w].exiting = "normal"

(* Nobody needs what frame i of task t gives up: t has been cancelled, or   *)
(* will throw an exception out of the frame, or is leaving it, as it does   *)
(* with the top one of its n frames when p is "unwind".                     *)
DoomedWith(t, i, p, n) ==
  \/ home[t].msg_cncl = 2
  \/ \E s \in Thrown(t) : home[s].region <= i
  \/ p = "unwind" /\ i = n
Doomed(t, i) == DoomedWith(t, i, task[t].pc, Len(task[t].frames))

HoleReason ==
  \A t \in Task : IsStarted(t) =>
    \A i \in DOMAIN task[t].frames : task[t].frames[i].hole => Doomed(t, i)
FlagReason ==
  \A w \in Worker : \A s \in ToSet(S(w)) :
    home[s].msg_cncl >= 1 => Doomed(home[s].owner, home[s].region)
HoleCancelled ==
  \A t \in Task : home[t].stat = "done" /\ home[t].hole => home[t].msg_cncl = 2
RootSafe == home[Root].msg_cncl = 0

TwoInv == NoMany /\ ExitingAsDone /\ HoleReason /\ FlagReason /\ HoleCancelled /\ RootSafe

(***************************************************************************)
(* Steps of the task on top of a worker's stack                            *)
(***************************************************************************)
LEMMA SameDoom ==
  ASSUME NEW x \in Task, Thrown(x)' = Thrown(x), home' = home, NEW i
  PROVE  Doomed(x, i)' <=> DoomedWith(x, i, task'[x].pc, Len(task'[x].frames))
  BY DEF Doomed, DoomedWith

LEMMA NotLeaving ==
  ASSUME NEW t, NEW i, task[t].pc # "unwind", Doomed(t, i), NEW p, NEW n
  PROVE  DoomedWith(t, i, p, n)
  BY DEF Doomed, DoomedWith

(* The top task t of worker w changes its frames, and what it is doing; *)
(* it may have taken subtasks away from the worker's stack.             *)
LEMMA FramesTwo ==
  ASSUME IInv, TwoInv, home' = home,
         NEW w \in Worker, NEW t, t = Top(w), T(w) # <<>>,
         \A v \in Worker : T(v)' = T(v) /\ ToSet(S(v)') \subseteq ToSet(S(v)),
         \A x \in Task \ {t} : task'[x] = task[x] /\ Thrown(x)' = Thrown(x),
         \A v \in Worker \ {w} : thr'[v].exiting = thr[v].exiting,
         task'[t].stat = "started",
         thr'[w].exiting = "normal" <=> task'[t].pc \in {"run", "wait"},
         \A i \in DOMAIN task'[t].frames :
           /\ task'[t].frames[i].kind # "many"
           /\ task'[t].frames[i].hole => Doomed(t, i)',
         \A s \in SubtasksOf(t)' : home[s].msg_cncl >= 1 => Doomed(t, home[s].region)'
  PROVE  TwoInv'
<1>1. /\ TypeOK /\ Stacks /\ Subs /\ t \in Task /\ t \in ToSet(T(w))
      /\ NoMany /\ ExitingAsDone /\ HoleReason /\ FlagReason /\ HoleCancelled /\ RootSafe
  <2>1. /\ TypeOK /\ Stacks /\ Subs
        /\ NoMany /\ ExitingAsDone /\ HoleReason /\ FlagReason /\ HoleCancelled /\ RootSafe
    BY DEF IInv, Structure, TwoInv
  <2> QED
    BY <2>1, TopIs
<1>2. \A x \in Task : \A i : x # t => (Doomed(x, i)' <=> Doomed(x, i))
  <2> TAKE x \in Task
  <2> TAKE i
  <2> HAVE x # t
  <2>1. Doomed(x, i)' <=> DoomedWith(x, i, task'[x].pc, Len(task'[x].frames))
    BY SameDoom
  <2> QED
    BY <2>1 DEF Doomed
<1>3. NoMany'
  BY <1>1 DEF NoMany
<1>4. ExitingAsDone'
  <2> SUFFICES ASSUME NEW v \in Worker
               PROVE  IF T(v)' # <<>> /\ task'[Top(v)'].stat = "started"
                      THEN thr'[v].exiting = "normal" <=> task'[Top(v)'].pc \in {"run", "wait"}
                      ELSE thr'[v].exiting = "normal"
    BY DEF ExitingAsDone, IsStarted
  <2>1. T(v)' = T(v) /\ Top(v)' = Top(v)
    BY SameTop
  <2>2. CASE v = w
    BY <2>1, <2>2
  <2>3. CASE v # w
    <3>1. T(v) # <<>> => Top(v) \in Task /\ Top(v) # t
      BY <1>1, <2>3, TopIs, OtherTop
    <3> QED
      BY <1>1, <2>1, <2>3, <3>1 DEF ExitingAsDone, IsStarted
  <2> QED
    BY <2>2, <2>3
<1>5. HoleReason'
  <2> SUFFICES ASSUME NEW x \in Task, task'[x].stat = "started",
                      NEW i \in DOMAIN task'[x].frames, task'[x].frames[i].hole
               PROVE  Doomed(x, i)'
    BY DEF HoleReason, IsStarted
  <2>1. CASE x = t
    BY <2>1
  <2>2. CASE x # t
    BY <1>1, <1>2, <2>2 DEF HoleReason, IsStarted
  <2> QED
    BY <2>1, <2>2
<1>6. FlagReason'
  <2> SUFFICES ASSUME NEW v \in Worker, NEW s \in ToSet(S(v)'), home'[s].msg_cncl >= 1
               PROVE  Doomed(home[s].owner, home[s].region)'
    BY DEF FlagReason
  <2>1. s \in ToSet(S(v)) /\ home[s].msg_cncl >= 1 /\ s \in Task
    BY <1>1, Types
  <2>2. PICK x, i : x \in Task /\ x = home[s].owner /\ i = home[s].region
    BY <1>1, <2>1, Types
  <2>3. Doomed(x, i)
    BY <1>1, <2>1, <2>2 DEF FlagReason
  <2>4. CASE x = t
    <3>1. s \in SubtasksOf(t)'
      BY <2>1, <2>2, <2>4 DEF SubtasksOf, S
    <3>2. Doomed(t, i)'
      BY <2>1, <2>2, <3>1
    <3>3. t = home[s].owner /\ i = home[s].region
      BY <2>2, <2>4
    <3> QED
      BY <3>2, <3>3
  <2>5. CASE x # t
    <3>1. Doomed(x, i)'
      BY <1>2, <2>2, <2>3, <2>5
    <3> QED
      BY <2>2, <3>1
  <2> QED
    BY <2>4, <2>5
<1>7. HoleCancelled' /\ RootSafe'
  BY <1>1 DEF HoleCancelled, RootSafe
<1> QED
  BY <1>3, <1>4, <1>5, <1>6, <1>7 DEF TwoInv

LEMMA OwnFrames ==
  ASSUME IInv, TwoInv, SameStacks, home' = home,
         NEW w \in Worker, NEW t, t = Top(w), T(w) # <<>>,
         \A x \in Task \ {t} : task'[x] = task[x],
         \A v \in Worker \ {w} : thr'[v].exiting = thr[v].exiting,
         task'[t].stat = "started",
         thr'[w].exiting = "normal" <=> task'[t].pc \in {"run", "wait"},
         \A i \in DOMAIN task'[t].frames :
           /\ task'[t].frames[i].kind # "many"
           /\ task'[t].frames[i].hole => DoomedWith(t, i, task'[t].pc, Len(task'[t].frames)),
         \A s \in SubtasksOf(t) : home[s].msg_cncl >= 1 =>
           DoomedWith(t, home[s].region, task'[t].pc, Len(task'[t].frames))
  PROVE  TwoInv'
<1>1. t \in Task
  BY TopIs DEF IInv
<1>2. \A x : Thrown(x)' = Thrown(x)
  BY SameThrown DEF SameHomes
<1>3. \A i : Doomed(t, i)' <=> DoomedWith(t, i, task'[t].pc, Len(task'[t].frames))
  BY <1>1, <1>2, SameDoom
<1>4. SubtasksOf(t)' = SubtasksOf(t)
  BY SameSubtasks
<1>5. \A v \in Worker : T(v)' = T(v) /\ ToSet(S(v)') \subseteq ToSet(S(v))
  BY DEF SameStacks
<1>6. \A i \in DOMAIN task'[t].frames :
        /\ task'[t].frames[i].kind # "many"
        /\ task'[t].frames[i].hole => Doomed(t, i)'
  BY <1>3
<1>7. \A s \in SubtasksOf(t)' : home[s].msg_cncl >= 1 => Doomed(t, home[s].region)'
  BY <1>3, <1>4
<1> QED
  BY <1>2, <1>5, <1>6, <1>7, FramesTwo

(* ... but its frames do not change, and if it is backtracking it goes on. *)
LEMMA OwnStep ==
  ASSUME IInv, TwoInv, SameStacks, home' = home,
         NEW w \in Worker, NEW t, t = Top(w), T(w) # <<>>,
         \A x \in Task \ {t} : task'[x] = task[x],
         \A v \in Worker \ {w} : thr'[v].exiting = thr[v].exiting,
         IsStarted(t), task[t].pc = "unwind" => task'[t].pc = "unwind",
         task'[t].stat = "started", task'[t].frames = task[t].frames,
         thr'[w].exiting = "normal" <=> task'[t].pc \in {"run", "wait"}
  PROVE  TwoInv'
<1>1. TypeOK /\ t \in Task /\ NoMany /\ HoleReason /\ FlagReason
  <2>1. TypeOK /\ NoMany /\ HoleReason /\ FlagReason
    BY DEF IInv, TwoInv
  <2> QED
    BY <2>1, TopIs
<1>2. ASSUME NEW i \in DOMAIN task[t].frames, task[t].frames[i].hole
      PROVE  DoomedWith(t, i, task'[t].pc, Len(task'[t].frames))
  <2>1. Doomed(t, i)
    BY <1>1, <1>2 DEF HoleReason
  <2> QED
    BY <2>1 DEF Doomed, DoomedWith
<1>3. ASSUME NEW s \in SubtasksOf(t), home[s].msg_cncl >= 1
      PROVE  DoomedWith(t, home[s].region, task'[t].pc, Len(task'[t].frames))
  <2>1. Doomed(t, home[s].region)
    BY <1>1, <1>3 DEF FlagReason, SubtasksOf, S
  <2> QED
    BY <2>1 DEF Doomed, DoomedWith
<1> QED
  BY <1>1, <1>2, <1>3, OwnFrames DEF NoMany

LEMMA Acts ==
  ASSUME IInv, TwoInv, NEW w \in Worker, thr[w].tasks # <<>>, task[Top(w)].stat = "started"
  PROVE  /\ TypeOK /\ Structure /\ Stacks /\ Frames /\ Subs /\ Nested /\ Counted
         /\ AbortedIfCancelled
         /\ NoMany /\ ExitingAsDone /\ HoleReason /\ FlagReason /\ HoleCancelled /\ RootSafe
         /\ T(w) # <<>> /\ IsStarted(Top(w)) /\ Top(w) \in Task
         /\ Framed(task[Top(w)].frames) /\ task[Top(w)].frames \in Seq(Frame)
         /\ thr[w].exiting = "normal" <=> task[Top(w)].pc \in {"run", "wait"}
         /\ task \in [Task -> TaskState] /\ thr \in [Worker -> Thread]
         /\ home \in [Task -> TaskHome]
<1>1. /\ TypeOK /\ Structure /\ Stacks /\ Frames /\ Subs /\ Nested /\ Counted
      /\ AbortedIfCancelled /\ T(w) # <<>> /\ IsStarted(Top(w)) /\ Top(w) \in Task
      /\ Framed(task[Top(w)].frames)
  BY Acting
<1>2. NoMany /\ ExitingAsDone /\ HoleReason /\ FlagReason /\ HoleCancelled /\ RootSafe
  BY DEF TwoInv
<1>3. thr[w].exiting = "normal" <=> task[Top(w)].pc \in {"run", "wait"}
  BY <1>1, <1>2 DEF ExitingAsDone
<1>4. /\ task \in [Task -> TaskState] /\ thr \in [Worker -> Thread] /\ home \in [Task -> TaskHome]
      /\ task[Top(w)].frames \in Seq(Frame)
  BY <1>1, Types, TypeParts
<1> QED
  BY <1>1, <1>2, <1>3, <1>4

LEMMA ThrowTwo ==
  ASSUME IInv, TwoInv, NEW w \in Worker, NEW g \in Tag, Throw(w, g)
  PROVE  TwoInv'
<1>1. /\ T(w) # <<>> /\ IsStarted(Top(w)) /\ Top(w) \in Task /\ task[Top(w)].pc = "run"
      /\ task \in [Task -> TaskState] /\ thr \in [Worker -> Thread]
  BY Acts DEF Throw, Running, Busy
<1>2. /\ thr' = [thr EXCEPT ![w].exiting = "exception", ![w].tag = g]
      /\ task' = [task EXCEPT ![Top(w)].pc = "unwind"]
      /\ home' = home
  BY DEF Throw
<1>3. /\ \A x \in Task \ {Top(w)} : task'[x] = task[x]
      /\ task'[Top(w)].pc = "unwind" /\ task'[Top(w)].stat = "started"
      /\ task'[Top(w)].frames = task[Top(w)].frames
  BY <1>1, <1>2 DEF TaskState, IsStarted
<1>4. /\ SameStacks /\ \A v \in Worker \ {w} : thr'[v].exiting = thr[v].exiting
      /\ thr'[w].exiting = "exception"
  BY <1>1, <1>2 DEF SameStacks, T, S, Thread
<1> QED
  BY <1>1, <1>2, <1>3, <1>4, OwnStep

LEMMA StartWaitTwo ==
  ASSUME IInv, TwoInv, NEW w \in Worker, StartWait(w)
  PROVE  TwoInv'
<1>1. /\ T(w) # <<>> /\ IsStarted(Top(w)) /\ Top(w) \in Task /\ task[Top(w)].pc = "run"
      /\ thr[w].exiting = "normal" /\ task \in [Task -> TaskState]
  BY Acts DEF StartWait, Running, Busy
<1>2. task' = [task EXCEPT ![Top(w)].pc = "wait"] /\ thr' = thr /\ home' = home
  BY DEF StartWait
<1>3. /\ \A x \in Task \ {Top(w)} : task'[x] = task[x]
      /\ task'[Top(w)].pc = "wait" /\ task'[Top(w)].stat = "started"
      /\ task'[Top(w)].frames = task[Top(w)].frames
  BY <1>1, <1>2 DEF TaskState, IsStarted
<1>4. SameStacks
  BY <1>2 DEF SameStacks, T, S
<1> QED
  BY <1>1, <1>2, <1>3, <1>4, OwnStep

LEMMA PollCnclTwo ==
  ASSUME IInv, TwoInv, NEW w \in Worker, PollCncl(w)
  PROVE  TwoInv'
<1>1. /\ T(w) # <<>> /\ IsStarted(Top(w)) /\ Top(w) \in Task /\ task[Top(w)].pc = "run"
      /\ thr[w].exiting = "normal" /\ thr \in [Worker -> Thread]
  BY Acts DEF PollCncl, Running, Busy
<1>2. thr' = [thr EXCEPT ![w].sending = TRUE] /\ task' = task /\ home' = home
  BY DEF PollCncl
<1>3. /\ SameStacks /\ \A v \in Worker \ {w} : thr'[v].exiting = thr[v].exiting
      /\ thr'[w].exiting = "normal"
  BY <1>1, <1>2 DEF SameStacks, T, S, Thread
<1> QED
  BY <1>1, <1>2, <1>3, OwnStep DEF IsStarted

LEMMA CancelTwo ==
  ASSUME IInv, TwoInv, NEW w \in Worker, Cancel(w)
  PROVE  TwoInv'
<1>1. /\ T(w) # <<>> /\ IsStarted(Top(w)) /\ Top(w) \in Task /\ task[Top(w)].pc = "run"
      /\ task \in [Task -> TaskState] /\ thr \in [Worker -> Thread]
  BY Acts DEF Cancel, Running, Busy
<1>2. /\ thr' = [thr EXCEPT ![w].exiting = "cancel"]
      /\ task' = [task EXCEPT ![Top(w)].pc = "unwind"]
      /\ home' = home
  BY DEF Cancel
<1>3. /\ \A x \in Task \ {Top(w)} : task'[x] = task[x]
      /\ task'[Top(w)].pc = "unwind" /\ task'[Top(w)].stat = "started"
      /\ task'[Top(w)].frames = task[Top(w)].frames
  BY <1>1, <1>2 DEF TaskState, IsStarted
<1>4. /\ SameStacks /\ \A v \in Worker \ {w} : thr'[v].exiting = thr[v].exiting
      /\ thr'[w].exiting = "cancel"
  BY <1>1, <1>2 DEF SameStacks, T, S, Thread
<1> QED
  BY <1>1, <1>2, <1>3, <1>4, OwnStep
LEMMA SendEndTwo ==
  ASSUME IInv, TwoInv, NEW w \in Worker, SendEnd(w)
  PROVE  TwoInv'
<1> DEFINE cancelled == task[Top(w)].pc = "run" /\ task[Top(w)].cancellation > 0
<1>1. T(w) # <<>> /\ IsStarted(Top(w))
  BY DEF SendEnd, IInv, Structure, Stacks
<1>2. /\ Top(w) \in Task /\ task \in [Task -> TaskState] /\ thr \in [Worker -> Thread]
      /\ thr[w].exiting = "normal" <=> task[Top(w)].pc \in {"run", "wait"}
  BY <1>1, Acts DEF T, IsStarted
<1>3. PICK polled \in BOOLEAN :
        thr' = [thr EXCEPT ![w].sending = FALSE,
                           ![w].req_cncl = @ /\ ~polled,
                           ![w].exiting = IF cancelled THEN "cancel" ELSE @]
  BY DEF SendEnd
<1>4. task' = [task EXCEPT ![Top(w)].pc = IF cancelled THEN "unwind" ELSE @] /\ home' = home
  BY DEF SendEnd
<1>5. PICK c \in BOOLEAN : c = cancelled
  OBVIOUS
<1>6. c => task[Top(w)].pc = "run"
  BY <1>5
<1> HIDE DEF cancelled
<1>7. PICK r : r = [thr[w] EXCEPT !.sending = FALSE, !.req_cncl = thr[w].req_cncl /\ ~polled,
                                  !.exiting = IF c THEN "cancel" ELSE thr[w].exiting]
  OBVIOUS
<1>8. r.tasks = thr[w].tasks /\ r.sub = thr[w].sub
      /\ r.exiting = IF c THEN "cancel" ELSE thr[w].exiting
  BY <1>2, <1>7 DEF Thread
<1>9. thr' = [thr EXCEPT ![w] = r]
  BY <1>2, <1>3, <1>5, <1>7
<1>10. /\ SameStacks /\ \A v \in Worker \ {w} : thr'[v].exiting = thr[v].exiting
       /\ thr'[w].exiting = IF c THEN "cancel" ELSE thr[w].exiting
  BY <1>2, <1>8, <1>9 DEF SameStacks, T, S
<1>11. /\ \A x \in Task \ {Top(w)} : task'[x] = task[x]
       /\ task'[Top(w)].pc = (IF c THEN "unwind" ELSE task[Top(w)].pc)
       /\ task'[Top(w)].stat = "started" /\ task'[Top(w)].frames = task[Top(w)].frames
  BY <1>1, <1>2, <1>4, <1>5 DEF TaskState, IsStarted
<1> QED
  BY <1>1, <1>2, <1>4, <1>6, <1>10, <1>11, OwnStep

(***************************************************************************)
(* Frames are entered and left                                             *)
(***************************************************************************)
(* What was given up in the frame that is left is missing in the one below. *)
LEMMA Below ==
  ASSUME NEW fs \in Seq(Frame), Framed(fs), Last(fs).kind # "body", NEW b \in BOOLEAN
  PROVE  LET n == Len(fs) IN
         /\ n \in Nat /\ n - 1 \in 1..n /\ DOMAIN fs = 1..n
         /\ DOMAIN Front(fs) = 1..n - 1 /\ Len(Front(fs)) = n - 1
         /\ \A i \in 1..n - 1 : Front(fs)[i] = fs[i]
         /\ DOMAIN Leave(fs, b) = 1..n - 1 /\ Len(Leave(fs, b)) = n - 1
         /\ \A i \in 1..n - 1 :
              /\ Leave(fs, b)[i].kind = fs[i].kind
              /\ Leave(fs, b)[i].hole <=> fs[i].hole \/ (i = n - 1 /\ (fs[n].hole \/ b))
<1> DEFINE n == Len(fs)
<1>1. /\ Front(fs) \in Seq(Frame) /\ Len(Front(fs)) = n - 1
      /\ DOMAIN Front(fs) = 1..n - 1 /\ DOMAIN fs = 1..n
      /\ \A i \in 1..n - 1 : i \in DOMAIN fs /\ Front(fs)[i] = fs[i]
      /\ n \in DOMAIN fs /\ n \in Nat \ {0} /\ Last(fs) = fs[n]
  <2>1. fs # <<>>
    BY DEF Framed
  <2> QED
    BY <2>1, FrontOf
<1> HIDE DEF n
<1>2. n > 1
  BY <1>1 DEF Framed
<1>3. PICK gs : gs = Front(fs)
  OBVIOUS
<1>4. PICK h \in BOOLEAN : h = (gs[n - 1].hole \/ Last(fs).hole \/ b)
  OBVIOUS
<1>5. /\ n - 1 \in DOMAIN gs /\ gs[n - 1] \in Frame /\ gs \in Seq(Frame) /\ DOMAIN gs = 1..n - 1
      /\ gs[n - 1] = fs[n - 1]
  BY <1>1, <1>2, <1>3, ElementOfSeq
<1>6. PICK g : g = [gs[n - 1] EXCEPT !.hole = h]
  OBVIOUS
<1>7. g.kind = fs[n - 1].kind /\ g.hole = h /\ g \in Frame
  BY <1>5, <1>6 DEF Frame
<1>8. Leave(fs, b) = [gs EXCEPT ![n - 1] = g]
  <2>1. Leave(fs, b) = [gs EXCEPT ![n - 1].hole = @ \/ Last(fs).hole \/ b]
    BY <1>1, <1>3 DEF Leave
  <2> QED
    BY <1>4, <1>6, <2>1
<1>9. PICK ls : ls = [gs EXCEPT ![n - 1] = g]
  OBVIOUS
<1>10. /\ DOMAIN ls = 1..n - 1 /\ Len(ls) = n - 1
       /\ \A i \in 1..n - 1 : ls[i] = IF i = n - 1 THEN g ELSE fs[i]
  <2>1. ls \in Seq(Frame) /\ DOMAIN ls = 1..n - 1 /\ Len(ls) = n - 1
    BY <1>1, <1>3, <1>5, <1>7, <1>9, ExceptSeq
  <2>2. \A i \in 1..n - 1 : gs[i] = fs[i]
    BY <1>1, <1>3
  <2> QED
    BY <1>5, <1>9, <2>1, <2>2
<1>11. h <=> fs[n - 1].hole \/ fs[n].hole \/ b
  BY <1>1, <1>4, <1>5
<1>12. \A i \in 1..n - 1 :
         /\ ls[i].kind = fs[i].kind
         /\ ls[i].hole <=> fs[i].hole \/ (i = n - 1 /\ (fs[n].hole \/ b))
  BY <1>7, <1>10, <1>11
<1>13. PICK m : m = n
  OBVIOUS
<1>14. PICK ms : ms = Leave(fs, b)
  OBVIOUS
<1>15. /\ m \in Nat /\ m - 1 \in 1..m /\ DOMAIN fs = 1..m
       /\ DOMAIN Front(fs) = 1..m - 1 /\ Len(Front(fs)) = m - 1
       /\ \A i \in 1..m - 1 : Front(fs)[i] = fs[i]
  BY <1>1, <1>2, <1>13
<1>16. ms = ls
  BY <1>8, <1>9, <1>14
<1>17. /\ DOMAIN ms = 1..m - 1 /\ Len(ms) = m - 1
       /\ \A i \in 1..m - 1 :
            /\ ms[i].kind = fs[i].kind
            /\ ms[i].hole <=> fs[i].hole \/ (i = m - 1 /\ (fs[m].hole \/ b))
  BY <1>10, <1>12, <1>13, <1>16
<1>18. m = Len(fs)
  BY <1>13 DEF n
<1> QED
  BY <1>14, <1>15, <1>17, <1>18

(* A region with nothing left to wait for is not the reason of anything. *)
LEMMA NothingLeft ==
  ASSUME TypeOK, Subs, Counted, NEW t \in Task, IsStarted(t),
         NEW n \in DOMAIN task[t].frames, n = Len(task[t].frames), task[t].frames[n].spn = 0
  PROVE  /\ \A s \in SubtasksOf(t) : home[s].region \in 1..n - 1
         /\ Doomed(t, n) /\ task[t].pc # "unwind" => \A p, m : DoomedWith(t, n - 1, p, m)
<1>1. DOMAIN task[t].frames = 1..n /\ n \in Nat
  BY Types, LenProperties
<1>2. ASSUME NEW s \in SubtasksOf(t)
      PROVE  home[s].region \in 1..n - 1
  <2>1. home[s].region \in DOMAIN task[t].frames /\ s \in SpawnedIn(t, home[s].region)
    BY DEF SubtasksOf, Subs, S, SpawnedIn
  <2>2. home[s].region # n
    BY <2>1, HasSpawned
  <2> QED
    BY <1>1, <2>1, <2>2
<1>3. \A s \in Thrown(t) : home[s].region <= n - 1
  BY <1>1, <1>2 DEF Thrown
<1> QED
  BY <1>2, <1>3 DEF Doomed, DoomedWith

LEMMA EnterTwo ==
  ASSUME IInv, TwoInv, NEW w \in Worker, NEW k, k # "many", NEW g, Enter(w, k, g)
  PROVE  TwoInv'
<1>1. /\ T(w) # <<>> /\ IsStarted(Top(w)) /\ Top(w) \in Task /\ task[Top(w)].pc = "run"
      /\ task[Top(w)].frames \in Seq(Frame) /\ NoMany /\ HoleReason /\ FlagReason
      /\ thr[w].exiting = "normal" /\ task \in [Task -> TaskState]
  BY Acts DEF Enter, Running, Busy
<1>2. PICK t, fs, f : t = Top(w) /\ fs = task[t].frames /\ f = NewFrame(k, g)
  OBVIOUS
<1>3. f.kind = k /\ ~f.hole
  BY <1>2 DEF NewFrame
<1>4. task' = [task EXCEPT ![t].frames = Append(fs, f)] /\ thr' = thr /\ home' = home
  BY <1>2 DEF Enter
<1>5. /\ \A x \in Task \ {t} : task'[x] = task[x]
      /\ task'[t].pc = "run" /\ task'[t].stat = "started"
      /\ task'[t].frames = Append(fs, f)
  BY <1>1, <1>2, <1>4 DEF TaskState, IsStarted
<1>6. /\ DOMAIN Append(fs, f) = 1..Len(fs) + 1 /\ DOMAIN fs = 1..Len(fs) /\ Len(fs) \in Nat
      /\ \A i \in 1..Len(fs) : Append(fs, f)[i] = fs[i]
      /\ Append(fs, f)[Len(fs) + 1] = f
  BY <1>1, <1>2, LenProperties
<1>7. SameStacks
  BY <1>4 DEF SameStacks, T, S
<1>8. ASSUME NEW i \in DOMAIN task'[t].frames
      PROVE  /\ task'[t].frames[i].kind # "many"
             /\ task'[t].frames[i].hole => DoomedWith(t, i, task'[t].pc, Len(task'[t].frames))
  <2>1. CASE i = Len(fs) + 1
    BY <1>3, <1>5, <1>6, <2>1
  <2>2. CASE i # Len(fs) + 1
    <3>1. i \in DOMAIN fs /\ task'[t].frames[i] = fs[i]
      BY <1>5, <1>6, <1>8, <2>2
    <3>2. fs[i].hole => Doomed(t, i)
      BY <1>1, <1>2, <3>1 DEF HoleReason
    <3>3. fs[i].kind # "many"
      BY <1>1, <1>2, <3>1 DEF NoMany
    <3> QED
      BY <1>1, <1>2, <3>1, <3>2, <3>3, NotLeaving
  <2> QED
    BY <2>1, <2>2
<1>9. ASSUME NEW s \in SubtasksOf(t), home[s].msg_cncl >= 1
      PROVE  DoomedWith(t, home[s].region, task'[t].pc, Len(task'[t].frames))
  <2>1. Doomed(t, home[s].region)
    BY <1>1, <1>9 DEF FlagReason, SubtasksOf, S
  <2> QED
    BY <1>1, <1>2, <2>1, NotLeaving
<1> QED
  BY <1>1, <1>2, <1>4, <1>5, <1>7, <1>8, <1>9, OwnFrames

LEMMA EndFrameTwo ==
  ASSUME IInv, TwoInv, NEW w \in Worker, EndFrame(w)
  PROVE  TwoInv'
<1>1. /\ T(w) # <<>> /\ IsStarted(Top(w)) /\ Top(w) \in Task /\ task[Top(w)].pc \in {"run", "wait"}
      /\ task[Top(w)].frames \in Seq(Frame) /\ NoMany /\ HoleReason /\ FlagReason
      /\ Framed(task[Top(w)].frames)
      /\ thr[w].exiting = "normal" /\ task \in [Task -> TaskState]
      /\ TypeOK /\ Subs /\ Counted
  BY Acts DEF EndFrame, Busy
<1>2. PICK t, fs : t = Top(w) /\ fs = task[t].frames
  OBVIOUS
<1>3. PICK n, gs : n = Len(fs) /\ gs = Leave(fs, FALSE)
  OBVIOUS
<1>4. task' = [task EXCEPT ![t].frames = gs, ![t].pc = "run"] /\ thr' = thr /\ home' = home
  BY <1>1, <1>2, <1>3 DEF EndFrame
<1>5. /\ \A x \in Task \ {t} : task'[x] = task[x]
      /\ task'[t].pc = "run" /\ task'[t].stat = "started" /\ task'[t].frames = gs
  BY <1>1, <1>2, <1>4 DEF TaskState, IsStarted
<1>6. Last(fs).kind # "body" /\ Last(fs).spn = 0 /\ Last(fs) = fs[n]
  BY <1>2, <1>3 DEF EndFrame, TopFrame, NoneLeft, Last
<1>7. /\ n \in Nat /\ n - 1 \in 1..n /\ DOMAIN fs = 1..n /\ DOMAIN gs = 1..n - 1
      /\ \A i \in 1..n - 1 : /\ gs[i].kind = fs[i].kind
                             /\ gs[i].hole <=> fs[i].hole \/ (i = n - 1 /\ fs[n].hole)
  <2>1. fs \in Seq(Frame) /\ Framed(fs)
    BY <1>1, <1>2
  <2>2. PICK b \in BOOLEAN : b = FALSE
    OBVIOUS
  <2>3. gs = Leave(fs, b) /\ Last(fs).kind # "body"
    BY <1>3, <1>6, <2>2
  <2>4. LET m == Len(fs) IN
        /\ m \in Nat /\ m - 1 \in 1..m /\ DOMAIN fs = 1..m
        /\ DOMAIN Leave(fs, b) = 1..m - 1
        /\ \A i \in 1..m - 1 :
             /\ Leave(fs, b)[i].kind = fs[i].kind
             /\ Leave(fs, b)[i].hole <=> fs[i].hole \/ (i = m - 1 /\ (fs[m].hole \/ b))
    BY <2>1, <2>3, Below, Zenon
  <2> QED
    BY <1>3, <2>2, <2>3, <2>4
<1>8. /\ \A s \in SubtasksOf(t) : home[s].region \in 1..n - 1
      /\ Doomed(t, n) => \A p, m : DoomedWith(t, n - 1, p, m)
  <2>1. t \in Task /\ IsStarted(t) /\ task[t].pc # "unwind" /\ TypeOK /\ Subs /\ Counted
    BY <1>1, <1>2
  <2>2. n \in DOMAIN task[t].frames /\ n = Len(task[t].frames) /\ task[t].frames[n].spn = 0
    BY <1>2, <1>3, <1>6, <1>7
  <2> QED
    BY <2>1, <2>2, NothingLeft
<1>9. SameStacks
  BY <1>4 DEF SameStacks, T, S
<1>10. ASSUME NEW i \in DOMAIN task'[t].frames
       PROVE  /\ task'[t].frames[i].kind # "many"
              /\ task'[t].frames[i].hole => DoomedWith(t, i, task'[t].pc, Len(task'[t].frames))
  <2>1. /\ i \in 1..n - 1 /\ i \in DOMAIN fs /\ n \in DOMAIN fs /\ gs[i].kind = fs[i].kind
        /\ gs[i].hole => fs[i].hole \/ (i = n - 1 /\ fs[n].hole)
    BY <1>5, <1>7, <1>10
  <2>2. fs[i].kind # "many"
    BY <1>1, <1>2, <2>1 DEF NoMany
  <2>3. fs[i].hole => Doomed(t, i)
    BY <1>1, <1>2, <2>1 DEF HoleReason
  <2>4. fs[n].hole => Doomed(t, n)
    BY <1>1, <1>2, <2>1 DEF HoleReason
  <2>5. Doomed(t, i) => DoomedWith(t, i, task'[t].pc, Len(task'[t].frames))
    BY <1>1, <1>2, NotLeaving
  <2> QED
    BY <1>5, <1>8, <2>1, <2>2, <2>3, <2>4, <2>5
<1>11. ASSUME NEW s \in SubtasksOf(t), home[s].msg_cncl >= 1
       PROVE  DoomedWith(t, home[s].region, task'[t].pc, Len(task'[t].frames))
  <2>1. Doomed(t, home[s].region)
    BY <1>1, <1>11 DEF FlagReason, SubtasksOf, S
  <2> QED
    BY <1>1, <1>2, <2>1, NotLeaving
<1> QED
  BY <1>1, <1>2, <1>4, <1>5, <1>9, <1>10, <1>11, OwnFrames

LEMMA UnwindTwo ==
  ASSUME IInv, TwoInv, NEW w \in Worker, Unwind(w)
  PROVE  TwoInv'
<1>1. /\ T(w) # <<>> /\ IsStarted(Top(w)) /\ Top(w) \in Task /\ task[Top(w)].pc = "unwind"
      /\ task[Top(w)].frames \in Seq(Frame) /\ NoMany /\ HoleReason /\ FlagReason
      /\ Framed(task[Top(w)].frames)
      /\ thr[w].exiting # "normal" /\ task \in [Task -> TaskState] /\ thr \in [Worker -> Thread]
      /\ TypeOK /\ Subs /\ Counted
  <2>1. /\ T(w) # <<>> /\ TypeOK /\ Stacks /\ Frames
        /\ thr[w].tasks # <<>> /\ task[Top(w)].pc = "unwind"
    BY DEF Unwind, Busy, T, IInv, Structure
  <2>2. Alive(Top(w)) /\ Top(w) \in Task
    BY <2>1, TopAlive
  <2>3. task[Top(w)].stat = "started"
    BY <2>1, <2>2 DEF Frames, Alive
  <2> QED
    BY <2>1, <2>3, Acts
<1>2. PICK t, fs : t = Top(w) /\ fs = task[t].frames
  OBVIOUS
<1>3. PICK n, gs : n = Len(fs) /\ gs = Front(fs)
  OBVIOUS
<1>4. PICK caught \in BOOLEAN :
        /\ task' = [task EXCEPT ![t].frames = gs, ![t].pc = IF caught THEN "run" ELSE @]
        /\ thr' = [thr EXCEPT ![w].exiting = IF caught THEN "normal" ELSE @]
        /\ home' = home
  BY <1>2, <1>3 DEF Unwind
<1>5. /\ \A x \in Task \ {t} : task'[x] = task[x]
      /\ task'[t].pc = (IF caught THEN "run" ELSE "unwind")
      /\ task'[t].stat = "started" /\ task'[t].frames = gs
  BY <1>1, <1>2, <1>4 DEF TaskState, IsStarted
<1>6. Last(fs).kind # "body" /\ Last(fs).spn = 0 /\ Last(fs) = fs[n]
  BY <1>2, <1>3 DEF Unwind, TopFrame, NoneLeft, Last
<1>7. /\ n \in Nat /\ n - 1 \in 1..n /\ DOMAIN fs = 1..n /\ DOMAIN gs = 1..n - 1
      /\ \A i \in 1..n - 1 : gs[i] = fs[i]
  BY <1>1, <1>2, <1>3, <1>6, Below
<1>8. \A s \in SubtasksOf(t) : home[s].region \in 1..n - 1
  BY <1>1, <1>2, <1>3, <1>6, <1>7, NothingLeft
<1>9. /\ SameStacks /\ \A v \in Worker \ {w} : thr'[v].exiting = thr[v].exiting
      /\ thr'[w].exiting = IF caught THEN "normal" ELSE thr[w].exiting
  BY <1>1, <1>4 DEF SameStacks, T, S, Thread
<1>10. \A i \in 1..n - 1 : Doomed(t, i) => \A p, m : DoomedWith(t, i, p, m)
  BY <1>2, <1>3, <1>7 DEF Doomed, DoomedWith
<1>11. ASSUME NEW i \in DOMAIN task'[t].frames
       PROVE  /\ task'[t].frames[i].kind # "many"
              /\ task'[t].frames[i].hole => DoomedWith(t, i, task'[t].pc, Len(task'[t].frames))
  <2>1. i \in 1..n - 1 /\ i \in DOMAIN fs /\ gs[i] = fs[i]
    BY <1>5, <1>7, <1>11
  <2>2. fs[i].kind # "many"
    BY <1>1, <1>2, <2>1 DEF NoMany
  <2>3. fs[i].hole => Doomed(t, i)
    BY <1>1, <1>2, <2>1 DEF HoleReason
  <2> QED
    BY <1>5, <1>10, <2>1, <2>2, <2>3
<1>12. ASSUME NEW s \in SubtasksOf(t), home[s].msg_cncl >= 1
       PROVE  DoomedWith(t, home[s].region, task'[t].pc, Len(task'[t].frames))
  <2>1. Doomed(t, home[s].region)
    BY <1>1, <1>12 DEF FlagReason, SubtasksOf, S
  <2> QED
    BY <1>8, <1>10, <2>1
<1> QED
  BY <1>1, <1>2, <1>4, <1>5, <1>9, <1>11, <1>12, OwnFrames

LEMMA StartTwo ==
  ASSUME IInv, TwoInv, NEW w \in Worker, Start(w)
  PROVE  TwoInv'
<1>1. /\ T(w) # <<>> /\ TypeOK /\ Stacks /\ Frames /\ Subs /\ ExitingAsDone /\ Top(w) \in Task
      /\ task[Top(w)].stat = "initialized" /\ task \in [Task -> TaskState]
  <2>1. T(w) # <<>> /\ TypeOK /\ Stacks /\ Frames /\ Subs /\ ExitingAsDone
        /\ task[Top(w)].stat = "initialized"
    BY DEF IInv, TwoInv, Structure, Start, Busy, T
  <2> QED
    BY <2>1, TopIs, TypeParts
<1>2. PICK t, f : t = Top(w) /\ f = NewFrame("body", 0)
  OBVIOUS
<1>3. f.kind = "body" /\ ~f.hole
  BY <1>2 DEF NewFrame
<1>4. /\ task' = [task EXCEPT ![t] = [task[t] EXCEPT !.stat = "started", !.cancellation = 0,
                                                     !.frames = <<f>>]]
      /\ thr' = thr /\ home' = home
  BY <1>2 DEF Start, Started
<1>5. task[t].pc = "run" /\ thr[w].exiting = "normal" /\ t \in Task /\ ~IsStarted(t)
  BY <1>1, <1>2 DEF Frames, ExitingAsDone, IsStarted
<1>6. /\ \A x \in Task \ {t} : task'[x] = task[x]
      /\ task'[t].pc = "run" /\ task'[t].stat = "started" /\ task'[t].frames = <<f>>
  BY <1>1, <1>4, <1>5 DEF TaskState
<1>7. SubtasksOf(t) = {}
  BY <1>1, <1>5 DEF SubtasksOf, Subs, S
<1>8. SameStacks
  BY <1>4 DEF SameStacks, T, S
<1>9. \A i \in DOMAIN task'[t].frames : task'[t].frames[i] = f
  BY <1>6
<1> QED
  BY <1>1, <1>2, <1>3, <1>4, <1>5, <1>6, <1>7, <1>8, <1>9, OwnFrames

(***************************************************************************)
(* Flags and cncls                                                         *)
(***************************************************************************)
(* Subtasks are flagged that nobody needs any more. *)
LEMMA FlagsTwo ==
  ASSUME IInv, TwoInv, SameStacks, SameHomes,
         \A x \in Task : /\ task'[x].stat = task[x].stat /\ task'[x].pc = task[x].pc
                         /\ task'[x].frames = task[x].frames,
         \A u \in Worker : thr'[u].exiting = thr[u].exiting,
         \A x \in Task : /\ home'[x].hole = home[x].hole
                         /\ home[x].msg_cncl = 2 => home'[x].msg_cncl = 2,
         home'[Root].msg_cncl = 0,
         \A u \in Worker : \A s \in ToSet(S(u)) : home'[s].msg_cncl >= 1 =>
           \/ home[s].msg_cncl >= 1
           \/ Doomed(home[s].owner, home[s].region)
           \/ home'[home[s].owner].msg_cncl = 2
  PROVE  TwoInv'
<1>1. /\ TypeOK /\ Stacks /\ Subs
      /\ NoMany /\ ExitingAsDone /\ HoleReason /\ FlagReason /\ HoleCancelled
  BY DEF IInv, Structure, TwoInv
<1>2. \A x : Thrown(x)' = Thrown(x)
  BY SameThrown
<1>3. ASSUME NEW x \in Task, NEW i, Doomed(x, i)
      PROVE  Doomed(x, i)'
  <2>1. CASE home[x].msg_cncl = 2
    BY <2>1 DEF Doomed, DoomedWith
  <2>2. ASSUME NEW s \in Thrown(x), home[s].region <= i
        PROVE  Doomed(x, i)'
    <3>1. home'[s].region = home[s].region /\ s \in Thrown(x)'
      BY <1>2 DEF Thrown, SubtasksOf, SameHomes
    <3> QED
      BY <2>2, <3>1 DEF Doomed, DoomedWith
  <2>3. CASE task[x].pc = "unwind" /\ i = Len(task[x].frames)
    BY <2>3 DEF Doomed, DoomedWith
  <2> QED
    BY <1>3, <2>1, <2>2, <2>3 DEF Doomed, DoomedWith
<1>4. NoMany'
  BY <1>1 DEF NoMany
<1>5. ExitingAsDone'
  <2> SUFFICES ASSUME NEW v \in Worker
               PROVE  IF T(v)' # <<>> /\ task'[Top(v)'].stat = "started"
                      THEN thr'[v].exiting = "normal" <=> task'[Top(v)'].pc \in {"run", "wait"}
                      ELSE thr'[v].exiting = "normal"
    BY DEF ExitingAsDone, IsStarted
  <2>1. T(v)' = T(v) /\ Top(v)' = Top(v)
    BY SameTop DEF SameStacks
  <2>2. T(v) # <<>> => Top(v) \in Task
    BY <1>1, TopIs
  <2> QED
    BY <1>1, <2>1, <2>2 DEF ExitingAsDone, IsStarted
<1>6. HoleReason'
  <2> SUFFICES ASSUME NEW x \in Task, task'[x].stat = "started",
                      NEW i \in DOMAIN task'[x].frames, task'[x].frames[i].hole
               PROVE  Doomed(x, i)'
    BY DEF HoleReason, IsStarted
  <2> QED
    BY <1>1, <1>3 DEF HoleReason, IsStarted
<1>7. FlagReason'
  <2> SUFFICES ASSUME NEW v \in Worker, NEW s \in ToSet(S(v)'), home'[s].msg_cncl >= 1
               PROVE  Doomed(home[s].owner, home[s].region)'
    BY DEF FlagReason
  <2>1. s \in ToSet(S(v)) /\ s \in Task
    BY <1>1, Types DEF SameStacks
  <2>2. PICK x, i : x \in Task /\ x = home[s].owner /\ i = home[s].region
    BY <1>1, <2>1, Types
  <2>3. Doomed(x, i) \/ home'[x].msg_cncl = 2
    BY <1>1, <2>1, <2>2 DEF FlagReason
  <2>4. Doomed(x, i)'
    <3>1. CASE Doomed(x, i)
      BY <1>3, <2>2, <3>1
    <3>2. CASE home'[x].msg_cncl = 2
      BY <3>2 DEF Doomed, DoomedWith
    <3> QED
      BY <2>3, <3>1, <3>2
  <2>5. home'[s].owner = x /\ home'[s].region = i
    BY <2>1, <2>2 DEF SameHomes
  <2> QED
    BY <2>4, <2>5
<1>8. HoleCancelled'
  BY <1>1 DEF HoleCancelled, SameHomes
<1> QED
  BY <1>4, <1>5, <1>6, <1>7, <1>8 DEF TwoInv, RootSafe

(* wait-rslt flags the one subtask it waits for, whose region is being left. *)
LEMMA WaitCancelTwo ==
  ASSUME IInv, TwoInv, NEW w \in Worker, WaitCancel(w)
  PROVE  TwoInv'
<1>1. /\ TypeOK /\ Stacks /\ Frames /\ Subs /\ Nested /\ Counted /\ RootSafe /\ WaitsFor(w)
      /\ T(w) # <<>> /\ IsStarted(Top(w)) /\ Top(w) \in Task
      /\ thr[w].exiting = "normal" <=> task[Top(w)].pc \in {"run", "wait"}
      /\ task \in [Task -> TaskState] /\ thr \in [Worker -> Thread] /\ home \in [Task -> TaskHome]
  BY Acts DEF WaitCancel, WaitsFor, Busy
<1>2. PICK X : X = Useless(w)
  OBVIOUS
<1>3. /\ home' = Flagged(home, X)
      /\ thr' = [thr EXCEPT ![w] = [RaiseFlag(thr[w], X) EXCEPT !.sending = TRUE]]
      /\ task' = task /\ thr[w].exiting = "exception"
  BY <1>2 DEF WaitCancel, MustCancel
<1>4. X = ToCancel(w, Top(w), home[Last(S(w))].eldest)
  BY <1>2, <1>3 DEF Useless, S
<1>5. \A s \in X : s \in 1..spawned /\ s \in Task /\ home[s].msg_cncl # 2
  BY <1>1, <1>4, Cancellable
<1>6. \A s \in Task : /\ home'[s].owner = home[s].owner
                      /\ home'[s].stat = home[s].stat
                      /\ home'[s].region = home[s].region
                      /\ home'[s].hole = home[s].hole
                      /\ s \notin X => home'[s] = home[s]
                      /\ home'[s].msg_cncl = 2 <=> home[s].msg_cncl = 2
  BY <1>1, <1>3, <1>5, Flagging
<1>7. PICK r : r = RaiseFlag(thr[w], X)
  OBVIOUS
<1>8. r \in Thread /\ r.tasks = thr[w].tasks /\ r.sub = thr[w].sub
      /\ r.exiting = thr[w].exiting
  BY <1>1, <1>7, Raising
<1>9. /\ SameStacks /\ SameHomes
      /\ \A u \in Worker : thr'[u].exiting = thr[u].exiting
  BY <1>1, <1>3, <1>6, <1>7, <1>8 DEF SameStacks, SameHomes, T, S, Thread
<1>10. Root \notin X /\ Root \in Task
  BY <1>1, <1>5, Types DEF Root
<1>11. ASSUME NEW s \in X
       PROVE  Doomed(home[s].owner, home[s].region)
  <2>1. /\ S(w) # <<>> /\ Last(S(w)) \in Task
        /\ home[Last(S(w))].owner = Top(w)
        /\ home[Last(S(w))].region = Len(task[Top(w)].frames)
    BY <1>1, OwnSubtask
  <2>2. PICK i \in DOMAIN S(w) :
          s = S(w)[i] /\ \A j \in i + 1..Len(S(w)) :
                           home[S(w)[j]].eldest # home[Last(S(w))].eldest
    BY <1>4, <1>11 DEF ToCancel, S
  <2>3. DOMAIN S(w) = 1..Len(S(w)) /\ Len(S(w)) \in Nat /\ Last(S(w)) = S(w)[Len(S(w))]
    BY <1>1, <2>1, Types, FrontOf
  <2>4. i = Len(S(w))
    BY <2>2, <2>3
  <2>5. s = Last(S(w))
    BY <2>2, <2>3, <2>4
  <2>6. task[Top(w)].pc = "unwind"
    <3>1. task[Top(w)].pc \in {"run", "wait", "unwind"}
      BY <1>1 DEF TaskState
    <3> QED
      BY <1>1, <1>3, <3>1
  <2> QED
    BY <2>1, <2>5, <2>6 DEF Doomed, DoomedWith
<1>12. \A u \in Worker : \A s \in ToSet(S(u)) : home'[s].msg_cncl >= 1 =>
         home[s].msg_cncl >= 1 \/ Doomed(home[s].owner, home[s].region)
  <2>1. \A u \in Worker : \A s \in ToSet(S(u)) : s \in Task
    BY <1>1, Types
  <2> QED
    BY <1>6, <1>11, <2>1
<1>13. home'[Root].msg_cncl = 0
  BY <1>1, <1>6, <1>10 DEF RootSafe
<1> QED
  BY <1>3, <1>6, <1>9, <1>12, <1>13, FlagsTwo

(* recv-cncl flags the subtasks of the task that it cancels. *)
LEMMA SendCnclTwo ==
  ASSUME IInv, TwoInv, NEW w \in Worker, SendCncl(w)
  PROVE  TwoInv'
<1>1. /\ TypeOK /\ Stacks /\ Subs /\ RootSafe
      /\ task \in [Task -> TaskState] /\ thr \in [Worker -> Thread] /\ home \in [Task -> TaskHome]
  BY TypeParts DEF IInv, Structure, TwoInv
<1>2. PICK s : s = Max(ToSend(w))
  OBVIOUS
<1>3. s \in ToSend(w)
  <2>1. ToSend(w) \in SUBSET (0..MaxSub) /\ ToSend(w) # {} /\ MaxSub \in Nat
    BY <1>1, Types DEF ToSend, Task, S, SendCncl
  <2> QED
    BY <1>2, <2>1, MaxOf
<1>4. s \in ToSet(S(w)) /\ s \in 1..spawned /\ s \in Task /\ s # Root
      /\ home[s].stat = "initialized" /\ home[s].msg_cncl = 1
  <2>1. s \in ToSet(S(w)) /\ home[s].stat = "initialized" /\ home[s].msg_cncl = 1
    BY <1>3 DEF ToSend, S
  <2>2. s \in 1..spawned /\ s \in Task
    BY <1>1, <2>1, Types DEF Subs
  <2> QED
    BY <1>1, <2>1, <2>2, Types DEF Root
<1>5. PICK v \in Worker : s \in ToSet(T(v))
  BY <1>1, <1>4 DEF Subs, Stacks
<1>6. Executor(s) = v
  BY <1>1, <1>5, ExecutorIs
<1>7. PICK X : X = ToCancel(v, s, Everything)
  OBVIOUS
<1>8. /\ home' = [Flagged(home, X) EXCEPT ![s].msg_cncl = 2]
      /\ thr' = [thr EXCEPT ![v] = RaiseFlag(thr[v], X)]
      /\ task' = [task EXCEPT ![s].cancellation = @ + 1]
  BY <1>2, <1>6, <1>7 DEF SendCncl
<1>9. \A k \in X : k \in 1..spawned /\ k \in Task /\ home[k].msg_cncl # 2 /\ home[k].owner = s
  BY <1>1, <1>7, Cancellable
<1>10. /\ Flagged(home, X) \in [Task -> TaskHome]
       /\ \A k \in Task : /\ Flagged(home, X)[k].owner = home[k].owner
                          /\ Flagged(home, X)[k].stat = home[k].stat
                          /\ Flagged(home, X)[k].region = home[k].region
                          /\ Flagged(home, X)[k].hole = home[k].hole
                          /\ k \notin X => Flagged(home, X)[k] = home[k]
                          /\ Flagged(home, X)[k].msg_cncl = 2 <=> home[k].msg_cncl = 2
  BY <1>1, <1>9, Flagging
<1>11. /\ \A k \in Task : /\ home'[k].owner = home[k].owner
                          /\ home'[k].stat = home[k].stat
                          /\ home'[k].region = home[k].region
                          /\ home'[k].hole = home[k].hole
                          /\ k \notin X \cup {s} => home'[k] = home[k]
                          /\ home[k].msg_cncl = 2 => home'[k].msg_cncl = 2
       /\ home'[s].msg_cncl = 2
  <2>1. PICK f : f = Flagged(home, X)
    OBVIOUS
  <2>2. PICK g : g = [f[s] EXCEPT !.msg_cncl = 2]
    OBVIOUS
  <2>3. f[s] \in TaskHome /\ home' = [f EXCEPT ![s] = g] /\ f \in [Task -> TaskHome]
    BY <1>4, <1>8, <1>10, <2>1, <2>2
  <2>4. /\ g.owner = f[s].owner /\ g.stat = f[s].stat
        /\ g.region = f[s].region /\ g.hole = f[s].hole /\ g.msg_cncl = 2
    BY <2>2, <2>3 DEF TaskHome
  <2> QED
    BY <1>4, <1>10, <2>1, <2>3, <2>4
<1>12. PICK r : r = RaiseFlag(thr[v], X)
  OBVIOUS
<1>13. /\ r.tasks = thr[v].tasks /\ r.sub = thr[v].sub /\ r.exiting = thr[v].exiting
       /\ thr' = [thr EXCEPT ![v] = r]
  BY <1>1, <1>8, <1>12, Raising
<1>14. /\ SameStacks /\ SameHomes
       /\ \A u \in Worker : thr'[u].exiting = thr[u].exiting
  BY <1>1, <1>11, <1>13 DEF SameStacks, SameHomes, T, S
<1>15. \A x \in Task : /\ task'[x].stat = task[x].stat /\ task'[x].pc = task[x].pc
                       /\ task'[x].frames = task[x].frames
  BY <1>1, <1>4, <1>8 DEF TaskState
<1>16. home'[Root].msg_cncl = 0
  <2>1. Root \notin X \cup {s} /\ Root \in Task
    BY <1>1, <1>4, <1>9, Types DEF Root
  <2> QED
    BY <1>1, <1>11, <2>1 DEF RootSafe
<1>17. \A u \in Worker : \A k \in ToSet(S(u)) : home'[k].msg_cncl >= 1 =>
         home[k].msg_cncl >= 1 \/ home'[home[k].owner].msg_cncl = 2
  <2>1. \A u \in Worker : \A k \in ToSet(S(u)) : k \in Task
    BY <1>1, Types
  <2>2. \A k \in Task : k \in X => home'[home[k].owner].msg_cncl = 2
    BY <1>9, <1>11
  <2>3. home[s].msg_cncl >= 1
    BY <1>4
  <2> QED
    BY <1>11, <2>1, <2>2, <2>3
<1> QED
  BY <1>11, <1>14, <1>15, <1>16, <1>17, FlagsTwo

(***************************************************************************)
(* A subtask is waited for                                                 *)
(***************************************************************************)
(* The region that a do-two is waiting for has no other subtask. *)
LEMMA OnlySubtask ==
  ASSUME IInv, TwoInv, NEW w \in Worker, WaitsFor(w)
  PROVE  LET t == Top(w)
             s == Last(S(w))
             fs == task[t].frames IN
         /\ S(w) # <<>> /\ s \in ToSet(S(w)) /\ s \in Task /\ t \in Task
         /\ home[s].owner = t /\ home[s].region = Len(fs)
         /\ Len(fs) \in Nat /\ Len(fs) \in DOMAIN fs /\ DOMAIN fs = 1..Len(fs)
         /\ Last(fs).kind = "two" /\ Last(fs).spn = 1
         /\ \A x \in SubtasksOf(t) \ {s} : home[x].region \in 1..Len(fs) - 1
<1>0. PICK t, s, fs, n : t = Top(w) /\ s = Last(S(w)) /\ fs = task[t].frames /\ n = Len(fs)
  OBVIOUS
<1>1. /\ TypeOK /\ Stacks /\ Frames /\ Subs /\ Nested /\ Counted /\ NoMany
      /\ T(w) # <<>> /\ IsStarted(t) /\ t \in Task /\ Framed(fs) /\ fs \in Seq(Frame)
  BY <1>0, Acts DEF WaitsFor, Busy
<1>2. /\ S(w) # <<>> /\ s \in ToSet(S(w)) /\ s \in Task
      /\ home[s].owner = t /\ home[s].region = n /\ n \in DOMAIN fs
  BY <1>0, <1>1, OwnSubtask
<1>3. /\ n \in Nat /\ DOMAIN fs = 1..n /\ Last(fs) = fs[n] /\ fs[n] \in Frame
      /\ Last(fs).spn > 0
  <2>1. fs # <<>>
    BY <1>1 DEF Framed
  <2>2. n \in Nat /\ DOMAIN fs = 1..n /\ Last(fs) = fs[n] /\ Last(fs) \in Frame
    BY <1>0, <1>1, <2>1, FrontOf
  <2>3. Last(fs).spn > 0
    BY <1>0 DEF WaitsFor, TopFrame
  <2> QED
    BY <2>2, <2>3
<1>4. fs[n].kind = "two" /\ fs[n].spn = 1
  <2>1. fs[n].kind # "many"
    BY <1>0, <1>1, <1>2 DEF NoMany
  <2>2. fs[n].kind \in {"body", "catch", "two", "many"} /\ fs[n].spn \in Nat
    BY <1>3 DEF Frame
  <2> QED
    BY <1>1, <1>2, <1>3, <2>1, <2>2 DEF Framed
<1>5. ASSUME NEW x \in SubtasksOf(t) \ {s}
      PROVE  home[x].region \in 1..n - 1
  <2>1. Cardinality(SpawnedIn(t, n)) = 1
    BY <1>0, <1>1, <1>2, <1>4 DEF Counted
  <2>2. IsFiniteSet(SpawnedIn(t, n))
    BY <1>1, FiniteTasks
  <2>3. PICK y : SpawnedIn(t, n) = {y}
    BY <2>1, <2>2, FS_Singleton
  <2>4. s \in SpawnedIn(t, n)
    BY <1>2 DEF SpawnedIn, SubtasksOf, S
  <2>5. x \notin SpawnedIn(t, n)
    BY <2>3, <2>4
  <2>6. home[x].region # n
    BY <2>5 DEF SpawnedIn
  <2>7. home[x].region \in DOMAIN fs
    BY <1>0, <1>1 DEF SubtasksOf, Subs, S
  <2> QED
    BY <1>3, <2>6, <2>7
<1> QED
  BY <1>0, <1>1, <1>2, <1>3, <1>4, <1>5

(* What is given up with the subtask is missing in the region below, and so *)
(* is what its own region had given up; the reasons are the same, or the    *)
(* exception that the worker goes on throwing.                              *)
LEMMA WaitEndTwo ==
  ASSUME IInv, TwoInv, NEW w \in Worker, WaitEnd(w)
  PROVE  TwoInv'
<1>0. PICK t, s, fs, n : t = Top(w) /\ s = Last(S(w)) /\ fs = task[t].frames /\ n = Len(fs)
  OBVIOUS
<1>1. /\ TypeOK /\ Subs /\ AbortedIfCancelled
      /\ NoMany /\ HoleReason /\ FlagReason /\ HoleCancelled
      /\ T(w) # <<>> /\ IsStarted(t) /\ t \in Task /\ Framed(fs) /\ fs \in Seq(Frame)
      /\ thr[w].exiting = "normal" <=> task[t].pc \in {"run", "wait"}
      /\ home \in [Task -> TaskHome]
  BY <1>0, Acts DEF WaitEnd, WaitsFor, Busy
<1>2. /\ s \in ToSet(S(w)) /\ s \in Task
      /\ home[s].owner = t /\ home[s].region = n
      /\ n \in Nat /\ n \in DOMAIN fs /\ DOMAIN fs = 1..n
      /\ Last(fs).kind = "two" /\ Last(fs).spn = 1 /\ fs[n] = Last(fs)
      /\ \A x \in SubtasksOf(t) \ {s} : home[x].region \in 1..n - 1
  BY <1>0, OnlySubtask DEF WaitEnd, Last
<1>3. task[t].pc \in {"wait", "unwind"} /\ Ended(s) /\ fs # <<>> /\ Last(fs).spn > 0
  BY <1>0, <1>1 DEF WaitEnd, WaitsFor, S, TopFrame, Framed
<1>4. PICK thrown \in BOOLEAN, lost \in BOOLEAN :
        /\ thrown <=> home[s].stat = "exception"
        /\ lost <=> home[s].stat # "done" \/ home[s].hole
  OBVIOUS
<1>5. PICK gs : gs = [fs EXCEPT ![Len(fs)].spn = @ - 1]
  OBVIOUS
<1>6. /\ gs \in Seq(Frame) /\ Recounted(fs, gs, n, Last(fs).spn - 1) /\ Framed(gs)
      /\ gs # <<>> /\ Len(gs) = n /\ Last(gs).kind = "two"
  BY <1>0, <1>1, <1>2, <1>3, <1>5, OneTaken
<1>7. DOMAIN gs = 1..n /\ \A i \in 1..n : gs[i].kind = fs[i].kind /\ gs[i].hole = fs[i].hole
  BY <1>2, <1>6 DEF Recounted
<1>8. PICK hs : Takes(w, t, s, hs)
  BY <1>0, WaitEndTakes
<1>9. /\ \A u \in Worker : T(u)' = T(u)
      /\ \A x \in Task \ {t} : task'[x] = task[x]
      /\ task'[t].stat = "started" /\ home' = home
  BY <1>8 DEF Takes
<1>10. /\ \A x : SubtasksOf(x)' = SubtasksOf(x) \ {s}
       /\ \A x : x # t => SubtasksOf(x)' = SubtasksOf(x)
       /\ \A u \in Worker : ToSet(S(u)') \subseteq ToSet(S(u))
  <2>1. /\ ToSet(S(w)') = ToSet(S(w)) \ {s}
        /\ \A x : SubtasksOf(x)' = SubtasksOf(x) \ {s} /\ (x # t => SubtasksOf(x)' = SubtasksOf(x))
    BY <1>1, <1>8, TakenSub
  <2>2. \A u \in Worker \ {w} : S(u)' = S(u)
    BY <1>8 DEF Takes
  <2> QED
    BY <2>1, <2>2
<1>11. Thrown(t)' = Thrown(t) \ {s} /\ \A x : x # t => Thrown(x)' = Thrown(x)
  BY <1>9, <1>10 DEF Thrown
<1>12. /\ \A u \in Worker \ {w} : thr'[u].exiting = thr[u].exiting
       /\ thr'[w].exiting = IF thrown THEN "exception" ELSE thr[w].exiting
       /\ task'[t].frames = IF task[t].pc = "wait" THEN Leave(gs, lost)
                            ELSE [gs EXCEPT ![n].hole = @ \/ lost]
       /\ task'[t].pc = IF task[t].pc = "wait" THEN AfterGet(thrown) ELSE "unwind"
  <2>1. LET c == task[t].pc = "wait" /\ Last(gs).kind = "two" IN
        /\ \A u \in Worker \ {w} : thr'[u].exiting = thr[u].exiting
        /\ thr'[w].exiting = ExitingAfter(thr[w].exiting, home[s].stat = "exception")
        /\ task'[t].frames = IF c THEN Leave(gs, home[s].stat # "done" \/ home[s].hole)
                             ELSE [gs EXCEPT ![Len(gs)].hole =
                                     @ \/ (home[s].stat # "done" \/ home[s].hole)]
        /\ task'[t].pc = IF c THEN AfterGet(home[s].stat = "exception") ELSE task[t].pc
    BY <1>0, <1>5, WaitEndTakes, SMTT(60)
  <2>2. /\ thrown = (home[s].stat = "exception")
        /\ lost = (home[s].stat # "done" \/ home[s].hole)
    <3>1. home[s].hole \in BOOLEAN
      BY <1>1, <1>2 DEF TaskHome
    <3> QED
      BY <1>4, <3>1
  <2> QED
    BY <1>3, <1>6, <2>1, <2>2 DEF ExitingAfter
<1>13. PICK D : D = {i \in Nat :
                       \/ home[t].msg_cncl = 2
                       \/ \E x \in Thrown(t) \ {s} : home[x].region <= i
                       \/ task'[t].pc = "unwind" /\ i = Len(task'[t].frames)}
  OBVIOUS
<1>14. ASSUME NEW i \in 1..n - 1, Doomed(t, i)
       PROVE  i \in D
  <2>1. CASE home[t].msg_cncl = 2
    BY <1>13, <2>1
  <2>2. CASE home[t].msg_cncl # 2
    <3>1. PICK x \in Thrown(t) : home[x].region <= i
      BY <1>0, <1>2, <1>14, <2>2 DEF Doomed, DoomedWith
    <3>2. x # s
      BY <1>2, <3>1
    <3> QED
      BY <1>13, <3>1, <3>2
  <2> QED
    BY <2>1, <2>2
<1>15. ASSUME \A i \in DOMAIN task'[t].frames :
                i \in Nat /\ task'[t].frames[i].kind # "many" /\ (task'[t].frames[i].hole => i \in D)
       PROVE  /\ \A i \in DOMAIN task'[t].frames :
                   /\ task'[t].frames[i].kind # "many"
                   /\ task'[t].frames[i].hole => Doomed(t, i)'
              /\ \A x \in SubtasksOf(t)' : home[x].msg_cncl >= 1 => Doomed(t, home[x].region)'
  <2>1. \A i \in DOMAIN task'[t].frames : task'[t].frames[i].hole => Doomed(t, i)'
    BY <1>9, <1>11, <1>13, <1>15 DEF Doomed, DoomedWith
  <2>2. \A x \in SubtasksOf(t) \ {s} : home[x].msg_cncl >= 1 => Doomed(t, home[x].region)
    BY <1>1 DEF FlagReason, SubtasksOf, S
  <2>3. ASSUME NEW x \in SubtasksOf(t)', home[x].msg_cncl >= 1
        PROVE  Doomed(t, home[x].region)'
    <3>1. x \in SubtasksOf(t) \ {s}
      BY <1>10
    <3>2. Doomed(t, home[x].region) /\ home[x].region \in 1..n - 1
      BY <1>2, <2>2, <2>3, <3>1
    <3>3. home[x].region \in D /\ home[x].region \in Nat
      BY <1>14, <3>2
    <3> QED
      BY <1>9, <1>11, <1>13, <3>3 DEF Doomed, DoomedWith
  <2> QED
    BY <1>15, <2>1, <2>3
<1>16. ASSUME fs[n].hole \/ lost
       PROVE  Doomed(t, n) \/ thrown
  <2>1. CASE fs[n].hole
    BY <1>0, <1>1, <1>2, <2>1 DEF HoleReason
  <2>2. CASE lost /\ ~thrown
    <3>1. home[s].stat \in {"done", "aborted"}
      BY <1>3, <1>4, <2>2 DEF Ended
    <3>2. home[s].msg_cncl = 2
      BY <1>1, <1>2, <1>4, <2>2, <3>1 DEF HoleCancelled, AbortedIfCancelled
    <3> QED
      BY <1>1, <1>2, <3>2 DEF FlagReason
  <2> QED
    BY <1>16, <2>1, <2>2
<1>17. \A i \in 1..n - 1 : fs[i].hole => i \in D
  BY <1>0, <1>1, <1>2, <1>14 DEF HoleReason
<1>18. \A i \in 1..n : fs[i].kind # "many"
  BY <1>0, <1>1, <1>2 DEF NoMany
<1>19. CASE task[t].pc = "wait"
  <2>1. /\ task'[t].frames = Leave(gs, lost) /\ thr[w].exiting = "normal"
        /\ task'[t].pc = AfterGet(thrown)
    BY <1>1, <1>12, <1>19
  <2>2. /\ DOMAIN task'[t].frames = 1..n - 1 /\ Len(task'[t].frames) = n - 1 /\ n - 1 \in 1..n
        /\ \A i \in 1..n - 1 :
             /\ task'[t].frames[i].kind = fs[i].kind
             /\ task'[t].frames[i].hole <=> fs[i].hole \/ (i = n - 1 /\ (fs[n].hole \/ lost))
    <3>1. LET m == Len(gs) IN
          /\ m \in Nat /\ m - 1 \in 1..m
          /\ DOMAIN Leave(gs, lost) = 1..m - 1 /\ Len(Leave(gs, lost)) = m - 1
          /\ \A i \in 1..m - 1 :
               /\ Leave(gs, lost)[i].kind = gs[i].kind
               /\ Leave(gs, lost)[i].hole <=> gs[i].hole \/ (i = m - 1 /\ (gs[m].hole \/ lost))
      <4>1. Last(gs).kind # "body"
        BY <1>6
      <4> QED
        BY <1>6, <4>1, Below, Zenon
    <3> QED
      BY <1>6, <1>7, <2>1, <3>1
  <2>3. thrown => n - 1 \in D
    BY <1>13, <2>1, <2>2 DEF AfterGet
  <2>4. ASSUME ~thrown, Doomed(t, n)
        PROVE  n - 1 \in D
    <3>1. CASE home[t].msg_cncl = 2
      BY <1>13, <2>2, <3>1
    <3>2. CASE home[t].msg_cncl # 2
      <4>1. PICK x \in Thrown(t) : home[x].region <= n
        BY <1>19, <2>4, <3>2 DEF Doomed, DoomedWith
      <4>2. x # s
        BY <1>4, <2>4, <4>1 DEF Thrown
      <4>3. home[x].region <= n - 1
        BY <1>2, <4>1, <4>2 DEF Thrown
      <4> QED
        BY <1>13, <2>2, <4>1, <4>2, <4>3
    <3> QED
      BY <3>1, <3>2
  <2>5. fs[n].hole \/ lost => n - 1 \in D
    BY <1>16, <2>3, <2>4
  <2>6. \A i \in DOMAIN task'[t].frames :
          i \in Nat /\ task'[t].frames[i].kind # "many" /\ (task'[t].frames[i].hole => i \in D)
    BY <1>2, <1>17, <1>18, <2>2, <2>5, SMTT(30)
  <2>7. thr'[w].exiting = "normal" <=> task'[t].pc \in {"run", "wait"}
    BY <1>12, <2>1 DEF AfterGet
  <2> QED
    BY <1>0, <1>1, <1>9, <1>10, <1>11, <1>12, <1>15, <2>6, <2>7, FramesTwo
<1>20. CASE task[t].pc = "unwind"
  <2>1. /\ task'[t].frames = [gs EXCEPT ![n].hole = @ \/ lost] /\ thr[w].exiting # "normal"
        /\ task'[t].pc = "unwind" /\ thr'[w].exiting # "normal"
    BY <1>1, <1>12, <1>20
  <2>2. /\ DOMAIN task'[t].frames = 1..n /\ Len(task'[t].frames) = n
        /\ \A i \in 1..n : /\ task'[t].frames[i].kind = fs[i].kind
                           /\ i # n => task'[t].frames[i].hole = fs[i].hole
    <3>1. PICK h \in BOOLEAN : h = (gs[n].hole \/ lost)
      OBVIOUS
    <3>2. PICK g : g = [gs[n] EXCEPT !.hole = h]
      OBVIOUS
    <3>3. gs[n] \in Frame
      BY <1>2, <1>6, ElementOfSeq
    <3>4. g \in Frame /\ g.kind = gs[n].kind
      BY <3>2, <3>3 DEF Frame
    <3>5. task'[t].frames = [gs EXCEPT ![n] = g]
      BY <2>1, <3>1, <3>2
    <3>6. PICK ks : ks = [gs EXCEPT ![n] = g]
      OBVIOUS
    <3>7. ks \in Seq(Frame) /\ Len(ks) = n /\ DOMAIN ks = 1..n
          /\ \A i \in 1..n : ks[i] = IF i = n THEN g ELSE gs[i]
      <4>1. ks \in Seq(Frame) /\ Len(ks) = n
        BY <1>2, <1>6, <3>4, <3>6, ExceptSeq
      <4> QED
        BY <1>7, <3>6, <4>1
    <3> QED
      BY <1>7, <3>4, <3>5, <3>6, <3>7
  <2>3. n \in D
    BY <1>2, <1>13, <2>1, <2>2
  <2>4. \A i \in DOMAIN task'[t].frames :
          i \in Nat /\ task'[t].frames[i].kind # "many" /\ (task'[t].frames[i].hole => i \in D)
    <3>1. \A i \in 1..n : i # n => i \in 1..n - 1
      BY <1>2
    <3> QED
      BY <1>17, <1>18, <2>2, <2>3, <3>1
  <2>5. thr'[w].exiting = "normal" <=> task'[t].pc \in {"run", "wait"}
    BY <2>1
  <2> QED
    BY <1>0, <1>1, <1>9, <1>10, <1>11, <1>12, <1>15, <2>4, <2>5, FramesTwo
<1> QED
  BY <1>3, <1>19, <1>20

(***************************************************************************)
(* A subtask is given away                                                 *)
(***************************************************************************)
LEMMA SpawnTwo ==
  ASSUME IInv, TwoInv, NEW w \in Worker, NEW v \in Worker, Spawn(w, v)
  PROVE  TwoInv'
<1>0. PICK t, s : t = Top(w) /\ s = spawned + 1
  OBVIOUS
<1>1. /\ TypeOK /\ Stacks /\ Frames /\ Subs /\ Nested /\ Counted
      /\ NoMany /\ ExitingAsDone /\ HoleReason /\ FlagReason /\ HoleCancelled /\ RootSafe
      /\ T(w) # <<>> /\ t \in Task /\ IsStarted(t) /\ Framed(task[t].frames)
  BY <1>0, Acts DEF Spawn, Running, Busy
<1>2. PICK i \in SpawnFrame(t) : Gives(w, v, t, s, i)
  BY <1>0, SpawnGives
<1>3. i \in DOMAIN task[t].frames
  BY <1>0, <1>1, SpawnsInnermost, Types
<1>4. /\ s \in Task /\ t # s /\ ToSet(S(w)') = ToSet(S(w)) \cup {s}
      /\ \A u \in Worker \ {w} : S(u)' = S(u)
      /\ \A u \in Worker : s \notin ToSet(S(u))
      /\ \A x : Thrown(x)' = Thrown(x)
  BY <1>0, <1>1, <1>2, <1>3, GivenSub, GivesCounted
<1>5. /\ task[t].pc = "run" /\ task'[t].pc = "run" /\ task'[t].stat = "started"
      /\ T(v) # <<>> => Waiting(Top(v))
      /\ v # w /\ T(v)' = Append(T(v), s) /\ \A u \in Worker \ {v} : T(u)' = T(u)
      /\ \A u \in Worker \ {w} : thr'[u].exiting = thr[u].exiting
      /\ thr'[w].exiting = "normal"
      /\ \A x \in Task \ {t, s} : task'[x] = task[x]
      /\ task'[s].stat = "initialized" /\ task'[s].frames = <<>>
      /\ DOMAIN task'[t].frames = DOMAIN task[t].frames
      /\ \A j \in DOMAIN task[t].frames : /\ task'[t].frames[j].kind = task[t].frames[j].kind
                                          /\ task'[t].frames[j].hole = task[t].frames[j].hole
      /\ \A x \in Task \ {s} : home'[x] = home[x]
      /\ home'[s].stat = "initialized" /\ home'[s].msg_cncl = 0
      /\ task[s] = NoTask
  BY <1>2 DEF Gives, Recounted
<1>6. ASSUME NEW x \in Task \ {s}, NEW i1, IsStarted(x), Doomed(x, i1)
      PROVE  Doomed(x, i1)'
  <2>1. \A y \in Thrown(x) : home'[y] = home[y]
    <3>1. \A y \in Thrown(x) : y \in Task /\ y # s
      BY <1>4 DEF Thrown, SubtasksOf, S
    <3> QED
      BY <1>5, <3>1
  <2>2. task[x].pc = "unwind" => task'[x] = task[x]
    BY <1>5
  <2> QED
    BY <1>4, <1>5, <1>6, <2>1, <2>2 DEF Doomed, DoomedWith
<1>7. NoMany'
  <2> SUFFICES ASSUME NEW x \in Task, NEW j \in DOMAIN task'[x].frames
               PROVE  task'[x].frames[j].kind # "many"
    BY DEF NoMany
  <2> QED
    BY <1>1, <1>5 DEF NoMany
<1>8. ExitingAsDone'
  <2> SUFFICES ASSUME NEW u \in Worker
               PROVE  IF T(u)' # <<>> /\ task'[Top(u)'].stat = "started"
                      THEN thr'[u].exiting = "normal" <=> task'[Top(u)'].pc \in {"run", "wait"}
                      ELSE thr'[u].exiting = "normal"
    BY DEF ExitingAsDone, IsStarted
  <2>1. CASE u = w
    <3>1. T(w)' = T(w) /\ Top(w)' = t
      BY <1>0, <1>5, SameTop
    <3> QED
      BY <1>1, <1>5, <2>1, <3>1
  <2>2. CASE u = v
    <3>1. Top(v)' = s
      <4>1. T(v) \in Seq(Task)
        BY <1>1, Types
      <4>2. Top(v)' = Last(T(v)')
        BY DEF Top, T
      <4> QED
        BY <1>4, <1>5, <4>1, <4>2, AppendOf
    <3>2. thr'[v].exiting = thr[v].exiting
      BY <1>5
    <3>3. thr[v].exiting = "normal"
      BY <1>1, <1>5 DEF ExitingAsDone, Waiting
    <3> QED
      BY <1>5, <2>2, <3>1, <3>2, <3>3
  <2>3. CASE u # w /\ u # v
    <3>1. T(u)' = T(u) /\ Top(u)' = Top(u) /\ thr'[u].exiting = thr[u].exiting
      BY <1>5, <2>3, SameTop
    <3>2. T(u) # <<>> => Top(u) \in Task /\ Top(u) # t /\ Top(u) # s
      <4>1. T(u) # <<>> => Top(u) \in Task /\ Alive(Top(u)) /\ Top(u) # t
        BY <1>0, <1>1, <2>3, TopAlive, OtherTop
      <4> QED
        BY <1>5, <4>1 DEF Alive, NoTask
    <3> QED
      BY <1>1, <1>5, <3>1, <3>2 DEF ExitingAsDone, IsStarted
  <2> QED
    BY <2>1, <2>2, <2>3
<1>9. HoleReason'
  <2> SUFFICES ASSUME NEW x \in Task, task'[x].stat = "started",
                      NEW j \in DOMAIN task'[x].frames, task'[x].frames[j].hole
               PROVE  Doomed(x, j)'
    BY DEF HoleReason, IsStarted
  <2>1. x # s
    BY <1>5
  <2>2. IsStarted(x) /\ j \in DOMAIN task[x].frames /\ task[x].frames[j].hole
    BY <1>1, <1>5, <2>1 DEF IsStarted
  <2>3. Doomed(x, j)
    BY <1>1, <2>2 DEF HoleReason
  <2> QED
    BY <1>6, <2>1, <2>2, <2>3
<1>10. FlagReason'
  <2> SUFFICES ASSUME NEW u \in Worker, NEW x \in ToSet(S(u)'), home'[x].msg_cncl >= 1
               PROVE  Doomed(home[x].owner, home[x].region)'
    BY DEF FlagReason
  <2>1. x # s
    BY <1>5
  <2>2. x \in ToSet(S(u)) /\ x \in Task
    BY <1>1, <1>4, <2>1, Types
  <2>3. PICK o, r : o \in Task /\ o = home[x].owner /\ r = home[x].region
    BY <1>1, <2>2, Types
  <2>4. home'[x] = home[x] /\ Doomed(o, r) /\ IsStarted(o)
    BY <1>1, <1>5, <2>1, <2>2, <2>3 DEF FlagReason, Subs
  <2>5. o # s
    BY <1>5, <2>4 DEF IsStarted, NoTask
  <2>6. Doomed(o, r)'
    BY <1>6, <2>3, <2>4, <2>5
  <2>7. home'[x].owner = o /\ home'[x].region = r
    BY <2>3, <2>4
  <2> QED
    BY <2>6, <2>7
<1>11. HoleCancelled' /\ RootSafe'
  <2>1. s # Root /\ Root \in Task
    BY <1>0, <1>1, Types DEF Root
  <2> QED
    BY <1>1, <1>5, <2>1 DEF HoleCancelled, RootSafe
<1> QED
  BY <1>7, <1>8, <1>9, <1>10, <1>11 DEF TwoInv

(***************************************************************************)
(* A task ends                                                             *)
(***************************************************************************)
(* recv-rslt flags the subtasks of the regions in which the one that threw *)
(* was, those newer than it are in.                                        *)
LEMMA FinishTwo ==
  ASSUME IInv, TwoInv, NEW w \in Worker, Finish(w)
  PROVE  TwoInv'
<1>0. PICK t, why : t = Top(w) /\ why = Outcome(thr[w].exiting)
  OBVIOUS
<1>1. /\ TypeOK /\ Stacks /\ Frames /\ Subs /\ Nested /\ Counted
      /\ NoMany /\ ExitingAsDone /\ HoleReason /\ FlagReason /\ HoleCancelled /\ RootSafe
      /\ T(w) # <<>> /\ t \in Task /\ IsStarted(t) /\ Framed(task[t].frames)
      /\ task[t].frames \in Seq(Frame) /\ TopFrame(t).kind = "body"
      /\ home \in [Task -> TaskHome] /\ thr \in [Worker -> Thread]
      /\ thr[w].exiting = "normal" <=> task[t].pc \in {"run", "wait"}
  BY <1>0, Acts DEF Finish, Busy
<1>2. /\ T(w)' = Front(T(w)) /\ \A u \in Worker \ {w} : T(u)' = T(u)
      /\ \A u \in Worker : S(u)' = S(u)
      /\ \A u \in Worker \ {w} : thr'[u].exiting = thr[u].exiting
      /\ thr'[w].exiting = "normal" /\ SubtasksOf(t) = {}
      /\ \A x \in Task :
           /\ task'[x].frames = task[x].frames /\ task'[x].pc = task[x].pc
           /\ task'[x].stat = IF x = t THEN "done" ELSE task[x].stat
           /\ home'[x].owner = home[x].owner /\ home'[x].region = home[x].region
           /\ home'[x].msg_cncl = 2 <=> home[x].msg_cncl = 2
           /\ home'[x].stat = IF x = t THEN why ELSE home[x].stat
  BY <1>0, FinishEnds DEF Ends
<1>3. /\ home'[t].hole = TopFrame(t).hole
      /\ \A x \in Task \ {t} : home'[x].hole = home[x].hole
      /\ \A x \in Task :
           \/ home'[x].msg_cncl = home[x].msg_cncl
           \/ /\ t # Root /\ why = "exception" /\ x # t
              /\ x \in ToCancel(HomeOf(t), home[t].owner, home[t].eldest)
  BY <1>0, FinishEnds
<1>4. \A x : SubtasksOf(x)' = SubtasksOf(x)
  <2>1. \A x : SubtasksOf(x)' = {y \in Task : home'[y].owner = x /\ InSub(y)'}
    BY DEF SubtasksOf, InSub, S
  <2>2. \A x : SubtasksOf(x) = {y \in Task : home[y].owner = x /\ InSub(y)}
    BY DEF SubtasksOf, InSub, S
  <2>3. \A y : InSub(y)' <=> InSub(y)
    BY <1>2 DEF InSub
  <2> QED
    BY <1>2, <2>1, <2>2, <2>3
<1>5. IsStarted(t) /\ Alive(t) /\ home[t].stat = "initialized"
  BY <1>1 DEF Alive, IsStarted, Subs
<1>6. \A x : Thrown(x) \subseteq Thrown(x)'
  BY <1>2, <1>4, <1>5 DEF Thrown, SubtasksOf
<1>7. ASSUME NEW x \in Task, NEW i, Doomed(x, i)
      PROVE  Doomed(x, i)'
  <2>1. CASE home[x].msg_cncl = 2
    BY <1>2, <2>1 DEF Doomed, DoomedWith
  <2>2. ASSUME NEW s \in Thrown(x), home[s].region <= i
        PROVE  Doomed(x, i)'
    <3>1. home'[s].region = home[s].region /\ s \in Thrown(x)'
      BY <1>2, <1>6 DEF Thrown, SubtasksOf
    <3> QED
      BY <2>2, <3>1 DEF Doomed, DoomedWith
  <2>3. CASE task[x].pc = "unwind" /\ i = Len(task[x].frames)
    BY <1>2, <2>3 DEF Doomed, DoomedWith
  <2> QED
    BY <1>7, <2>1, <2>2, <2>3 DEF Doomed, DoomedWith
<1>8. NoMany'
  BY <1>1, <1>2 DEF NoMany
<1>9. ExitingAsDone'
  <2> SUFFICES ASSUME NEW u \in Worker
               PROVE  IF T(u)' # <<>> /\ task'[Top(u)'].stat = "started"
                      THEN thr'[u].exiting = "normal" <=> task'[Top(u)'].pc \in {"run", "wait"}
                      ELSE thr'[u].exiting = "normal"
    BY DEF ExitingAsDone, IsStarted
  <2>1. CASE u = w
    <3>1. ASSUME T(w)' # <<>>
          PROVE  Waiting(Top(w)') /\ Top(w)' \in Task
      <4>1. PICK q : q = Front(T(w))
        OBVIOUS
      <4>2. /\ T(w) \in Seq(Task) /\ q \in Seq(Task) /\ q # <<>> /\ Len(q) = Len(T(w)) - 1
            /\ \A j \in 1..Len(T(w)) - 1 : j \in DOMAIN T(w) /\ q[j] = T(w)[j]
        <5>1. T(w) \in Seq(Task) /\ T(w) # <<>>
          BY <1>1, Types
        <5>2. q # <<>>
          BY <1>2, <3>1, <4>1
        <5> QED
          BY <4>1, <5>1, <5>2, FrontOf
      <4>3. /\ Len(q) \in DOMAIN q /\ Len(q) \in Nat \ {0} /\ Last(q) = q[Len(q)] /\ Last(q) \in Task
        BY <4>2, FrontOf
      <4>4. Top(w)' = Last(q)
        BY <1>2, <4>1 DEF Top, T
      <4>5. Last(q) = T(w)[Len(q)] /\ Len(q) \in DOMAIN T(w) /\ Len(q) < Len(T(w))
        BY <4>2, <4>3
      <4>6. Waiting(T(w)[Len(q)])
        BY <1>1, <4>5 DEF Stacks
      <4> QED
        BY <4>3, <4>4, <4>5, <4>6
    <3>2. T(w)' # <<>> => task'[Top(w)'].pc = "wait"
      BY <1>2, <3>1 DEF Waiting
    <3> QED
      BY <1>2, <2>1, <3>2
  <2>2. CASE u # w
    <3>1. T(u)' = T(u) /\ Top(u)' = Top(u) /\ thr'[u].exiting = thr[u].exiting
      BY <1>2, <2>2, SameTop
    <3>2. T(u) # <<>> => Top(u) \in Task /\ Top(u) # t
      BY <1>0, <1>1, <2>2, TopIs, OtherTop
    <3> QED
      BY <1>1, <1>2, <3>1, <3>2 DEF ExitingAsDone, IsStarted
  <2> QED
    BY <2>1, <2>2
<1>10. HoleReason'
  <2> SUFFICES ASSUME NEW x \in Task, task'[x].stat = "started",
                      NEW j \in DOMAIN task'[x].frames, task'[x].frames[j].hole
               PROVE  Doomed(x, j)'
    BY DEF HoleReason, IsStarted
  <2>1. Doomed(x, j)
    BY <1>1, <1>2 DEF HoleReason, IsStarted
  <2> QED
    BY <1>7, <2>1
<1>11. ASSUME NEW u \in Worker, NEW x \in ToSet(S(u)), home'[x].msg_cncl # home[x].msg_cncl,
              NEW o, o = home[x].owner
       PROVE  t \in Thrown(o)' /\ home[t].region <= home[x].region
  <2>1. /\ x \in Task /\ t # Root /\ why = "exception" /\ x # t
        /\ x \in ToCancel(HomeOf(t), home[t].owner, home[t].eldest)
    BY <1>1, <1>3, <1>11, Types
  <2>2. PICK v \in Worker : t \in ToSet(S(v))
    BY <1>1, <1>5, <2>1 DEF Subs, InSub
  <2>3. HomeOf(t) = v
    BY <1>1, <2>2, HomeIs
  <2>4. home[x].owner = home[t].owner /\ x \in ToSet(S(v))
    BY <1>1, <2>1, <2>3, Cancellable
  <2>5. PICK j \in DOMAIN S(v) :
          x = S(v)[j] /\ \A l \in j + 1..Len(S(v)) : home[S(v)[l]].eldest # home[t].eldest
    BY <2>1, <2>3 DEF ToCancel, S
  <2>6. PICK i \in DOMAIN S(v) : t = S(v)[i]
    BY <2>2 DEF ToSet
  <2>7. DOMAIN S(v) = 1..Len(S(v)) /\ Len(S(v)) \in Nat
    BY <1>1, Types, LenProperties
  <2>8. i < j
    BY <2>1, <2>5, <2>6, <2>7
  <2>9. PICK k \in DOMAIN T(v) : T(v)[k] = home[t].owner
    BY <1>1, <2>2 DEF Subs, ToSet
  <2>10. DOMAIN T(v) = 1..Len(T(v)) /\ Len(T(v)) \in Nat
    BY <1>1, Types, LenProperties
  <2>11. home[t].region <= home[x].region
    <3>1. k < k \/ (k = k /\ home[S(v)[i]].region <= home[S(v)[j]].region)
      BY <1>1, <2>4, <2>5, <2>6, <2>8, <2>9 DEF Nested
    <3>2. ~(k < k)
      BY <2>9, <2>10
    <3> QED
      BY <2>5, <2>6, <3>1, <3>2
  <2>12. t \in SubtasksOf(o)'
    <3>1. t \in SubtasksOf(o)
      BY <1>1, <1>11, <2>2, <2>4 DEF SubtasksOf, S
    <3> QED
      BY <1>4, <3>1
  <2>13. home'[t].stat = "exception"
    BY <1>1, <1>2, <2>1
  <2> QED
    BY <2>11, <2>12, <2>13 DEF Thrown
<1>12. FlagReason'
  <2> SUFFICES ASSUME NEW u \in Worker, NEW x \in ToSet(S(u)'), home'[x].msg_cncl >= 1
               PROVE  Doomed(home[x].owner, home[x].region)'
    BY DEF FlagReason
  <2>1. x \in ToSet(S(u)) /\ x \in Task
    BY <1>1, <1>2, Types
  <2>2. PICK o, r : o \in Task /\ o = home[x].owner /\ r = home[x].region
    BY <1>1, <2>1, Types
  <2>3. CASE home'[x].msg_cncl = home[x].msg_cncl
    <3>1. Doomed(o, r)
      BY <1>1, <2>1, <2>2, <2>3 DEF FlagReason
    <3>2. Doomed(o, r)'
      BY <1>7, <2>2, <3>1
    <3>3. home'[x].owner = o /\ home'[x].region = r
      BY <1>2, <2>1, <2>2
    <3> QED
      BY <3>2, <3>3
  <2>4. CASE home'[x].msg_cncl # home[x].msg_cncl
    <3>1. t \in Thrown(o)' /\ home'[t].region <= r
      BY <1>1, <1>2, <1>11, <2>1, <2>2, <2>4
    <3>2. Doomed(o, r)'
      BY <3>1 DEF Doomed, DoomedWith
    <3>3. home'[x].owner = o /\ home'[x].region = r
      BY <1>2, <2>1, <2>2
    <3> QED
      BY <3>2, <3>3
  <2> QED
    BY <2>3, <2>4
<1>13. ASSUME why = "done", TopFrame(t).hole
       PROVE  home[t].msg_cncl = 2
  <2>1. task[t].pc \in {"run", "wait"}
    <3>1. thr[w].exiting \in {"normal", "exception", "cancel"}
      BY <1>1 DEF Thread
    <3> QED
      BY <1>0, <1>1, <1>13, <3>1 DEF Outcome
  <2>2. PICK n \in DOMAIN task[t].frames : task[t].frames[n] = TopFrame(t)
    <3>1. task[t].frames # <<>>
      BY <1>1 DEF Framed
    <3> QED
      BY <1>1, <3>1, FrontOf DEF TopFrame
  <2>3. Doomed(t, n)
    BY <1>1, <1>13, <2>2 DEF HoleReason
  <2>4. Thrown(t) = {}
    BY <1>2 DEF Thrown
  <2> QED
    BY <2>1, <2>3, <2>4 DEF Doomed, DoomedWith
<1>14. HoleCancelled'
  BY <1>1, <1>2, <1>3, <1>13 DEF HoleCancelled
<1>15. RootSafe'
  <2>1. ASSUME home'[Root].msg_cncl # home[Root].msg_cncl
        PROVE  FALSE
    <3>1. t # Root /\ Root \in ToCancel(HomeOf(t), home[t].owner, home[t].eldest)
      BY <1>1, <1>3, <2>1, Types
    <3>2. PICK v \in Worker : t \in ToSet(S(v))
      BY <1>1, <1>5, <3>1 DEF Subs, InSub
    <3>3. HomeOf(t) = v
      BY <1>1, <3>2, HomeIs
    <3>4. Root \in 1..spawned /\ spawned \in Nat
      BY <1>1, <3>1, <3>3, Cancellable, Types
    <3> QED
      BY <3>4 DEF Root
  <2> QED
    BY <1>1, <2>1 DEF RootSafe
<1> QED
  BY <1>8, <1>9, <1>10, <1>12, <1>14, <1>15 DEF TwoInv

-----------------------------------------------------------------------------
LEMMA InitTwoInv ==
  ASSUME Init
  PROVE  TwoInv
<1>1. /\ thr = [w \in Worker |-> [tasks |-> IF w = Main THEN <<Root>> ELSE <<>>,
                              sub |-> <<>>, exiting |-> "normal", tag |-> 0,
                              req_cncl |-> FALSE, sending |-> FALSE]]
      /\ task = [t \in Task |-> IF t = Root THEN Started(NoTask) ELSE NoTask]
      /\ home = [t \in Task |-> IF t = Root THEN [NoHome EXCEPT !.stat = "initialized"]
                                        ELSE NoHome]
  BY DEF Init
<1>2. Root \in Task /\ Main \in Worker
  BY CancelAssumption DEF CancelAssumption, Root, Task
<1>3. PICK body : body = NewFrame("body", 0)
  OBVIOUS
<1>4. body.kind = "body" /\ body.hole = FALSE
  BY <1>3 DEF NewFrame
<1>5. task[Root].stat = "started" /\ task[Root].pc = "run" /\ task[Root].frames = <<body>>
  BY <1>1, <1>2, <1>3 DEF Started, NoTask
<1>6. \A t \in Task \ {Root} : task[t].stat = "none" /\ task[t].frames = <<>>
  BY <1>1 DEF NoTask
<1>7. \A t \in Task : home[t].stat # "done" /\ home[t].msg_cncl = 0
  BY <1>1 DEF NoHome
<1>8. \A t \in Task : \A i \in DOMAIN task[t].frames :
        task[t].frames[i].kind # "many" /\ ~task[t].frames[i].hole
  <2> SUFFICES ASSUME NEW t \in Task, NEW i \in DOMAIN task[t].frames
               PROVE  task[t].frames[i].kind # "many" /\ ~task[t].frames[i].hole
    OBVIOUS
  <2>1. t = Root
    BY <1>6
  <2>2. task[t].frames[i] = body
    BY <1>5, <2>1
  <2> QED
    BY <1>4, <2>2
<1>9. \A w \in Worker : /\ thr[w].exiting = "normal" /\ S(w) = <<>>
                        /\ T(w) = IF w = Main THEN <<Root>> ELSE <<>>
  BY <1>1 DEF S, T
<1>10. ExitingAsDone
  <2> SUFFICES ASSUME NEW w \in Worker, T(w) # <<>>
               PROVE  task[Top(w)].pc \in {"run", "wait"}
    BY <1>9 DEF ExitingAsDone
  <2>1. T(w) = <<Root>>
    BY <1>9
  <2>2. Top(w) = Root
    BY <2>1 DEF Top, T, Last
  <2> QED
    BY <1>5, <2>2
<1>11. FlagReason
  BY <1>9 DEF FlagReason, ToSet
<1> QED
  BY <1>2, <1>7, <1>8, <1>10, <1>11 DEF TwoInv, NoMany, HoleReason, HoleCancelled, RootSafe

LEMMA NextTwoInv ==
  ASSUME Kind \subseteq {"two"}, IInv, TwoInv, [Next]_vars
  PROVE  TwoInv'
<1>1. ASSUME NEW w \in Worker, Step(w)
      PROVE  TwoInv'
  <2>1. ASSUME NEW k \in Kind, Enter(w, k, 0)
        PROVE  TwoInv'
    <3>1. k # "many"
      BY <2>1
    <3> QED
      BY <2>1, <3>1, EnterTwo
  <2>2. ASSUME NEW g \in Tag, Enter(w, "catch", g)
        PROVE  TwoInv'
    <3>1. "catch" # "many"
      OBVIOUS
    <3> QED
      BY <2>2, <3>1, EnterTwo
  <2>3. ASSUME NEW g \in Tag, Throw(w, g)
        PROVE  TwoInv'
    BY <2>3, ThrowTwo
  <2>4. CASE EndFrame(w)
    BY <2>4, EndFrameTwo
  <2>5. CASE StartWait(w)
    BY <2>5, StartWaitTwo
  <2>6. CASE PollCncl(w)
    BY <2>6, PollCnclTwo
  <2>7. CASE Cancel(w)
    BY <2>7, CancelTwo
  <2>8. CASE SendCncl(w)
    BY <2>8, SendCnclTwo
  <2>9. CASE SendEnd(w)
    BY <2>9, SendEndTwo
  <2>10. CASE WaitCancel(w)
    BY <2>10, WaitCancelTwo
  <2>11. CASE WaitEnd(w)
    BY <2>11, WaitEndTwo
  <2>12. CASE Unwind(w)
    BY <2>12, UnwindTwo
  <2>13. CASE Start(w)
    BY <2>13, StartTwo
  <2>14. CASE Finish(w)
    BY <2>14, FinishTwo
  <2> QED
    BY <1>1, <2>1, <2>2, <2>3, <2>4, <2>5, <2>6, <2>7, <2>8, <2>9, <2>10, <2>11, <2>12, <2>13,
       <2>14 DEF Step
<1>2. ASSUME NEW w \in Worker, NEW v \in Worker, Spawn(w, v)
      PROVE  TwoInv'
  BY <1>2, SpawnTwo
<1>3. CASE UNCHANGED vars
  <2>1. thr' = thr /\ task' = task /\ home' = home
    BY <1>3 DEF vars
  <2> QED
    BY <2>1 DEF TwoInv, NoMany, ExitingAsDone, HoleReason, FlagReason, HoleCancelled, RootSafe,
                Doomed, DoomedWith, Thrown, SubtasksOf, T, S, Top, IsStarted
<1> QED
  BY <1>1, <1>2, <1>3 DEF Next

(* With do-two only, whoever gives work up has a reason that reaches the    *)
(* task that wanted it.                                                     *)
THEOREM TwoInvariance == Kind \subseteq {"two"} => (Spec => [](IInv /\ TwoInv))
<1> SUFFICES ASSUME Kind \subseteq {"two"}
             PROVE  Spec => [](IInv /\ TwoInv)
  OBVIOUS
<1>1. Init => IInv /\ TwoInv
  BY InitIInv, InitTwoInv
<1>2. (IInv /\ TwoInv) /\ [Next]_vars => (IInv /\ TwoInv)'
  BY NextIInv, NextTwoInv
<1> QED
  BY <1>1, <1>2, PTL DEF Spec

(* With do-two only, a worker that is running a task is not throwing: the   *)
(* exception that wait-rslt took from a subtask is thrown at once.          *)
THEOREM TwoRunsNormally == Kind \subseteq {"two"} => (Spec => []RunsNormally)
<1> SUFFICES ASSUME Kind \subseteq {"two"}
             PROVE  Spec => []RunsNormally
  OBVIOUS
<1>1. IInv /\ TwoInv => RunsNormally
  <2> SUFFICES ASSUME IInv, TwoInv, NEW w \in Worker, Running(w)
               PROVE  thr[w].exiting = "normal"
    BY DEF RunsNormally
  <2> QED
    BY DEF Running, Busy, TwoInv, ExitingAsDone, T, IsStarted
<1> QED
  BY <1>1, TwoInvariance, PTL

(* With do-two only, when the first task ends normally nothing that it      *)
(* wanted was given up: who aborted a subtask of it had an exception to     *)
(* deliver first, and that was thrown and caught above the work.            *)
THEOREM TwoNoHole == Kind \subseteq {"two"} => (Spec => []NoHole)
<1> SUFFICES ASSUME Kind \subseteq {"two"}
             PROVE  Spec => []NoHole
  OBVIOUS
<1>1. IInv /\ TwoInv => NoHole
  <2> SUFFICES ASSUME IInv, TwoInv, home[Root].stat = "done", home[Root].hole
               PROVE  FALSE
    BY DEF NoHole
  <2>1. Root \in Task
    BY Types DEF IInv
  <2> QED
    BY <2>1 DEF TwoInv, HoleCancelled, RootSafe
<1> QED
  BY <1>1, TwoInvariance, PTL
=============================================================================
