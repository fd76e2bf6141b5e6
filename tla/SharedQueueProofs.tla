------------------------- MODULE SharedQueueProofs -------------------------
(***************************************************************************)
(* Proofs about SharedQueue, for any number of producers and messages and   *)
(* on both Lisp systems.                                                    *)
(***************************************************************************)
EXTENDS SharedQueue, TLAPS, SequenceTheorems

(* One process at a time is inside add-queue or delete-queue: the holder;  *)
(* and a producer there has a message to add.                              *)
HolderOnly ==
  /\ \A p \in Producer : ppc[p] # "idle" <=> lock = p
  /\ cpc \in ConsumerLocked <=> lock = Consumer
  /\ \A p \in Producer : ppc[p] = "insert" => added[p] < MaxAdds

(* How far the gate may be behind the queue *)
GateBehind ==
  /\ body # <<>> /\ ~gate => \E p \in Producer : ppc[p] = "open"
  /\ gate /\ body = <<>> => cpc \in {"empty", "close"}
  /\ \A p \in Producer : ppc[p] = "open" => body # <<>>
  /\ cpc \in {"lock", "delete", "empty", "close"} => gate
  /\ cpc = "close" => body = <<>>

(* The consumer has no element before delete-queue and none after handling. *)
ItemHeld == cpc \notin {"empty", "close", "unlock", "handle"} => item = NIL

IInv == TypeOK /\ HolderOnly /\ GateBehind /\ NoNil /\ ItemHeld

-----------------------------------------------------------------------------
LEMMA MessageNotNIL == NIL \notin Message
<1>1. SUFFICES ASSUME NEW m \in Message PROVE m # NIL
  OBVIOUS
<1>2. PICK p \in Producer, n \in 1..MaxAdds : m = <<p, n>>
  BY DEF Message
<1>3. Len(m) = 2 /\ Len(NIL) = 0
  BY <1>2 DEF NIL
<1> QED
  BY <1>3

LEMMA InitIInv == Init => IInv
<1> SUFFICES ASSUME Init PROVE IInv
  OBVIOUS
<1> USE QueueAssumption DEF Init, QueueAssumption
<1>1. TypeOK
  <2>1. taken \in Seq(Message) /\ body \in Seq(Message)
    BY EmptySeq
  <2>2. lock \in Producer \cup {Consumer, Free} /\ item \in Message \cup {NIL}
    OBVIOUS
  <2>3. added \in [Producer -> 0..MaxAdds]
    OBVIOUS
  <2>4. ppc \in [Producer -> {"idle", "insert", "open", "unlock"}]
    OBVIOUS
  <2> QED
    BY <2>1, <2>2, <2>3, <2>4 DEF TypeOK
<1>2. HolderOnly
  BY DEF HolderOnly, ConsumerLocked
<1>3. GateBehind /\ NoNil /\ ItemHeld
  BY DEF GateBehind, NoNil, ItemHeld
<1> QED
  BY <1>1, <1>2, <1>3 DEF IInv

LEMMA NextIInv == IInv /\ [Next]_vars => IInv'
<1> SUFFICES ASSUME IInv, [Next]_vars PROVE IInv'
  OBVIOUS
<1> USE QueueAssumption DEF QueueAssumption, IInv, ConsumerLocked
<1>1. ASSUME NEW p \in Producer, LockToAdd(p) PROVE IInv'
  <2>1. TypeOK'
    BY <1>1 DEF LockToAdd, TypeOK
  <2>2. HolderOnly'
    BY <1>1 DEF LockToAdd, TypeOK, HolderOnly
  <2>3. GateBehind'
    BY <1>1 DEF LockToAdd, TypeOK, HolderOnly, GateBehind
  <2>4. NoNil' /\ ItemHeld'
    BY <1>1 DEF LockToAdd, TypeOK, HolderOnly, GateBehind, NoNil, ItemHeld
  <2> QED
    BY <2>1, <2>2, <2>3, <2>4
<1>2. ASSUME NEW p \in Producer, Insert(p) PROVE IInv'
  <2>0. <<p, added[p] + 1>> \in Message /\ added[p] + 1 \in 0..MaxAdds
    BY <1>2 DEF Insert, TypeOK, HolderOnly, Message
  <2>5. body' = Append(body, <<p, added[p] + 1>>)
    BY <1>2 DEF Insert
  <2>6. body' \in Seq(Message) /\ body' # <<>>
    BY <2>0, <2>5, AppendProperties DEF TypeOK
  <2>1. TypeOK'
    BY <1>2, <2>0, <2>6 DEF Insert, TypeOK
  <2>2. HolderOnly'
    BY <1>2 DEF Insert, TypeOK, HolderOnly
  <2>3. GateBehind'
    BY <1>2, <2>6 DEF Insert, TypeOK, HolderOnly, GateBehind
  <2>4. NoNil' /\ ItemHeld'
    BY <1>2, <2>6 DEF Insert, TypeOK, HolderOnly, GateBehind, NoNil, ItemHeld
  <2> QED
    BY <2>1, <2>2, <2>3, <2>4
<1>3. ASSUME NEW p \in Producer, Open(p) PROVE IInv'
  <2>1. TypeOK'
    BY <1>3 DEF Open, TypeOK
  <2>2. HolderOnly'
    BY <1>3 DEF Open, TypeOK, HolderOnly
  <2>3. GateBehind'
    BY <1>3 DEF Open, TypeOK, HolderOnly, GateBehind
  <2>4. NoNil' /\ ItemHeld'
    BY <1>3 DEF Open, TypeOK, HolderOnly, GateBehind, NoNil, ItemHeld
  <2> QED
    BY <2>1, <2>2, <2>3, <2>4
<1>4. ASSUME NEW p \in Producer, UnlockAdded(p) PROVE IInv'
  <2>1. TypeOK'
    BY <1>4 DEF UnlockAdded, TypeOK
  <2>2. HolderOnly'
    BY <1>4 DEF UnlockAdded, TypeOK, HolderOnly
  <2>3. GateBehind'
    BY <1>4 DEF UnlockAdded, TypeOK, HolderOnly, GateBehind
  <2>4. NoNil' /\ ItemHeld'
    BY <1>4 DEF UnlockAdded, TypeOK, HolderOnly, GateBehind, NoNil, ItemHeld
  <2> QED
    BY <2>1, <2>2, <2>3, <2>4
<1>5. CASE GateOpen
  <2>1. TypeOK'
    BY <1>5 DEF GateOpen, TypeOK
  <2>2. HolderOnly'
    BY <1>5 DEF GateOpen, TypeOK, HolderOnly
  <2>3. GateBehind'
    BY <1>5 DEF GateOpen, TypeOK, HolderOnly, GateBehind
  <2>4. NoNil' /\ ItemHeld'
    BY <1>5 DEF GateOpen, TypeOK, HolderOnly, GateBehind, NoNil, ItemHeld
  <2> QED
    BY <2>1, <2>2, <2>3, <2>4
<1>6. CASE GateClosed
  <2>1. TypeOK'
    BY <1>6 DEF GateClosed, TypeOK
  <2>2. HolderOnly'
    BY <1>6 DEF GateClosed, TypeOK, HolderOnly
  <2>3. GateBehind'
    BY <1>6 DEF GateClosed, TypeOK, HolderOnly, GateBehind
  <2>4. NoNil' /\ ItemHeld'
    BY <1>6 DEF GateClosed, TypeOK, HolderOnly, GateBehind, NoNil, ItemHeld
  <2> QED
    BY <2>1, <2>2, <2>3, <2>4
<1>7. CASE ConditionWait
  <2>1. TypeOK'
    BY <1>7 DEF ConditionWait, TypeOK
  <2>2. HolderOnly'
    BY <1>7 DEF ConditionWait, TypeOK, HolderOnly
  <2>3. GateBehind'
    BY <1>7 DEF ConditionWait, TypeOK, HolderOnly, GateBehind
  <2>4. NoNil' /\ ItemHeld'
    BY <1>7 DEF ConditionWait, TypeOK, HolderOnly, GateBehind, NoNil, ItemHeld
  <2> QED
    BY <2>1, <2>2, <2>3, <2>4
<1>8. CASE WhileOpen
  <2>1. TypeOK'
    BY <1>8 DEF WhileOpen, TypeOK
  <2>2. HolderOnly'
    BY <1>8 DEF WhileOpen, TypeOK, HolderOnly
  <2>3. GateBehind'
    BY <1>8 DEF WhileOpen, TypeOK, HolderOnly, GateBehind
  <2>4. NoNil' /\ ItemHeld'
    BY <1>8 DEF WhileOpen, TypeOK, HolderOnly, GateBehind, NoNil, ItemHeld
  <2> QED
    BY <2>1, <2>2, <2>3, <2>4
<1>9. CASE LockToDelete
  <2>1. TypeOK'
    BY <1>9 DEF LockToDelete, TypeOK
  <2>2. HolderOnly'
    BY <1>9 DEF LockToDelete, TypeOK, HolderOnly
  <2>3. GateBehind'
    BY <1>9 DEF LockToDelete, TypeOK, HolderOnly, GateBehind
  <2>4. NoNil' /\ ItemHeld'
    BY <1>9 DEF LockToDelete, TypeOK, HolderOnly, GateBehind, NoNil, ItemHeld
  <2> QED
    BY <2>1, <2>2, <2>3, <2>4
<1>10. CASE Delete
  <2>0. body # <<>> /\ Head(body) \in Message /\ Tail(body) \in Seq(Message)
    BY <1>10, HeadTailProperties DEF Delete, TypeOK, NoNil
  <2>1. TypeOK'
    BY <1>10, <2>0 DEF Delete, TypeOK
  <2>2. HolderOnly'
    BY <1>10 DEF Delete, TypeOK, HolderOnly
  <2>3. GateBehind'
    BY <1>10, <2>0 DEF Delete, TypeOK, HolderOnly, GateBehind
  <2>4. NoNil' /\ ItemHeld'
    BY <1>10, <2>0, MessageNotNIL DEF Delete, TypeOK, HolderOnly, GateBehind, NoNil, ItemHeld
  <2> QED
    BY <2>1, <2>2, <2>3, <2>4
<1>11. CASE TestEmpty
  <2>1. TypeOK'
    BY <1>11 DEF TestEmpty, TypeOK
  <2>2. HolderOnly'
    BY <1>11 DEF TestEmpty, TypeOK, HolderOnly
  <2>3. GateBehind'
    BY <1>11 DEF TestEmpty, TypeOK, HolderOnly, GateBehind
  <2>4. NoNil' /\ ItemHeld'
    BY <1>11 DEF TestEmpty, TypeOK, HolderOnly, GateBehind, NoNil, ItemHeld
  <2> QED
    BY <2>1, <2>2, <2>3, <2>4
<1>12. CASE Close
  <2>1. TypeOK'
    BY <1>12 DEF Close, TypeOK
  <2>2. HolderOnly'
    BY <1>12 DEF Close, TypeOK, HolderOnly
  <2>3. GateBehind'
    BY <1>12 DEF Close, TypeOK, HolderOnly, GateBehind
  <2>4. NoNil' /\ ItemHeld'
    BY <1>12 DEF Close, TypeOK, HolderOnly, GateBehind, NoNil, ItemHeld
  <2> QED
    BY <2>1, <2>2, <2>3, <2>4
<1>13. CASE UnlockDeleted
  <2>1. TypeOK'
    BY <1>13 DEF UnlockDeleted, TypeOK
  <2>2. HolderOnly'
    BY <1>13 DEF UnlockDeleted, TypeOK, HolderOnly
  <2>3. GateBehind'
    BY <1>13 DEF UnlockDeleted, TypeOK, HolderOnly, GateBehind
  <2>4. NoNil' /\ ItemHeld'
    BY <1>13 DEF UnlockDeleted, TypeOK, HolderOnly, GateBehind, NoNil, ItemHeld
  <2> QED
    BY <2>1, <2>2, <2>3, <2>4
<1>14. CASE Handle
  <2>0. Append(taken, item) \in Seq(Message)
    BY <1>14, AppendProperties DEF Handle, TypeOK, NoNil
  <2>1. TypeOK'
    BY <1>14, <2>0 DEF Handle, TypeOK
  <2>2. HolderOnly'
    BY <1>14 DEF Handle, TypeOK, HolderOnly
  <2>3. GateBehind'
    BY <1>14, <2>0 DEF Handle, TypeOK, HolderOnly, GateBehind
  <2>4. NoNil' /\ ItemHeld'
    BY <1>14, <2>0 DEF Handle, TypeOK, HolderOnly, GateBehind, NoNil, ItemHeld
  <2> QED
    BY <2>1, <2>2, <2>3, <2>4
<1>15. CASE UNCHANGED vars
  BY <1>15 DEF vars, TypeOK, HolderOnly, GateBehind, NoNil, ItemHeld
<1> QED
  BY <1>1, <1>2, <1>3, <1>4, <1>5, <1>6, <1>7, <1>8, <1>9, <1>10, <1>11, <1>12, <1>13,
     <1>14, <1>15 DEF Next, Add, Consume

THEOREM Invariance == Spec => []IInv
  BY InitIInv, NextIInv, PTL DEF Spec

(* The queue's data have their types: in particular nothing but messages is *)
(* handled.                                                                 *)
THEOREM TypeCorrect == Spec => []TypeOK
<1>1. IInv => TypeOK
  BY DEF IInv
<1> QED
  BY <1>1, Invariance, PTL

(* delete-queue of server.lsp's consumers never returns nil. *)
THEOREM NeverNil == Spec => []NoNil
<1>1. IInv => NoNil
  BY DEF IInv
<1> QED
  BY <1>1, Invariance, PTL

(* While nobody is inside add-queue or delete-queue, the gate tells whether *)
(* the queue holds something.                                               *)
THEOREM GateTells == Spec => []GateMeansNonempty
<1>1. IInv => GateMeansNonempty
  <2> SUFFICES ASSUME IInv, lock = Free PROVE gate <=> body # <<>>
    BY DEF GateMeansNonempty
  <2>1. \A p \in Producer : ppc[p] = "idle"
    BY QueueAssumption DEF QueueAssumption, IInv, HolderOnly
  <2>2. cpc \notin ConsumerLocked
    BY QueueAssumption DEF QueueAssumption, IInv, HolderOnly
  <2> QED
    BY <2>1, <2>2 DEF IInv, GateBehind, ConsumerLocked
<1> QED
  BY <1>1, Invariance, PTL

-----------------------------------------------------------------------------
(* Order: an add appends to what has passed, nothing else changes it *)

LEMMA ConcatHeadTail ==
  ASSUME NEW S, NEW s \in Seq(S), s # <<>>
  PROVE  s = <<Head(s)>> \o Tail(s)
<1>1. Head(s) \in S /\ Tail(s) \in Seq(S) /\ Len(Tail(s)) = Len(s) - 1
      /\ \A i \in 1..Len(Tail(s)) : Tail(s)[i] = s[i + 1]
  BY HeadTailProperties
<1>2. <<Head(s)>> \in Seq(S) /\ Len(<<Head(s)>>) = 1 /\ Len(s) \in Nat
  BY <1>1, LenProperties
<1>3. /\ <<Head(s)>> \o Tail(s) \in Seq(S)
      /\ Len(<<Head(s)>> \o Tail(s)) = Len(s)
      /\ \A i \in 1..Len(s) :
           (<<Head(s)>> \o Tail(s))[i] = IF i <= 1 THEN Head(s) ELSE Tail(s)[i - 1]
  BY <1>1, <1>2, ConcatProperties
<1>4. \A i \in 1..Len(s) : (<<Head(s)>> \o Tail(s))[i] = s[i]
  BY <1>1, <1>2, <1>3
<1> QED
  BY <1>3, <1>4, SeqEqual

LEMMA PassedType == IInv => Passed \in Seq(Message)
<1> SUFFICES ASSUME IInv PROVE Passed \in Seq(Message)
  OBVIOUS
<1> DEFINE mid == IF item = NIL THEN <<>> ELSE <<item>>
<1>1. mid \in Seq(Message)
  BY EmptySeq DEF IInv, TypeOK
<1>2. taken \o mid \in Seq(Message)
  BY <1>1, ConcatProperties DEF IInv, TypeOK
<1>3. (taken \o mid) \o body \in Seq(Message)
  BY <1>2, ConcatProperties DEF IInv, TypeOK
<1> QED
  BY <1>3 DEF Passed

LEMMA InsertAppends ==
  ASSUME IInv, NEW p \in Producer, Insert(p)
  PROVE  /\ <<p, added[p] + 1>> \in Message
         /\ Passed' = Append(Passed, <<p, added[p] + 1>>)
<1> DEFINE m == <<p, added[p] + 1>>
           mid == IF item = NIL THEN <<>> ELSE <<item>>
<1>1. m \in Message
  BY QueueAssumption DEF QueueAssumption, IInv, Insert, TypeOK, HolderOnly, Message
<1>2. mid \in Seq(Message) /\ <<m>> \in Seq(Message)
  BY <1>1, EmptySeq DEF IInv, TypeOK
<1>3. taken \o mid \in Seq(Message) /\ body \in Seq(Message) /\ Passed \in Seq(Message)
  BY <1>2, ConcatProperties, PassedType DEF IInv, TypeOK
<1>4. Passed = (taken \o mid) \o body
  BY DEF Passed
<1>5. Passed' = (taken \o mid) \o (body \o <<m>>)
  <2>1. body' = body \o <<m>>
    BY <1>1, <1>3, AppendIsConcat DEF Insert
  <2>2. taken' = taken /\ item' = item
    BY DEF Insert
  <2>3. Passed' = (taken' \o (IF item' = NIL THEN <<>> ELSE <<item'>>)) \o body'
    BY DEF Passed
  <2>4. (IF item' = NIL THEN <<>> ELSE <<item'>>) = mid
    BY <2>2
  <2> HIDE DEF m, mid
  <2> QED
    BY <2>1, <2>2, <2>3, <2>4
<1>6. (taken \o mid) \o (body \o <<m>>) = ((taken \o mid) \o body) \o <<m>>
  <2> DEFINE front == taken \o mid
             back == <<m>>
  <2>1. front \in Seq(Message) /\ body \in Seq(Message) /\ back \in Seq(Message)
    BY <1>2, <1>3
  <2> HIDE DEF front, back
  <2>2. (front \o body) \o back = front \o (body \o back)
    BY <2>1, ConcatAssociative
  <2> QED
    BY <2>2 DEF front, back
<1>7. Append(Passed, m) = Passed \o <<m>>
  BY <1>1, <1>3, AppendIsConcat
<1> QED
  BY <1>1, <1>4, <1>5, <1>6, <1>7

LEMMA OthersKeep ==
  ASSUME IInv, [Next]_vars, \A p \in Producer : ~Insert(p)
  PROVE  Passed' = Passed /\ added' = added
<1>1. CASE Delete
  <2>1. /\ body # <<>> /\ Head(body) \in Message /\ Tail(body) \in Seq(Message)
        /\ item = NIL /\ item' = Head(body) /\ body' = Tail(body) /\ taken' = taken
        /\ added' = added
    BY <1>1, HeadTailProperties DEF Delete, IInv, TypeOK, NoNil, ItemHeld
  <2>2. body = <<Head(body)>> \o Tail(body)
    BY <2>1, ConcatHeadTail DEF IInv, TypeOK
  <2>3. Passed = taken \o body
    BY <2>1, ConcatEmptySeq DEF Passed, IInv, TypeOK
  <2>4. Passed' = (taken \o <<Head(body)>>) \o Tail(body)
    BY <2>1, MessageNotNIL DEF Passed
  <2>5. taken \in Seq(Message) /\ <<Head(body)>> \in Seq(Message)
    BY <2>1 DEF IInv, TypeOK
  <2> QED
    BY <2>1, <2>2, <2>3, <2>4, <2>5, ConcatAssociative
<1>2. CASE Handle
  <2>1. item \in Message /\ item' = NIL /\ body' = body /\ added' = added
        /\ taken' = Append(taken, item) /\ item # NIL /\ taken \in Seq(Message)
    BY <1>2 DEF Handle, IInv, TypeOK, NoNil
  <2>2. taken' = taken \o <<item>>
    BY <2>1, AppendIsConcat
  <2>3. taken' \in Seq(Message)
    BY <2>1, AppendProperties
  <2> QED
    BY <2>1, <2>2, <2>3, ConcatEmptySeq DEF Passed
<1>3. CASE UNCHANGED vars
  BY <1>3 DEF vars, Passed
<1>4. ASSUME NEW p \in Producer, LockToAdd(p) \/ Open(p) \/ UnlockAdded(p)
      PROVE  UNCHANGED <<taken, item, body, added>>
  BY <1>4 DEF LockToAdd, Open, UnlockAdded
<1>5. CASE GateOpen \/ GateClosed \/ ConditionWait \/ WhileOpen \/ LockToDelete
           \/ TestEmpty \/ Close \/ UnlockDeleted
  BY <1>5 DEF GateOpen, GateClosed, ConditionWait, WhileOpen, LockToDelete, TestEmpty,
              Close, UnlockDeleted, Passed
<1> QED
  BY <1>1, <1>2, <1>3, <1>4, <1>5 DEF Next, Consume, Add, Passed

LEMMA InitFifo == Init => Fifo
<1> SUFFICES ASSUME Init PROVE Fifo
  OBVIOUS
<1>1. Passed = <<>> /\ Len(Passed) = 0
  BY EmptySeq, ConcatEmptySeq DEF Init, Passed
<1> QED
  BY <1>1 DEF Init, Fifo

LEMMA InsertFifo ==
  ASSUME IInv, Fifo, NEW p \in Producer, Insert(p)
  PROVE  Fifo'
<1> DEFINE n == added[p] + 1
           k == Len(Passed)
<1>1. <<p, n>> \in Message /\ Passed \in Seq(Message) /\ added \in [Producer -> Nat]
      /\ added' = [added EXCEPT ![p] = n] /\ k \in Nat
  <2>1. added \in [Producer -> Nat] /\ added' = [added EXCEPT ![p] = n]
    BY QueueAssumption DEF QueueAssumption, IInv, TypeOK, Insert
  <2>2. <<p, n>> \in Message /\ Passed \in Seq(Message)
    BY InsertAppends, PassedType
  <2> QED
    BY <2>1, <2>2, LenProperties
<1>2. /\ Len(Passed') = k + 1
      /\ \A i \in 1..k : Passed'[i] = Passed[i]
      /\ Passed'[k + 1] = <<p, n>>
  BY <1>1, InsertAppends, AppendProperties
<1>3. \A i \in 1..k : /\ Passed[i] \in Message /\ Passed[i][1] \in Producer
                      /\ Passed[i][2] \in Nat /\ Passed[i][2] <= added[Passed[i][1]]
  BY <1>1, ElementOfSeq, QueueAssumption DEF QueueAssumption, Fifo, Message
<1>4. \A i \in 1..Len(Passed') : Passed'[i][2] <= added'[Passed'[i][1]]
  <2>1. \A i \in 1..k : Passed[i][2] <= added'[Passed[i][1]]
    BY <1>1, <1>3
  <2> QED
    BY <1>1, <1>2, <2>1
<1>5. \A i, j \in 1..Len(Passed') :
        i < j /\ Passed'[i][1] = Passed'[j][1] => Passed'[i][2] < Passed'[j][2]
  <2> SUFFICES ASSUME NEW i \in 1..Len(Passed'), NEW j \in 1..Len(Passed'), i < j,
                      Passed'[i][1] = Passed'[j][1]
               PROVE  Passed'[i][2] < Passed'[j][2]
    OBVIOUS
  <2>3. i \in 1..k /\ Passed'[i] = Passed[i]
    BY <1>1, <1>2
  <2>1. CASE j = k + 1
    BY <1>1, <1>2, <1>3, <2>1, <2>3
  <2>2. CASE j # k + 1
    <3>1. j \in 1..k /\ Passed'[j] = Passed[j]
      BY <1>1, <1>2, <2>2
    <3> QED
      BY <2>3, <3>1 DEF Fifo
  <2> QED
    BY <2>1, <2>2
<1>6. \A q \in Producer : \A x \in 1..added'[q] :
        \E i \in 1..Len(Passed') : Passed'[i] = <<q, x>>
  <2> SUFFICES ASSUME NEW q \in Producer, NEW x \in 1..added'[q]
               PROVE  \E i \in 1..(k + 1) : Passed'[i] = <<q, x>>
    BY <1>2
  <2>1. CASE q = p /\ x = n
    BY <1>1, <1>2, <2>1
  <2>2. CASE ~(q = p /\ x = n)
    <3>1. x \in 1..added[q]
      BY <1>1, <2>2
    <3>2. PICK i \in 1..k : Passed[i] = <<q, x>>
      BY <3>1 DEF Fifo
    <3> QED
      BY <1>1, <1>2, <3>2
  <2> QED
    BY <2>1, <2>2
<1> QED
  BY <1>4, <1>5, <1>6 DEF Fifo

(* No message is lost, duplicated or overtaken by a later one of its producer. *)
THEOREM Order == Spec => []Fifo
<1>1. IInv /\ Fifo /\ [Next]_vars => Fifo'
  BY InsertFifo, OthersKeep DEF Fifo
<1> QED
  BY <1>1, InitFifo, Invariance, PTL DEF Spec
=============================================================================
