------------------------ MODULE TascellAddressProofs ------------------------
(***************************************************************************)
(* Proofs about TascellAddress, for any tree of servers.                   *)
(*                                                                         *)
(* What a head stands for is a route: the hosts from where the request is  *)
(* back to the node it came from.  Routes are sequences of any length, and *)
(* two arguments go along them: one reads off a route what its head is,    *)
(* the other shows that there is only one route between two nodes.         *)
(***************************************************************************)
EXTENDS TascellAddress, TLAPS, SequenceTheorems, WellFoundedInduction

(***************************************************************************)
(* Induction: a nonempty set of natural numbers has a smallest element.    *)
(***************************************************************************)
Less == OpToRel(<, Nat)

LEMMA Smallest ==
  ASSUME NEW T \in SUBSET Nat, T # {}
  PROVE  \E x \in T : \A y \in T : x <= y
<1>1. Less = {e \in Nat \X Nat : e[1] < e[2]}
  BY DEF Less, OpToRel
<1>2. IsWellFoundedOn(Less, Nat)
  BY NatLessThanWellFounded, Zenon DEF Less
<1>3. PICK x \in T : \A y \in T : ~(<<y, x>> \in Less)
  BY <1>2, WFMin
<1>4. ASSUME NEW y \in T PROVE x <= y
  <2>1. ~(<<y, x>> \in Less)
    BY <1>3
  <2> QED
    BY <1>1, <2>1
<1> QED
  BY <1>4

LEMMA Largest ==
  ASSUME NEW T \in SUBSET Nat, T # {}, NEW m \in Nat, \A x \in T : x <= m
  PROVE  \E x \in T : \A y \in T : y <= x
<1>1. PICK D \in SUBSET Nat : D = {d \in Nat : m - d \in T}
  OBVIOUS
<1>2. D # {}
  <2>1. PICK x \in T : TRUE
    OBVIOUS
  <2>2. m - x \in Nat /\ m - (m - x) = x
    BY <2>1
  <2> QED
    BY <1>1, <2>1, <2>2
<1>3. PICK d \in D : \A e \in D : d <= e
  BY <1>2, Smallest
<1>4. m - d \in T /\ d \in Nat
  BY <1>1, <1>3
<1>5. ASSUME NEW y \in T PROVE y <= m - d
  <2>1. m - y \in Nat /\ m - (m - y) = y
    BY <1>5
  <2>2. m - y \in D
    BY <1>1, <2>1
  <2>3. d <= m - y
    BY <1>3, <2>2
  <2> QED
    BY <1>4, <2>1, <2>3
<1> QED
  BY <1>4, <1>5

(***************************************************************************)
(* The tree                                                                *)
(***************************************************************************)
Place == Host \cup {Terminal}

(* A set that holds, with a host, its parent. *)
Upward(C) == \A h \in Host \cap C : Parent[h] \in C

(* x, its parent, the parent of that, and so on *)
Ancestors(x) == {y \in Place : \A C \in SUBSET Place : x \in C /\ Upward(C) => y \in C}

LEMMA Parents ==
  /\ \A h \in Host : Parent[h] \in Server \cup {Terminal} /\ Parent[h] \in Place /\ Parent[h] \notin Node
  /\ \A n \in Node : Parent[n] \in Server
  /\ Terminal \notin Host
  BY AddressAssumption DEF AddressAssumption, Place, Host

LEMMA AncestorsClosed ==
  ASSUME NEW x \in Place
  PROVE  x \in Ancestors(x) /\ Upward(Ancestors(x)) /\ Ancestors(x) \in SUBSET Place
<1>1. ASSUME NEW h \in Host \cap Ancestors(x) PROVE Parent[h] \in Ancestors(x)
  <2>1. Parent[h] \in Place
    BY Parents
  <2>2. ASSUME NEW C \in SUBSET Place, x \in C, Upward(C) PROVE Parent[h] \in C
    BY <2>2 DEF Ancestors, Upward
  <2> QED
    BY <2>1, <2>2 DEF Ancestors
<1> QED
  BY <1>1 DEF Ancestors, Upward

LEMMA AncestorsWithin ==
  ASSUME NEW x \in Place, NEW C \in SUBSET Place, x \in C, Upward(C)
  PROVE  Ancestors(x) \subseteq C
  BY DEF Ancestors

LEMMA AncestorsUp ==
  ASSUME NEW h \in Host
  PROVE  Ancestors(h) = {h} \cup Ancestors(Parent[h])
<1>1. h \in Place /\ Parent[h] \in Place
  BY Parents DEF Place
<1>2. Ancestors(h) \subseteq {h} \cup Ancestors(Parent[h])
  <2>1. PICK C \in SUBSET Place : C = {h} \cup Ancestors(Parent[h])
    BY <1>1, AncestorsClosed
  <2>2. Upward(C)
    BY <1>1, <2>1, AncestorsClosed DEF Upward
  <2> QED
    BY <1>1, <2>1, <2>2, AncestorsWithin
<1>3. Ancestors(Parent[h]) \subseteq Ancestors(h)
  BY <1>1, AncestorsClosed, AncestorsWithin DEF Upward
<1> QED
  BY <1>1, <1>2, <1>3, AncestorsClosed

LEMMA AncestorsOfTerminal == Ancestors(Terminal) = {Terminal}
<1>1. Terminal \in Place /\ {Terminal} \in SUBSET Place /\ Upward({Terminal})
  BY Parents DEF Place, Upward
<1> QED
  BY <1>1, AncestorsClosed, AncestorsWithin

(* Nobody is above its own parent. *)
LEMMA NoCycle ==
  ASSUME NEW h \in Host
  PROVE  h \notin Ancestors(Parent[h])
<1>1. PICK B \in SUBSET Place :
        B = {x \in Place : x \in Host => x \notin Ancestors(Parent[x])}
  OBVIOUS
<1>2. Terminal \in B
  BY <1>1, Parents DEF Place
<1>3. ASSUME NEW x \in Host, Parent[x] \in B PROVE x \in B
  <2> SUFFICES ASSUME x \in Ancestors(Parent[x]) PROVE FALSE
    BY <1>1 DEF Place
  <2>1. PICK y \in Place : y = Parent[x]
    BY Parents
  <2>2. CASE y = Terminal
    BY <2>1, <2>2, AncestorsOfTerminal, Parents
  <2>3. CASE y \in Host
    <3>1. y \notin Ancestors(Parent[y])
      BY <1>1, <1>3, <2>1, <2>3
    <3>2. Ancestors(y) = {y} \cup Ancestors(Parent[y])
      BY <2>3, AncestorsUp
    <3>3. Parent[y] \in Place
      BY <2>3, Parents
    <3>4. x = y \/ x \in Ancestors(Parent[y])
      BY <2>1, <3>2
    <3>5. x \in Ancestors(Parent[y]) => y \in Ancestors(Parent[y])
      BY <2>1, <3>3, AncestorsClosed DEF Upward
    <3>6. x = y => y \in Ancestors(Parent[y])
      BY <2>1
    <3> QED
      BY <3>1, <3>4, <3>5, <3>6
  <2> QED
    BY <2>1, <2>2, <2>3 DEF Place
<1>4. Host \subseteq B
  BY <1>2, <1>3, AddressAssumption DEF AddressAssumption, IsTree, Place
<1> QED
  BY <1>1, <1>4

(* Two children of one server have nobody in common below them. *)
LEMMA Siblings ==
  ASSUME NEW c \in Host, NEW d \in Host, c # d, Parent[c] = Parent[d], NEW n \in Host
  PROVE  ~(c \in Ancestors(n) /\ d \in Ancestors(n))
<1>1. PICK B \in SUBSET Place :
        B = {x \in Place : ~(c \in Ancestors(x) /\ d \in Ancestors(x))}
  OBVIOUS
<1>2. Terminal \in B
  BY <1>1, AncestorsOfTerminal, Parents DEF Place
<1>3. ASSUME NEW x \in Host, Parent[x] \in B PROVE x \in B
  <2> SUFFICES ASSUME c \in Ancestors(x), d \in Ancestors(x) PROVE FALSE
    BY <1>1 DEF Place
  <2>1. Ancestors(x) = {x} \cup Ancestors(Parent[x])
    BY AncestorsUp
  <2>2. ~(c \in Ancestors(Parent[x]) /\ d \in Ancestors(Parent[x]))
    BY <1>1, <1>3
  <2>3. c \notin Ancestors(Parent[d]) /\ d \notin Ancestors(Parent[c])
    BY NoCycle
  <2> QED
    BY <2>1, <2>2, <2>3
<1>4. Host \subseteq B
  BY <1>2, <1>3, AddressAssumption DEF AddressAssumption, IsTree, Place
<1> QED
  BY <1>1, <1>4

(***************************************************************************)
(* Routes                                                                  *)
(***************************************************************************)
LEMMA PushFront ==
  ASSUME NEW S, NEW h \in S, NEW p \in Seq(S)
  PROVE  /\ <<h>> \o p \in Seq(S) /\ Len(<<h>> \o p) = Len(p) + 1
         /\ (<<h>> \o p)[1] = h /\ \A i \in 1..Len(p) : (<<h>> \o p)[i + 1] = p[i]
         /\ Len(p) \in Nat
<1>1. <<h>> \in Seq(S) /\ Len(<<h>>) = 1 /\ <<h>>[1] = h
  OBVIOUS
<1>2. <<h>> \o p \in Seq(S) /\ Len(<<h>> \o p) = Len(<<h>>) + Len(p)
  BY <1>1, ConcatProperties
<1>3. \A i \in 1..Len(<<h>>) + Len(p) :
        (<<h>> \o p)[i] = IF i <= Len(<<h>>) THEN <<h>>[i] ELSE p[i - Len(<<h>>)]
  BY <1>1, ConcatProperties
<1>4. Len(p) \in Nat
  BY LenProperties
<1> QED
  BY <1>1, <1>2, <1>3, <1>4

LEMMA Rest ==
  ASSUME NEW S, NEW p \in Seq(S), Len(p) >= 1
  PROVE  /\ Tail(p) \in Seq(S) /\ Len(Tail(p)) = Len(p) - 1 /\ Head(p) = p[1]
         /\ \A i \in 1..Len(p) - 1 : Tail(p)[i] = p[i + 1]
         /\ Len(p) \in Nat /\ \A i \in 1..Len(p) : p[i] \in S
<1>1. p # <<>> /\ Len(p) \in Nat /\ \A i \in 1..Len(p) : p[i] \in S
  BY LenProperties, EmptySeq, ElementOfSeq
<1>2. Tail(p) \in Seq(S) /\ Len(Tail(p)) = Len(p) - 1 /\ Head(p) = p[1]
      /\ \A i \in 1..Len(Tail(p)) : Tail(p)[i] = p[i + 1]
  BY <1>1, HeadTailProperties
<1> QED
  BY <1>1, <1>2

(* From host to host, over servers, to a node *)
IsRoute(p) ==
  /\ p \in Seq(Host) /\ Len(p) >= 1
  /\ \A i \in 1..Len(p) - 1 : Adjacent(p[i], p[i + 1])
  /\ \A i \in 2..Len(p) - 1 : p[i] \in Server
  /\ p[Len(p)] \in Node

NoReturn(p) == \A i \in 1..Len(p) - 2 : p[i] # p[i + 2]

(* What a server at p[1] reads, and what is left at the end of the route *)
Spells(p, head, sender) ==
  /\ head \in Seq(Int) /\ Len(head) = Len(p) - 1 + Len(sender)
  /\ \A i \in 1..Len(p) - 1 : head[i] = HostId(p[i], p[i + 1])
  /\ \A i \in 1..Len(sender) : head[Len(p) - 1 + i] = sender[i]

(* p is the way back from where the request, or its answer, is. *)
Leads(q, p) ==
  /\ IsRoute(p) /\ p[1] = q.at /\ p[Len(p)] = q.org[1]
  /\ q.phase \in {"out", "arrived"} =>
       /\ Len(p) >= 2 /\ p[2] = q.via /\ NoReturn(p)
       /\ Spells(Tail(p), q.head, q.org[2])
  /\ q.phase = "out" => q.at \in Server
  /\ q.phase = "arrived" => q.at \in Node
  /\ q.phase = "back" => q.at \in Server /\ Spells(p, q.head, q.org[2])
  /\ q.phase = "returned" => Len(p) = 1 /\ Spells(p, q.head, q.org[2])
  /\ q.phase # "lost"

Request == [org : Origin, at : Host \cup {Terminal}, via : Host, head : Seq(Int), phase : Phase]

(* The host that an id names is the one that was given it. *)
LEMMA HostWithId ==
  ASSUME NEW s \in Server, NEW h \in Host, Adjacent(s, h)
  PROVE  HostWith(s, HostId(s, h)) = h /\ HostId(s, h) \in Int
<1>1. /\ Parent \in [Host -> Server \cup {Terminal}] /\ ChildId \in [Host -> Nat]
      /\ \A g, k \in Host : Parent[g] = Parent[k] /\ ChildId[g] = ChildId[k] => g = k
  BY AddressAssumption DEF AddressAssumption
<1>2. ASSUME NEW g \in Host, Adjacent(s, g), HostId(s, g) = HostId(s, h)
      PROVE  g = h
  BY <1>1, <1>2 DEF Adjacent, HostId, P
<1>3. HostId(s, h) \in Int
  BY <1>1 DEF HostId, P
<1> QED
  BY <1>2, <1>3 DEF HostWith

LEMMA SenderIs ==
  ASSUME NEW x \in Sender
  PROVE  x \in Seq(Int) /\ Len(x) \in Nat \ {0}
<1>1. WorkerId \subseteq Int /\ SubtaskId \subseteq Int
  BY AddressAssumption DEF AddressAssumption
<1>2. ASSUME NEW w \in WorkerId, x = <<w>> PROVE x \in Seq(Int) /\ Len(x) = 1
  BY <1>1, <1>2
<1>3. ASSUME NEW w \in WorkerId, NEW u \in SubtaskId, x = <<w, u>>
      PROVE  x \in Seq(Int) /\ Len(x) = 2
  BY <1>1, <1>3
<1>4. (\E w \in WorkerId : x = <<w>>) \/ (\E w \in WorkerId, u \in SubtaskId : x = <<w, u>>)
  BY DEF Sender
<1>5. CASE \E w \in WorkerId : x = <<w>>
  <2>1. x \in Seq(Int) /\ Len(x) = 1
    BY <1>2, <1>5
  <2> QED
    BY <2>1
<1>6. CASE \E w \in WorkerId, u \in SubtaskId : x = <<w, u>>
  <2>1. x \in Seq(Int) /\ Len(x) = 2
    BY <1>3, <1>6
  <2> QED
    BY <2>1
<1> QED
  BY <1>4, <1>5, <1>6

LEMMA OriginIs ==
  ASSUME NEW org \in Origin
  PROVE  /\ org = <<org[1], org[2]>> /\ org[1] \in Node /\ org[2] \in Sender
         /\ org[2] \in Seq(Int) /\ Len(org[2]) \in Nat \ {0}
<1>1. org = <<org[1], org[2]>> /\ org[1] \in Node /\ org[2] \in Sender
  BY DEF Origin
<1> QED
  BY <1>1, SenderIs

LEMMA StartLeads ==
  ASSUME NEW org \in Origin
  PROVE  Start(org) \in Request /\ Leads(Start(org), <<Parent[org[1]], org[1]>>)
<1>1. PICK n \in Node, x \in Sender : org = <<n, x>> /\ n = org[1] /\ x = org[2]
  BY OriginIs
<1>2. PICK s \in Server : s = Parent[n]
  BY <1>1, Parents
<1>3. PICK p : p = <<s, n>>
  OBVIOUS
<1>5. n \in Host /\ s \in Host
  BY DEF Host
<1>6. x \in Seq(Int) /\ Len(x) \in Nat \ {0}
  BY SenderIs
<1>7. p \in Seq(Host) /\ Len(p) = 2 /\ p[1] = s /\ p[2] = n
  BY <1>3, <1>5
<1>8. IsRoute(p) /\ NoReturn(p)
  BY <1>2, <1>7 DEF IsRoute, NoReturn, Adjacent
<1>9. Tail(p) \in Seq(Host) /\ Len(Tail(p)) = 1
  <2>1. p \in Seq(Host) /\ Len(p) >= 1 /\ Len(p) - 1 = 1
    BY <1>7
  <2>2. Tail(p) \in Seq(Host) /\ Len(Tail(p)) = Len(p) - 1
    BY <2>1, Rest
  <2> QED
    BY <2>1, <2>2
<1>10. Spells(Tail(p), x, x)
  <2>1. PICK t : t = Tail(p)
    OBVIOUS
  <2>2. Len(t) = 1 /\ \A i \in 1..Len(x) : Len(t) - 1 + i = i
    <3>1. Len(t) = 1
      BY <1>9, <2>1
    <3>2. \A i \in 1..Len(x) : 1 - 1 + i = i
      BY <1>6
    <3> QED
      BY <3>1, <3>2
  <2>3. Spells(t, x, x)
    BY <1>6, <2>2 DEF Spells
  <2> QED
    BY <2>1, <2>3
<1>11. Start(org) = [org |-> org, at |-> s, via |-> n, head |-> x, phase |-> "out"]
  BY <1>1, <1>2 DEF Start
<1>12. Start(org) \in Request
  BY <1>5, <1>6, <1>11 DEF Request, Phase
<1>13. Leads(Start(org), p)
  BY <1>1, <1>7, <1>8, <1>10, <1>11 DEF Leads
<1> QED
  BY <1>1, <1>2, <1>3, <1>12, <1>13

LEMMA ForwardLeads ==
  ASSUME NEW q \in Request, NEW p, Leads(q, p), q.phase = "out",
         NEW h \in Host, Adjacent(q.at, h), h # q.via,
         NEW q2, q2 = [org |-> q.org, at |-> h, via |-> q.at, head |-> HeadPush(q.at, q.via, q.head),
                       phase |-> IF h \in Node THEN "arrived" ELSE "out"]
  PROVE  q2 \in Request /\ Leads(q2, <<h>> \o p)
<1>1. PICK s \in Server, v \in Host : s = q.at /\ v = q.via
  BY DEF Leads, Request
<1>2. PICK n \in Nat \ {0, 1} : n = Len(p)
  <2>1. Len(p) \in Nat
    BY LenProperties DEF Leads, IsRoute
  <2> QED
    BY <2>1 DEF Leads
<1>3. /\ p \in Seq(Host) /\ p[1] = s /\ p[2] = v /\ p[n] = q.org[1] /\ q.org[1] \in Node
      /\ \A i \in 1..n - 1 : Adjacent(p[i], p[i + 1])
      /\ \A i \in 2..n - 1 : p[i] \in Server
      /\ \A i \in 1..n - 2 : p[i] # p[i + 2]
      /\ Spells(Tail(p), q.head, q.org[2])
  BY <1>1, <1>2 DEF Leads, IsRoute, NoReturn
<1>4. PICK c : c = <<h>> \o p
  OBVIOUS
<1>5. /\ c \in Seq(Host) /\ Len(c) = n + 1 /\ c[1] = h /\ \A i \in 1..n : c[i + 1] = p[i]
  BY <1>2, <1>3, <1>4, PushFront
<1>6. \A i \in 2..n + 1 : c[i] = p[i - 1]
  <2>1. ASSUME NEW i \in 2..n + 1 PROVE c[i] = p[i - 1]
    <3>1. i - 1 \in 1..n /\ (i - 1) + 1 = i
      OBVIOUS
    <3> QED
      BY <1>5, <3>1
  <2> QED
    BY <2>1
<1>7. IsRoute(c)
  <2>1. ASSUME NEW i \in 1..n PROVE Adjacent(c[i], c[i + 1])
    <3>1. CASE i = 1
      <4>1. c[2] = s
        BY <1>3, <1>6
      <4> QED
        BY <1>1, <1>5, <3>1, <4>1 DEF Adjacent
    <3>2. CASE i # 1
      <4>1. i - 1 \in 1..n - 1 /\ c[i] = p[i - 1] /\ c[i + 1] = p[(i - 1) + 1]
        BY <1>6, <3>2
      <4> QED
        BY <1>3, <4>1
    <3> QED
      BY <3>1, <3>2
  <2>2. ASSUME NEW i \in 2..n PROVE c[i] \in Server
    <3>1. c[i] = p[i - 1]
      BY <1>6
    <3>2. CASE i = 2
      BY <1>3, <3>1, <3>2
    <3>3. CASE i # 2
      <4>1. i - 1 \in 2..n - 1
        BY <3>3
      <4> QED
        BY <1>3, <3>1, <4>1
    <3> QED
      BY <3>2, <3>3
  <2>3. c[n + 1] = p[n]
    BY <1>6
  <2>4. Len(c) >= 1 /\ Len(c) - 1 = n /\ Len(c) = n + 1
    BY <1>5
  <2>5. c[Len(c)] \in Node
    BY <1>3, <2>3, <2>4
  <2> QED
    BY <1>5, <2>1, <2>2, <2>4, <2>5 DEF IsRoute
<1>8. NoReturn(c)
  <2>1. ASSUME NEW i \in 1..n - 1 PROVE c[i] # c[i + 2]
    <3>1. c[i + 2] = p[i + 1]
      BY <1>6
    <3>2. CASE i = 1
      BY <1>1, <1>3, <1>5, <3>1, <3>2
    <3>3. CASE i # 1
      <4>1. i - 1 \in 1..n - 2 /\ c[i] = p[i - 1] /\ i + 1 = (i - 1) + 2
        BY <1>6, <3>3
      <4> QED
        BY <1>3, <3>1, <4>1
    <3> QED
      BY <3>2, <3>3
  <2> QED
    BY <1>5, <2>1 DEF NoReturn
<1>9. PICK d : d = HeadPush(s, v, q.head)
  OBVIOUS
<1>10. PICK t : t = Tail(c)
  OBVIOUS
<1>11. Len(t) = n /\ \A i \in 1..n : t[i] = p[i]
  BY <1>5, <1>10, Rest
<1>12. PICK u : u = Tail(p)
  OBVIOUS
<1>13. Len(u) = n - 1 /\ \A i \in 1..n - 1 : u[i] = p[i + 1]
  BY <1>2, <1>3, <1>12, Rest
<1>23. PICK x, k : x = q.org[2] /\ k = Len(x) /\ k \in Nat \ {0}
  BY OriginIs DEF Request
<1>14. /\ q.head \in Seq(Int) /\ Len(q.head) = n - 2 + k
       /\ \A i \in 1..n - 2 : q.head[i] = HostId(u[i], u[i + 1])
       /\ \A i \in 1..k : q.head[n - 2 + i] = x[i]
  <2>1. Spells(u, q.head, x) /\ Len(u) - 1 = n - 2
    BY <1>2, <1>3, <1>12, <1>13, <1>23
  <2> QED
    BY <1>23, <2>1 DEF Spells
<1>15. HostId(s, v) \in Int
  BY <1>3, HostWithId
<1>16. /\ d \in Seq(Int) /\ Len(d) = n - 1 + k /\ d[1] = HostId(s, v)
       /\ \A i \in 1..n - 2 + k : d[i + 1] = q.head[i]
  <2>1. /\ d \in Seq(Int) /\ Len(d) = Len(q.head) + 1 /\ d[1] = HostId(s, v)
        /\ \A i \in 1..Len(q.head) : d[i + 1] = q.head[i]
    BY <1>9, <1>14, <1>15, PushFront DEF HeadPush
  <2>2. Len(q.head) = n - 2 + k /\ n - 2 + k + 1 = n - 1 + k
    BY <1>14, <1>23
  <2> QED
    BY <2>1, <2>2
<1>17. \A i \in 2..n - 1 + k : d[i] = q.head[i - 1]
  <2>1. ASSUME NEW i \in 2..n - 1 + k PROVE d[i] = q.head[i - 1]
    <3>1. i - 1 \in 1..n - 2 + k /\ (i - 1) + 1 = i
      BY <1>23
    <3> QED
      BY <1>16, <3>1
  <2> QED
    BY <2>1
<1>18. Spells(t, d, q.org[2])
  <2>1. ASSUME NEW i \in 1..n - 1 PROVE d[i] = HostId(t[i], t[i + 1])
    <3>1. CASE i = 1
      <4>1. t[1] = s /\ t[2] = v
        BY <1>3, <1>11
      <4> QED
        BY <1>16, <3>1, <4>1
    <3>2. CASE i # 1
      <4>1. i - 1 \in 1..n - 2 /\ d[i] = q.head[i - 1]
        BY <1>17, <1>23, <3>2
      <4>2. u[i - 1] = t[i] /\ u[(i - 1) + 1] = t[i + 1]
        BY <1>11, <1>13, <3>2
      <4> QED
        BY <1>14, <4>1, <4>2
    <3> QED
      BY <3>1, <3>2
  <2>2. ASSUME NEW i \in 1..k PROVE d[n - 1 + i] = x[i]
    <3>1. n - 1 + i \in 2..n - 1 + k /\ (n - 1 + i) - 1 = n - 2 + i
      BY <1>2, <1>23
    <3> QED
      BY <1>14, <1>17, <3>1
  <2> QED
    BY <1>11, <1>16, <1>23, <2>1, <2>2 DEF Spells
<1>19. q2.org = q.org /\ q2.at = h /\ q2.via = s /\ q2.head = d
       /\ q2.phase = (IF h \in Node THEN "arrived" ELSE "out")
  BY <1>1, <1>9
<1>20. q2 \in Request
  BY <1>1, <1>9, <1>16 DEF Request, Phase, Host
<1>21. c[2] = s /\ c[n + 1] = q.org[1]
  BY <1>3, <1>6
<1>22. Leads(q2, c)
  BY <1>5, <1>7, <1>8, <1>10, <1>18, <1>19, <1>21 DEF Leads, Host
<1> QED
  BY <1>4, <1>20, <1>22

(* The answer leaves the node for the server the request has come from. *)
LEMMA AnswerLeads ==
  ASSUME NEW q \in Request, NEW p, Leads(q, p), q.phase = "arrived",
         NEW q2, q2 = [org |-> q.org, at |-> Parent[q.at], via |-> q.at, head |-> q.head,
                       phase |-> "back"]
  PROVE  q2 \in Request /\ Leads(q2, Tail(p))
<1>1. PICK n \in Nat \ {0, 1} : n = Len(p)
  <2>1. Len(p) \in Nat
    BY LenProperties DEF Leads, IsRoute
  <2> QED
    BY <2>1 DEF Leads
<1>2. /\ p \in Seq(Host) /\ p[1] = q.at /\ q.at \in Node /\ p[n] = q.org[1] /\ q.org[1] \in Node
      /\ \A i \in 1..n - 1 : Adjacent(p[i], p[i + 1])
      /\ \A i \in 2..n - 1 : p[i] \in Server
      /\ Spells(Tail(p), q.head, q.org[2])
  BY <1>1 DEF Leads, IsRoute
<1>3. PICK u : u = Tail(p)
  OBVIOUS
<1>4. u \in Seq(Host) /\ Len(u) = n - 1 /\ \A i \in 1..n - 1 : u[i] = p[i + 1]
  BY <1>1, <1>2, <1>3, Rest
<1>5. p[2] = Parent[q.at] /\ p[2] \in Server
  <2>1. p[2] \in Host
    BY <1>1, <1>2, Rest
  <2>2. Adjacent(p[1], p[2])
    BY <1>1, <1>2
  <2> QED
    BY <1>2, <2>1, <2>2, Parents DEF Adjacent, Host
<1>6. n >= 3
  <2>1. n = 2 => p[2] \in Node
    BY <1>2
  <2> QED
    BY <1>1, <1>5, <2>1, AddressAssumption DEF AddressAssumption
<1>7. IsRoute(u)
  <2>1. Len(u) >= 1 /\ Len(u) - 1 = n - 2 /\ u[Len(u)] = p[n]
    BY <1>4, <1>6
  <2>2. ASSUME NEW i \in 1..n - 2 PROVE Adjacent(u[i], u[i + 1])
    <3>1. i + 1 \in 1..n - 1 /\ u[i] = p[i + 1] /\ u[i + 1] = p[(i + 1) + 1]
      BY <1>4
    <3> QED
      BY <1>2, <3>1
  <2>3. ASSUME NEW i \in 2..n - 2 PROVE u[i] \in Server
    <3>1. i + 1 \in 2..n - 1 /\ u[i] = p[i + 1]
      BY <1>4
    <3> QED
      BY <1>2, <3>1
  <2> QED
    BY <1>2, <1>4, <2>1, <2>2, <2>3 DEF IsRoute
<1>8. q2 \in Request
  BY <1>2, <1>5 DEF Request, Phase, Host
<1>9. u[1] = p[2] /\ u[Len(u)] = q.org[1]
  BY <1>2, <1>4, <1>6
<1>10. Leads(q2, u)
  BY <1>2, <1>3, <1>5, <1>7, <1>9 DEF Leads
<1> QED
  BY <1>3, <1>8, <1>10

(* A server sends the answer on to the next host of the route. *)
LEMMA ReturnLeads ==
  ASSUME NEW q \in Request, NEW p, Leads(q, p), q.phase = "back",
         NEW to, to = HostWith(q.at, Head(q.head)),
         NEW q2, q2 = [org |-> q.org, at |-> to, via |-> q.at, head |-> Tail(q.head),
                       phase |-> IF to \in Node THEN "returned"
                                 ELSE IF to \in Server THEN "back" ELSE "lost"]
  PROVE  q2 \in Request /\ Leads(q2, Tail(p))
<1>1. PICK n \in Nat \ {0} : n = Len(p)
  <2>1. Len(p) \in Nat
    BY LenProperties DEF Leads, IsRoute
  <2> QED
    BY <2>1 DEF Leads, IsRoute
<1>2. /\ p \in Seq(Host) /\ p[1] = q.at /\ q.at \in Server /\ p[n] = q.org[1] /\ q.org[1] \in Node
      /\ \A i \in 1..n - 1 : Adjacent(p[i], p[i + 1])
      /\ \A i \in 2..n - 1 : p[i] \in Server
  BY <1>1 DEF Leads, IsRoute
<1>17. PICK x, k : x = q.org[2] /\ k = Len(x) /\ k \in Nat \ {0}
  BY OriginIs DEF Request
<1>3. /\ q.head \in Seq(Int) /\ Len(q.head) = n - 1 + k
      /\ \A i \in 1..n - 1 : q.head[i] = HostId(p[i], p[i + 1])
      /\ \A i \in 1..k : q.head[n - 1 + i] = x[i]
  BY <1>1, <1>17 DEF Leads, Spells
<1>4. n >= 2
  BY <1>1, <1>2, AddressAssumption DEF AddressAssumption
<1>5. PICK u : u = Tail(p)
  OBVIOUS
<1>6. u \in Seq(Host) /\ Len(u) = n - 1 /\ \A i \in 1..n - 1 : u[i] = p[i + 1]
  BY <1>1, <1>2, <1>4, <1>5, Rest
<1>7. PICK d : d = Tail(q.head)
  OBVIOUS
<1>8. /\ d \in Seq(Int) /\ Len(d) = n - 2 + k /\ \A i \in 1..n - 2 + k : d[i] = q.head[i + 1]
      /\ Head(q.head) = q.head[1]
  <2>1. Len(q.head) >= 1 /\ Len(q.head) - 1 = n - 2 + k
    BY <1>1, <1>3, <1>17
  <2> QED
    BY <1>3, <1>7, <2>1, Rest
<1>9. to = p[2] /\ p[2] \in Host /\ p[2] = u[1]
  <2>1. p[2] \in Host
    BY <1>1, <1>2, <1>4, Rest
  <2>2. Adjacent(p[1], p[2]) /\ q.head[1] = HostId(p[1], p[2])
    <3>1. 1 \in 1..n - 1 /\ 1 + 1 = 2
      BY <1>4
    <3> QED
      BY <1>2, <1>3, <3>1
  <2> QED
    BY <1>2, <1>4, <1>6, <1>8, <2>1, <2>2, HostWithId
<1>10. IsRoute(u)
  <2>1. Len(u) >= 1 /\ Len(u) - 1 = n - 2 /\ u[Len(u)] = p[n]
    BY <1>4, <1>6
  <2>2. ASSUME NEW i \in 1..n - 2 PROVE Adjacent(u[i], u[i + 1])
    <3>1. i + 1 \in 1..n - 1 /\ u[i] = p[i + 1] /\ u[i + 1] = p[(i + 1) + 1]
      BY <1>6
    <3> QED
      BY <1>2, <3>1
  <2>3. ASSUME NEW i \in 2..n - 2 PROVE u[i] \in Server
    <3>1. i + 1 \in 2..n - 1 /\ u[i] = p[i + 1]
      BY <1>6
    <3> QED
      BY <1>2, <3>1
  <2> QED
    BY <1>2, <1>6, <2>1, <2>2, <2>3 DEF IsRoute
<1>11. Spells(u, d, q.org[2])
  <2>1. ASSUME NEW i \in 1..n - 2 PROVE d[i] = HostId(u[i], u[i + 1])
    <3>1. i + 1 \in 1..n - 1 /\ u[i] = p[i + 1] /\ u[i + 1] = p[(i + 1) + 1]
      BY <1>6
    <3>2. d[i] = q.head[i + 1]
      BY <1>8, <1>17
    <3> QED
      BY <1>3, <3>1, <3>2
  <2>2. ASSUME NEW i \in 1..k PROVE d[n - 2 + i] = x[i]
    <3>1. n - 2 + i \in 1..n - 2 + k /\ (n - 2 + i) + 1 = n - 1 + i
      BY <1>4, <1>17
    <3> QED
      BY <1>3, <1>8, <3>1
  <2> QED
    BY <1>1, <1>6, <1>8, <1>17, <2>1, <2>2 DEF Spells
<1>12. u[Len(u)] = q.org[1]
  BY <1>2, <1>4, <1>6
<1>13. to \in Node => Len(u) = 1
  <2>1. n > 2 => p[2] \in Server
    BY <1>2
  <2> QED
    BY <1>4, <1>6, <1>9, <2>1, AddressAssumption DEF AddressAssumption
<1>14. to \in Node \/ to \in Server
  BY <1>9 DEF Host
<1>15. q2 \in Request
  BY <1>2, <1>7, <1>8, <1>9 DEF Request, Phase, Host
<1>16. Leads(q2, u)
  BY <1>7, <1>9, <1>10, <1>11, <1>12, <1>13, <1>14 DEF Leads
<1> QED
  BY <1>5, <1>15, <1>16

(***************************************************************************)
(* Every request has a route.                                              *)
(***************************************************************************)
Routed == request \in [{1, 2} -> Request] /\ \A r \in {1, 2} : \E p : Leads(request[r], p)

LEMMA InitRouted == Init => Routed
<1> SUFFICES ASSUME NEW o1 \in Origin, NEW o2 \in Origin,
                    request = [r \in {1, 2} |-> Start(IF r = 1 THEN o1 ELSE o2)]
             PROVE  Routed
  BY DEF Init
<1>1. request[1] = Start(o1) /\ request[2] = Start(o2)
  OBVIOUS
<1>2. Start(o1) \in Request /\ Start(o2) \in Request
  BY StartLeads
<1>3. \E p : Leads(Start(o1), p)
  BY StartLeads
<1>4. \E p : Leads(Start(o2), p)
  BY StartLeads
<1>5. request \in [{1, 2} -> Request]
  BY <1>2
<1>6. ASSUME NEW r \in {1, 2} PROVE \E p : Leads(request[r], p)
  BY <1>1, <1>3, <1>4
<1> QED
  BY <1>5, <1>6 DEF Routed

LEMMA StepRouted ==
  ASSUME Routed, [Next]_request
  PROVE  Routed'
<1>1. ASSUME NEW r \in {1, 2}, NEW q2 \in Request, NEW p2, Leads(q2, p2),
             request' = [request EXCEPT ![r] = q2]
      PROVE  Routed'
  <2>1. request' \in [{1, 2} -> Request]
    BY <1>1 DEF Routed
  <2>2. request'[r] = q2 /\ \A t \in {1, 2} \ {r} : request'[t] = request[t]
    BY <1>1 DEF Routed
  <2>3. ASSUME NEW t \in {1, 2} PROVE \E p : Leads(request'[t], p)
    BY <1>1, <2>2 DEF Routed
  <2> QED
    BY <2>1, <2>3 DEF Routed
<1>2. ASSUME NEW r \in {1, 2}, Forward(r) PROVE Routed'
  <2>1. PICK q, p : q \in Request /\ q = request[r] /\ Leads(q, p)
    BY DEF Routed
  <2>2. PICK h, q2 :
          /\ h \in Host /\ Adjacent(q.at, h) /\ h # q.via /\ q.phase = "out"
          /\ q2 = [org |-> q.org, at |-> h, via |-> q.at, head |-> HeadPush(q.at, q.via, q.head),
                   phase |-> IF h \in Node THEN "arrived" ELSE "out"]
          /\ request' = [request EXCEPT ![r] = q2]
    BY <1>2, <2>1 DEF Forward
  <2>3. q2 \in Request /\ Leads(q2, <<h>> \o p)
    BY <2>1, <2>2, ForwardLeads
  <2> QED
    BY <1>1, <2>2, <2>3
<1>3. ASSUME NEW r \in {1, 2}, Answer(r) PROVE Routed'
  <2>1. PICK q, p : q \in Request /\ q = request[r] /\ Leads(q, p)
    BY DEF Routed
  <2>2. PICK q2 :
          /\ q.phase = "arrived"
          /\ q2 = [org |-> q.org, at |-> Parent[q.at], via |-> q.at, head |-> q.head,
                   phase |-> "back"]
          /\ request' = [request EXCEPT ![r] = q2]
    BY <1>3, <2>1 DEF Answer
  <2>3. q2 \in Request /\ Leads(q2, Tail(p))
    BY <2>1, <2>2, AnswerLeads
  <2> QED
    BY <1>1, <2>2, <2>3
<1>4. ASSUME NEW r \in {1, 2}, Return(r) PROVE Routed'
  <2>1. PICK q, p : q \in Request /\ q = request[r] /\ Leads(q, p)
    BY DEF Routed
  <2>2. PICK to, q2 :
          /\ q.phase = "back" /\ to = HostWith(q.at, Head(q.head))
          /\ q2 = [org |-> q.org, at |-> to, via |-> q.at, head |-> Tail(q.head),
                   phase |-> IF to \in Node THEN "returned"
                             ELSE IF to \in Server THEN "back" ELSE "lost"]
          /\ request' = [request EXCEPT ![r] = q2]
    BY <1>4, <2>1 DEF Return, HeadShift
  <2>3. q2 \in Request /\ Leads(q2, Tail(p))
    BY <2>1, <2>2, ReturnLeads
  <2> QED
    BY <1>1, <2>2, <2>3
<1>5. request' = request => Routed'
  BY DEF Routed
<1> QED
  BY <1>2, <1>3, <1>4, <1>5 DEF Next

LEMMA RoutedReturns == Routed => RoundTrip
<1> SUFFICES ASSUME Routed, NEW r \in {1, 2}, request[r].phase \in {"returned", "lost"}
             PROVE  /\ request[r].at = request[r].org[1]
                    /\ request[r].head = request[r].org[2]
  BY DEF RoundTrip
<1>1. PICK q, p : q \in Request /\ q = request[r] /\ Leads(q, p)
  BY DEF Routed
<1>2. Len(p) = 1 /\ p[1] = q.at /\ p[1] = q.org[1] /\ Spells(p, q.head, q.org[2])
  BY <1>1 DEF Leads
<1>3. PICK x : x = q.org[2] /\ x \in Seq(Int) /\ Len(x) \in Nat
  BY <1>1, OriginIs DEF Request
<1>4. q.head \in Seq(Int) /\ Len(q.head) = Len(x) /\ \A i \in 1..Len(x) : q.head[i] = x[i]
  BY <1>2, <1>3 DEF Spells
<1>5. q.head = x
  BY <1>3, <1>4, SeqEqual
<1> QED
  BY <1>1, <1>2, <1>3, <1>5

(* Every answer comes back to the node, worker and subtask it is for, in any *)
(* tree of servers and whatever way the request took.                        *)
THEOREM AddressRoundTrip == Spec => []RoundTrip
<1> QED
  BY InitRouted, StepRouted, RoutedReturns, PTL DEF Spec

(***************************************************************************)
(* There is one route between two nodes                                    *)
(*                                                                         *)
(* A route that never turns back leads up and then down.  Which of the two *)
(* it does next is a matter of where its end is: it goes down just if that *)
(* is below.                                                               *)
(***************************************************************************)
LEMMA RouteParts ==
  ASSUME NEW p, IsRoute(p), Len(p) >= 2
  PROVE  /\ Len(p) \in Nat \ {0, 1} /\ p \in Seq(Host)
         /\ \A i \in 1..Len(p) : p[i] \in Host /\ p[i] \in Place
         /\ \A i \in 1..Len(p) - 1 : Parent[p[i]] = p[i + 1] \/ Parent[p[i + 1]] = p[i]
         /\ \A i \in 2..Len(p) - 1 : p[i] \in Server
         /\ p[Len(p)] \in Node
<1>1. p \in Seq(Host) /\ Len(p) \in Nat /\ \A i \in 1..Len(p) : p[i] \in Host
  BY LenProperties, ElementOfSeq DEF IsRoute
<1> QED
  BY <1>1 DEF IsRoute, Adjacent, Place

(* At each step: up, if the end is not below, and down towards the end *)
Heads(p, i, n) ==
  /\ Parent[p[i]] = p[i + 1] => p[i] \notin Ancestors(n)
  /\ Parent[p[i + 1]] = p[i] => p[i + 1] \in Ancestors(n)

LEMMA RouteHeads ==
  ASSUME NEW p, IsRoute(p), NoReturn(p), Len(p) >= 2, NEW n, n = p[Len(p)],
         NEW j \in 1..Len(p) - 1
  PROVE  Heads(p, j, n)
<1> SUFFICES ASSUME ~Heads(p, j, n) PROVE FALSE
  OBVIOUS
<1>1. PICK k \in Nat \ {0, 1} : k = Len(p)
  BY RouteParts
<1>2. /\ \A i \in 1..k : p[i] \in Host
      /\ \A i \in 1..k - 1 : Parent[p[i]] = p[i + 1] \/ Parent[p[i + 1]] = p[i]
      /\ n = p[k] /\ n \in Node
      /\ \A i \in 1..k - 2 : p[i] # p[i + 2]
  BY <1>1, RouteParts DEF NoReturn
<1>3. PICK B : B = {i \in 1..k - 1 : ~Heads(p, i, n)}
  OBVIOUS
<1>11. B \in SUBSET Nat
  BY <1>1, <1>3
<1>4. B # {} /\ \A i \in B : i <= k
  BY <1>1, <1>3
<1>5. PICK i \in B : \A l \in B : l <= i
  BY <1>1, <1>4, <1>11, Largest
<1>6. i \in 1..k - 1 /\ ~Heads(p, i, n) /\ \A l \in 1..k - 1 : l > i => Heads(p, l, n)
  BY <1>3, <1>5
<1>7. PICK x, y \in Host : x = p[i] /\ y = p[i + 1]
  BY <1>2, <1>6
<1>8. n \in Host /\ n \in Place /\ n \in Ancestors(n) /\ Upward(Ancestors(n))
  BY <1>2, AncestorsClosed DEF Host, Place
<1>9. CASE i = k - 1
  <2>1. y = n
    BY <1>1, <1>2, <1>7, <1>9
  <2>2. Parent[x] # n
    BY <1>2, Parents
  <2> QED
    BY <1>6, <1>7, <1>8, <2>1, <2>2 DEF Heads
<1>10. CASE i # k - 1
  <2>1. i + 1 \in 1..k - 1 /\ i + 2 = (i + 1) + 1 /\ i \in 1..k - 2 /\ i + 2 \in 1..k
    BY <1>6, <1>10
  <2>2. PICK z \in Host : z = p[i + 2]
    BY <1>2, <2>1
  <2>3. Heads(p, i + 1, n)
    BY <1>6, <2>1
  <2>4. /\ Parent[y] = z => y \notin Ancestors(n)
        /\ Parent[z] = y => z \in Ancestors(n)
        /\ Parent[y] = z \/ Parent[z] = y
        /\ x # z
    BY <1>2, <1>7, <2>1, <2>2, <2>3 DEF Heads
  <2>5. Parent[x] = y => x \notin Ancestors(n)
    <3>1. Parent[x] = y /\ x \in Ancestors(n) => y \in Ancestors(n)
      BY <1>7, <1>8 DEF Upward
    <3>2. Parent[x] = y /\ Parent[z] = y => ~(x \in Ancestors(n) /\ z \in Ancestors(n))
      BY <1>8, <2>4, Siblings
    <3> QED
      BY <2>4, <3>1, <3>2
  <2>6. Parent[y] = x => y \in Ancestors(n)
    BY <1>7, <1>8, <2>2, <2>4 DEF Upward
  <2> QED
    BY <1>6, <1>7, <2>5, <2>6 DEF Heads
<1> QED
  BY <1>9, <1>10

(* Two routes from the same place to the same node do not part anywhere. *)
LEMMA OneRoute ==
  ASSUME NEW p, IsRoute(p), NoReturn(p), Len(p) >= 2,
         NEW r, IsRoute(r), NoReturn(r), Len(r) >= 2,
         p[1] = r[1], p[Len(p)] = r[Len(r)], Len(p) <= Len(r)
  PROVE  p = r
<1>1. PICK j, k \in Nat \ {0, 1} : j = Len(p) /\ k = Len(r)
  BY RouteParts
<1>2. PICK n \in Node : n = p[j] /\ n = r[k]
  BY <1>1, RouteParts
<1>3. n \in Host /\ n \in Place /\ Upward(Ancestors(n))
  BY <1>2, AncestorsClosed DEF Host, Place
<1>4. ASSUME NEW i \in 1..j, p[i] # r[i], \A l \in 1..j : l < i => p[l] = r[l] PROVE FALSE
  <2>1. i # 1
    BY <1>1, <1>4
  <2>2. PICK h \in Nat : h = i - 1
    BY <2>1
  <2>3. h \in 1..j - 1 /\ h \in 1..k - 1 /\ h + 1 = i /\ h \in 1..j /\ i \in 1..k
    BY <1>1, <2>1, <2>2
  <2>4. p[h] = r[h]
    BY <1>4, <2>3
  <2>5. PICK s, x, y \in Host : s = p[h] /\ x = p[i] /\ y = r[i]
    BY <1>1, <2>3, RouteParts
  <2>6. Parent[s] = x \/ Parent[x] = s
    BY <1>1, <2>3, <2>5, RouteParts
  <2>7. Parent[s] = y \/ Parent[y] = s
    BY <1>1, <2>3, <2>4, <2>5, RouteParts
  <2>8. Heads(p, h, n)
    BY <1>1, <1>2, <2>3, RouteHeads
  <2>9. Heads(r, h, n)
    BY <1>1, <1>2, <2>3, RouteHeads
  <2>10. /\ Parent[s] = x => s \notin Ancestors(n)
         /\ Parent[x] = s => x \in Ancestors(n)
         /\ Parent[s] = y => s \notin Ancestors(n)
         /\ Parent[y] = s => y \in Ancestors(n)
    BY <2>3, <2>4, <2>5, <2>8, <2>9 DEF Heads
  <2>11. /\ x \in Ancestors(n) /\ Parent[x] = s => s \in Ancestors(n)
         /\ y \in Ancestors(n) /\ Parent[y] = s => s \in Ancestors(n)
    BY <1>3, <2>5 DEF Upward
  <2>12. x # y
    BY <1>4, <2>5
  <2>13. Parent[x] = s /\ Parent[y] = s => ~(x \in Ancestors(n) /\ y \in Ancestors(n))
    BY <1>3, <2>12, Siblings
  <2> QED
    BY <2>6, <2>7, <2>10, <2>11, <2>12, <2>13
<1>5. \A i \in 1..j : p[i] = r[i]
  <2> SUFFICES ASSUME \E i \in 1..j : p[i] # r[i] PROVE FALSE
    OBVIOUS
  <2>1. PICK B : B = {i \in 1..j : p[i] # r[i]}
    OBVIOUS
  <2>2. B # {} /\ B \in SUBSET Nat
    BY <1>1, <2>1
  <2>3. PICK i \in B : \A l \in B : i <= l
    BY <2>2, Smallest
  <2> QED
    BY <1>1, <1>4, <2>1, <2>3
<1>6. j = k
  <2>1. ASSUME j < k PROVE FALSE
    <3>1. j \in 2..k - 1 /\ j \in 1..j
      BY <1>1, <2>1
    <3>2. r[j] \in Server
      BY <1>1, <3>1, RouteParts
    <3> QED
      BY <1>2, <1>5, <3>1, <3>2, AddressAssumption DEF AddressAssumption
  <2> QED
    BY <1>1, <2>1
<1>7. p \in Seq(Host) /\ r \in Seq(Host)
  BY RouteParts
<1> QED
  BY <1>1, <1>5, <1>6, <1>7, SeqEqual

(***************************************************************************)
(* An address identifies the sender                                        *)
(***************************************************************************)
(* The route of a request that has arrived, and its address *)
Arrived(q, p, n) ==
  /\ n \in Nat \ {0, 1} /\ IsRoute(p) /\ NoReturn(p)
  /\ q.at \in Node /\ p[1] = q.at /\ p[2] = Parent[q.at] /\ p[n] = q.org[1]
  /\ \A i \in 2..n - 1 : p[i] \in Server
  /\ \A i \in 1..n : p[i] \in Host
  /\ \A i \in 1..n - 1 : Adjacent(p[i], p[i + 1])
  /\ q.head \in Seq(Int) /\ Len(q.head) = n - 2 + Len(q.org[2])
  /\ \A i \in 1..n - 2 : q.head[i] = HostId(p[i + 1], p[i + 2])
  /\ \A i \in 1..Len(q.org[2]) : q.head[n - 2 + i] = q.org[2][i]

LEMMA ArrivedHead ==
  ASSUME NEW q \in Request, NEW p, Leads(q, p), q.phase = "arrived"
  PROVE  Arrived(q, p, Len(p))
<1>9. PICK n : n = Len(p)
  OBVIOUS
<1>1. /\ IsRoute(p) /\ NoReturn(p) /\ Len(p) >= 2 /\ p[1] = q.at /\ q.at \in Node
      /\ p[n] = q.org[1] /\ Spells(Tail(p), q.head, q.org[2])
  BY <1>9 DEF Leads
<1>2. /\ n \in Nat \ {0, 1} /\ p \in Seq(Host)
      /\ \A i \in 1..n : p[i] \in Host
      /\ \A i \in 2..n - 1 : p[i] \in Server
  BY <1>1, <1>9, RouteParts
<1>3. \A i \in 1..n - 1 : Adjacent(p[i], p[i + 1])
  BY <1>1, <1>9 DEF IsRoute
<1>4. PICK u : u = Tail(p)
  OBVIOUS
<1>5. Len(u) = n - 1 /\ \A i \in 1..n - 1 : u[i] = p[i + 1]
  BY <1>1, <1>2, <1>4, <1>9, Rest
<1>6. /\ q.head \in Seq(Int) /\ Len(q.head) = n - 2 + Len(q.org[2])
      /\ \A i \in 1..n - 2 : q.head[i] = HostId(u[i], u[i + 1])
      /\ \A i \in 1..Len(q.org[2]) : q.head[n - 2 + i] = q.org[2][i]
  <2>1. Spells(u, q.head, q.org[2]) /\ Len(u) - 1 = n - 2
    BY <1>1, <1>2, <1>4, <1>5
  <2> QED
    BY <2>1 DEF Spells
<1>7. ASSUME NEW i \in 1..n - 2 PROVE q.head[i] = HostId(p[i + 1], p[i + 2])
  <2>1. u[i] = p[i + 1] /\ u[i + 1] = p[(i + 1) + 1] /\ (i + 1) + 1 = i + 2
    BY <1>2, <1>5
  <2> QED
    BY <1>6, <2>1
<1>8. p[2] = Parent[q.at]
  <2>1. Adjacent(p[1], p[2]) /\ p[2] \in Host
    <3>1. 1 \in 1..n - 1 /\ 1 + 1 = 2 /\ 2 \in 1..n
      BY <1>2
    <3> QED
      BY <1>2, <1>3, <3>1
  <2> QED
    BY <1>1, <2>1, Parents DEF Adjacent
<1> QED
  BY <1>1, <1>2, <1>3, <1>6, <1>7, <1>8, <1>9 DEF Arrived

(* Reading the address, each server gives the next: from the address alone *)
(* one finds the way, and its end, since no route goes on beyond a node.    *)
LEMMA SameHeadLonger ==
  ASSUME NEW q \in Request, NEW p, Leads(q, p), q.phase = "arrived",
         NEW t \in Request, NEW r, Leads(t, r), t.phase = "arrived",
         q.at = t.at, q.head = t.head, Len(p) <= Len(r)
  PROVE  q.org = t.org
<1>1. PICK n, m : n = Len(p) /\ m = Len(r)
  OBVIOUS
<1>10. Arrived(q, p, n) /\ Arrived(t, r, m)
  BY <1>1, ArrivedHead
<1>2. /\ n \in Nat \ {0, 1}
      /\ q.at \in Node /\ p[1] = q.at /\ p[2] = Parent[q.at] /\ p[n] = q.org[1]
      /\ \A i \in 2..n - 1 : p[i] \in Server
      /\ \A i \in 1..n : p[i] \in Host
      /\ \A i \in 1..n - 1 : Adjacent(p[i], p[i + 1])
      /\ Len(q.head) = n - 2 + Len(q.org[2])
      /\ \A i \in 1..n - 2 : q.head[i] = HostId(p[i + 1], p[i + 2])
      /\ \A i \in 1..Len(q.org[2]) : q.head[n - 2 + i] = q.org[2][i]
  BY <1>10 DEF Arrived
<1>3. /\ m \in Nat \ {0, 1}
      /\ r[1] = t.at /\ r[2] = Parent[t.at] /\ r[m] = t.org[1]
      /\ \A i \in 2..m - 1 : r[i] \in Server
      /\ \A i \in 1..m : r[i] \in Host
      /\ \A i \in 1..m - 1 : Adjacent(r[i], r[i + 1])
      /\ Len(t.head) = m - 2 + Len(t.org[2])
      /\ \A i \in 1..m - 2 : t.head[i] = HostId(r[i + 1], r[i + 2])
      /\ \A i \in 1..Len(t.org[2]) : t.head[m - 2 + i] = t.org[2][i]
  BY <1>10 DEF Arrived
<1>4. n <= m
  BY <1>1
<1>13. n \in Nat \ {0, 1}
  BY <1>2
<1>5. \A i \in 1..n : p[i] = r[i]
  <2> SUFFICES ASSUME \E i \in 1..n : p[i] # r[i] PROVE FALSE
    OBVIOUS
  <2>1. PICK B : B = {i \in 1..n : p[i] # r[i]}
    OBVIOUS
  <2>2. B # {} /\ B \in SUBSET Nat
    BY <1>2, <2>1
  <2>3. PICK i \in B : \A l \in B : i <= l
    BY <2>2, Smallest
  <2>4. i \in 1..n /\ p[i] # r[i] /\ i # 1 /\ i # 2
    BY <1>2, <1>3, <1>4, <2>1, <2>3
  <2>5. PICK h \in Nat : h = i - 2
    BY <2>4
  <2>6. h \in 1..n - 2 /\ h + 1 \in 1..n /\ h + 1 \in 2..n - 1 /\ h + 1 \in 1..n - 1
        /\ (h + 1) + 1 = i /\ h + 2 = i
    BY <1>13, <2>4, <2>5
  <2>7. p[h + 1] = r[h + 1]
    <3>1. h + 1 \notin B
      BY <2>3, <2>4, <2>6
    <3> QED
      BY <2>1, <2>6, <3>1
  <2>8. PICK s \in Server, x, y \in Host : s = p[h + 1] /\ x = p[i] /\ y = r[i]
    <3>1. p[h + 1] \in Server /\ p[i] \in Host
      BY <1>2, <2>4, <2>6
    <3>2. i \in 1..m
      BY <1>3, <1>4, <1>13, <2>4
    <3>3. r[i] \in Host
      BY <1>3, <3>2
    <3> QED
      BY <3>1, <3>3
  <2>9. Adjacent(s, x) /\ Adjacent(s, y)
    BY <1>2, <1>3, <1>4, <2>6, <2>7, <2>8
  <2>10. HostId(s, x) = HostId(s, y)
    <3>1. q.head[h] = HostId(p[h + 1], p[h + 2]) /\ t.head[h] = HostId(r[h + 1], r[h + 2])
      BY <1>2, <1>3, <1>4, <2>6
    <3> QED
      BY <2>6, <2>7, <2>8, <3>1
  <2>11. x = y
    BY <2>9, <2>10, HostWithId
  <2> QED
    BY <2>4, <2>8, <2>11
<1>6. /\ q.org = <<q.org[1], q.org[2]>> /\ t.org = <<t.org[1], t.org[2]>>
      /\ q.org[1] \in Node
  BY OriginIs DEF Request
<1>7. PICK x, y : /\ x = q.org[2] /\ x \in Seq(Int) /\ Len(x) \in Nat \ {0}
                  /\ y = t.org[2] /\ y \in Seq(Int) /\ Len(y) \in Nat \ {0}
  BY OriginIs DEF Request
<1>8. m = n
  <2> SUFFICES ASSUME n < m PROVE FALSE
    BY <1>2, <1>3, <1>4
  <2>1. r[n] \in Server /\ p[n] = r[n]
    <3>1. n \in 2..m - 1 /\ n \in 1..n
      BY <1>2, <1>3
    <3> QED
      BY <1>3, <1>5, <3>1
  <2> QED
    BY <1>2, <1>6, <2>1, AddressAssumption DEF AddressAssumption
<1>9. x = y
  <2>1. Len(x) = Len(y)
    BY <1>2, <1>3, <1>7, <1>8
  <2>2. ASSUME NEW i \in 1..Len(x) PROVE x[i] = y[i]
    BY <1>2, <1>3, <1>7, <1>8, <2>1
  <2> QED
    BY <1>7, <2>1, <2>2, SeqEqual
<1>11. q.org[1] = t.org[1]
  <2>1. n \in 1..n
    BY <1>2
  <2> QED
    BY <1>2, <1>3, <1>5, <1>8, <2>1
<1> QED
  BY <1>6, <1>7, <1>9, <1>11

LEMMA SameHead ==
  ASSUME NEW q \in Request, NEW p, Leads(q, p), q.phase = "arrived",
         NEW t \in Request, NEW r, Leads(t, r), t.phase = "arrived",
         q.at = t.at, q.head = t.head
  PROVE  q.org = t.org
<1>1. Len(p) \in Nat /\ Len(r) \in Nat
  BY LenProperties DEF Leads, IsRoute
<1>2. CASE Len(p) <= Len(r)
  BY <1>2, SameHeadLonger
<1>3. CASE Len(r) <= Len(p)
  <2>1. t.at = q.at /\ t.head = q.head
    OBVIOUS
  <2>2. t.org = q.org
    BY <1>3, <2>1, SameHeadLonger
  <2> QED
    BY <2>2
<1> QED
  BY <1>1, <1>2, <1>3

LEMMA SameSender ==
  ASSUME NEW q \in Request, NEW p, Leads(q, p), q.phase = "arrived",
         NEW t \in Request, NEW r, Leads(t, r), t.phase = "arrived",
         q.at = t.at, q.org = t.org
  PROVE  q.head = t.head
<1>1. PICK n, m : n = Len(p) /\ m = Len(r)
  OBVIOUS
<1>10. Arrived(q, p, n) /\ Arrived(t, r, m)
  BY <1>1, ArrivedHead
<1>2. /\ n \in Nat \ {0, 1} /\ IsRoute(p) /\ NoReturn(p) /\ p[1] = q.at /\ p[n] = q.org[1]
      /\ q.head \in Seq(Int) /\ Len(q.head) = n - 2 + Len(q.org[2])
      /\ \A i \in 1..n - 2 : q.head[i] = HostId(p[i + 1], p[i + 2])
      /\ \A i \in 1..Len(q.org[2]) : q.head[n - 2 + i] = q.org[2][i]
  BY <1>10 DEF Arrived
<1>3. /\ m \in Nat \ {0, 1} /\ IsRoute(r) /\ NoReturn(r) /\ r[1] = t.at /\ r[m] = t.org[1]
      /\ t.head \in Seq(Int) /\ Len(t.head) = m - 2 + Len(t.org[2])
      /\ \A i \in 1..m - 2 : t.head[i] = HostId(r[i + 1], r[i + 2])
      /\ \A i \in 1..Len(t.org[2]) : t.head[m - 2 + i] = t.org[2][i]
  BY <1>10 DEF Arrived
<1>4. p = r
  <2>1. /\ Len(p) >= 2 /\ Len(r) >= 2 /\ p[1] = r[1] /\ p[Len(p)] = r[Len(r)]
        /\ r[1] = p[1] /\ r[Len(r)] = p[Len(p)]
    BY <1>1, <1>2, <1>3
  <2>2. CASE Len(p) <= Len(r)
    BY <1>2, <1>3, <2>1, <2>2, OneRoute
  <2>3. CASE Len(r) <= Len(p)
    BY <1>2, <1>3, <2>1, <2>3, OneRoute
  <2> QED
    BY <1>1, <1>2, <1>3, <2>2, <2>3
<1>5. m = n
  BY <1>1, <1>4
<1>6. PICK a, b \in Seq(Int) : a = q.head /\ b = t.head
  BY <1>2, <1>3
<1>9. PICK x, k : x = q.org[2] /\ x = t.org[2] /\ k = Len(x) /\ k \in Nat \ {0}
  BY OriginIs DEF Request
<1>7. ASSUME NEW i \in 1..n - 2 + k PROVE a[i] = b[i]
  <2>1. CASE i \in 1..n - 2
    BY <1>2, <1>3, <1>4, <1>5, <1>6, <2>1
  <2>2. CASE i \notin 1..n - 2
    <3>1. PICK j \in 1..k : i = n - 2 + j
      <4>1. i - (n - 2) \in 1..k /\ i = n - 2 + (i - (n - 2))
        BY <1>2, <1>9, <2>2
      <4> QED
        BY <4>1
    <3>2. a[n - 2 + j] = x[j] /\ b[n - 2 + j] = x[j]
      BY <1>2, <1>3, <1>5, <1>6, <1>9
    <3> QED
      BY <3>1, <3>2
  <2> QED
    BY <2>1, <2>2
<1>8. a = b
  <2>1. Len(a) = n - 2 + k /\ Len(b) = n - 2 + k
    BY <1>2, <1>3, <1>5, <1>6, <1>9
  <2> QED
    BY <1>6, <1>7, <2>1, SeqEqual
<1> QED
  BY <1>6, <1>8

(* What address-equal compares is all of a short address. *)
LEMMA EqualIfShort ==
  ASSUME NEW a \in Seq(Int), NEW b \in Seq(Int)
  PROVE  /\ a = b => AddressEqual(a, b)
         /\ Len(a) <= MAXCMDC /\ Len(b) <= MAXCMDC /\ AddressEqual(a, b) => a = b
<1>1. Len(a) \in Nat /\ Len(b) \in Nat /\ MAXCMDC \in Nat
  BY LenProperties, AddressAssumption DEF AddressAssumption
<1>2. a = b => AddressEqual(a, b)
  BY <1>1 DEF AddressEqual
<1>3. ASSUME Len(a) <= MAXCMDC, Len(b) <= MAXCMDC, AddressEqual(a, b) PROVE a = b
  <2>1. CASE Len(a) >= MAXCMDC /\ Len(b) >= MAXCMDC /\ \A i \in 1..MAXCMDC : a[i] = b[i]
    <3>1. Len(a) = MAXCMDC /\ Len(b) = MAXCMDC
      BY <1>1, <1>3, <2>1
    <3>2. \A i \in 1..Len(a) : a[i] = b[i]
      BY <2>1, <3>1
    <3> QED
      BY <3>1, <3>2, SeqEqual
  <2> QED
    BY <1>3, <2>1 DEF AddressEqual
<1> QED
  BY <1>2, <1>3

LEMMA RoutedIdentifies == Routed => Identifies
<1> SUFFICES ASSUME Routed, request[1].phase = "arrived", request[2].phase = "arrived",
                    request[1].at = request[2].at,
                    NEW a, NEW b, a = request[1].head, b = request[2].head
             PROVE  /\ a = b <=> request[1].org = request[2].org
                    /\ request[1].org = request[2].org => AddressEqual(a, b)
                    /\ Len(a) <= MAXCMDC /\ Len(b) <= MAXCMDC =>
                         (AddressEqual(a, b) <=> request[1].org = request[2].org)
  BY DEF Identifies
<1>1. PICK q, p : q \in Request /\ q = request[1] /\ Leads(q, p)
  BY DEF Routed
<1>2. PICK t, r : t \in Request /\ t = request[2] /\ Leads(t, r)
  BY DEF Routed
<1>3. /\ q.phase = "arrived" /\ t.phase = "arrived" /\ q.at = t.at
      /\ a = q.head /\ b = t.head /\ a \in Seq(Int) /\ b \in Seq(Int)
  BY <1>1, <1>2 DEF Request
<1>4. a = b => q.org = t.org
  <2> SUFFICES ASSUME q.head = t.head PROVE q.org = t.org
    BY <1>3
  <2> QED
    BY <1>1, <1>2, <1>3, SameHead
<1>5. q.org = t.org => a = b
  <2> SUFFICES ASSUME q.org = t.org PROVE q.head = t.head
    BY <1>3
  <2> QED
    BY <1>1, <1>2, <1>3, SameSender
<1>6. /\ a = b => AddressEqual(a, b)
      /\ Len(a) <= MAXCMDC /\ Len(b) <= MAXCMDC /\ AddressEqual(a, b) => a = b
  BY <1>3, EqualIfShort
<1> QED
  BY <1>1, <1>2, <1>4, <1>5, <1>6

(* At one node two requests have the same address just if they have the same *)
(* sender, and address-equal finds that out of addresses of up to MAXCMDC    *)
(* elements, in any tree of servers.                                         *)
THEOREM AddressIdentifies == Spec => []Identifies
<1> QED
  BY InitRouted, StepRouted, RoutedIdentifies, PTL DEF Spec

=============================================================================
