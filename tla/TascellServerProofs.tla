------------------------ MODULE TascellServerProofs ------------------------
(***************************************************************************)
(* Proofs about the routing of requests and tasks (TascellServer), for any *)
(* tree of servers and nodes.  The hypothesis AutoResend = 0 is the        *)
(* default: with resending, the task goes to whoever did it before and not *)
(* to the node that asked.                                                 *)
(***************************************************************************)
EXTENDS TascellServer, FunctionTheorems, FiniteSetTheorems, SequenceTheorems, TLAPS

-----------------------------------------------------------------------------
(* The inductive invariant *)

(* what the properties count, as sets of messages, requests and tasks *)
RequestsBy(n) == {m \in Msg : m.kind \in {"treq", "none", "task"} /\ m.by = n}
KeptBy(n) == {r \in Request : r.by = n}
Carrying(id) == {m \in Msg : m.kind \in {"task", "rslt"} /\ m.id = id}
OfKind(kinds) == {m \in Msg : m.kind \in kinds}
Given == [id : Task, back : Path]
Spawned == [id : SubTask, thief : Path, depth : Nat]
GivenAs(id) == {t \in Given : t.id = id}
SpawnedAs(id) == {t \in Spawned : t.id = id}

Positions(at, c, M) == UNION {{x} \X {i \in DOMAIN c[x] : c[x][i] \in M} : x \in at}
Num(at, c, M) == Cardinality(Positions(at, c, M))

Asked(n) ==
  Num(Edge, chan, RequestsBy(n)) + Num(Server, talist, KeptBy(n)) + Num(Server, failed, KeptBy(n))
Waiting(id) == Num(Node, sub, SpawnedAs(id))
Running(id) == Num(Node, stack, GivenAs(id))
Where(id) == Running(id) + Num(Edge, chan, Carrying(id))

(* the path p, read from the host h on, ends at n *)
Way(h, p, n) ==
  /\ IF p = <<>> THEN h = n ELSE h \in Server /\ p[1] \in Links(h) /\ p[Len(p)] = n
  /\ \A i \in 1..(Len(p) - 1) : p[i] \in Server /\ p[i + 1] \in Links(p[i])

WayToNode(h, p) == \E x \in Node : Way(h, p, x)

(* ... at the one who waits for the task *)
HasSub(x, id) == \E t \in Range(sub[x]) : t.id = id
WayHome(h, p, id) ==
  IF id = 0 THEN Way(h, p, Term) ELSE \E x \in Node : Way(h, p, x) /\ HasSub(x, id)

(* a task for a node that has asked a thief was made of what the thief has *)
MadeFor(id, n) ==
  up[n] /\ ask[n] \in SubTask =>
    \E x \in Node : \E t \in Range(sub[x]) :
      t.id = id /\ \E k \in 1..t.depth : stack[x][k].id = ask[n]

(* a message on the link from a to b *)
Treq(a, b, m) ==
  /\ Way(a, m.from, m.by)
  /\ IF m.to = ANY THEN m.for = AnyTask ELSE WayToNode(b, m.to)
  /\ up[m.by] => ask[m.by] = m.for
Goes(a, b, m) ==
  /\ m.kind = "treq" => Treq(a, b, m)
  /\ m.kind = "none" => Way(b, m.to, m.by)
  /\ m.kind = "task" => /\ Way(b, m.to, m.by) /\ WayHome(a, m.from, m.id)
                        /\ MadeFor(m.id, m.by)
  /\ m.kind = "rslt" => WayHome(b, m.to, m.id)
  /\ m.kind = "rack" => WayToNode(b, m.to)
  /\ m.kind = "leav" => a \in Node /\ ~up[a]
  /\ a = Term => m.kind = "task" /\ m.id = 0 /\ m.from = <<>>

(* a request that the server s keeps *)
Keeps(s, r) ==
  /\ r.head # <<>> /\ Head(r.head) = r.from /\ r.from \in Links(s)
  /\ Way(s, r.head, r.by)
  /\ up[r.by] => ask[r.by] = AnyTask

Routes ==
  /\ \A e \in Edge : \A m \in Range(chan[e]) : Goes(e[1], e[2], m)
  /\ \A s \in Server : \A r \in Range(talist[s]) : Keeps(s, r)
  /\ \A s \in Server : \A r \in Range(failed[s]) : Keeps(s, r)

Nodes ==
  \A n \in Node :
    /\ \A t \in Range(stack[n]) : WayHome(ServerOf(n), t.back, t.id)
    /\ \A t \in Range(sub[n]) : /\ t.id <= used /\ t.depth \in DOMAIN stack[n]
                                /\ WayToNode(ServerOf(n), t.thief)
    /\ ask[n] = AnyTask => stack[n] = <<>>
    /\ \A id \in SubTask :
         ask[n] = id => id <= used /\ \A x \in Node : HasSub(x, id) => x = n
    /\ ~up[n] => n \in Leaver
    /\ ~valid[n] => ~up[n]

OneAnswer ==
  ~exited => \A n \in Node : up[n] => Asked(n) = IF ask[n] = NoTask THEN 0 ELSE 1

AllUp == \A n \in Node : up[n]
OnePlace ==
  \A id \in SubTask : /\ Waiting(id) <= 1 /\ Where(id) <= Waiting(id)
                      /\ AllUp => Where(id) = Waiting(id)

(* the first task: it is asked for, or out, once at a time *)
TermHome(t) == t.to \in Links(Top) \ {Term} /\ WayToNode(t.to, t.head) /\ t.no = 0
FirstTask ==
  /\ respond \in {"initial", "nil", "exit"}
  /\ ~exited => /\ unreplied[Top][Term] = Len(chan[<<Term, Top>>])
                /\ Where(0) <= 1
                /\ IF respond = "nil"
                   THEN /\ unreplied[Top][Term] + pdiff[Top] = 1
                        /\ pdiff[Top] = 1 => \E t \in taskHome : taskHome = {t} /\ TermHome(t)
                   ELSE /\ unreplied[Top][Term] = 0 /\ pdiff[Top] = 0
                        /\ Where(0) = 0

(* the counters of the servers, with Nums *)
SentNo(a, b, K) == Num({<<a, b>>}, chan, OfKind(K))
DiffsNum ==
  \A s \in Server : \A c \in ChildrenOf(s) \ Leaver :
    diff[s][c] = SentNo(s, c, {"task"}) + SentNo(c, s, {"rslt"})
                   + IF c \in Node THEN Len(stack[c]) ELSE pdiff[c]
UnrepliedNum ==
  \A s \in Server : \A n \in ChildrenOf(s) \cap Node :
    up[n] => unreplied[s][n] = SentNo(s, n, {"treq"}) + SentNo(n, s, {"none", "task"})

Retried ==
  \A s \in Server :
    /\ \A r \in Range(failed[s]) : MayFail(s, r.from)
    /\ phase[s] # "retry" => \A r \in Range(talist[s]) : MayFail(s, r.from)
    /\ phase[s] = "wait" => failed[s] = <<>>

IInv == /\ TypeOK /\ Routes /\ Nodes /\ OneAnswer /\ OnePlace /\ FirstTask
        /\ DiffsNum /\ UnrepliedNum /\ OneTaskAtATime /\ Retried

-----------------------------------------------------------------------------
(* Counting the places of a family of sequences *)

At(at, M, e, x) == IF e \in at /\ x \in M THEN 1 ELSE 0

(* u is q without its k-th element, d is c without that of the sequence at e *)
Lacks(q, u, k) ==
  /\ k \in 1..Len(q) /\ Len(q) = Len(u) + 1
  /\ \A i \in 1..Len(u) : u[i] = q[IF i < k THEN i ELSE i + 1]
Without(c, d, e, k) ==
  (\A x \in DOMAIN c \ {e} : d[x] = c[x]) /\ Lacks(c[e], d[e], k)

(* sequences of members of X, one for each of D *)
Family(D, X, c) == c \in [D -> Seq(X)]

LEMMA Position ==
  ASSUME NEW at, NEW c, NEW M, NEW p
  PROVE  p \in Positions(at, c, M) <=>
           \E x \in at : \E i \in DOMAIN c[x] : c[x][i] \in M /\ p = <<x, i>>
  BY DEF Positions

LEMMA FinitePositions ==
  ASSUME NEW D, NEW X, NEW c, Family(D, X, c), NEW at \in SUBSET D, IsFiniteSet(at), NEW M
  PROVE  IsFiniteSet(Positions(at, c, M)) /\ Num(at, c, M) \in Nat
<1> USE DEF Family
<1> DEFINE P(x) == {x} \X {i \in DOMAIN c[x] : c[x][i] \in M}
           f == [x \in at |-> P(x)]
           S == {P(x) : x \in at}
<1>1. f \in Surjection(at, S)
  BY DEF Surjection
<1>2. IsFiniteSet(S)
  BY <1>1, FS_Surjection
<1>3. ASSUME NEW x \in at
      PROVE  IsFiniteSet(P(x))
  <2>1. DOMAIN c[x] = 1..Len(c[x]) /\ Len(c[x]) \in Nat
    BY LenProperties
  <2>2. IsFiniteSet(DOMAIN c[x])
    BY <2>1, FS_Interval
  <2>3. IsFiniteSet({i \in DOMAIN c[x] : c[x][i] \in M})
    BY <2>2, FS_Subset
  <2> QED
    BY <2>3, FS_Product, FS_Singleton
<1>4. IsFiniteSet(UNION S)
  BY <1>2, <1>3, FS_UNION
<1>5. Positions(at, c, M) = UNION S
  BY DEF Positions
<1>6. IsFiniteSet(Positions(at, c, M))
  BY <1>4, <1>5
<1> QED
  BY <1>6, FS_CardinalityType DEF Num

LEMMA NumWithout ==
  ASSUME NEW D, NEW X, NEW c, NEW d, Family(D, X, c), Family(D, X, d),
         NEW e \in D, NEW k, Without(c, d, e, k),
         NEW at \in SUBSET D, IsFiniteSet(at), NEW M
  PROVE  Num(at, c, M) = Num(at, d, M) + At(at, M, e, c[e][k])
<1> DEFINE P == Positions(at, c, M)
           Q == Positions(at, d, M)
           p0 == <<e, k>>
           f == [p \in Q |-> IF p[1] = e /\ p[2] >= k THEN <<e, p[2] + 1>> ELSE p]
<1>1. /\ Len(c[e]) \in Nat /\ DOMAIN c[e] = 1..Len(c[e]) /\ k \in Nat
      /\ Len(d[e]) \in Nat /\ DOMAIN d[e] = 1..Len(d[e]) /\ Len(c[e]) = Len(d[e]) + 1
      /\ \A x \in D \ {e} : d[x] = c[x]
      /\ \A i \in 1..Len(d[e]) : /\ i < k => i \in DOMAIN c[e] /\ d[e][i] = c[e][i]
                                 /\ i >= k => i + 1 \in DOMAIN c[e] /\ d[e][i] = c[e][i + 1]
      /\ \A i \in DOMAIN c[e] : /\ i < k => i \in DOMAIN d[e] /\ d[e][i] = c[e][i]
                                /\ i > k => i - 1 \in DOMAIN d[e] /\ d[e][i - 1] = c[e][i]
  <2>1. /\ Len(c[e]) \in Nat /\ DOMAIN c[e] = 1..Len(c[e])
        /\ Len(d[e]) \in Nat /\ DOMAIN d[e] = 1..Len(d[e])
    BY LenProperties DEF Family
  <2>2. /\ Len(c[e]) = Len(d[e]) + 1 /\ k \in 1..Len(c[e])
        /\ \A i \in 1..Len(d[e]) : d[e][i] = c[e][IF i < k THEN i ELSE i + 1]
    BY DEF Without, Lacks, Family
  <2>10. \A x \in D \ {e} : d[x] = c[x]
    BY DEF Without, Family
  <2>3. PICK K \in Nat, L \in Nat : K = Len(c[e]) /\ L = Len(d[e])
    BY <2>1
  <2>4. K = L + 1 /\ k \in 1..K /\ DOMAIN c[e] = 1..K /\ DOMAIN d[e] = 1..L
    BY <2>1, <2>2, <2>3
  <2>5. \A i \in 1..L : d[e][i] = c[e][IF i < k THEN i ELSE i + 1]
    BY <2>2, <2>3
  <2>6. \A i \in 1..L : i < k => i \in 1..K /\ d[e][i] = c[e][i]
    BY <2>4, <2>5
  <2>7. \A i \in 1..L : i >= k => i + 1 \in 1..K /\ d[e][i] = c[e][i + 1]
    BY <2>4, <2>5
  <2>8. \A i \in 1..K : i < k => i \in 1..L /\ d[e][i] = c[e][i]
    BY <2>4, <2>6
  <2>9. \A i \in 1..K : i > k => i - 1 \in 1..L /\ d[e][i - 1] = c[e][i]
    <3> TAKE i \in 1..K
    <3> HAVE i > k
    <3>1. i - 1 \in 1..L /\ i - 1 >= k /\ (i - 1) + 1 = i
      BY <2>4
    <3>2. d[e][i - 1] = c[e][(i - 1) + 1]
      BY <2>7, <3>1
    <3> QED
      BY <3>1, <3>2
  <2>11. \A i \in 1..Len(d[e]) : /\ i < k => i \in DOMAIN c[e] /\ d[e][i] = c[e][i]
                                 /\ i >= k => i + 1 \in DOMAIN c[e] /\ d[e][i] = c[e][i + 1]
    BY <2>3, <2>4, <2>6, <2>7
  <2>12. \A i \in DOMAIN c[e] : /\ i < k => i \in DOMAIN d[e] /\ d[e][i] = c[e][i]
                                /\ i > k => i - 1 \in DOMAIN d[e] /\ d[e][i - 1] = c[e][i]
    BY <2>4, <2>8, <2>9
  <2> QED
    BY <2>3, <2>4, <2>10, <2>11, <2>12
<1>2. /\ \A p : p \in P <=> \E x \in at : \E i \in DOMAIN c[x] : c[x][i] \in M /\ p = <<x, i>>
      /\ \A p : p \in Q <=> \E x \in at : \E i \in DOMAIN d[x] : d[x][i] \in M /\ p = <<x, i>>
  BY Position
<1>3. IsFiniteSet(P) /\ IsFiniteSet(Q) /\ Cardinality(P) \in Nat /\ Cardinality(Q) \in Nat
  BY FinitePositions, FS_CardinalityType
<1> HIDE DEF P, Q
<1>4. \A p \in Q : p[1] = e => p[2] \in 1..Len(d[e])
  BY <1>1, <1>2
<1>5. f \in [Q -> P \ {p0}]
  <2> SUFFICES ASSUME NEW p \in Q
               PROVE  (IF p[1] = e /\ p[2] >= k THEN <<e, p[2] + 1>> ELSE p) \in P \ {p0}
    OBVIOUS
  <2>1. PICK x, i : x \in at /\ i \in DOMAIN d[x] /\ d[x][i] \in M /\ p = <<x, i>>
    BY <1>2
  <2>2. CASE x # e
    <3>1. p \in P
      BY <1>1, <1>2, <2>1, <2>2
    <3> QED
      BY <2>1, <2>2, <3>1
  <2>3. CASE x = e /\ i < k
    <3>1. i \in DOMAIN c[e] /\ c[e][i] \in M
      BY <1>1, <2>1, <2>3
    <3>2. p \in P
      BY <1>2, <2>1, <2>3, <3>1
    <3> QED
      BY <1>1, <2>1, <2>3, <3>2
  <2>4. CASE x = e /\ i >= k
    <3>1. i + 1 \in DOMAIN c[e] /\ c[e][i + 1] \in M
      BY <1>1, <2>1, <2>4
    <3>2. <<e, i + 1>> \in P
      BY <1>2, <2>1, <2>4, <3>1
    <3> QED
      BY <1>1, <2>1, <2>4, <3>2
  <2>5. x # e \/ (x = e /\ i < k) \/ (x = e /\ i >= k)
    <3>1. x = e => i \in Nat
      BY <1>1, <2>1
    <3> QED
      BY <1>1, <3>1
  <2> QED
    BY <2>2, <2>3, <2>4, <2>5
<1> DEFINE g(p) == IF p[1] = e /\ p[2] >= k THEN <<e, p[2] + 1>> ELSE p
<1>20. \A p \in Q : f[p] = g(p)
  OBVIOUS
<1> HIDE DEF f
<1>6. \A p, q \in Q : f[p] = f[q] => p = q
  <2> SUFFICES ASSUME NEW p \in Q, NEW q \in Q, f[p] = f[q]
               PROVE  p = q
    OBVIOUS
  <2>1. PICK x, i : x \in at /\ i \in DOMAIN d[x] /\ p = <<x, i>>
    BY <1>2
  <2>2. PICK y, j : y \in at /\ j \in DOMAIN d[y] /\ q = <<y, j>>
    BY <1>2
  <2>3. f[p] = IF x = e /\ i >= k THEN <<e, i + 1>> ELSE <<x, i>>
    BY <1>20, <2>1
  <2>7. f[q] = IF y = e /\ j >= k THEN <<e, j + 1>> ELSE <<y, j>>
    BY <1>20, <2>2
  <2>4. x = y
    <3>1. f[p][1] = x
      BY <2>3
    <3>2. f[q][1] = y
      BY <2>7
    <3> QED
      BY <3>1, <3>2
  <2>5. CASE x # e
    BY <2>1, <2>2, <2>3, <2>4, <2>7, <2>5
  <2>6. CASE x = e
    <3>1. i \in Nat /\ j \in Nat
      BY <1>1, <2>1, <2>2, <2>4, <2>6
    <3>2. k \in Nat
      BY <1>1
    <3>3. y = e
      BY <2>4, <2>6
    <3>4. i = j
      <4>1. CASE i >= k /\ j >= k
        <5>1. f[p][2] = i + 1
          BY <2>3, <2>6, <3>1, <4>1
        <5>2. f[q][2] = j + 1
          BY <2>7, <3>1, <3>3, <4>1
        <5> QED
          BY <3>1, <5>1, <5>2
      <4>2. CASE i >= k /\ ~(j >= k)
        <5>1. f[p][2] = i + 1
          BY <2>3, <2>6, <3>1, <4>2
        <5>2. f[q][2] = j
          BY <2>7, <3>1, <3>3, <4>2
        <5> QED
          BY <3>1, <3>2, <4>2, <5>1, <5>2
      <4>3. CASE ~(i >= k) /\ j >= k
        <5>1. f[p][2] = i
          BY <2>3, <2>6, <3>1, <4>3
        <5>2. f[q][2] = j + 1
          BY <2>7, <3>1, <3>3, <4>3
        <5> QED
          BY <3>1, <3>2, <4>3, <5>1, <5>2
      <4>4. CASE ~(i >= k) /\ ~(j >= k)
        <5>1. f[p][2] = i
          BY <2>3, <2>6, <3>1, <4>4
        <5>2. f[q][2] = j
          BY <2>7, <3>1, <3>3, <4>4
        <5> QED
          BY <3>1, <5>1, <5>2
      <4> QED
        BY <4>1, <4>2, <4>3, <4>4
    <3> QED
      BY <2>1, <2>2, <2>4, <3>4
  <2> QED
    BY <2>5, <2>6
<1>7. \A p \in P \ {p0} : \E q \in Q : f[q] = p
  <2> SUFFICES ASSUME NEW p \in P \ {p0}
               PROVE  \E q \in Q : f[q] = p
    OBVIOUS
  <2>1. PICK x, i : x \in at /\ i \in DOMAIN c[x] /\ c[x][i] \in M /\ p = <<x, i>>
    BY <1>2
  <2>2. CASE x # e
    <3>1. p \in Q
      BY <1>1, <1>2, <2>1, <2>2
    <3>2. f[p] = p
      BY <1>20, <2>1, <2>2, <3>1
    <3> QED
      BY <3>1, <3>2
  <2>3. CASE x = e /\ i < k
    <3>1. i \in DOMAIN d[e] /\ d[e][i] \in M
      BY <1>1, <2>1, <2>3
    <3>2. p \in Q
      BY <1>2, <2>1, <2>3, <3>1
    <3>3. p[2] = i /\ ~(i >= k)
      BY <1>1, <2>1, <2>3
    <3>4. f[p] = p
      BY <1>20, <3>2, <3>3
    <3> QED
      BY <3>2, <3>4
  <2>4. CASE x = e /\ i > k
    <3>1. i - 1 \in DOMAIN d[e] /\ d[e][i - 1] \in M
      BY <1>1, <2>1, <2>4
    <3>2. <<e, i - 1>> \in Q
      BY <1>2, <2>1, <2>4, <3>1
    <3>3. i - 1 >= k /\ (i - 1) + 1 = i
      BY <1>1, <2>1, <2>4
    <3>4. PICK q \in Q : q = <<e, i - 1>>
      BY <3>2
    <3>5. q[1] = e /\ q[2] = i - 1
      BY <3>4
    <3>6. f[q] = <<e, i>>
      BY <1>20, <3>3, <3>5
    <3> QED
      BY <2>1, <2>4, <3>6
  <2>5. x # e \/ (x = e /\ i < k) \/ (x = e /\ i > k)
    <3>1. x = e => i # k /\ i \in Nat
      BY <1>1, <2>1
    <3> QED
      BY <1>1, <3>1
  <2> QED
    BY <2>2, <2>3, <2>4, <2>5
<1>8. f \in Bijection(Q, P \ {p0})
  BY <1>5, <1>6, <1>7, Fun_IsBij
<1>9. Cardinality(P \ {p0}) = Cardinality(Q)
  <2>1. ExistsBijection(Q, P \ {p0})
    BY <1>8 DEF ExistsBijection
  <2> QED
    BY <1>3, <2>1, FS_Bijection
<1>10. Cardinality(P \ {p0}) = IF p0 \in P THEN Cardinality(P) - 1 ELSE Cardinality(P)
  BY <1>3, FS_RemoveElement
<1>11. p0 \in P <=> e \in at /\ c[e][k] \in M
  BY <1>1, <1>2
<1>12. Cardinality(P) = Cardinality(Q) + At(at, M, e, c[e][k])
  BY <1>3, <1>9, <1>10, <1>11 DEF At
<1> QED
  BY <1>12 DEF Num, P, Q

LEMMA Elements ==
  ASSUME NEW D, NEW X, NEW c, NEW d, Family(D, X, c), Family(D, X, d),
         NEW e \in D, NEW k, Without(c, d, e, k)
  PROVE  /\ \A x \in D : \A i \in DOMAIN d[x] : \E j \in DOMAIN c[x] : d[x][i] = c[x][j]
         /\ \A x \in D : \A j \in DOMAIN c[x] :
              (x = e /\ j = k) \/ \E i \in DOMAIN d[x] : c[x][j] = d[x][i]
         /\ k \in DOMAIN c[e] /\ c[e][k] \in X
<1>1. PICK K \in Nat, L \in Nat : K = Len(c[e]) /\ L = Len(d[e])
  BY LenProperties DEF Family
<1>2. /\ DOMAIN c[e] = 1..K /\ DOMAIN d[e] = 1..L
  BY <1>1, LenProperties DEF Family
<1>3. /\ K = L + 1 /\ k \in 1..K /\ \A x \in D \ {e} : d[x] = c[x]
      /\ \A i \in 1..L : d[e][i] = c[e][IF i < k THEN i ELSE i + 1]
  BY <1>1 DEF Without, Lacks, Family
<1>4. \A i \in 1..L : \E j \in 1..K : d[e][i] = c[e][j]
  BY <1>3
<1>5. \A j \in 1..K : j = k \/ \E i \in 1..L : c[e][j] = d[e][i]
  <2> SUFFICES ASSUME NEW j \in 1..K, j # k
               PROVE  \E i \in 1..L : c[e][j] = d[e][i]
    OBVIOUS
  <2>1. CASE j < k
    BY <1>3, <2>1
  <2>2. CASE j > k
    <3>1. j - 1 \in 1..L /\ ~(j - 1 < k) /\ (j - 1) + 1 = j
      BY <1>3, <2>2
    <3>2. d[e][j - 1] = c[e][(j - 1) + 1]
      BY <1>3, <3>1
    <3> QED
      BY <3>1, <3>2
  <2> QED
    BY <1>3, <2>1, <2>2
<1>6. c[e][k] \in X
  BY <1>1, <1>3, ElementOfSeq DEF Family
<1>7. \A x \in D : \A i \in DOMAIN d[x] : \E j \in DOMAIN c[x] : d[x][i] = c[x][j]
  <2> TAKE x \in D
  <2>1. CASE x = e
    BY <1>2, <1>4, <2>1
  <2>2. CASE x # e
    BY <1>3, <2>2
  <2> QED
    BY <2>1, <2>2
<1>8. \A x \in D : \A j \in DOMAIN c[x] :
        (x = e /\ j = k) \/ \E i \in DOMAIN d[x] : c[x][j] = d[x][i]
  <2> TAKE x \in D
  <2>1. CASE x = e
    BY <1>2, <1>5, <2>1
  <2>2. CASE x # e
    BY <1>3, <2>2
  <2> QED
    BY <2>1, <2>2
<1> QED
  BY <1>2, <1>3, <1>6, <1>7, <1>8

LEMMA TailLacks ==
  ASSUME NEW X, NEW q \in Seq(X), q # <<>>
  PROVE  /\ Tail(q) \in Seq(X) /\ Lacks(q, Tail(q), 1)
         /\ Head(q) = q[1] /\ Head(q) \in X /\ 1 \in DOMAIN q
<1>1. Len(q) \in Nat \ {0} /\ DOMAIN q = 1..Len(q)
  BY EmptySeq, LenProperties
<1>2. /\ Tail(q) \in Seq(X) /\ Len(Tail(q)) = Len(q) - 1 /\ Head(q) \in X
      /\ \A i \in 1..Len(Tail(q)) : Tail(q)[i] = q[i + 1]
  BY HeadTailProperties
<1>3. Head(q) = q[1]
  BY <1>1
<1> QED
  BY <1>1, <1>2, <1>3 DEF Lacks

LEMMA AppendLacks ==
  ASSUME NEW X, NEW q \in Seq(X), NEW x \in X
  PROVE  /\ Append(q, x) \in Seq(X) /\ Lacks(Append(q, x), q, Len(q) + 1)
         /\ Append(q, x)[Len(q) + 1] = x
<1>1. Len(q) \in Nat /\ DOMAIN q = 1..Len(q)
  BY LenProperties
<1>2. /\ Append(q, x) \in Seq(X) /\ Len(Append(q, x)) = Len(q) + 1
      /\ \A i \in 1..Len(q) : Append(q, x)[i] = q[i]
      /\ Append(q, x)[Len(q) + 1] = x
  BY AppendProperties
<1> QED
  BY <1>1, <1>2 DEF Lacks

LEMMA SubSeqOf ==
  ASSUME NEW X, NEW q \in Seq(X), NEW m \in Nat \ {0}, NEW n \in 0..Len(q), m <= n + 1
  PROVE  /\ SubSeq(q, m, n) \in Seq(X) /\ Len(SubSeq(q, m, n)) = n - m + 1
         /\ \A i \in 1..(n - m + 1) : SubSeq(q, m, n)[i] = q[m + i - 1]
<1>1. Len(q) \in Nat /\ n \in Int /\ m \in Int
  BY LenProperties
<1>2. \A i \in m..n : q[i] \in X
  BY <1>1, ElementOfSeq
<1>3. /\ SubSeq(q, m, n) \in Seq(X)
      /\ Len(SubSeq(q, m, n)) = IF m <= n THEN n - m + 1 ELSE 0
      /\ \A i \in 1..n - m + 1 : SubSeq(q, m, n)[i] = q[m + i - 1]
  BY <1>1, <1>2, SubSeqProperties
<1> QED
  BY <1>1, <1>3

LEMMA FrontLacks ==
  ASSUME NEW X, NEW q \in Seq(X), q # <<>>
  PROVE  /\ Front(q) \in Seq(X) /\ Lacks(q, Front(q), Len(q)) /\ Last(q) = q[Len(q)]
         /\ Len(q) \in DOMAIN q /\ Len(q) \in Nat \ {0} /\ Last(q) \in X
         /\ Len(Front(q)) = Len(q) - 1
         /\ \A i \in 1..Len(q) - 1 : Front(q)[i] = q[i]
<1>1. Len(q) \in Nat \ {0} /\ DOMAIN q = 1..Len(q) /\ q[Len(q)] \in X
  BY EmptySeq, LenProperties, ElementOfSeq
<1>2. 1 \in Nat \ {0} /\ Len(q) - 1 \in 0..Len(q) /\ 1 <= (Len(q) - 1) + 1
  BY <1>1
<1>3. /\ SubSeq(q, 1, Len(q) - 1) \in Seq(X) /\ Len(SubSeq(q, 1, Len(q) - 1)) = (Len(q) - 1) - 1 + 1
      /\ \A i \in 1..((Len(q) - 1) - 1 + 1) : SubSeq(q, 1, Len(q) - 1)[i] = q[1 + i - 1]
  BY <1>2, SubSeqOf
<1>4. PICK u : u = Front(q)
  OBVIOUS
<1>5. u \in Seq(X) /\ Len(u) = Len(q) - 1 /\ \A i \in 1..(Len(q) - 1) : u[i] = q[i]
  BY <1>1, <1>3, <1>4 DEF Front
<1> QED
  BY <1>1, <1>4, <1>5 DEF Lacks, Last

LEMMA ConcatLacks ==
  ASSUME NEW X, NEW a \in Seq(X), NEW b \in Seq(X), NEW q \in Seq(X), NEW x \in X,
         Len(q) = Len(a) + Len(b) + 1, q[Len(a) + 1] = x,
         \A i \in 1..Len(a) : q[i] = a[i],
         \A i \in 1..Len(b) : q[Len(a) + 1 + i] = b[i]
  PROVE  a \o b \in Seq(X) /\ Lacks(q, a \o b, Len(a) + 1)
<1>1. PICK u : u = a \o b
  OBVIOUS
<1>2. PICK A \in Nat, B \in Nat : A = Len(a) /\ B = Len(b)
  BY LenProperties
<1>3. /\ u \in Seq(X) /\ Len(u) = A + B
      /\ \A i \in 1..A + B : u[i] = IF i <= A THEN a[i] ELSE b[i - A]
  BY <1>1, <1>2, ConcatProperties
<1>4. \A i \in 1..A + B : u[i] = q[IF i < A + 1 THEN i ELSE i + 1]
  <2> TAKE i \in 1..A + B
  <2>1. CASE i <= A
    <3>1. q[i] = a[i]
      BY <1>2, <2>1
    <3> QED
      BY <1>3, <2>1, <3>1
  <2>2. CASE i > A
    <3>1. i - A \in 1..B /\ A + 1 + (i - A) = i + 1
      BY <2>2
    <3>2. q[A + 1 + (i - A)] = b[i - A]
      BY <1>2, <3>1
    <3> QED
      BY <1>3, <2>2, <3>1, <3>2
  <2> QED
    BY <2>1, <2>2
<1> QED
  BY <1>1, <1>2, <1>3, <1>4 DEF Lacks

LEMMA RemoveLacks ==
  ASSUME NEW X, NEW q \in Seq(X), NEW k \in DOMAIN q
  PROVE  RemoveAt(q, k) \in Seq(X) /\ Lacks(q, RemoveAt(q, k), k)
<1>1. PICK K \in Nat : K = Len(q) /\ DOMAIN q = 1..K
  BY LenProperties
<1>2. k \in 1..K /\ k - 1 \in 0..K /\ 1 <= (k - 1) + 1 /\ k + 1 <= K + 1 /\ K \in 0..K /\ k + 1 \in Nat \ {0}
  BY <1>1
<1>0. k - 1 \in 0..Len(q) /\ 1 \in Nat \ {0}
  BY <1>1, <1>2
<1>3. PICK a, b : a = SubSeq(q, 1, k - 1) /\ b = SubSeq(q, k + 1, K)
  OBVIOUS
<1>4. a \in Seq(X) /\ Len(a) = (k - 1) - 1 + 1 /\ \A i \in 1..((k - 1) - 1 + 1) : a[i] = q[1 + i - 1]
  <2>1. PICK j \in 0..Len(q) : j = k - 1 /\ 1 <= j + 1
    BY <1>0, <1>2
  <2>2. a = SubSeq(q, 1, j)
    BY <1>3, <2>1
  <2>3. a \in Seq(X) /\ Len(a) = j - 1 + 1 /\ \A i \in 1..(j - 1 + 1) : a[i] = q[1 + i - 1]
    BY <1>0, <2>1, <2>2, SubSeqOf
  <2> QED
    BY <2>1, <2>3
<1>5. b \in Seq(X) /\ Len(b) = K - (k + 1) + 1 /\ \A i \in 1..(K - (k + 1) + 1) : b[i] = q[(k + 1) + i - 1]
  BY <1>1, <1>2, <1>3, SubSeqOf
<1>6. Len(a) = k - 1 /\ Len(a) \in Nat /\ \A i \in 1..Len(a) : q[i] = a[i]
  <2>1. k \in Nat /\ k - 1 \in Nat /\ (k - 1) - 1 + 1 = k - 1
    BY <1>2
  <2>2. Len(a) = k - 1
    BY <1>4, <2>1
  <2>3. ASSUME NEW i \in 1..Len(a)
        PROVE  q[i] = a[i]
    <3>1. i \in 1..((k - 1) - 1 + 1) /\ i \in Int
      BY <2>1, <2>2
    <3>2. a[i] = q[1 + i - 1] /\ 1 + i - 1 = i
      BY <1>4, <3>1
    <3> QED
      BY <3>2
  <2> QED
    BY <2>1, <2>2, <2>3
<1>7. Len(b) = K - k /\ \A i \in 1..Len(b) : q[Len(a) + 1 + i] = b[i]
  <2>3. k \in Nat /\ K - k \in Nat /\ K - (k + 1) + 1 = K - k
    BY <1>2
  <2>1. Len(b) = K - k
    BY <1>5, <2>3
  <2>2. ASSUME NEW i \in 1..Len(b)
        PROVE  q[Len(a) + 1 + i] = b[i]
    <3>1. Len(a) + 1 + i = (k + 1) + i - 1 /\ i \in 1..(K - (k + 1) + 1)
      <4>1. i \in 1..(K - k) /\ Len(a) = k - 1
        BY <1>6, <2>1
      <4> QED
        BY <2>3, <4>1
    <3> QED
      BY <1>5, <3>1
  <2> QED
    BY <2>1, <2>2
<1>8. Len(q) = Len(a) + Len(b) + 1 /\ Len(a) + 1 = k /\ q[k] \in X
  <2>1. q[k] \in X
    BY <1>1, <1>2, ElementOfSeq
  <2>2. k \in Int /\ K \in Int
    BY <1>1, <1>2
  <2> QED
    BY <1>1, <1>6, <1>7, <2>1, <2>2
<1>9. a \o b \in Seq(X) /\ Lacks(q, a \o b, Len(a) + 1)
  BY <1>4, <1>5, <1>6, <1>7, <1>8, ConcatLacks
<1> QED
  BY <1>1, <1>3, <1>8, <1>9 DEF RemoveAt

LEMMA ConsLacks ==
  ASSUME NEW X, NEW q \in Seq(X), NEW r \in X
  PROVE  <<r>> \o q \in Seq(X) /\ Lacks(<<r>> \o q, q, 1) /\ (<<r>> \o q)[1] = r
<1>0. PICK u : u = <<r>> \o q
  OBVIOUS
<1>1. Len(q) \in Nat
  BY LenProperties
<1>2. <<r>> \in Seq(X) /\ Len(<<r>>) = 1 /\ <<r>>[1] = r
  OBVIOUS
<1>3. /\ u \in Seq(X) /\ Len(u) = 1 + Len(q)
      /\ \A i \in 1..1 + Len(q) : u[i] = IF i <= 1 THEN <<r>>[i] ELSE q[i - 1]
  BY <1>0, <1>2, ConcatProperties
<1>4. Lacks(u, q, 1) /\ u[1] = r
  BY <1>1, <1>2, <1>3 DEF Lacks
<1> QED
  BY <1>0, <1>3, <1>4

LEMMA PushLacks ==
  ASSUME NEW X, NEW q \in Seq(X), NEW r \in X, NEW s, NEW u, u = Push(s, q, r)
  PROVE  u \in Seq(X) /\ \E k \in {1, 2} : Lacks(u, q, k) /\ u[k] = r
<1>1. Len(q) \in Nat
  BY LenProperties
<1>2. CASE u = <<r>> \o q
  <2>1. <<r>> \o q \in Seq(X) /\ Lacks(<<r>> \o q, q, 1) /\ (<<r>> \o q)[1] = r
    BY ConsLacks
  <2> QED
    BY <1>2, <2>1
<1>3. CASE q # <<>> /\ u = <<Head(q), r>> \o Tail(q)
  <2>1. Len(q) \in Nat \ {0}
    BY <1>3, EmptySeq
  <2>2. /\ Head(q) \in X /\ Head(q) = q[1] /\ Tail(q) \in Seq(X) /\ Len(Tail(q)) = Len(q) - 1
        /\ \A i \in 1..Len(Tail(q)) : Tail(q)[i] = q[i + 1]
    BY <1>3, HeadTailProperties, TailLacks
  <2>3. PICK a, b : a = <<Head(q), r>> /\ b = Tail(q)
    OBVIOUS
  <2>4. a \in Seq(X) /\ Len(a) = 2 /\ a[1] = q[1] /\ a[2] = r
    BY <2>2, <2>3
  <2>5. /\ u \in Seq(X) /\ Len(u) = 2 + Len(b)
        /\ \A i \in 1..2 + Len(b) : u[i] = IF i <= 2 THEN a[i] ELSE b[i - 2]
    BY <1>3, <2>2, <2>3, <2>4, ConcatProperties
  <2>6. Len(u) = Len(q) + 1 /\ u[1] = q[1] /\ u[2] = r
    BY <2>1, <2>2, <2>3, <2>4, <2>5
  <2>7. ASSUME NEW i \in 1..Len(q), i > 1
        PROVE  q[i] = u[i + 1]
    <3>1. i - 1 \in 1..Len(b) /\ i + 1 \in 1..2 + Len(b) /\ (i + 1) - 2 = i - 1 /\ (i - 1) + 1 = i
      BY <2>1, <2>2, <2>3, <2>7
    <3>2. u[i + 1] = b[i - 1]
      BY <2>5, <2>7, <3>1
    <3>3. b[i - 1] = q[(i - 1) + 1]
      BY <2>2, <2>3, <3>1
    <3> QED
      BY <3>1, <3>2, <3>3
  <2>8. Lacks(u, q, 2)
    <3>1. \A i \in 1..Len(q) : q[i] = u[IF i < 2 THEN i ELSE i + 1]
      BY <2>1, <2>6, <2>7
    <3> QED
      BY <2>1, <2>6, <3>1 DEF Lacks
  <2> QED
    BY <2>5, <2>6, <2>8
<1> QED
  BY <1>2, <1>3 DEF Push

(* d is c without one element *)
LEMMA Differ ==
  ASSUME NEW D, IsFiniteSet(D), NEW X, NEW c, NEW d, Family(D, X, c), Family(D, X, d),
         NEW e \in D, NEW k, Without(c, d, e, k)
  PROVE  /\ \A x \in D \ {e} : d[x] = c[x]
         /\ \A M : Num(D, c, M) = Num(D, d, M) + At(D, M, e, c[e][k])
         /\ \A M : Num(D, c, M) \in Nat /\ Num(D, d, M) \in Nat
         /\ \A x \in D : \A y \in Range(d[x]) : y \in Range(c[x])
         /\ \A x \in D : \A y \in Range(c[x]) : (x = e /\ y = c[e][k]) \/ y \in Range(d[x])
         /\ c[e][k] \in Range(c[e]) /\ c[e][k] \in X
<1>1. \A x \in D \ {e} : d[x] = c[x]
  BY DEF Without, Family
<1>2. D \in SUBSET D
  OBVIOUS
<1>3. ASSUME NEW M
      PROVE  Num(D, c, M) = Num(D, d, M) + At(D, M, e, c[e][k])
  BY <1>2, NumWithout
<1>4. ASSUME NEW M
      PROVE  Num(D, c, M) \in Nat /\ Num(D, d, M) \in Nat
  BY <1>2, FinitePositions
<1>5. /\ \A x \in D : \A i \in DOMAIN d[x] : \E j \in DOMAIN c[x] : d[x][i] = c[x][j]
      /\ \A x \in D : \A j \in DOMAIN c[x] :
              (x = e /\ j = k) \/ \E i \in DOMAIN d[x] : c[x][j] = d[x][i]
      /\ k \in DOMAIN c[e] /\ c[e][k] \in X
  BY Elements
<1>6. \A x \in D : \A y \in Range(d[x]) : y \in Range(c[x])
  BY <1>5 DEF Range
<1>7. \A x \in D : \A y \in Range(c[x]) : (x = e /\ y = c[e][k]) \/ y \in Range(d[x])
  BY <1>5 DEF Range
<1>8. c[e][k] \in Range(c[e]) /\ c[e][k] \in X
  BY <1>5 DEF Range
<1> QED
  BY <1>1, <1>3, <1>4, <1>6, <1>7, <1>8

(* a sequence of a family is made shorter or longer by one element *)
SetAt(c, e, u, d) == d = [c EXCEPT ![e] = u]

-----------------------------------------------------------------------------
(* Taking a message from a link and putting one on a link *)

Takes(c, d, e) ==
  /\ Family(Edge, Msg, c) /\ Family(Edge, Msg, d) /\ e \in Edge
  /\ c[e] # <<>> /\ Without(c, d, e, 1)
Puts(c, d, f, m) ==
  /\ Family(Edge, Msg, c) /\ Family(Edge, Msg, d) /\ f \in Edge /\ m \in Msg
  /\ d[f] # <<>> /\ Without(d, c, f, Len(d[f])) /\ d[f][Len(d[f])] = m

LEMMA Finite ==
  IsFiniteSet(Node) /\ IsFiniteSet(Server) /\ IsFiniteSet(Edge)
<1> DEFINE down == {p \in Server \X Host : p[2] \in Links(p[1])}
           up2 == {<<p[2], p[1]>> : p \in down}
           f == [p \in down |-> <<p[2], p[1]>>]
<1>1. IsFiniteSet(Node) /\ IsFiniteSet(Server)
  BY TreeAssumption
<1>2. IsFiniteSet(Host)
  <2>1. IsFiniteSet(Node \cup Server)
    BY <1>1, FS_Union
  <2> QED
    BY <2>1, FS_AddElement DEF Host
<1>3. IsFiniteSet(down)
  <2>1. IsFiniteSet(Server \X Host)
    BY <1>1, <1>2, FS_Product
  <2> QED
    BY <2>1, FS_Subset
<1>4. f \in Surjection(down, up2)
  BY DEF Surjection
<1>5. IsFiniteSet(up2)
  BY <1>3, <1>4, FS_Surjection
<1>6. IsFiniteSet(down \cup up2)
  BY <1>3, <1>5, FS_Union
<1> QED
  BY <1>1, <1>6 DEF Edge

LEMMA TakesNum ==
  ASSUME NEW c, NEW d, NEW e, Takes(c, d, e), NEW at \in SUBSET Edge, NEW M
  PROVE  /\ Num(at, c, M) = Num(at, d, M) + At(at, M, e, Head(c[e]))
         /\ Num(at, c, M) \in Nat /\ Num(at, d, M) \in Nat
<1>1. /\ Family(Edge, Msg, c) /\ Family(Edge, Msg, d) /\ e \in Edge
      /\ c[e] # <<>> /\ Without(c, d, e, 1)
  BY DEF Takes
<1>2. IsFiniteSet(at)
  BY Finite, FS_Subset
<1>3. Head(c[e]) = c[e][1]
  BY <1>1, TailLacks DEF Family
<1>4. Num(at, c, M) = Num(at, d, M) + At(at, M, e, c[e][1])
  BY <1>1, <1>2, NumWithout
<1>5. Num(at, c, M) \in Nat /\ Num(at, d, M) \in Nat
  BY <1>1, <1>2, FinitePositions
<1> QED
  BY <1>3, <1>4, <1>5

LEMMA PutsNum ==
  ASSUME NEW c, NEW d, NEW f, NEW m, Puts(c, d, f, m), NEW at \in SUBSET Edge, NEW M
  PROVE  /\ Num(at, d, M) = Num(at, c, M) + At(at, M, f, m)
         /\ Num(at, c, M) \in Nat /\ Num(at, d, M) \in Nat
<1>1. /\ Family(Edge, Msg, c) /\ Family(Edge, Msg, d) /\ f \in Edge
      /\ Without(d, c, f, Len(d[f])) /\ d[f][Len(d[f])] = m
  BY DEF Puts
<1>2. IsFiniteSet(at)
  BY Finite, FS_Subset
<1>3. Num(at, d, M) = Num(at, c, M) + At(at, M, f, d[f][Len(d[f])])
  BY <1>1, <1>2, NumWithout
<1>4. Num(at, c, M) \in Nat /\ Num(at, d, M) \in Nat
  BY <1>1, <1>2, FinitePositions
<1> QED
  BY <1>1, <1>3, <1>4

LEMMA TakesElements ==
  ASSUME NEW c, NEW d, NEW e, Takes(c, d, e)
  PROVE  /\ \A x \in Edge : \A i \in DOMAIN d[x] : \E j \in DOMAIN c[x] : d[x][i] = c[x][j]
         /\ Head(c[e]) = c[e][1] /\ 1 \in DOMAIN c[e] /\ Head(c[e]) \in Msg
         /\ c[e] \in Seq(Msg) /\ d[e] \in Seq(Msg) /\ Len(c[e]) = Len(d[e]) + 1
         /\ \A x \in Edge \ {e} : d[x] = c[x]
<1>1. /\ Family(Edge, Msg, c) /\ Family(Edge, Msg, d) /\ e \in Edge
      /\ c[e] # <<>> /\ Without(c, d, e, 1)
  BY DEF Takes
<1>2. \A x \in Edge : \A i \in DOMAIN d[x] : \E j \in DOMAIN c[x] : d[x][i] = c[x][j]
  BY <1>1, Elements
<1>3. Head(c[e]) = c[e][1] /\ 1 \in DOMAIN c[e] /\ Head(c[e]) \in Msg
  BY <1>1, TailLacks DEF Family
<1> QED
  BY <1>1, <1>2, <1>3 DEF Without, Lacks, Family

LEMMA PutsElements ==
  ASSUME NEW c, NEW d, NEW f, NEW m, Puts(c, d, f, m)
  PROVE  /\ \A x \in Edge : \A i \in DOMAIN d[x] :
              (x = f /\ d[x][i] = m) \/ \E j \in DOMAIN c[x] : d[x][i] = c[x][j]
         /\ c[f] \in Seq(Msg) /\ d[f] \in Seq(Msg) /\ Len(d[f]) = Len(c[f]) + 1
         /\ \A x \in Edge \ {f} : d[x] = c[x]
<1>1. /\ Family(Edge, Msg, c) /\ Family(Edge, Msg, d) /\ f \in Edge
      /\ Without(d, c, f, Len(d[f])) /\ d[f][Len(d[f])] = m
  BY DEF Puts
<1>2. \A x \in Edge : \A j \in DOMAIN d[x] :
        (x = f /\ j = Len(d[f])) \/ \E i \in DOMAIN c[x] : d[x][j] = c[x][i]
  BY <1>1, Elements
<1>3. \A x \in Edge : \A i \in DOMAIN d[x] :
        (x = f /\ d[x][i] = m) \/ \E j \in DOMAIN c[x] : d[x][i] = c[x][j]
  BY <1>1, <1>2
<1> QED
  BY <1>1, <1>3 DEF Without, Lacks, Family

LEMMA Taking ==
  ASSUME NEW c, Family(Edge, Msg, c), NEW e \in Edge, c[e] # <<>>,
         NEW d, d = [c EXCEPT ![e] = Tail(@)]
  PROVE  Takes(c, d, e)
<1>1. PICK u : u = Tail(c[e])
  OBVIOUS
<1>2. u \in Seq(Msg) /\ Lacks(c[e], u, 1)
  BY <1>1, TailLacks DEF Family
<1>3. d = [c EXCEPT ![e] = u]
  BY <1>1
<1>4. Family(Edge, Msg, d) /\ d[e] = u /\ \A x \in Edge \ {e} : d[x] = c[x]
  BY <1>2, <1>3 DEF Family
<1>5. DOMAIN c = Edge
  BY DEF Family
<1> QED
  BY <1>2, <1>4, <1>5 DEF Takes, Without

LEMMA Putting ==
  ASSUME NEW c, Family(Edge, Msg, c), NEW f \in Edge, NEW m \in Msg,
         NEW d, d = [c EXCEPT ![f] = Append(@, m)]
  PROVE  Puts(c, d, f, m)
<1>1. PICK u : u = Append(c[f], m)
  OBVIOUS
<1>2. /\ u \in Seq(Msg) /\ Lacks(u, c[f], Len(c[f]) + 1) /\ u[Len(c[f]) + 1] = m
  BY <1>1, AppendLacks DEF Family
<1>3. u # <<>> /\ Len(u) = Len(c[f]) + 1
  <2>1. Len(u) = Len(c[f]) + 1 /\ Len(c[f]) \in Nat
    BY <1>2, LenProperties DEF Lacks, Family
  <2> QED
    BY <2>1, EmptySeq
<1>4. d = [c EXCEPT ![f] = u]
  BY <1>1
<1>5. Family(Edge, Msg, d) /\ d[f] = u /\ \A x \in Edge \ {f} : d[x] = c[x]
  BY <1>2, <1>4 DEF Family
<1>6. DOMAIN d = Edge
  BY <1>5 DEF Family
<1>7. Without(d, c, f, Len(u))
  BY <1>2, <1>3, <1>5, <1>6 DEF Without
<1> QED
  BY <1>2, <1>3, <1>5, <1>7 DEF Puts

-----------------------------------------------------------------------------
(* The tree of servers *)

LEMMA Tree ==
  /\ Term \notin Node /\ Term \notin Server /\ Node \cap Server = {}
  /\ \A s \in Server : /\ Parent[s] \in Server \cup {Term} /\ ChildrenOf(s) \subseteq Node \cup Server
                       /\ Links(s) \subseteq Host /\ Parent[s] \in Links(s)
                       /\ Children[s] \in Seq(Node \cup Server) /\ Children[s] # <<>>
  /\ \A s, t \in Server : t \in ChildrenOf(s) <=> Parent[t] = s
<1>1. \A s \in Server : Children[s] \in Seq(Node \cup Server) /\ Children[s] # <<>>
  BY TreeAssumption
<1>2. \A s \in Server : ChildrenOf(s) \subseteq Node \cup Server
  <2> TAKE s \in Server
  <2>1. \A i \in DOMAIN Children[s] : Children[s][i] \in Node \cup Server
    BY <1>1, LenProperties, ElementOfSeq
  <2> QED
    BY <2>1 DEF ChildrenOf, Range
<1> QED
  BY <1>1, <1>2, TreeAssumption DEF Links, Host

LEMMA TopIs ==
  /\ Top \in Server /\ Parent[Top] = Term
  /\ \A s \in Server : Parent[s] = Term => s = Top
<1>1. \E s \in Server : \A t \in Server : Parent[t] = Term <=> t = s
  BY TreeAssumption
<1> QED
  BY <1>1 DEF Top

LEMMA ServerOfIs ==
  ASSUME NEW n \in Node
  PROVE  /\ ServerOf(n) \in Server /\ n \in ChildrenOf(ServerOf(n)) /\ n \in Links(ServerOf(n))
         /\ \A s \in Server : n \in Links(s) => s = ServerOf(n)
<1>1. PICK s \in Server : {t \in Server : n \in ChildrenOf(t)} = {s}
  BY TreeAssumption
<1>2. ServerOf(n) \in Server /\ n \in ChildrenOf(ServerOf(n))
  BY <1>1 DEF ServerOf
<1>3. \A t \in Server : n \in ChildrenOf(t) => t = ServerOf(n)
  BY <1>1, <1>2
<1> QED
  BY <1>2, <1>3, Tree DEF Links

LEMMA Edges ==
  /\ \A s \in Server : \A h \in Links(s) : <<s, h>> \in Edge /\ <<h, s>> \in Edge
  /\ \A e \in Edge : \/ e[1] \in Server /\ e[2] \in Links(e[1]) /\ e = <<e[1], e[2]>>
                     \/ e[2] \in Server /\ e[1] \in Links(e[2]) /\ e = <<e[1], e[2]>>
  /\ \A n \in Node : <<n, ServerOf(n)>> \in Edge /\ <<ServerOf(n), n>> \in Edge
  /\ <<Term, Top>> \in Edge
<1>1. \A s \in Server : \A h \in Links(s) : <<s, h>> \in Edge /\ <<h, s>> \in Edge
  <2> TAKE s \in Server
  <2> TAKE h \in Links(s)
  <2>1. h \in Host
    BY Tree
  <2>2. PICK p : p = <<s, h>>
    OBVIOUS
  <2>3. p \in Server \X Host /\ p[2] \in Links(p[1]) /\ <<p[2], p[1]>> = <<h, s>>
    BY <2>1, <2>2
  <2> QED
    BY <2>2, <2>3 DEF Edge
<1>2. ASSUME NEW e \in Edge
      PROVE  \/ e[1] \in Server /\ e[2] \in Links(e[1]) /\ e = <<e[1], e[2]>>
             \/ e[2] \in Server /\ e[1] \in Links(e[2]) /\ e = <<e[1], e[2]>>
  BY DEF Edge
<1>3. \A n \in Node : <<n, ServerOf(n)>> \in Edge /\ <<ServerOf(n), n>> \in Edge
  BY <1>1, ServerOfIs
<1>4. <<Term, Top>> \in Edge
  BY <1>1, TopIs, Tree
<1> QED
  BY <1>1, <1>2, <1>3, <1>4

(* a link of a node is the one to its server *)
LEMMA NodeEdge ==
  ASSUME NEW a, NEW b, <<a, b>> \in Edge
  PROVE  /\ a \in Node => b = ServerOf(a)
         /\ b \in Node => a = ServerOf(b)
         /\ a = Term => b = Top
         /\ b = Term => a = Top
<1>1. \/ a \in Server /\ b \in Links(a)
      \/ b \in Server /\ a \in Links(b)
  BY Edges
<1>2. \A s \in Server : Term \in Links(s) => Parent[s] = Term
  BY Tree DEF Links
<1> QED
  BY <1>1, <1>2, ServerOfIs, TopIs, Tree

-----------------------------------------------------------------------------
(* Ways *)

LEMMA WayForward ==
  ASSUME NEW s \in Server, NEW p \in Path, NEW n, n \in Node \cup {Term}, Way(s, p, n)
  PROVE  /\ p # <<>> /\ Head(p) \in Links(s) /\ Head(p) \in Host /\ Tail(p) \in Path
         /\ Way(Head(p), Tail(p), n)
         /\ Head(p) \notin Server => Head(p) = n /\ Tail(p) = <<>>
<1>1. p # <<>>
  BY Tree DEF Way
<1>2. PICK L \in Nat \ {0} : L = Len(p)
  BY <1>1, EmptySeq DEF Path
<1>3. /\ Tail(p) \in Path /\ Len(Tail(p)) = L - 1 /\ Head(p) = p[1] /\ Head(p) \in Host
      /\ \A i \in 1..L - 1 : Tail(p)[i] = p[i + 1]
  BY <1>1, <1>2, HeadTailProperties, TailLacks DEF Path
<1>4. /\ p[1] \in Links(s) /\ p[L] = n
      /\ \A i \in 1..L - 1 : p[i] \in Server /\ p[i + 1] \in Links(p[i])
  BY <1>1, <1>2 DEF Way
<1>5. CASE L = 1
  <2>1. Tail(p) = <<>>
    <3>1. Tail(p) \in Seq(Host) /\ Len(Tail(p)) = 0
      BY <1>3, <1>5 DEF Path
    <3> QED
      BY <3>1, EmptySeq
  <2>2. Way(Head(p), Tail(p), n)
    BY <1>3, <1>4, <1>5, <2>1 DEF Way
  <2> QED
    BY <1>1, <1>3, <1>4, <1>5, <2>1, <2>2
<1>6. CASE L > 1
  <2>1. p[1] \in Server /\ p[2] \in Links(p[1])
    <3>1. 1 \in 1..L - 1 /\ 1 + 1 = 2
      BY <1>6
    <3> QED
      BY <1>4, <3>1
  <2>2. PICK q : q = Tail(p)
    OBVIOUS
  <2>3. q # <<>> /\ q[1] = p[2] /\ q[L - 1] = p[L]
    <3>1. 1 \in 1..L - 1 /\ L - 1 \in 1..L - 1 /\ (L - 1) + 1 = L /\ 1 + 1 = 2
      BY <1>6
    <3>2. Len(q) # 0 /\ q \in Path
      BY <1>3, <2>2, <3>1
    <3>3. q # <<>>
      BY <3>2, EmptySeq
    <3> QED
      BY <1>3, <2>2, <3>1, <3>3
  <2>4. \A i \in 1..(L - 1) - 1 : q[i] \in Server /\ q[i + 1] \in Links(q[i])
    <3> TAKE i \in 1..(L - 1) - 1
    <3>1. i \in 1..L - 1 /\ i + 1 \in 1..L - 1
      OBVIOUS
    <3>2. q[i] = p[i + 1] /\ q[i + 1] = p[(i + 1) + 1]
      BY <1>3, <2>2, <3>1
    <3> QED
      BY <1>4, <3>1, <3>2
  <2>5. Len(q) = L - 1
    BY <1>3, <2>2
  <2>6. Way(p[1], q, n)
    BY <1>4, <2>1, <2>3, <2>4, <2>5 DEF Way
  <2> QED
    BY <1>1, <1>3, <1>4, <2>1, <2>2, <2>6
<1> QED
  BY <1>2, <1>5, <1>6

LEMMA WayBack ==
  ASSUME NEW s \in Server, NEW h \in Links(s), NEW p \in Path, NEW n, Way(h, p, n)
  PROVE  /\ HeadPush(h, p) \in Path /\ HeadPush(h, p) # <<>>
         /\ Head(HeadPush(h, p)) = h /\ Tail(HeadPush(h, p)) = p
         /\ Way(s, HeadPush(h, p), n)
<1>1. PICK L \in Nat : L = Len(p)
  BY LenProperties DEF Path
<1>2. h \in Host
  BY Tree
<1>3. PICK q : q = HeadPush(h, p)
  OBVIOUS
<1>4. /\ q \in Path /\ Len(q) = 1 + L
      /\ \A i \in 1..1 + L : q[i] = IF i <= 1 THEN h ELSE p[i - 1]
  <2>1. <<h>> \in Seq(Host) /\ Len(<<h>>) = 1 /\ <<h>>[1] = h
    BY <1>2
  <2>2. /\ <<h>> \o p \in Seq(Host) /\ Len(<<h>> \o p) = Len(<<h>>) + Len(p)
        /\ \A i \in 1..Len(<<h>>) + Len(p) :
             (<<h>> \o p)[i] = IF i <= Len(<<h>>) THEN <<h>>[i] ELSE p[i - Len(<<h>>)]
    BY <2>1, ConcatProperties DEF Path
  <2> QED
    BY <1>1, <1>3, <2>1, <2>2 DEF HeadPush, Path
<1>5. q # <<>> /\ q[1] = h /\ \A i \in 1..L : q[i + 1] = p[i]
  <2>1. q # <<>> /\ q[1] = h
    BY <1>4, EmptySeq DEF Path
  <2>2. ASSUME NEW i \in 1..L
        PROVE  q[i + 1] = p[i]
    <3>1. i + 1 \in 1..1 + L /\ ~(i + 1 <= 1) /\ (i + 1) - 1 = i
      OBVIOUS
    <3> QED
      BY <1>4, <3>1
  <2> QED
    BY <2>1, <2>2
<1>6. Head(q) = h /\ Tail(q) = p
  <2>1. /\ Tail(q) \in Seq(Host) /\ Len(Tail(q)) = L /\ Head(q) = q[1]
        /\ \A i \in 1..L : Tail(q)[i] = q[i + 1]
    BY <1>4, <1>5, HeadTailProperties, TailLacks DEF Path
  <2>2. Tail(q) = p
    BY <1>1, <1>5, <2>1, SeqEqual DEF Path
  <2> QED
    BY <1>5, <2>1, <2>2
<1>7. Way(s, q, n)
  <2>1. CASE p = <<>>
    <3>1. L = 0 /\ h = n
      BY <1>1, <2>1, EmptySeq DEF Way
    <3> QED
      BY <1>4, <1>5, <3>1 DEF Way
  <2>2. CASE p # <<>>
    <3>1. L \in Nat \ {0}
      BY <1>1, <2>2, EmptySeq DEF Path
    <3>2. /\ h \in Server /\ p[1] \in Links(h) /\ p[L] = n
          /\ \A i \in 1..L - 1 : p[i] \in Server /\ p[i + 1] \in Links(p[i])
      BY <1>1, <2>2 DEF Way
    <3>3. q[1 + L] = n
      <4>1. L \in 1..L /\ L + 1 = 1 + L
        BY <3>1
      <4> QED
        BY <1>5, <3>2, <4>1
    <3>4. ASSUME NEW i \in 1..(1 + L) - 1
          PROVE  q[i] \in Server /\ q[i + 1] \in Links(q[i])
      <4>1. CASE i = 1
        <5>1. q[2] = p[1]
          <6>1. 1 \in 1..L /\ 1 + 1 = 2
            BY <3>1
          <6> QED
            BY <1>5, <6>1
        <5> QED
          BY <1>5, <3>2, <4>1, <5>1
      <4>2. CASE i # 1
        <5>1. i - 1 \in 1..L - 1 /\ i - 1 \in 1..L /\ i \in 1..L /\ (i - 1) + 1 = i
          BY <4>2
        <5>2. q[i] = p[i - 1] /\ q[i + 1] = p[i]
          BY <1>5, <5>1
        <5>3. p[i - 1] \in Server /\ p[(i - 1) + 1] \in Links(p[i - 1])
          BY <3>2, <5>1
        <5> QED
          BY <5>1, <5>2, <5>3
      <4> QED
        BY <4>1, <4>2
    <3> QED
      BY <1>4, <1>5, <3>2, <3>3, <3>4 DEF Way
  <2> QED
    BY <2>1, <2>2
<1> QED
  BY <1>3, <1>4, <1>5, <1>6, <1>7

LEMMA WayEnds ==
  ASSUME NEW h, NEW p, NEW n, Way(h, p, n), h \notin Server
  PROVE  p = <<>> /\ h = n
  BY DEF Way

LEMMA WayHere ==
  ASSUME NEW h
  PROVE  Way(h, <<>>, h) /\ <<>> \in Path
<1>1. Len(<<>>) = 0
  BY EmptySeq
<1> QED
  BY <1>1 DEF Way, Path

LEMMA NotAny ==
  ASSUME NEW s, NEW x \in Node
  PROVE  ~Way(s, ANY, x)
<1>1. ANY # <<>> /\ Len(ANY) = 2 /\ ANY[2] = Term
  BY DEF ANY
<1> QED
  BY <1>1, Tree DEF Way

-----------------------------------------------------------------------------
(* Messages and types *)

LEMMA MsgParts ==
  ASSUME NEW m \in Msg
  PROVE  /\ m.kind \in {"treq", "none", "task", "rslt", "rack", "leav"}
         /\ m.kind \in {"treq", "none", "task", "rslt", "rack"} => m.to \in Path
         /\ m.kind \in {"treq", "task"} => m.from \in Path
         /\ m.kind \in {"treq", "none", "task"} => m.by \in Node
         /\ m.kind = "treq" => m.for \in {AnyTask} \cup SubTask
         /\ m.kind \in {"task", "rslt", "rack"} => m.id \in Task
  BY DEF Msg

LEMMA MsgMade ==
  ASSUME NEW to \in Path
  PROVE  /\ \A from \in Path, by \in Node, for \in {AnyTask} \cup SubTask :
              /\ treq(to, from, by, for) \in Msg /\ treq(to, from, by, for).kind = "treq"
              /\ treq(to, from, by, for).to = to /\ treq(to, from, by, for).from = from
              /\ treq(to, from, by, for).by = by /\ treq(to, from, by, for).for = for
         /\ \A by \in Node :
              /\ none(to, by) \in Msg /\ none(to, by).kind = "none"
              /\ none(to, by).to = to /\ none(to, by).by = by
         /\ \A from \in Path, by \in Node, id \in Task :
              /\ task(to, from, by, id) \in Msg /\ task(to, from, by, id).kind = "task"
              /\ task(to, from, by, id).to = to /\ task(to, from, by, id).from = from
              /\ task(to, from, by, id).by = by /\ task(to, from, by, id).id = id
         /\ \A id \in Task :
              /\ rslt(to, id) \in Msg /\ rslt(to, id).kind = "rslt"
              /\ rslt(to, id).to = to /\ rslt(to, id).id = id
              /\ rack(to, id) \in Msg /\ rack(to, id).kind = "rack"
              /\ rack(to, id).to = to /\ rack(to, id).id = id
  BY DEF Msg, treq, none, task, rslt, rack

LEMMA LeavMade == leav \in Msg /\ leav.kind = "leav"
  BY DEF Msg, leav

LEMMA Zero == 0 \in Task /\ 0 \notin SubTask /\ NoTask \notin SubTask /\ AnyTask # NoTask /\ AnyTask \notin SubTask
<1>1. AutoResend \in Nat /\ MaxTask \in Nat
  BY TreeAssumption
<1>2. 0 \in 0..AutoResend /\ 0 - 0 = 0
  BY <1>1
<1> QED
  BY <1>1, <1>2 DEF Task, SubTask, RootTask, NoTask, AnyTask

LEMMA TaskIs ==
  ASSUME AutoResend = 0, NEW id \in Task
  PROVE  id = 0 \/ id \in SubTask
<1>1. \A k \in 0..0 : k = 0
  OBVIOUS
<1>2. 0 - 0 = 0
  OBVIOUS
<1> QED
  BY <1>1, <1>2 DEF Task, RootTask

LEMMA TypeParts ==
  TypeOK <=>
    /\ Family(Edge, Msg, chan)
    /\ phase \in [Server -> {"wait", "retry", "return"}]
    /\ Family(Server, Request, talist) /\ Family(Server, Request, failed)
    /\ diff \in [Server -> [Node \cup Server -> Int]] /\ pdiff \in [Server -> Int]
    /\ unreplied \in [Server -> [Host -> Int]]
    /\ valid \in [Node -> BOOLEAN]
    /\ respond \in {"nil", "initial", "resend", "exit"}
    /\ taskHome \in SUBSET [to : Host, head : Path, no : 0..AutoResend]
    /\ exited \in BOOLEAN
    /\ ask \in [Node -> {NoTask, AnyTask} \cup SubTask]
    /\ Family(Node, Given, stack) /\ Family(Node, Spawned, sub)
    /\ wrack \in [Node -> Int] /\ up \in [Node -> BOOLEAN] /\ used \in 0..MaxTask
  BY DEF TypeOK, Family, Given, Spawned

LEMMA TypePartsNext ==
  TypeOK' <=>
    /\ Family(Edge, Msg, chan')
    /\ phase' \in [Server -> {"wait", "retry", "return"}]
    /\ Family(Server, Request, talist') /\ Family(Server, Request, failed')
    /\ diff' \in [Server -> [Node \cup Server -> Int]] /\ pdiff' \in [Server -> Int]
    /\ unreplied' \in [Server -> [Host -> Int]]
    /\ valid' \in [Node -> BOOLEAN]
    /\ respond' \in {"nil", "initial", "resend", "exit"}
    /\ taskHome' \in SUBSET [to : Host, head : Path, no : 0..AutoResend]
    /\ exited' \in BOOLEAN
    /\ ask' \in [Node -> {NoTask, AnyTask} \cup SubTask]
    /\ Family(Node, Given, stack') /\ Family(Node, Spawned, sub')
    /\ wrack' \in [Node -> Int] /\ up' \in [Node -> BOOLEAN] /\ used' \in 0..MaxTask
  BY DEF TypeOK, Family, Given, Spawned

LEMMA FamilyElement ==
  ASSUME NEW D, NEW X, NEW c, Family(D, X, c), NEW x \in D
  PROVE  /\ c[x] \in Seq(X) /\ DOMAIN c[x] = 1..Len(c[x]) /\ Len(c[x]) \in Nat
         /\ \A i \in DOMAIN c[x] : c[x][i] \in X
         /\ c[x] # <<>> => Len(c[x]) \in Nat \ {0}
  BY LenProperties, ElementOfSeq, EmptySeq DEF Family

-----------------------------------------------------------------------------
(* The counts of the properties are Nums *)

LEMMA PlacesOfKind ==
  ASSUME NEW c, Family(Edge, Msg, c), NEW at \in SUBSET Edge, NEW K
  PROVE  Places(at, c, LAMBDA m : m.kind \in K) = Num(at, c, OfKind(K))
<1> DEFINE A == UNION {{x} \X {i \in DOMAIN c[x] : c[x][i].kind \in K} : x \in at}
<1>1. \A p : p \in A <=> \E x \in at : \E i \in DOMAIN c[x] : (c[x][i].kind \in K) /\ p = <<x, i>>
  OBVIOUS
<1>2. \A x \in at : \A i \in DOMAIN c[x] : (c[x][i].kind \in K) <=> c[x][i] \in OfKind(K)
  BY FamilyElement DEF OfKind
<1>3. \A p : p \in A <=> p \in Positions(at, c, OfKind(K))
  <2> HIDE DEF A
  <2> QED
    BY <1>1, <1>2, Position
<1>4. A = Positions(at, c, OfKind(K))
  <2> HIDE DEF A
  <2> QED
    BY <1>3
<1> QED
  BY <1>4, Zenon DEF Places, Num

LEMMA PlacesRequests ==
  ASSUME NEW c, Family(Edge, Msg, c), NEW n
  PROVE  Places(Edge, c, LAMBDA m : m.kind \in {"treq", "none", "task"} /\ m.by = n)
           = Num(Edge, c, RequestsBy(n))
<1> DEFINE A == UNION {{x} \X {i \in DOMAIN c[x] : c[x][i].kind \in {"treq", "none", "task"} /\ c[x][i].by = n} : x \in Edge}
<1>1. \A p : p \in A <=> \E x \in Edge : \E i \in DOMAIN c[x] : (c[x][i].kind \in {"treq", "none", "task"} /\ c[x][i].by = n) /\ p = <<x, i>>
  OBVIOUS
<1>2. \A x \in Edge : \A i \in DOMAIN c[x] : (c[x][i].kind \in {"treq", "none", "task"} /\ c[x][i].by = n) <=> c[x][i] \in RequestsBy(n)
  BY FamilyElement DEF RequestsBy
<1>3. \A p : p \in A <=> p \in Positions(Edge, c, RequestsBy(n))
  <2> HIDE DEF A
  <2> QED
    BY <1>1, <1>2, Position
<1>4. A = Positions(Edge, c, RequestsBy(n))
  <2> HIDE DEF A
  <2> QED
    BY <1>3
<1> QED
  BY <1>4, Zenon DEF Places, Num

LEMMA PlacesCarrying ==
  ASSUME NEW c, Family(Edge, Msg, c), NEW id
  PROVE  Places(Edge, c, LAMBDA m : m.kind \in {"task", "rslt"} /\ m.id = id)
           = Num(Edge, c, Carrying(id))
<1> DEFINE A == UNION {{x} \X {i \in DOMAIN c[x] : c[x][i].kind \in {"task", "rslt"} /\ c[x][i].id = id} : x \in Edge}
<1>1. \A p : p \in A <=> \E x \in Edge : \E i \in DOMAIN c[x] : (c[x][i].kind \in {"task", "rslt"} /\ c[x][i].id = id) /\ p = <<x, i>>
  OBVIOUS
<1>2. \A x \in Edge : \A i \in DOMAIN c[x] : (c[x][i].kind \in {"task", "rslt"} /\ c[x][i].id = id) <=> c[x][i] \in Carrying(id)
  BY FamilyElement DEF Carrying
<1>3. \A p : p \in A <=> p \in Positions(Edge, c, Carrying(id))
  <2> HIDE DEF A
  <2> QED
    BY <1>1, <1>2, Position
<1>4. A = Positions(Edge, c, Carrying(id))
  <2> HIDE DEF A
  <2> QED
    BY <1>3
<1> QED
  BY <1>4, Zenon DEF Places, Num

LEMMA PlacesKept ==
  ASSUME NEW c, Family(Server, Request, c), NEW n
  PROVE  Places(Server, c, LAMBDA r : r.by = n) = Num(Server, c, KeptBy(n))
<1>1. \A x \in Server : {i \in DOMAIN c[x] : c[x][i].by = n} = {i \in DOMAIN c[x] : c[x][i] \in KeptBy(n)}
  BY FamilyElement DEF KeptBy
<1> QED
  BY <1>1 DEF Places, Num, Positions

LEMMA PlacesTasks ==
  ASSUME NEW id
  PROVE  /\ \A c : Family(Node, Given, c) =>
                     Places(Node, c, LAMBDA t : t.id = id) = Num(Node, c, GivenAs(id))
         /\ \A c : Family(Node, Spawned, c) =>
                     Places(Node, c, LAMBDA t : t.id = id) = Num(Node, c, SpawnedAs(id))
<1>1. ASSUME NEW c, Family(Node, Given, c)
      PROVE  Places(Node, c, LAMBDA t : t.id = id) = Num(Node, c, GivenAs(id))
  <2>1. \A x \in Node : {i \in DOMAIN c[x] : c[x][i].id = id} = {i \in DOMAIN c[x] : c[x][i] \in GivenAs(id)}
    BY <1>1, FamilyElement DEF GivenAs
  <2> QED
    BY <2>1 DEF Places, Num, Positions
<1>2. ASSUME NEW c, Family(Node, Spawned, c)
      PROVE  Places(Node, c, LAMBDA t : t.id = id) = Num(Node, c, SpawnedAs(id))
  <2>1. \A x \in Node : {i \in DOMAIN c[x] : c[x][i].id = id} = {i \in DOMAIN c[x] : c[x][i] \in SpawnedAs(id)}
    BY <1>2, FamilyElement DEF SpawnedAs
  <2> QED
    BY <2>1 DEF Places, Num, Positions
<1> QED
  BY <1>1, <1>2

LEMMA SentNum ==
  ASSUME Family(Edge, Msg, chan), NEW a, NEW b, <<a, b>> \in Edge, NEW K
  PROVE  Sent(a, b, K) = Num({<<a, b>>}, chan, OfKind(K)) /\ Sent(a, b, K) \in Nat
<1>1. {<<a, b>>} \in SUBSET Edge /\ IsFiniteSet({<<a, b>>})
  BY FS_Singleton
<1>2. Num({<<a, b>>}, chan, OfKind(K)) \in Nat
  BY <1>1, FinitePositions
<1> QED
  BY <1>1, <1>2, PlacesOfKind DEF Sent

-----------------------------------------------------------------------------
(* A step takes at most one message and puts at most one *)

Took(take, e, c) == IF take THEN Takes(chan, c, e) ELSE c = chan
Gave(put, c, f, m) == IF put THEN Puts(c, chan', f, m) ELSE chan' = c
Minus(take, at, M, e) == IF take THEN At(at, M, e, Head(chan[e])) ELSE 0
Plus(put, at, M, f, m) == IF put THEN At(at, M, f, m) ELSE 0

LEMMA MovedNum ==
  ASSUME Family(Edge, Msg, chan), NEW take, NEW e, NEW c, Took(take, e, c),
         NEW put, NEW f, NEW m, Gave(put, c, f, m), NEW at \in SUBSET Edge, NEW M
  PROVE  /\ Num(at, chan', M) = Num(at, chan, M) - Minus(take, at, M, e) + Plus(put, at, M, f, m)
         /\ Num(at, chan, M) \in Nat /\ Num(at, chan', M) \in Nat
         /\ Minus(take, at, M, e) \in 0..1 /\ Plus(put, at, M, f, m) \in 0..1
<1>1. /\ Num(at, c, M) = Num(at, chan, M) - Minus(take, at, M, e)
      /\ Num(at, chan, M) \in Nat /\ Num(at, c, M) \in Nat
      /\ Minus(take, at, M, e) \in 0..1
  <2>1. CASE take
    <3>1. Takes(chan, c, e)
      BY <2>1 DEF Took
    <3>2. /\ Num(at, chan, M) = Num(at, c, M) + At(at, M, e, Head(chan[e]))
          /\ Num(at, chan, M) \in Nat /\ Num(at, c, M) \in Nat
      BY <3>1, TakesNum
    <3>3. At(at, M, e, Head(chan[e])) \in 0..1
      BY DEF At
    <3>4. Minus(take, at, M, e) = At(at, M, e, Head(chan[e]))
      BY <2>1 DEF Minus
    <3> QED
      BY <3>2, <3>3, <3>4
  <2>2. CASE ~take
    <3>1. c = chan /\ Minus(take, at, M, e) = 0
      BY <2>2 DEF Took, Minus
    <3>2. IsFiniteSet(at)
      BY Finite, FS_Subset
    <3>3. Num(at, chan, M) \in Nat
      BY <3>2, FinitePositions
    <3> QED
      BY <3>1, <3>3
  <2> QED
    BY <2>1, <2>2
<1>2. /\ Num(at, chan', M) = Num(at, c, M) + Plus(put, at, M, f, m)
      /\ Num(at, chan', M) \in Nat /\ Plus(put, at, M, f, m) \in 0..1
  <2>1. CASE put
    <3>1. Puts(c, chan', f, m)
      BY <2>1 DEF Gave
    <3>2. /\ Num(at, chan', M) = Num(at, c, M) + At(at, M, f, m)
          /\ Num(at, chan', M) \in Nat
      BY <3>1, PutsNum
    <3>3. At(at, M, f, m) \in 0..1
      BY DEF At
    <3>4. Plus(put, at, M, f, m) = At(at, M, f, m)
      BY <2>1 DEF Plus
    <3> QED
      BY <3>2, <3>3, <3>4
  <2>2. CASE ~put
    <3>1. chan' = c /\ Plus(put, at, M, f, m) = 0
      BY <2>2 DEF Gave, Plus
    <3> QED
      BY <1>1, <3>1
  <2> QED
    BY <2>1, <2>2
<1> QED
  BY <1>1, <1>2

LEMMA MovedElements ==
  ASSUME Family(Edge, Msg, chan), NEW take, NEW e, NEW c, Took(take, e, c),
         NEW put, NEW f, NEW m, Gave(put, c, f, m)
  PROVE  /\ \A x \in Edge : \A y \in Range(chan'[x]) : (put /\ x = f /\ y = m) \/ y \in Range(chan[x])
         /\ Family(Edge, Msg, chan') /\ Family(Edge, Msg, c)
         /\ \A x \in Edge : (take => x # e) /\ (put => x # f) => chan'[x] = chan[x]
<1>1. /\ \A x \in Edge : \A i \in DOMAIN c[x] : \E j \in DOMAIN chan[x] : c[x][i] = chan[x][j]
      /\ Family(Edge, Msg, c)
      /\ \A x \in Edge : (take => x # e) => c[x] = chan[x]
  <2>1. CASE take
    <3>1. Takes(chan, c, e)
      BY <2>1 DEF Took
    <3>2. Family(Edge, Msg, c)
      BY <3>1 DEF Takes
    <3> QED
      BY <2>1, <3>1, <3>2, TakesElements
  <2>2. CASE ~take
    BY <2>2 DEF Took
  <2> QED
    BY <2>1, <2>2
<1>2. /\ \A x \in Edge : \A i \in DOMAIN chan'[x] :
           (put /\ x = f /\ chan'[x][i] = m) \/ \E j \in DOMAIN c[x] : chan'[x][i] = c[x][j]
      /\ Family(Edge, Msg, chan')
      /\ \A x \in Edge : (put => x # f) => chan'[x] = c[x]
  <2>1. CASE put
    <3>1. Puts(c, chan', f, m)
      BY <2>1 DEF Gave
    <3>2. Family(Edge, Msg, chan')
      BY <3>1 DEF Puts
    <3> QED
      BY <2>1, <3>1, <3>2, PutsElements
  <2>2. CASE ~put
    BY <1>1, <2>2 DEF Gave
  <2> QED
    BY <2>1, <2>2
<1>3. ASSUME NEW x \in Edge, NEW i \in DOMAIN chan'[x]
      PROVE  (put /\ x = f /\ chan'[x][i] = m) \/ \E j \in DOMAIN chan[x] : chan'[x][i] = chan[x][j]
  BY <1>1, <1>2
<1>4. \A x \in Edge : (take => x # e) /\ (put => x # f) => chan'[x] = chan[x]
  BY <1>1, <1>2
<1>5. ASSUME NEW x \in Edge, NEW y \in Range(chan'[x])
      PROVE  (put /\ x = f /\ y = m) \/ y \in Range(chan[x])
  BY <1>3 DEF Range
<1> QED
  BY <1>1, <1>2, <1>4, <1>5

(* nothing is counted where there is nothing *)
LEMMA NumZero ==
  ASSUME NEW D, NEW X, NEW c, Family(D, X, c), NEW at \in SUBSET D, IsFiniteSet(at), NEW M,
         Num(at, c, M) = 0
  PROVE  \A x \in at : \A y \in Range(c[x]) : y \notin M
<1>1. IsFiniteSet(Positions(at, c, M))
  BY FinitePositions
<1>2. Positions(at, c, M) = {}
  BY <1>1, FS_EmptySet DEF Num
<1>3. ASSUME NEW x \in at, NEW i \in DOMAIN c[x], c[x][i] \in M
      PROVE  <<x, i>> \in Positions(at, c, M)
  BY <1>3, Position
<1> QED
  BY <1>2, <1>3 DEF Range

(* ... and what is there is counted *)
LEMMA NumSome ==
  ASSUME NEW D, NEW X, NEW c, Family(D, X, c), NEW at \in SUBSET D, IsFiniteSet(at), NEW M,
         NEW x \in at, NEW y \in Range(c[x]), y \in M
  PROVE  Num(at, c, M) \in Nat \ {0}
<1>1. Num(at, c, M) # 0
  BY NumZero
<1> QED
  BY <1>1, FinitePositions

LEMMA SendIs ==
  ASSUME NEW c, Family(Edge, Msg, c), NEW s \in Server, NEW h \in Links(s), NEW m \in Msg,
         chan' = Send(c, s, h, m)
  PROVE  Gave(~Invalid(h) /\ h # Term, c, <<s, h>>, m)
<1>1. <<s, h>> \in Edge
  BY Edges
<1>2. CASE Invalid(h) \/ h = Term
  BY <1>2 DEF Send, Gave
<1>3. CASE ~(Invalid(h) \/ h = Term)
  <2>1. chan' = [c EXCEPT ![<<s, h>>] = Append(@, m)]
    BY <1>3 DEF Send
  <2>2. Puts(c, chan', <<s, h>>, m)
    BY <1>1, <2>1, Putting
  <2> QED
    BY <1>3, <2>2 DEF Gave
<1> QED
  BY <1>2, <1>3

(* what the messages say is of the nodes' state *)
LEMMA SameGoes ==
  ASSUME UNCHANGED <<ask, up, sub, stack>>
  PROVE  /\ \A a, b, m : Goes(a, b, m)' <=> Goes(a, b, m)
         /\ \A s, r : Keeps(s, r)' <=> Keeps(s, r)
         /\ \A h, p, id : WayHome(h, p, id)' <=> WayHome(h, p, id)
  BY DEF Goes, Treq, Keeps, MadeFor, WayHome, HasSub

(* towards a node: nobody but the node itself can have left *)
LEMMA Forward ==
  ASSUME Nodes, NEW s \in Server, NEW p \in Path, NEW n \in Node, Way(s, p, n)
  PROVE  /\ p # <<>> /\ Head(p) \in Links(s) /\ Head(p) # Term /\ Tail(p) \in Path
         /\ Way(Head(p), Tail(p), n)
         /\ Invalid(Head(p)) => Head(p) = n /\ ~up[n]
<1>1. /\ p # <<>> /\ Head(p) \in Links(s) /\ Tail(p) \in Path
      /\ Way(Head(p), Tail(p), n)
      /\ Head(p) \notin Server => Head(p) = n
  BY WayForward
<1>2. Head(p) # Term
  BY <1>1, Tree
<1>3. Invalid(Head(p)) => Head(p) = n /\ ~up[n]
  BY <1>1, Tree DEF Invalid, Nodes
<1> QED
  BY <1>1, <1>2, <1>3

(* what a server does about a request says nothing about the nodes *)
LEMMA RoutesServer ==
  ASSUME Family(Edge, Msg, chan), Routes, UNCHANGED <<ask, up, sub, stack>>,
         NEW take, NEW e, NEW c, Took(take, e, c),
         NEW put, NEW f, NEW m, Gave(put, c, f, m), put => Goes(f[1], f[2], m),
         \A s \in Server : \A r \in Range(talist'[s]) : Keeps(s, r),
         \A s \in Server : \A r \in Range(failed'[s]) : Keeps(s, r)
  PROVE  Routes'
<1>1. ASSUME NEW x \in Edge, NEW y \in Range(chan'[x])
      PROVE  Goes(x[1], x[2], y)'
  <2>1. CASE put /\ x = f /\ y = m
    BY <2>1, SameGoes
  <2>2. CASE y \in Range(chan[x])
    <3>1. Goes(x[1], x[2], y)
      BY <2>2 DEF Routes
    <3> QED
      BY <3>1, SameGoes
  <2> QED
    BY <2>1, <2>2, MovedElements
<1>2. \A s \in Server : \A r \in Range(talist'[s]) : Keeps(s, r)'
  BY SameGoes
<1>3. \A s \in Server : \A r \in Range(failed'[s]) : Keeps(s, r)'
  BY SameGoes
<1> QED
  BY <1>1, <1>2, <1>3 DEF Routes

-----------------------------------------------------------------------------
(* A request is passed on *)

(* what send-treq to h for the request r does: it answers for a child that *)
(* has left, asks h, or makes the terminal give the first task or exit     *)
AnswersFor(put, f, m, s, h, r) ==
  /\ Invalid(h) /\ f = <<s, Head(r.head)>> /\ m = none(Tail(r.head), r.by) /\ (up[r.by] => put)
  /\ unreplied' = [unreplied EXCEPT ![s][h] = @ - 1]
  /\ UNCHANGED <<respond, exited>>
AsksHost(put, f, m, s, h, to, r, for) ==
  /\ ~Invalid(h) /\ h # Term /\ put /\ f = <<s, h>> /\ m = treq(to, r.head, r.by, for)
  /\ unreplied' = [unreplied EXCEPT ![s][h] = @ + 1]
  /\ UNCHANGED <<respond, exited>>
FirstIsGiven(put, f, m, s, h, r) ==
  /\ h = Term /\ s = Top /\ respond = "initial"
  /\ put /\ f = <<Term, s>> /\ m = task(r.head, <<>>, r.by, 0)
  /\ unreplied' = [unreplied EXCEPT ![s][h] = @ + 1]
  /\ respond' = "nil" /\ exited' = FALSE
Exits(put, s, h) ==
  /\ h = Term /\ s = Top /\ respond = "exit" /\ ~put
  /\ unreplied' = [unreplied EXCEPT ![s][h] = @ + 1]
  /\ respond' = "nil" /\ exited' = TRUE
Asks(put, f, m, s, h, to, r, for) ==
  /\ UNCHANGED <<diff, pdiff>>
  /\ \/ AnswersFor(put, f, m, s, h, r) \/ AsksHost(put, f, m, s, h, to, r, for)
     \/ FirstIsGiven(put, f, m, s, h, r) \/ Exits(put, s, h)

LEMMA SendTreqAsks ==
  ASSUME TypeOK, Nodes, FirstTask, ~exited,
         NEW s \in Server, NEW h \in Links(s), NEW c, Family(Edge, Msg, c),
         NEW to \in Path, NEW r \in Request, NEW for \in {AnyTask} \cup SubTask,
         Way(s, r.head, r.by), h = Term => MayAskParent(s), SendTreq(c, s, h, to, r, for)
  PROVE  \E put \in BOOLEAN, f \in Edge, m \in Msg :
           Gave(put, c, f, m) /\ Asks(put, f, m, s, h, to, r, for)
<1>1. r.head \in Path /\ r.by \in Node /\ h \in Host /\ <<>> \in Path
  BY Tree, WayHere DEF Request
<1>2. CASE Invalid(h)
  <2>1. PICK g : g = Head(r.head)
    OBVIOUS
  <2>2. /\ g \in Links(s) /\ g # Term /\ Tail(r.head) \in Path
        /\ Invalid(g) => ~up[r.by]
    BY <1>1, <2>1, Forward
  <2>3. PICK m \in Msg : m = none(Tail(r.head), r.by)
    BY <1>1, <2>2, MsgMade
  <2>4. /\ chan' = Send(c, s, g, m) /\ unreplied' = [unreplied EXCEPT ![s][h] = @ - 1]
        /\ UNCHANGED <<diff, pdiff, respond, exited>>
    BY <1>2, <2>1, <2>3 DEF SendTreq
  <2>5. Gave(~Invalid(g) /\ g # Term, c, <<s, g>>, m)
    BY <2>2, <2>4, SendIs
  <2>6. PICK put \in BOOLEAN : put = (~Invalid(g) /\ g # Term)
    OBVIOUS
  <2>7. AnswersFor(put, <<s, g>>, m, s, h, r)
    BY <1>2, <2>1, <2>2, <2>3, <2>4, <2>6 DEF AnswersFor
  <2>8. <<s, g>> \in Edge
    BY <2>2, Edges
  <2> QED
    BY <2>4, <2>5, <2>6, <2>7, <2>8 DEF Asks
<1>3. CASE ~Invalid(h) /\ h # Term
  <2>1. PICK m \in Msg : m = treq(to, r.head, r.by, for)
    BY <1>1, MsgMade
  <2>2. /\ chan' = Send(c, s, h, m) /\ unreplied' = [unreplied EXCEPT ![s][h] = @ + 1]
        /\ UNCHANGED <<diff, pdiff, respond, exited>>
    BY <1>3, <2>1 DEF SendTreq
  <2>3. Gave(TRUE, c, <<s, h>>, m)
    BY <1>3, <2>2, SendIs
  <2>4. AsksHost(TRUE, <<s, h>>, m, s, h, to, r, for)
    BY <1>3, <2>1, <2>2 DEF AsksHost
  <2>5. <<s, h>> \in Edge
    BY Edges
  <2> QED
    BY <2>2, <2>3, <2>4, <2>5 DEF Asks
<1>4. CASE h = Term
  <2>1. ~Invalid(h)
    BY <1>4, Tree DEF Invalid
  <2>2. s = Top /\ Parent[s] = Term /\ MayAskParent(s)
    BY <1>4, Tree, TopIs DEF Links
  <2>3. unreplied[Top][Term] \in Int /\ pdiff[Top] \in Int
    BY TopIs, Tree DEF TypeOK, Host
  <2>4. respond \in {"initial", "exit"}
    BY <2>2, <2>3 DEF MayAskParent, FirstTask
  <2>5. /\ unreplied' = [unreplied EXCEPT ![s][h] = @ + 1] /\ respond' = "nil"
        /\ exited' = (respond = "exit") /\ UNCHANGED <<diff, pdiff>>
    BY <1>4, <2>1, <2>4 DEF SendTreq
  <2>6. CASE respond = "initial"
    <3>1. PICK m \in Msg : m = task(r.head, <<>>, r.by, 0)
      BY <1>1, Zero, MsgMade
    <3>2. chan' = [c EXCEPT ![<<Term, s>>] = Append(@, m)]
      BY <1>4, <2>1, <2>6, <3>1 DEF SendTreq
    <3>3. <<Term, s>> \in Edge
      BY <2>2, Edges
    <3>4. Gave(TRUE, c, <<Term, s>>, m)
      BY <3>2, <3>3, Putting DEF Gave
    <3>5. FirstIsGiven(TRUE, <<Term, s>>, m, s, h, r)
      BY <1>4, <2>2, <2>5, <2>6, <3>1 DEF FirstIsGiven
    <3> QED
      BY <2>5, <3>3, <3>4, <3>5 DEF Asks
  <2>7. CASE respond = "exit"
    <3>1. chan' = c
      BY <1>4, <2>1, <2>7 DEF SendTreq
    <3>2. <<Term, s>> \in Edge /\ leav \in Msg
      BY <2>2, Edges, LeavMade
    <3>3. Gave(FALSE, c, <<Term, s>>, leav)
      BY <3>1 DEF Gave
    <3>4. Exits(FALSE, s, h)
      BY <1>4, <2>2, <2>5, <2>7 DEF Exits
    <3> QED
      BY <2>5, <3>2, <3>3, <3>4 DEF Asks
  <2> QED
    BY <2>4, <2>6, <2>7
<1> QED
  BY <1>2, <1>3, <1>4

LEMMA AskGoes ==
  ASSUME TypeOK, Nodes, NEW s \in Server, NEW h \in Links(s), NEW r \in Request, NEW to \in Path,
         NEW for \in {AnyTask} \cup SubTask, Way(s, r.head, r.by),
         IF to = ANY THEN for = AnyTask ELSE WayToNode(h, to),
         up[r.by] => ask[r.by] = for,
         NEW put \in BOOLEAN, NEW f, NEW m \in Msg, Asks(put, f, m, s, h, to, r, for)
  PROVE  put => Goes(f[1], f[2], m)
<1>1. r.head \in Path /\ r.by \in Node /\ s # Term /\ <<>> \in Path
  BY Tree, WayHere DEF Request
<1>2. CASE AnswersFor(put, f, m, s, h, r)
  <2>1. Way(Head(r.head), Tail(r.head), r.by) /\ Tail(r.head) \in Path
    BY <1>1, Forward
  <2>2. f[1] = s /\ f[2] = Head(r.head) /\ m.kind = "none" /\ m.to = Tail(r.head) /\ m.by = r.by
    BY <1>1, <1>2, <2>1, MsgMade DEF AnswersFor
  <2> QED
    BY <1>1, <2>1, <2>2 DEF Goes
<1>3. CASE AsksHost(put, f, m, s, h, to, r, for)
  <2>1. /\ f[1] = s /\ f[2] = h /\ m.kind = "treq" /\ m.to = to /\ m.from = r.head
        /\ m.by = r.by /\ m.for = for
    BY <1>1, <1>3, MsgMade DEF AsksHost
  <2>2. Treq(s, h, m)
    BY <2>1 DEF Treq
  <2> QED
    BY <1>1, <2>1, <2>2 DEF Goes
<1>4. CASE FirstIsGiven(put, f, m, s, h, r)
  <2>1. /\ h = Term /\ f[1] = Term /\ f[2] = s /\ m.kind = "task" /\ m.to = r.head
        /\ m.from = <<>> /\ m.by = r.by /\ m.id = 0
    BY <1>1, <1>4, Zero, MsgMade DEF FirstIsGiven
  <2>2. WayHome(Term, <<>>, 0)
    BY WayHere DEF WayHome
  <2>3. for = AnyTask
    <3>1. ~WayToNode(Term, to)
      BY Tree, WayEnds DEF WayToNode
    <3> QED
      BY <2>1, <3>1
  <2>4. MadeFor(0, r.by)
    BY <2>3, Zero DEF MadeFor
  <2> QED
    BY <2>1, <2>2, <2>4 DEF Goes
<1>5. CASE Exits(put, s, h)
  BY <1>5 DEF Exits
<1> QED
  BY <1>2, <1>3, <1>4, <1>5 DEF Asks

LEMMA AskPlus ==
  ASSUME TypeOK, Nodes, NEW s \in Server, NEW h \in Links(s), NEW r \in Request, NEW to \in Path,
         NEW for \in {AnyTask} \cup SubTask, Way(s, r.head, r.by),
         NEW put \in BOOLEAN, NEW f \in Edge, NEW m \in Msg, Asks(put, f, m, s, h, to, r, for)
  PROVE  /\ \A n \in Node : up[n] /\ ~exited' =>
              Plus(put, Edge, RequestsBy(n), f, m) = IF n = r.by THEN 1 ELSE 0
         /\ \A id \in SubTask : Plus(put, Edge, Carrying(id), f, m) = 0
         /\ Plus(put, Edge, Carrying(0), f, m) = IF h = Term /\ respond = "initial" THEN 1 ELSE 0
         /\ put => \/ f[1] \in Server /\ m.kind \in {"treq", "none"}
                   \/ f[1] = Term /\ f[2] = s /\ m.kind = "task" /\ h = Term /\ respond = "initial"
<1>1. r.head \in Path /\ r.by \in Node /\ s # Term /\ <<>> \in Path /\ s \notin Node
  BY Tree, WayHere DEF Request
<1>2. CASE AnswersFor(put, f, m, s, h, r)
  <2>1. Tail(r.head) \in Path
    BY <1>1, Forward
  <2>2. /\ f[1] = s /\ m.kind = "none" /\ m.by = r.by /\ (up[r.by] => put) /\ Invalid(h)
    BY <1>1, <1>2, <2>1, MsgMade DEF AnswersFor
  <2>3. h # Term
    BY <2>2, Tree DEF Invalid
  <2>4. \A id : m \notin Carrying(id)
    BY <2>2 DEF Carrying
  <2>5. \A n : m \in RequestsBy(n) <=> n = r.by
    BY <2>2 DEF RequestsBy
  <2> QED
    BY <2>2, <2>3, <2>4, <2>5 DEF Plus, At
<1>3. CASE AsksHost(put, f, m, s, h, to, r, for)
  <2>1. f[1] = s /\ m.kind = "treq" /\ m.by = r.by /\ h # Term /\ put
    BY <1>1, <1>3, MsgMade DEF AsksHost
  <2>2. \A id : m \notin Carrying(id)
    BY <2>1 DEF Carrying
  <2>3. \A n : m \in RequestsBy(n) <=> n = r.by
    BY <2>1 DEF RequestsBy
  <2> QED
    BY <2>1, <2>2, <2>3 DEF Plus, At
<1>4. CASE FirstIsGiven(put, f, m, s, h, r)
  <2>1. /\ h = Term /\ f[1] = Term /\ f[2] = s /\ m.kind = "task" /\ put
        /\ m.by = r.by /\ m.id = 0 /\ respond = "initial"
    BY <1>1, <1>4, Zero, MsgMade DEF FirstIsGiven
  <2>2. \A id : m \in Carrying(id) <=> id = 0
    BY <2>1 DEF Carrying
  <2>3. \A n : m \in RequestsBy(n) <=> n = r.by
    BY <2>1 DEF RequestsBy
  <2> QED
    BY <2>1, <2>2, <2>3, Zero DEF Plus, At
<1>5. CASE Exits(put, s, h)
  BY <1>5 DEF Exits, Plus
<1> QED
  BY <1>2, <1>3, <1>4, <1>5 DEF Asks

LEMMA AskFrom ==
  ASSUME TypeOK, Nodes, NEW s \in Server, NEW h \in Links(s), NEW r \in Request, NEW to \in Path,
         NEW for \in {AnyTask} \cup SubTask, Way(s, r.head, r.by),
         NEW put \in BOOLEAN, NEW f \in Edge, NEW m \in Msg, Asks(put, f, m, s, h, to, r, for), put
  PROVE  \/ f[1] \in Server /\ m.kind \in {"treq", "none"}
         \/ f[1] = Term /\ f[2] = s /\ m.kind = "task" /\ h = Term /\ respond = "initial"
  BY AskPlus

-----------------------------------------------------------------------------
(* Steps of servers *)

LEMMA Counts ==
  ASSUME TypeOK
  PROVE  /\ \A id : Running(id) \in Nat /\ Waiting(id) \in Nat /\ Where(id) \in Nat
         /\ \A at \in SUBSET Edge : \A M : Num(at, chan, M) \in Nat
         /\ \A M : Num(Server, talist, M) \in Nat /\ Num(Server, failed, M) \in Nat
         /\ \A n : Asked(n) \in Nat
<1>1. Family(Edge, Msg, chan) /\ Family(Server, Request, talist) /\ Family(Server, Request, failed)
  BY TypeParts
<1>2. Family(Node, Given, stack) /\ Family(Node, Spawned, sub)
  BY TypeParts
<1>3. \A id : Running(id) \in Nat /\ Waiting(id) \in Nat
  BY <1>2, Finite, FinitePositions DEF Running, Waiting
<1>4. \A at \in SUBSET Edge : IsFiniteSet(at)
  BY Finite, FS_Subset
<1>5. \A at \in SUBSET Edge : \A M : Num(at, chan, M) \in Nat
  BY <1>1, <1>4, FinitePositions
<1>6. \A M : Num(Server, talist, M) \in Nat /\ Num(Server, failed, M) \in Nat
  BY <1>1, Finite, FinitePositions
<1>7. \A id : Where(id) \in Nat
  BY <1>3, <1>5 DEF Where
<1>8. \A n : Asked(n) \in Nat
  BY <1>5, <1>6 DEF Asked
<1> QED
  BY <1>3, <1>5, <1>6, <1>7, <1>8

LEMMA OnePlaceServer ==
  ASSUME TypeOK, OnePlace, UNCHANGED <<sub, stack, up>>,
         NEW take, NEW e, NEW c, Took(take, e, c),
         NEW put, NEW f, NEW m, Gave(put, c, f, m),
         \A id \in SubTask :
           /\ Plus(put, Edge, Carrying(id), f, m) <= Minus(take, Edge, Carrying(id), e)
           /\ AllUp => Plus(put, Edge, Carrying(id), f, m) = Minus(take, Edge, Carrying(id), e)
  PROVE  OnePlace'
<1>1. Family(Edge, Msg, chan)
  BY TypeParts
<1>2. AllUp' <=> AllUp
  BY DEF AllUp
<1>3. ASSUME NEW id \in SubTask
      PROVE  /\ Waiting(id)' <= 1 /\ Where(id)' <= Waiting(id)'
             /\ AllUp => Where(id)' = Waiting(id)'
  <2>1. Waiting(id)' = Waiting(id) /\ Running(id)' = Running(id)
    BY DEF Waiting, Running
  <2>2. PICK P \in 0..1 : P = Plus(put, Edge, Carrying(id), f, m)
    BY <1>1, MovedNum
  <2>3. PICK Q \in 0..1 : Q = Minus(take, Edge, Carrying(id), e)
    BY <1>1, MovedNum
  <2>4. Num(Edge, chan', Carrying(id)) = Num(Edge, chan, Carrying(id)) - Q + P
    BY <1>1, <2>2, <2>3, MovedNum
  <2>5. P <= Q /\ (AllUp => P = Q)
    BY <2>2, <2>3
  <2>6. Num(Edge, chan, Carrying(id)) \in Nat /\ Running(id) \in Nat /\ Waiting(id) \in Nat
    BY Counts
  <2>7. /\ Where(id) = Running(id) + Num(Edge, chan, Carrying(id))
        /\ Where(id)' = Running(id)' + Num(Edge, chan', Carrying(id))
    BY DEF Where
  <2>8. Waiting(id) <= 1 /\ Where(id) <= Waiting(id) /\ (AllUp => Where(id) = Waiting(id))
    BY DEF OnePlace
  <2> QED
    BY <2>1, <2>4, <2>5, <2>6, <2>7, <2>8
<1> QED
  BY <1>2, <1>3 DEF OnePlace

(* a message that is no task for a child and no result for a parent *)
Neutral(f, m) == m.kind \notin {"task", "rslt"} \/ (m.kind = "task" /\ f[1] \notin Server)

LEMMA DiffsQuiet ==
  ASSUME TypeOK, DiffsNum, UNCHANGED <<diff, pdiff, stack>>,
         NEW take, NEW e, NEW c, Took(take, e, c), take => Neutral(e, Head(chan[e])),
         NEW put, NEW f, NEW m, Gave(put, c, f, m), put => Neutral(f, m)
  PROVE  DiffsNum'
<1>1. Family(Edge, Msg, chan)
  BY TypeParts
<1>2. ASSUME NEW s \in Server, NEW k \in ChildrenOf(s)
      PROVE  /\ SentNo(s, k, {"task"})' = SentNo(s, k, {"task"})
             /\ SentNo(k, s, {"rslt"})' = SentNo(k, s, {"rslt"})
  <2>1. <<s, k>> \in Edge /\ <<k, s>> \in Edge
    BY Edges DEF Links
  <2>2. {<<s, k>>} \in SUBSET Edge /\ {<<k, s>>} \in SUBSET Edge
    BY <2>1
  <2>3. take => /\ At({<<s, k>>}, OfKind({"task"}), e, Head(chan[e])) = 0
                /\ At({<<k, s>>}, OfKind({"rslt"}), e, Head(chan[e])) = 0
    BY DEF At, OfKind, Neutral
  <2>4. put => /\ At({<<s, k>>}, OfKind({"task"}), f, m) = 0
               /\ At({<<k, s>>}, OfKind({"rslt"}), f, m) = 0
    BY DEF At, OfKind, Neutral
  <2>5. /\ Minus(take, {<<s, k>>}, OfKind({"task"}), e) = 0
        /\ Minus(take, {<<k, s>>}, OfKind({"rslt"}), e) = 0
        /\ Plus(put, {<<s, k>>}, OfKind({"task"}), f, m) = 0
        /\ Plus(put, {<<k, s>>}, OfKind({"rslt"}), f, m) = 0
    BY <2>3, <2>4 DEF Minus, Plus
  <2>6. Num({<<s, k>>}, chan', OfKind({"task"})) = Num({<<s, k>>}, chan, OfKind({"task"}))
    <3>1. Num({<<s, k>>}, chan, OfKind({"task"})) \in Nat
      BY <2>2, Counts
    <3> QED
      BY <1>1, <2>2, <2>5, <3>1, MovedNum
  <2>7. Num({<<k, s>>}, chan', OfKind({"rslt"})) = Num({<<k, s>>}, chan, OfKind({"rslt"}))
    <3>1. Num({<<k, s>>}, chan, OfKind({"rslt"})) \in Nat
      BY <2>2, Counts
    <3> QED
      BY <1>1, <2>2, <2>5, <3>1, MovedNum
  <2> QED
    BY <2>6, <2>7 DEF SentNo
<1> QED
  BY <1>2 DEF DiffsNum

LEMMA FirstQuiet ==
  ASSUME TypeOK, FirstTask, UNCHANGED <<respond, taskHome, exited, stack>>,
         pdiff'[Top] = pdiff[Top], unreplied'[Top][Term] = unreplied[Top][Term],
         NEW take, NEW e, NEW c, Took(take, e, c), take => e # <<Term, Top>>,
         NEW put, NEW f, NEW m, Gave(put, c, f, m), put => f # <<Term, Top>>,
         Plus(put, Edge, Carrying(0), f, m) <= Minus(take, Edge, Carrying(0), e)
  PROVE  FirstTask'
<1>1. Family(Edge, Msg, chan)
  BY TypeParts
<1>2. chan'[<<Term, Top>>] = chan[<<Term, Top>>]
  BY <1>1, MovedElements, Edges
<1>3. Where(0)' <= Where(0) /\ Where(0)' \in Nat /\ Where(0) \in Nat
  <2>1. PICK P \in 0..1 : P = Plus(put, Edge, Carrying(0), f, m)
    BY <1>1, MovedNum
  <2>2. PICK Q \in 0..1 : Q = Minus(take, Edge, Carrying(0), e)
    BY <1>1, MovedNum
  <2>3. /\ Num(Edge, chan', Carrying(0)) = Num(Edge, chan, Carrying(0)) - Q + P
        /\ Num(Edge, chan', Carrying(0)) \in Nat
    BY <1>1, <2>1, <2>2, MovedNum
  <2>4. Num(Edge, chan, Carrying(0)) \in Nat /\ Running(0) \in Nat
    BY Counts
  <2>5. Running(0)' = Running(0)
    BY DEF Running
  <2>6. /\ Where(0) = Running(0) + Num(Edge, chan, Carrying(0))
        /\ Where(0)' = Running(0)' + Num(Edge, chan', Carrying(0))
    BY DEF Where
  <2> QED
    BY <2>1, <2>2, <2>3, <2>4, <2>5, <2>6
<1>4. Where(0) = 0 => Where(0)' = 0
  BY <1>3
<1>5. Where(0) <= 1 => Where(0)' <= 1
  BY <1>3
<1> QED
  BY <1>2, <1>4, <1>5 DEF FirstTask

LEMMA SameNodes ==
  ASSUME Nodes, UNCHANGED <<ask, stack, sub, up, used, valid>>
  PROVE  Nodes'
<1>1. \A h, p, id : WayHome(h, p, id)' <=> WayHome(h, p, id)
  BY SameGoes
<1>2. \A x, id : HasSub(x, id)' <=> HasSub(x, id)
  BY DEF HasSub
<1>3. ASSUME NEW n \in Node
      PROVE  /\ \A t \in Range(stack'[n]) : WayHome(ServerOf(n), t.back, t.id)'
             /\ \A t \in Range(sub'[n]) : /\ t.id <= used' /\ t.depth \in DOMAIN stack'[n]
                                          /\ WayToNode(ServerOf(n), t.thief)
             /\ ask'[n] = AnyTask => stack'[n] = <<>>
             /\ \A id \in SubTask :
                  ask'[n] = id => id <= used' /\ \A x \in Node : HasSub(x, id)' => x = n
             /\ ~up'[n] => n \in Leaver
             /\ ~valid'[n] => ~up'[n]
  BY <1>1, <1>2 DEF Nodes
<1> QED
  BY <1>3 DEF Nodes

-----------------------------------------------------------------------------
(* What a request that is passed on leaves true *)

LEMMA AskUnreplied ==
  ASSUME TypeOK, Nodes, UnrepliedNum, NEW s \in Server, NEW h \in Links(s), NEW r \in Request,
         NEW to \in Path, NEW for \in {AnyTask} \cup SubTask, Way(s, r.head, r.by), UNCHANGED up,
         NEW take, NEW e, NEW c, Took(take, e, c), take => e[2] \in Server /\ Head(chan[e]).kind = "treq",
         NEW put \in BOOLEAN, NEW f \in Edge, NEW m \in Msg, Gave(put, c, f, m),
         Asks(put, f, m, s, h, to, r, for)
  PROVE  UnrepliedNum'
<1>1. Family(Edge, Msg, chan) /\ unreplied \in [Server -> [Host -> Int]]
  BY TypeParts
<1>0. put => \/ f[1] \in Server /\ m.kind \in {"treq", "none"}
             \/ f[1] = Term /\ f[2] = s /\ m.kind = "task" /\ h = Term /\ respond = "initial"
  BY AskFrom
<1>2. ASSUME NEW t \in Server, NEW n \in ChildrenOf(t) \cap Node, up[n]
      PROVE  unreplied'[t][n] = SentNo(t, n, {"treq"})' + SentNo(n, t, {"none", "task"})'
  <2>1. /\ <<t, n>> \in Edge /\ <<n, t>> \in Edge /\ {<<t, n>>} \in SUBSET Edge
        /\ {<<n, t>>} \in SUBSET Edge /\ n \in Host /\ n \notin Server /\ n # Term
    BY Edges, Tree DEF Links, Host
  <2>2. /\ Minus(take, {<<t, n>>}, OfKind({"treq"}), e) = 0
        /\ Minus(take, {<<n, t>>}, OfKind({"none", "task"}), e) = 0
    BY <2>1 DEF Minus, At, OfKind
  <2>3. Plus(put, {<<n, t>>}, OfKind({"none", "task"}), f, m) = 0
    BY <1>0, <2>1 DEF Plus, At
  <2>4. unreplied'[t][n] = unreplied[t][n] + Plus(put, {<<t, n>>}, OfKind({"treq"}), f, m)
    <3>1. unreplied[t][n] \in Int /\ h \in Host
      BY <1>1, <2>1, Tree
    <3>2. CASE AnswersFor(put, f, m, s, h, r)
      <4>1. ~(t = s /\ n = h)
        BY <1>2, <3>2 DEF AnswersFor, Invalid, Nodes
      <4>2. unreplied'[t][n] = unreplied[t][n]
        BY <1>1, <3>1, <3>2, <4>1 DEF AnswersFor
      <4>3. Tail(r.head) \in Path
        BY Forward DEF Request
      <4>4. m.kind = "none"
        BY <3>2, <4>3, MsgMade DEF AnswersFor, Request
      <4>5. Plus(put, {<<t, n>>}, OfKind({"treq"}), f, m) = 0
        BY <4>4 DEF Plus, At, OfKind
      <4> QED
        BY <3>1, <4>2, <4>5
    <3>3. CASE AsksHost(put, f, m, s, h, to, r, for)
      <4>1. m.kind = "treq" /\ put /\ f = <<s, h>>
        BY <3>3, MsgMade DEF AsksHost, Request
      <4>2. m \in OfKind({"treq"})
        BY <4>1 DEF OfKind
      <4>3. Plus(put, {<<t, n>>}, OfKind({"treq"}), f, m) = IF t = s /\ n = h THEN 1 ELSE 0
        BY <4>1, <4>2 DEF Plus, At
      <4>4. unreplied' = [unreplied EXCEPT ![s][h] = @ + 1]
        BY <3>3 DEF AsksHost
      <4>5. CASE t = s /\ n = h
        BY <1>1, <3>1, <4>3, <4>4, <4>5
      <4>6. CASE ~(t = s /\ n = h)
        <5>1. unreplied'[t][n] = unreplied[t][n]
          BY <1>1, <3>1, <4>4, <4>6
        <5> QED
          BY <3>1, <4>3, <4>6, <5>1
      <4> QED
        BY <4>5, <4>6
    <3>4. CASE FirstIsGiven(put, f, m, s, h, r) \/ Exits(put, s, h)
      <4>1. h = Term /\ unreplied' = [unreplied EXCEPT ![s][h] = @ + 1]
        BY <3>4 DEF FirstIsGiven, Exits
      <4>2. put => f[1] = Term
        BY <3>4 DEF FirstIsGiven, Exits
      <4>3. unreplied'[t][n] = unreplied[t][n]
        BY <1>1, <2>1, <3>1, <4>1
      <4>4. Plus(put, {<<t, n>>}, OfKind({"treq"}), f, m) = 0
        BY <4>2, Tree DEF Plus, At
      <4> QED
        BY <3>1, <4>3, <4>4
    <3> QED
      BY <3>2, <3>3, <3>4 DEF Asks
  <2>5. PICK P \in 0..1 : P = Plus(put, {<<t, n>>}, OfKind({"treq"}), f, m)
    BY <1>1, <2>1, MovedNum
  <2>6. /\ SentNo(t, n, {"treq"})' = SentNo(t, n, {"treq"}) + P
        /\ SentNo(t, n, {"treq"}) \in Nat
    <3>1. /\ Num({<<t, n>>}, chan', OfKind({"treq"})) = Num({<<t, n>>}, chan, OfKind({"treq"})) - 0 + P
          /\ Num({<<t, n>>}, chan, OfKind({"treq"})) \in Nat
      BY <1>1, <2>1, <2>2, <2>5, MovedNum
    <3> QED
      BY <3>1 DEF SentNo
  <2>7. /\ SentNo(n, t, {"none", "task"})' = SentNo(n, t, {"none", "task"})
        /\ SentNo(n, t, {"none", "task"}) \in Nat
    <3>1. /\ Num({<<n, t>>}, chan', OfKind({"none", "task"}))
               = Num({<<n, t>>}, chan, OfKind({"none", "task"})) - 0 + 0
          /\ Num({<<n, t>>}, chan, OfKind({"none", "task"})) \in Nat
      BY <1>1, <2>1, <2>2, <2>3, MovedNum
    <3> QED
      BY <3>1 DEF SentNo
  <2>8. unreplied[t][n] = SentNo(t, n, {"treq"}) + SentNo(n, t, {"none", "task"})
    BY <1>2 DEF UnrepliedNum
  <2> QED
    BY <2>4, <2>5, <2>6, <2>7, <2>8
<1> QED
  BY <1>2 DEF UnrepliedNum

LEMMA AskFirst ==
  ASSUME TypeOK, Nodes, FirstTask, ~exited, NEW s \in Server, NEW h \in Links(s), NEW r \in Request,
         NEW to \in Path, NEW for \in {AnyTask} \cup SubTask, Way(s, r.head, r.by),
         UNCHANGED <<taskHome, stack>>,
         NEW take, NEW e, NEW c, Took(take, e, c),
         take => e # <<Term, Top>> /\ Head(chan[e]).kind = "treq",
         NEW put \in BOOLEAN, NEW f \in Edge, NEW m \in Msg, Gave(put, c, f, m),
         Asks(put, f, m, s, h, to, r, for)
  PROVE  FirstTask' /\ OneTaskAtATime'
<1>1. /\ Family(Edge, Msg, chan) /\ unreplied \in [Server -> [Host -> Int]]
      /\ pdiff[Top] \in Int /\ unreplied[Top][Term] \in Int /\ Top \in Server /\ Term \in Host
  <2>1. Top \in Server /\ Term \in Host
    BY TopIs DEF Host
  <2>2. /\ Family(Edge, Msg, chan) /\ unreplied \in [Server -> [Host -> Int]]
        /\ pdiff \in [Server -> Int]
    BY TypeParts
  <2> QED
    BY <2>1, <2>2
<1>0. Plus(put, Edge, Carrying(0), f, m) = IF h = Term /\ respond = "initial" THEN 1 ELSE 0
  BY AskPlus
<1>2. Minus(take, Edge, Carrying(0), e) = 0
  BY DEF Minus, At, Carrying
<1>3. s # Term /\ Term \notin Node /\ h \in Host /\ Parent[Top] = Term
  BY Tree, TopIs
<1>4. pdiff' = pdiff
  BY DEF Asks
<1>5. unreplied[Top][Term] + pdiff[Top] <= 1
  BY <1>1 DEF FirstTask
<1>6. CASE AnswersFor(put, f, m, s, h, r) \/ AsksHost(put, f, m, s, h, to, r, for)
  <2>1. h # Term /\ UNCHANGED <<respond, exited>> /\ (put => f[1] = s)
    BY <1>3, <1>6 DEF AnswersFor, AsksHost, Invalid
  <2>2. unreplied'[Top][Term] = unreplied[Top][Term]
    BY <1>1, <1>3, <1>6, <2>1 DEF AnswersFor, AsksHost
  <2>3. Plus(put, Edge, Carrying(0), f, m) = 0
    BY <1>0, <2>1
  <2>4. put => f # <<Term, Top>>
    BY <1>3, <2>1
  <2>5. FirstTask'
    BY <1>2, <1>4, <2>1, <2>2, <2>3, <2>4, FirstQuiet
  <2>6. OneTaskAtATime'
    BY <1>4, <1>5, <2>2 DEF OneTaskAtATime
  <2> QED
    BY <2>5, <2>6
<1>7. CASE FirstIsGiven(put, f, m, s, h, r)
  <2>1. /\ h = Term /\ s = Top /\ respond = "initial" /\ put /\ f = <<Term, Top>>
        /\ unreplied' = [unreplied EXCEPT ![Top][Term] = @ + 1]
        /\ respond' = "nil" /\ exited' = FALSE
    BY <1>7 DEF FirstIsGiven
  <2>2. /\ unreplied[Top][Term] = 0 /\ pdiff[Top] = 0 /\ Where(0) = 0
        /\ Len(chan[<<Term, Top>>]) = 0
    BY <2>1 DEF FirstTask
  <2>3. unreplied'[Top][Term] = 1
    BY <1>1, <2>1, <2>2
  <2>4. Len(chan'[<<Term, Top>>]) = 1
    <3>1. c[<<Term, Top>>] = chan[<<Term, Top>>]
      <4>1. CASE take
        <5>1. Takes(chan, c, e)
          BY <4>1 DEF Took
        <5> QED
          BY <4>1, <5>1, TakesElements, Edges
      <4>2. CASE ~take
        BY <4>2 DEF Took
      <4> QED
        BY <4>1, <4>2
    <3>2. Puts(c, chan', <<Term, Top>>, m)
      BY <2>1 DEF Gave
    <3>3. Len(chan'[<<Term, Top>>]) = Len(c[<<Term, Top>>]) + 1
      BY <3>2, PutsElements
    <3> QED
      BY <2>2, <3>1, <3>3
  <2>5. Where(0)' <= 1
    <3>1. Plus(put, Edge, Carrying(0), f, m) = 1
      BY <1>0, <2>1
    <3>2. Num(Edge, chan', Carrying(0)) = Num(Edge, chan, Carrying(0)) - 0 + 1
      BY <1>1, <1>2, <3>1, MovedNum
    <3>3. Num(Edge, chan, Carrying(0)) \in Nat /\ Running(0) \in Nat /\ Running(0)' = Running(0)
      BY Counts DEF Running
    <3>4. /\ Where(0) = Running(0) + Num(Edge, chan, Carrying(0))
          /\ Where(0)' = Running(0)' + Num(Edge, chan', Carrying(0))
      BY DEF Where
    <3> QED
      BY <2>2, <3>2, <3>3, <3>4
  <2>6. pdiff'[Top] = 0
    BY <1>4, <2>2
  <2>7. FirstTask'
    BY <2>1, <2>3, <2>4, <2>5, <2>6 DEF FirstTask
  <2>8. OneTaskAtATime'
    BY <2>3, <2>6 DEF OneTaskAtATime
  <2> QED
    BY <2>7, <2>8
<1>8. CASE Exits(put, s, h)
  <2>1. /\ h = Term /\ s = Top /\ respond = "exit" /\ exited' /\ respond' = "nil"
        /\ unreplied' = [unreplied EXCEPT ![Top][Term] = @ + 1]
    BY <1>8 DEF Exits
  <2>2. unreplied[Top][Term] = 0 /\ pdiff[Top] = 0
    BY <2>1 DEF FirstTask
  <2>3. unreplied'[Top][Term] = 1 /\ pdiff'[Top] = 0
    BY <1>1, <1>4, <2>1, <2>2
  <2> QED
    BY <2>1, <2>3 DEF FirstTask, OneTaskAtATime
<1> QED
  BY <1>6, <1>7, <1>8 DEF Asks

LEMMA AskTypes ==
  ASSUME TypeOK, NEW s \in Server, NEW h \in Links(s), NEW r \in Request, NEW to \in Path,
         NEW for \in {AnyTask} \cup SubTask, NEW put \in BOOLEAN, NEW f \in Edge, NEW m \in Msg,
         Asks(put, f, m, s, h, to, r, for)
  PROVE  /\ diff' \in [Server -> [Node \cup Server -> Int]] /\ pdiff' \in [Server -> Int]
         /\ unreplied' \in [Server -> [Host -> Int]]
         /\ respond' \in {"nil", "initial", "resend", "exit"} /\ exited' \in BOOLEAN
         /\ \A t \in Server \ {s} : unreplied'[t] = unreplied[t]
         /\ h # Term => unreplied'[s][Term] = unreplied[s][Term]
         /\ h = Term => unreplied'[s][Term] = unreplied[s][Term] + 1
<1>1. /\ diff \in [Server -> [Node \cup Server -> Int]] /\ pdiff \in [Server -> Int]
      /\ unreplied \in [Server -> [Host -> Int]] /\ h \in Host
      /\ respond \in {"nil", "initial", "resend", "exit"} /\ exited \in BOOLEAN
  BY TypeParts, Tree
<1>2. UNCHANGED <<diff, pdiff>>
  BY DEF Asks
<1>3. CASE AnswersFor(put, f, m, s, h, r)
  <2>1. h # Term /\ unreplied' = [unreplied EXCEPT ![s][h] = @ - 1] /\ UNCHANGED <<respond, exited>>
    BY <1>3, Tree DEF AnswersFor, Invalid
  <2>2. unreplied' \in [Server -> [Host -> Int]]
    BY <1>1, <2>1
  <2>3. /\ \A t \in Server \ {s} : unreplied'[t] = unreplied[t]
        /\ unreplied'[s][Term] = unreplied[s][Term]
    BY <1>1, <2>1
  <2> QED
    BY <1>1, <1>2, <2>1, <2>2, <2>3
<1>4. CASE ~AnswersFor(put, f, m, s, h, r)
  <2>1. /\ unreplied' = [unreplied EXCEPT ![s][h] = @ + 1]
        /\ (UNCHANGED <<respond, exited>>) \/ (respond' = "nil" /\ exited' \in BOOLEAN)
    BY <1>4 DEF Asks, AsksHost, FirstIsGiven, Exits
  <2>2. Term \in Host
    BY DEF Host
  <2>3. unreplied' \in [Server -> [Host -> Int]]
    BY <1>1, <2>1
  <2>4. \A t \in Server \ {s} : unreplied'[t] = unreplied[t]
    BY <1>1, <2>1
  <2>5. h # Term => unreplied'[s][Term] = unreplied[s][Term]
    BY <1>1, <2>1, <2>2
  <2>6. h = Term => unreplied'[s][Term] = unreplied[s][Term] + 1
    BY <1>1, <2>1, <2>2
  <2> QED
    BY <1>1, <1>2, <2>1, <2>3, <2>4, <2>5, <2>6
<1> QED
  BY <1>3, <1>4

LEMMA AskStep ==
  ASSUME TypeOK, Routes, Nodes, OnePlace, FirstTask, DiffsNum, UnrepliedNum, ~exited,
         NEW s \in Server, NEW h \in Links(s), NEW r \in Request, NEW to \in Path,
         NEW for \in {AnyTask} \cup SubTask, Way(s, r.head, r.by),
         IF to = ANY THEN for = AnyTask ELSE WayToNode(h, to), up[r.by] => ask[r.by] = for,
         h = Term => MayAskParent(s),
         NEW take, NEW e, NEW c, Took(take, e, c),
         take => e[2] \in Server /\ e[1] # Term /\ Head(chan[e]).kind = "treq",
         SendTreq(c, s, h, to, r, for), UNCHANGED <<valid, taskHome, nodeVars>>,
         \A t \in Server : \A q \in Range(talist'[t]) : Keeps(t, q),
         \A t \in Server : \A q \in Range(failed'[t]) : Keeps(t, q)
  PROVE  /\ Routes' /\ Nodes' /\ OnePlace' /\ FirstTask' /\ OneTaskAtATime'
         /\ DiffsNum' /\ UnrepliedNum'
         /\ \A n \in Node : up[n] /\ ~exited' =>
              Num(Edge, chan', RequestsBy(n)) = Num(Edge, chan, RequestsBy(n))
                - Minus(take, Edge, RequestsBy(n), e) + IF n = r.by THEN 1 ELSE 0
         /\ Family(Edge, Msg, chan') /\ unreplied' \in [Server -> [Host -> Int]]
         /\ respond' \in {"nil", "initial", "resend", "exit"} /\ exited' \in BOOLEAN
         /\ UNCHANGED <<diff, pdiff>>
         /\ \A t \in Server : unreplied'[t][Term] >= unreplied[t][Term]
         /\ \A t \in Server \ {s} : unreplied'[t] = unreplied[t]
<1>1. Family(Edge, Msg, chan)
  BY TypeParts
<1>2. Family(Edge, Msg, c)
  <2>1. CASE take
    BY <2>1 DEF Took, Takes
  <2>2. CASE ~take
    BY <1>1, <2>2 DEF Took
  <2> QED
    BY <2>1, <2>2
<1>3. PICK put \in BOOLEAN, f \in Edge, m \in Msg :
        Gave(put, c, f, m) /\ Asks(put, f, m, s, h, to, r, for)
  BY <1>2, SendTreqAsks
<1>4. UNCHANGED <<ask, up, sub, stack, used, diff, pdiff>>
  BY <1>3 DEF Asks, nodeVars
<1>5. Routes'
  <2>1. put => Goes(f[1], f[2], m)
    BY <1>3, AskGoes
  <2> QED
    BY <1>1, <1>3, <1>4, <2>1, RoutesServer
<1>6. Nodes'
  BY <1>4, SameNodes
<1>7. OnePlace'
  <2>1. \A id \in SubTask : Plus(put, Edge, Carrying(id), f, m) = 0
    BY <1>3, AskPlus
  <2>2. \A id \in SubTask : Minus(take, Edge, Carrying(id), e) = 0
    BY DEF Minus, At, Carrying
  <2> QED
    BY <1>3, <1>4, <2>1, <2>2, OnePlaceServer
<1>8. FirstTask' /\ OneTaskAtATime'
  <2>1. take => e # <<Term, Top>>
    OBVIOUS
  <2> QED
    BY <1>3, <1>4, <2>1, AskFirst
<1>9. DiffsNum'
  <2>1. take => Neutral(e, Head(chan[e]))
    BY DEF Neutral
  <2>2. ASSUME put
        PROVE  Neutral(f, m)
    <3>1. \/ f[1] \in Server /\ m.kind \in {"treq", "none"}
          \/ f[1] = Term /\ f[2] = s /\ m.kind = "task" /\ h = Term /\ respond = "initial"
      BY <1>3, <2>2, AskFrom
    <3> QED
      BY <3>1, Tree DEF Neutral
  <2> QED
    BY <1>3, <1>4, <2>1, <2>2, DiffsQuiet
<1>10. UnrepliedNum'
  <2>1. take => e[2] \in Server /\ Head(chan[e]).kind = "treq"
    OBVIOUS
  <2> QED
    BY <1>3, <1>4, <2>1, AskUnreplied
<1>11. ASSUME NEW n \in Node, up[n], ~exited'
       PROVE  Num(Edge, chan', RequestsBy(n)) = Num(Edge, chan, RequestsBy(n))
                - Minus(take, Edge, RequestsBy(n), e) + IF n = r.by THEN 1 ELSE 0
  <2>1. Plus(put, Edge, RequestsBy(n), f, m) = IF n = r.by THEN 1 ELSE 0
    BY <1>3, <1>11, AskPlus
  <2>2. Num(Edge, chan', RequestsBy(n)) = Num(Edge, chan, RequestsBy(n))
          - Minus(take, Edge, RequestsBy(n), e) + Plus(put, Edge, RequestsBy(n), f, m)
    BY <1>1, <1>3, MovedNum
  <2> QED
    BY <2>1, <2>2
<1>12. Family(Edge, Msg, chan')
  BY <1>1, <1>3, MovedElements
<1>13. /\ unreplied' \in [Server -> [Host -> Int]]
       /\ respond' \in {"nil", "initial", "resend", "exit"} /\ exited' \in BOOLEAN
       /\ \A t \in Server \ {s} : unreplied'[t] = unreplied[t]
       /\ h # Term => unreplied'[s][Term] = unreplied[s][Term]
       /\ h = Term => unreplied'[s][Term] = unreplied[s][Term] + 1
  BY <1>3, AskTypes
<1>14. \A t \in Server : unreplied[t][Term] \in Int
  BY TypeParts DEF Host
<1>15. \A t \in Server : unreplied'[t][Term] >= unreplied[t][Term]
  BY <1>13, <1>14
<1> QED
  BY <1>4, <1>5, <1>6, <1>7, <1>8, <1>9, <1>10, <1>11, <1>12, <1>13, <1>15

LEMMA TargetIs ==
  ASSUME NEW s \in Server, NEW from, NEW t \in Targets(s, from)
  PROVE  t \in Links(s) /\ (t = Term => MayAskParent(s))
<1>1. Parent[s] \in Links(s) /\ Divisible(s, from) \subseteq ChildrenOf(s)
  BY Tree DEF Divisible
<1>2. Term \notin ChildrenOf(s)
  BY Tree
<1>3. CASE AlwaysAsksParent(s, from)
  BY <1>1, <1>3 DEF Targets, AlwaysAsksParent, AsksParentFirst
<1>4. CASE ~AlwaysAsksParent(s, from) /\ t \in Divisible(s, from)
  BY <1>1, <1>2, <1>4 DEF Links
<1>5. CASE /\ ~AlwaysAsksParent(s, from) /\ t \notin Divisible(s, from) /\ t = Parent[s]
           /\ AsksParentFirst(s, from) \/ ElectedToAsk(s, from)
  BY <1>1, <1>5 DEF AsksParentFirst, ElectedToAsk
<1>6. \/ t \in Divisible(s, from)
      \/ t = Parent[s] /\ (AsksParentFirst(s, from) \/ ElectedToAsk(s, from))
      \/ AlwaysAsksParent(s, from)
  BY DEF Targets
<1> QED
  BY <1>3, <1>4, <1>5, <1>6

LEMMA StillFails ==
  ASSUME NEW t \in Server, NEW from, diff'[t] = diff[t], pdiff'[t] = pdiff[t],
         unreplied[t][Term] \in Int, unreplied'[t][Term] \in Int,
         unreplied'[t][Term] >= unreplied[t][Term], MayFail(t, from)
  PROVE  MayFail(t, from)'
<1>1. AlwaysAsksParent(t, from)' <=> AlwaysAsksParent(t, from)
  BY DEF AlwaysAsksParent, AsksParentFirst
<1>2. Divisible(t, from)' = Divisible(t, from)
  BY DEF Divisible
<1>3. MayAskParent(t)' => MayAskParent(t)
  BY DEF MayAskParent
<1> QED
  BY <1>1, <1>2, <1>3 DEF MayFail, ElectedToAsk

LEMMA ProcRetried ==
  ASSUME TypeOK, unreplied' \in [Server -> [Host -> Int]], Retried, NEW s \in Server,
         phase[s] = "wait", phase' = [phase EXCEPT ![s] = "retry"], UNCHANGED failed,
         \A t \in Server \ {s} : /\ talist'[t] = talist[t] /\ diff'[t] = diff[t]
                                 /\ pdiff'[t] = pdiff[t] /\ unreplied'[t] = unreplied[t]
  PROVE  Retried'
<1>1. /\ unreplied \in [Server -> [Host -> Int]] /\ Term \in Host
      /\ phase \in [Server -> {"wait", "retry", "return"}]
  BY TypeParts DEF Host
<1>2. ASSUME NEW t \in Server
      PROVE  /\ \A r \in Range(failed'[t]) : MayFail(t, r.from)'
             /\ phase'[t] # "retry" => \A r \in Range(talist'[t]) : MayFail(t, r.from)'
             /\ phase'[t] = "wait" => failed'[t] = <<>>
  <2>1. CASE t = s
    <3>1. phase'[t] = "retry" /\ failed'[t] = <<>>
      BY <1>1, <2>1 DEF Retried
    <3>2. Range(<<>>) = {}
      BY EmptySeq DEF Range
    <3> QED
      BY <3>1, <3>2
  <2>2. CASE t # s
    <3>1. phase'[t] = phase[t]
      BY <1>1, <2>2
    <3>2. ASSUME NEW from, MayFail(t, from)
          PROVE  MayFail(t, from)'
      <4>1. unreplied[t][Term] \in Int /\ unreplied'[t] = unreplied[t]
        BY <1>1, <2>2
      <4> QED
        BY <2>2, <3>2, <4>1, StillFails
    <3>3. /\ \A r \in Range(failed[t]) : MayFail(t, r.from)
          /\ phase[t] # "retry" => \A r \in Range(talist[t]) : MayFail(t, r.from)
          /\ phase[t] = "wait" => failed[t] = <<>>
      BY DEF Retried
    <3>4. failed'[t] = failed[t] /\ talist'[t] = talist[t]
      BY <2>2
    <3> QED
      BY <3>1, <3>2, <3>3, <3>4
  <2> QED
    BY <2>1, <2>2
<1> QED
  BY <1>2 DEF Retried

-----------------------------------------------------------------------------
(* A message that has come *)

LEMMA ReceivedMsg ==
  ASSUME TypeOK, Routes, NEW a, NEW b, <<a, b>> \in Edge, Receives(a, b)
  PROVE  \E m \in Msg : \E c :
           /\ m = Received(a, b) /\ m = Head(chan[<<a, b>>]) /\ c = Taken(a, b)
           /\ Took(TRUE, <<a, b>>, c) /\ Family(Edge, Msg, c) /\ Goes(a, b, m)
<1>1. Family(Edge, Msg, chan) /\ chan[<<a, b>>] # <<>>
  BY TypeParts DEF Receives
<1>2. PICK c : c = Taken(a, b)
  OBVIOUS
<1>3. Takes(chan, c, <<a, b>>)
  BY <1>1, <1>2, Taking DEF Taken
<1>4. PICK m \in Msg : m = Head(chan[<<a, b>>]) /\ m = chan[<<a, b>>][1] /\ 1 \in DOMAIN chan[<<a, b>>]
  BY <1>3, TakesElements
<1>5. m \in Range(chan[<<a, b>>])
  BY <1>4 DEF Range
<1>6. Goes(a, b, m)
  <2>1. PICK e \in Edge : e = <<a, b>>
    OBVIOUS
  <2>2. Goes(e[1], e[2], m)
    BY <1>5, <2>1 DEF Routes
  <2> QED
    BY <2>1, <2>2
<1>7. Took(TRUE, <<a, b>>, c) /\ Family(Edge, Msg, c)
  BY <1>3 DEF Took, Takes
<1> QED
  BY <1>2, <1>4, <1>6, <1>7 DEF Received

LEMMA HandlesMsg ==
  ASSUME TypeOK, Routes, NEW s \in Server, NEW h \in Links(s), NEW kind, Handles(s, h, kind)
  PROVE  \E m \in Msg : \E c :
           /\ m = Received(h, s) /\ m = Head(chan[<<h, s>>]) /\ c = Taken(h, s) /\ m.kind = kind
           /\ Took(TRUE, <<h, s>>, c) /\ Family(Edge, Msg, c) /\ Goes(h, s, m)
           /\ <<h, s>> \in Edge /\ phase[s] = "wait" /\ phase' = [phase EXCEPT ![s] = "retry"]
<1>1. <<h, s>> \in Edge /\ Receives(h, s)
  BY Edges DEF Handles
<1> QED
  BY <1>1, ReceivedMsg DEF Handles

-----------------------------------------------------------------------------
(* Parts of steps *)

(* the message concerns no node's count of its unanswered requests *)
NoReply(f, m) ==
  /\ ~(f[1] \in Server /\ f[2] \in Node /\ m.kind = "treq")
  /\ ~(f[1] \in Node /\ f[2] \in Server /\ m.kind \in {"none", "task"})

LEMMA UnrepliedQuiet ==
  ASSUME TypeOK, UnrepliedNum, UNCHANGED up,
         \A t \in Server : \A n \in Node : unreplied'[t][n] = unreplied[t][n],
         NEW take, NEW e, NEW c, Took(take, e, c), take => NoReply(e, Head(chan[e])),
         NEW put, NEW f, NEW m, Gave(put, c, f, m), put => NoReply(f, m)
  PROVE  UnrepliedNum'
<1>1. Family(Edge, Msg, chan)
  BY TypeParts
<1>2. ASSUME NEW s \in Server, NEW n \in ChildrenOf(s) \cap Node
      PROVE  /\ SentNo(s, n, {"treq"})' = SentNo(s, n, {"treq"})
             /\ SentNo(n, s, {"none", "task"})' = SentNo(n, s, {"none", "task"})
  <2>1. {<<s, n>>} \in SUBSET Edge /\ {<<n, s>>} \in SUBSET Edge
    BY Edges DEF Links
  <2>2. take => /\ At({<<s, n>>}, OfKind({"treq"}), e, Head(chan[e])) = 0
                /\ At({<<n, s>>}, OfKind({"none", "task"}), e, Head(chan[e])) = 0
    BY DEF At, OfKind, NoReply
  <2>3. put => /\ At({<<s, n>>}, OfKind({"treq"}), f, m) = 0
               /\ At({<<n, s>>}, OfKind({"none", "task"}), f, m) = 0
    BY DEF At, OfKind, NoReply
  <2>4. /\ Minus(take, {<<s, n>>}, OfKind({"treq"}), e) = 0
        /\ Minus(take, {<<n, s>>}, OfKind({"none", "task"}), e) = 0
        /\ Plus(put, {<<s, n>>}, OfKind({"treq"}), f, m) = 0
        /\ Plus(put, {<<n, s>>}, OfKind({"none", "task"}), f, m) = 0
    BY <2>2, <2>3 DEF Minus, Plus
  <2>5. Num({<<s, n>>}, chan', OfKind({"treq"})) = Num({<<s, n>>}, chan, OfKind({"treq"}))
    <3>1. Num({<<s, n>>}, chan, OfKind({"treq"})) \in Nat
      BY <2>1, Counts
    <3> QED
      BY <1>1, <2>1, <2>4, <3>1, MovedNum
  <2>6. Num({<<n, s>>}, chan', OfKind({"none", "task"})) = Num({<<n, s>>}, chan, OfKind({"none", "task"}))
    <3>1. Num({<<n, s>>}, chan, OfKind({"none", "task"})) \in Nat
      BY <2>1, Counts
    <3> QED
      BY <1>1, <2>1, <2>4, <3>1, MovedNum
  <2> QED
    BY <2>5, <2>6 DEF SentNo
<1>3. ASSUME NEW s \in Server, NEW n \in ChildrenOf(s) \cap Node, up[n]
      PROVE  unreplied'[s][n] = SentNo(s, n, {"treq"})' + SentNo(n, s, {"none", "task"})'
  <2>1. unreplied[s][n] = SentNo(s, n, {"treq"}) + SentNo(n, s, {"none", "task"})
    BY <1>3 DEF UnrepliedNum
  <2> QED
    BY <1>2, <2>1
<1> QED
  BY <1>3 DEF UnrepliedNum

LEMMA OneAnswerKept ==
  ASSUME OneAnswer, ~exited, UNCHANGED <<ask, up>>,
         \A n \in Node : up[n] /\ ~exited' => Asked(n)' = Asked(n)
  PROVE  OneAnswer'
  BY DEF OneAnswer

LEMMA ListsNum ==
  ASSUME NEW c, NEW d, Family(Server, Request, c), Family(Server, Request, d),
         NEW s \in Server, NEW k, Without(c, d, s, k), NEW M
  PROVE  /\ Num(Server, c, M) = Num(Server, d, M) + At(Server, M, s, c[s][k])
         /\ Num(Server, c, M) \in Nat /\ Num(Server, d, M) \in Nat
  BY Finite, Differ

LEMMA ListsElements ==
  ASSUME NEW c, NEW d, Family(Server, Request, c), Family(Server, Request, d),
         NEW s \in Server, NEW k, Without(c, d, s, k)
  PROVE  /\ \A x \in Server : \A y \in Range(d[x]) : y \in Range(c[x])
         /\ \A x \in Server : \A y \in Range(c[x]) : (x = s /\ y = c[s][k]) \/ y \in Range(d[x])
         /\ c[s][k] \in Range(c[s]) /\ c[s][k] \in Request
  BY Finite, Differ

LEMMA Pushed ==
  ASSUME NEW c, Family(Server, Request, c), NEW s \in Server, NEW r \in Request,
         NEW d, d = [c EXCEPT ![s] = Push(s, @, r)]
  PROVE  \E u \in Seq(Request), k \in {1, 2} : Lacks(u, c[s], k) /\ u[k] = r /\ SetAt(c, s, u, d)
<1>1. PICK u : u = Push(s, c[s], r)
  OBVIOUS
<1>2. c[s] \in Seq(Request)
  BY DEF Family
<1>3. SetAt(c, s, u, d)
  BY <1>1 DEF SetAt
<1> QED
  BY <1>1, <1>2, <1>3, PushLacks

LEMMA Consed ==
  ASSUME NEW c, Family(Server, Request, c), NEW s \in Server, NEW r \in Request,
         NEW d, d = [c EXCEPT ![s] = <<r>> \o @]
  PROVE  \E u \in Seq(Request), k \in {1, 2} : Lacks(u, c[s], k) /\ u[k] = r /\ SetAt(c, s, u, d)
<1>1. PICK u : u = <<r>> \o c[s]
  OBVIOUS
<1>2. c[s] \in Seq(Request)
  BY DEF Family
<1>3. SetAt(c, s, u, d)
  BY <1>1 DEF SetAt
<1>4. u \in Seq(Request) /\ Lacks(u, c[s], 1) /\ u[1] = r
  BY <1>1, <1>2, ConsLacks
<1> QED
  BY <1>3, <1>4

LEMMA Popped ==
  ASSUME NEW c, Family(Server, Request, c), NEW s \in Server, c[s] # <<>>,
         NEW d, d = [c EXCEPT ![s] = Tail(@)]
  PROVE  \E u \in Seq(Request) : /\ u = Tail(c[s]) /\ Lacks(c[s], u, 1) /\ SetAt(c, s, u, d)
                                  /\ c[s][1] = Head(c[s])
<1>1. PICK u : u = Tail(c[s])
  OBVIOUS
<1>2. c[s] \in Seq(Request)
  BY DEF Family
<1>3. SetAt(c, s, u, d)
  BY <1>1 DEF SetAt
<1>4. u \in Seq(Request) /\ Lacks(c[s], u, 1) /\ c[s][1] = Head(c[s])
  BY <1>1, <1>2, TailLacks
<1> QED
  BY <1>1, <1>3, <1>4

(* r is inserted into the list of s *)
Inserted(c, d, s, r) ==
  /\ Family(Server, Request, d) /\ \A t \in Server \ {s} : d[t] = c[t]
  /\ \A M : Num(Server, d, M) = Num(Server, c, M) + At(Server, M, s, r)
  /\ \A t \in Server : \A q \in Range(d[t]) : (t = s /\ q = r) \/ q \in Range(c[t])

LEMMA InsertsOne ==
  ASSUME NEW c, Family(Server, Request, c), NEW s \in Server, NEW r \in Request,
         NEW d, \E u \in Seq(Request), k \in {1, 2} : Lacks(u, c[s], k) /\ u[k] = r /\ SetAt(c, s, u, d)
  PROVE  Inserted(c, d, s, r)
<1>1. PICK u \in Seq(Request), k \in {1, 2} : Lacks(u, c[s], k) /\ u[k] = r /\ SetAt(c, s, u, d)
  OBVIOUS
<1>2. Family(Server, Request, d) /\ d[s] = u /\ \A t \in Server \ {s} : d[t] = c[t]
  BY <1>1 DEF Family, SetAt
<1>3. Without(d, c, s, k)
  BY <1>1, <1>2 DEF Without, Family
<1>4. ASSUME NEW M
      PROVE  Num(Server, d, M) = Num(Server, c, M) + At(Server, M, s, d[s][k])
  BY <1>2, <1>3, ListsNum
<1>5. \A t \in Server : \A q \in Range(d[t]) : (t = s /\ q = d[s][k]) \/ q \in Range(c[t])
  BY <1>2, <1>3, ListsElements
<1> QED
  BY <1>1, <1>2, <1>4, <1>5 DEF Inserted

LEMMA PushInserts ==
  ASSUME NEW c, Family(Server, Request, c), NEW s \in Server, NEW r \in Request,
         NEW d, d = [c EXCEPT ![s] = Push(s, @, r)]
  PROVE  Inserted(c, d, s, r)
BY Pushed, InsertsOne

LEMMA ConsInserts ==
  ASSUME NEW c, Family(Server, Request, c), NEW s \in Server, NEW r \in Request,
         NEW d, d = [c EXCEPT ![s] = <<r>> \o @]
  PROVE  Inserted(c, d, s, r)
BY Consed, InsertsOne

(* the first request is taken from the list of s *)
Dropped(c, d, s) ==
  /\ Family(Server, Request, d) /\ \A t \in Server \ {s} : d[t] = c[t]
  /\ \A M : Num(Server, c, M) = Num(Server, d, M) + At(Server, M, s, Head(c[s]))
  /\ \A t \in Server : \A q \in Range(d[t]) : q \in Range(c[t])
  /\ Head(c[s]) \in Range(c[s]) /\ Head(c[s]) \in Request

LEMMA DropsOne ==
  ASSUME NEW c, Family(Server, Request, c), NEW s \in Server,
         NEW d, \E u \in Seq(Request) : /\ u = Tail(c[s]) /\ Lacks(c[s], u, 1) /\ SetAt(c, s, u, d)
                                        /\ c[s][1] = Head(c[s])
  PROVE  Dropped(c, d, s)
<1>1. PICK u \in Seq(Request) : Lacks(c[s], u, 1) /\ SetAt(c, s, u, d) /\ c[s][1] = Head(c[s])
  OBVIOUS
<1>2. Family(Server, Request, d) /\ d[s] = u /\ \A t \in Server \ {s} : d[t] = c[t]
  BY <1>1 DEF Family, SetAt
<1>3. Without(c, d, s, 1)
  BY <1>1, <1>2 DEF Without, Family
<1>4. ASSUME NEW M
      PROVE  Num(Server, c, M) = Num(Server, d, M) + At(Server, M, s, c[s][1])
  BY <1>2, <1>3, ListsNum
<1>5. /\ \A t \in Server : \A q \in Range(d[t]) : q \in Range(c[t])
      /\ c[s][1] \in Range(c[s]) /\ c[s][1] \in Request
  BY <1>2, <1>3, ListsElements
<1> QED
  BY <1>1, <1>2, <1>4, <1>5 DEF Dropped

LEMMA PopDrops ==
  ASSUME NEW c, Family(Server, Request, c), NEW s \in Server, c[s] # <<>>,
         NEW d, d = [c EXCEPT ![s] = Tail(@)]
  PROVE  Dropped(c, d, s)
BY Popped, DropsOne

-----------------------------------------------------------------------------
(* The steps of a server *)

LEMMA ProcTreqStep ==
  ASSUME IInv, ~exited, NEW s \in Server, NEW h \in Links(s), ProcTreq(s, h)
  PROVE  IInv'
<1>1. /\ TypeOK /\ Routes /\ Nodes /\ OneAnswer /\ OnePlace /\ FirstTask
      /\ DiffsNum /\ UnrepliedNum /\ OneTaskAtATime /\ Retried
  BY DEF IInv
<1>2. Handles(s, h, "treq") /\ UNCHANGED <<failed, valid, taskHome, nodeVars>>
  BY DEF ProcTreq
<1>3. PICK m \in Msg : \E c :
        /\ m = Received(h, s) /\ m = Head(chan[<<h, s>>]) /\ c = Taken(h, s) /\ m.kind = "treq"
        /\ Took(TRUE, <<h, s>>, c) /\ Family(Edge, Msg, c) /\ Goes(h, s, m)
        /\ <<h, s>> \in Edge /\ phase[s] = "wait" /\ phase' = [phase EXCEPT ![s] = "retry"]
  BY <1>1, <1>2, HandlesMsg
<1>4. PICK c :
        /\ m = Received(h, s) /\ m = Head(chan[<<h, s>>]) /\ c = Taken(h, s) /\ m.kind = "treq"
        /\ Took(TRUE, <<h, s>>, c) /\ Family(Edge, Msg, c) /\ Goes(h, s, m)
        /\ <<h, s>> \in Edge /\ phase[s] = "wait" /\ phase' = [phase EXCEPT ![s] = "retry"]
  BY <1>3
<1>5. /\ h # Term /\ Treq(h, s, m) /\ m.to \in Path /\ m.from \in Path /\ m.by \in Node
      /\ m.for \in {AnyTask} \cup SubTask /\ h \in Host
  BY <1>4, MsgParts, Tree DEF Goes
<1>6. /\ HeadPush(h, m.from) \in Path /\ HeadPush(h, m.from) # <<>>
      /\ Head(HeadPush(h, m.from)) = h /\ Tail(HeadPush(h, m.from)) = m.from
      /\ Way(s, HeadPush(h, m.from), m.by)
  BY <1>5, WayBack DEF Treq
<1>7. PICK r \in Request : r = [from |-> h, head |-> HeadPush(h, m.from), by |-> m.by]
  BY <1>5, <1>6 DEF Request
<1>8. /\ Way(s, r.head, r.by) /\ r.by = m.by /\ r.from = h /\ Tail(r.head) = m.from
      /\ r.head # <<>> /\ Head(r.head) = h
  BY <1>6, <1>7
<1>9. up[r.by] => ask[r.by] = m.for
  BY <1>5, <1>8 DEF Treq
<1>10. \/ m.to = ANY /\ (\E t \in Targets(s, h) : SendTreq(c, s, t, ANY, r, AnyTask)) /\ UNCHANGED talist
       \/ m.to = ANY /\ RefuseTreq(c, s, r)
       \/ m.to # ANY /\ SendTreq(c, s, Head(m.to), Tail(m.to), r, m.for) /\ UNCHANGED talist
  BY <1>4, <1>7 DEF ProcTreq
<1>11. /\ \A n : Minus(TRUE, Edge, RequestsBy(n), <<h, s>>) = IF n = r.by THEN 1 ELSE 0
       /\ \A id : Minus(TRUE, Edge, Carrying(id), <<h, s>>) = 0
  <2>1. \A n : m \in RequestsBy(n) <=> n = r.by
    BY <1>4, <1>8 DEF RequestsBy
  <2>2. \A id : m \notin Carrying(id)
    BY <1>4 DEF Carrying
  <2> QED
    BY <1>4, <2>1, <2>2 DEF Minus, At
<1>12. /\ \A t \in Server : \A q \in Range(talist[t]) : Keeps(t, q)
       /\ \A t \in Server : \A q \in Range(failed[t]) : Keeps(t, q)
  BY <1>1 DEF Routes
<1>13. /\ phase' \in [Server -> {"wait", "retry", "return"}] /\ <<h, s>>[1] = h /\ <<h, s>>[2] = s
       /\ UNCHANGED <<ask, stack, sub, wrack, up, used>>
  BY <1>1, <1>2, <1>4 DEF TypeOK, nodeVars
<1>14. ASSUME NEW t \in Links(s), NEW to \in Path, NEW for \in {AnyTask} \cup SubTask,
              IF to = ANY THEN for = AnyTask ELSE WayToNode(t, to), up[r.by] => ask[r.by] = for,
              t = Term => MayAskParent(s), SendTreq(c, s, t, to, r, for), UNCHANGED talist
       PROVE  IInv'
  <2>1. /\ Routes' /\ Nodes' /\ OnePlace' /\ FirstTask' /\ OneTaskAtATime'
        /\ DiffsNum' /\ UnrepliedNum'
        /\ \A n \in Node : up[n] /\ ~exited' =>
             Num(Edge, chan', RequestsBy(n)) = Num(Edge, chan, RequestsBy(n))
               - Minus(TRUE, Edge, RequestsBy(n), <<h, s>>) + IF n = r.by THEN 1 ELSE 0
        /\ Family(Edge, Msg, chan') /\ unreplied' \in [Server -> [Host -> Int]]
        /\ respond' \in {"nil", "initial", "resend", "exit"} /\ exited' \in BOOLEAN
        /\ UNCHANGED <<diff, pdiff>>
        /\ \A x \in Server \ {s} : unreplied'[x] = unreplied[x]
    <3>1. PICK take, e : take = TRUE /\ e = <<h, s>>
      OBVIOUS
    <3>2. Took(take, e, c) /\ (take => e[2] \in Server /\ e[1] # Term /\ Head(chan[e]).kind = "treq")
      BY <1>4, <1>5, <1>13, <3>1
    <3>3. /\ \A x \in Server : \A q \in Range(talist'[x]) : Keeps(x, q)
          /\ \A x \in Server : \A q \in Range(failed'[x]) : Keeps(x, q)
      BY <1>2, <1>12, <1>14
    <3>4. UNCHANGED <<valid, taskHome, nodeVars>>
      BY <1>2
    <3>5. /\ Way(s, r.head, r.by) /\ (up[r.by] => ask[r.by] = for)
          /\ (t = Term => MayAskParent(s)) /\ SendTreq(c, s, t, to, r, for)
      BY <1>8, <1>14
    <3>6. IF to = ANY THEN for = AnyTask ELSE WayToNode(t, to)
      BY <1>14
    <3>7. /\ Routes' /\ Nodes' /\ OnePlace' /\ FirstTask' /\ OneTaskAtATime'
          /\ DiffsNum' /\ UnrepliedNum'
          /\ \A n \in Node : up[n] /\ ~exited' =>
               Num(Edge, chan', RequestsBy(n)) = Num(Edge, chan, RequestsBy(n))
                 - Minus(take, Edge, RequestsBy(n), e) + IF n = r.by THEN 1 ELSE 0
          /\ Family(Edge, Msg, chan') /\ unreplied' \in [Server -> [Host -> Int]]
          /\ respond' \in {"nil", "initial", "resend", "exit"} /\ exited' \in BOOLEAN
          /\ UNCHANGED <<diff, pdiff>>
          /\ \A x \in Server : unreplied'[x][Term] >= unreplied[x][Term]
          /\ \A x \in Server \ {s} : unreplied'[x] = unreplied[x]
      BY <1>1, <3>2, <3>3, <3>4, <3>5, <3>6, AskStep
    <3> QED
      BY <3>1, <3>7
  <2>2. TypeOK'
    BY <1>1, <1>2, <1>13, <1>14, <2>1, TypeParts, TypePartsNext
  <2>3. OneAnswer'
    <3>1. ASSUME NEW n \in Node, up[n], ~exited'
          PROVE  Asked(n)' = Asked(n)
      <4>1. Num(Edge, chan, RequestsBy(n)) \in Nat
        BY <1>1, Counts
      <4>2. Num(Edge, chan', RequestsBy(n)) = Num(Edge, chan, RequestsBy(n))
        <5>1. PICK K \in 0..1 : K = IF n = r.by THEN 1 ELSE 0
          OBVIOUS
        <5>2. PICK N : N = Num(Edge, chan, RequestsBy(n))
          OBVIOUS
        <5>3. Num(Edge, chan', RequestsBy(n)) = N - K + K
          BY <1>11, <2>1, <3>1, <5>1, <5>2
        <5> QED
          BY <4>1, <5>1, <5>2, <5>3
      <4> QED
        BY <1>2, <1>14, <4>2 DEF Asked
    <3> QED
      BY <1>1, <1>13, <3>1, OneAnswerKept
  <2>4. Retried'
    <3>1. \A x \in Server \ {s} : /\ talist'[x] = talist[x] /\ diff'[x] = diff[x]
                                  /\ pdiff'[x] = pdiff[x] /\ unreplied'[x] = unreplied[x]
      BY <1>14, <2>1
    <3> QED
      BY <1>1, <1>2, <1>4, <2>1, <3>1, ProcRetried
  <2> QED
    BY <2>1, <2>2, <2>3, <2>4 DEF IInv
<1>15. CASE m.to = ANY /\ (\E t \in Targets(s, h) : SendTreq(c, s, t, ANY, r, AnyTask)) /\ UNCHANGED talist
  <2>1. PICK t \in Targets(s, h) : SendTreq(c, s, t, ANY, r, AnyTask)
    BY <1>15
  <2>2. t \in Links(s) /\ (t = Term => MayAskParent(s))
    BY TargetIs
  <2>3. ANY \in Path
    BY DEF ANY, Path, Host
  <2>4. m.for = AnyTask
    BY <1>5, <1>15 DEF Treq
  <2> QED
    BY <1>9, <1>14, <1>15, <2>1, <2>2, <2>3, <2>4
<1>16. CASE m.to # ANY /\ SendTreq(c, s, Head(m.to), Tail(m.to), r, m.for) /\ UNCHANGED talist
  <2>1. PICK x \in Node : Way(s, m.to, x)
    BY <1>5, <1>16 DEF Treq, WayToNode
  <2>2. PICK t, to : t = Head(m.to) /\ to = Tail(m.to)
    OBVIOUS
  <2>3. t \in Links(s) /\ t # Term /\ to \in Path /\ Way(t, to, x)
    BY <1>1, <1>5, <2>1, <2>2, Forward
  <2>4. to # ANY /\ WayToNode(t, to)
    BY <2>3, NotAny DEF WayToNode
  <2> QED
    BY <1>5, <1>9, <1>14, <1>16, <2>2, <2>3, <2>4
<1>17. CASE m.to = ANY /\ RefuseTreq(c, s, r)
  <2>1. /\ UNCHANGED <<diff, pdiff, unreplied, respond, exited>> /\ m.for = AnyTask
        /\ Keeps(s, r)
    BY <1>5, <1>8, <1>9, <1>17 DEF RefuseTreq, Treq, Keeps
  <2>2. PICK d \in Msg : d = none(m.from, m.by) /\ d.kind = "none" /\ d.to = m.from /\ d.by = m.by
    BY <1>5, MsgMade
  <2>3. \/ chan' = Send(c, s, h, d) /\ UNCHANGED talist
        \/ chan' = c /\ talist' = [talist EXCEPT ![s] = Push(s, @, r)]
    BY <1>8, <1>17, <2>2 DEF RefuseTreq
  <2>4. PICK put \in BOOLEAN :
          /\ Gave(put, c, <<s, h>>, d)
          /\ put => UNCHANGED talist
          /\ put \/ (up[r.by] => talist' = [talist EXCEPT ![s] = Push(s, @, r)])
          /\ UNCHANGED talist \/ talist' = [talist EXCEPT ![s] = Push(s, @, r)]
    <3>1. CASE chan' = Send(c, s, h, d) /\ UNCHANGED talist
      <4>1. Gave(~Invalid(h) /\ h # Term, c, <<s, h>>, d)
        BY <1>4, <3>1, SendIs
      <4>2. Invalid(h) => ~up[r.by]
        <5>1. Invalid(h) => h \in Node /\ ~up[h]
          BY <1>1 DEF Invalid, Nodes
        <5>2. h \in Node => h = m.by
          BY <1>5, Tree, WayEnds DEF Treq
        <5> QED
          BY <1>8, <5>1, <5>2
      <4>3. PICK put \in BOOLEAN : put = (~Invalid(h) /\ h # Term)
        OBVIOUS
      <4> QED
        BY <1>5, <3>1, <4>1, <4>2, <4>3
    <3>2. CASE chan' = c /\ talist' = [talist EXCEPT ![s] = Push(s, @, r)]
      <4>1. Gave(FALSE, c, <<s, h>>, d)
        BY <3>2 DEF Gave
      <4> QED
        BY <3>2, <4>1
    <3> QED
      BY <2>3, <3>1, <3>2
  <2>5. Family(Server, Request, talist)
    BY <1>1, TypeParts
  <2>6. /\ Family(Server, Request, talist') /\ \A t \in Server \ {s} : talist'[t] = talist[t]
        /\ \A t \in Server : \A q \in Range(talist'[t]) : (t = s /\ q = r) \/ q \in Range(talist[t])
        /\ put \/ (up[r.by] => \A M : Num(Server, talist', M) = Num(Server, talist, M) + At(Server, M, s, r))
        /\ ~UNCHANGED talist =>
             \A M : Num(Server, talist', M) = Num(Server, talist, M) + At(Server, M, s, r)
    <3>1. CASE UNCHANGED talist /\ (put \/ ~up[r.by])
      BY <2>5, <3>1
    <3>2. CASE talist' = [talist EXCEPT ![s] = Push(s, @, r)]
      <4>1. PICK d2 : d2 = talist'
        OBVIOUS
      <4>2. Inserted(talist, d2, s, r)
        BY <2>5, <3>2, <4>1, PushInserts
      <4> QED
        BY <4>1, <4>2 DEF Inserted
    <3> QED
      BY <2>4, <3>1, <3>2
  <2>20. Family(Edge, Msg, chan) /\ Family(Edge, Msg, chan') /\ <<s, h>> \in Edge
    BY <1>1, <1>4, <2>4, TypeParts, MovedElements, Edges
  <2>7. TypeOK'
    BY <1>1, <1>2, <1>13, <2>1, <2>6, <2>20, TypeParts, TypePartsNext
  <2>8. Routes'
    <3>1. put => Goes(s, h, d)
      BY <1>5, <2>2, Tree DEF Goes, Treq
    <3>2. PICK e, f, take : e = <<h, s>> /\ f = <<s, h>> /\ take = TRUE
      OBVIOUS
    <3>3. /\ \A x \in Server : \A q \in Range(talist'[x]) : Keeps(x, q)
          /\ \A x \in Server : \A q \in Range(failed'[x]) : Keeps(x, q)
      BY <1>2, <1>12, <2>1, <2>6
    <3>4. Took(take, e, c) /\ Gave(put, c, f, d) /\ (put => Goes(f[1], f[2], d))
      BY <1>4, <2>4, <3>1, <3>2
    <3>5. UNCHANGED <<ask, up, sub, stack>>
      BY <1>13
    <3> QED
      BY <1>1, <2>20, <3>3, <3>4, <3>5, RoutesServer
  <2>9. OneAnswer'
    <3>1. ASSUME NEW n \in Node, up[n]
          PROVE  Asked(n)' = Asked(n)
      <4>1. PICK T, C, C1, P : /\ T = Num(Server, talist, KeptBy(n)) /\ C = Num(Edge, chan, RequestsBy(n))
                               /\ C1 = Num(Edge, chan', RequestsBy(n))
                               /\ P = Plus(put, Edge, RequestsBy(n), <<s, h>>, d)
        OBVIOUS
      <4>2. PICK K \in 0..1 : K = IF n = r.by THEN 1 ELSE 0
        OBVIOUS
      <4>3. C1 = C - K + P /\ C \in Nat /\ C1 \in Nat
        <5>1. PICK take : take = TRUE
          OBVIOUS
        <5>2. Took(take, <<h, s>>, c)
          BY <1>4, <5>1
        <5>3. C1 = C - Minus(take, Edge, RequestsBy(n), <<h, s>>) + P /\ C \in Nat /\ C1 \in Nat
          BY <2>4, <2>20, <4>1, <5>2, MovedNum
        <5> QED
          BY <1>11, <4>2, <5>1, <5>3
      <4>4. Num(Server, talist', KeptBy(n)) = T + K - P /\ T \in Nat
        <5>1. At(Server, KeptBy(n), s, r) = K
          BY <4>2 DEF At, KeptBy
        <5>2. put => P = K
          BY <1>8, <2>2, <2>20, <4>1, <4>2 DEF Plus, At, RequestsBy
        <5>3. ~put => P = 0
          BY <4>1 DEF Plus
        <5>4. T \in Nat
          BY <1>1, <4>1, Counts
        <5>5. CASE put
          <6>1. UNCHANGED talist
            BY <2>4, <5>5
          <6>2. Num(Server, talist', KeptBy(n)) = T /\ P = K
            BY <4>1, <5>2, <5>5, <6>1
          <6> QED
            BY <5>4, <6>2
        <5>6. CASE ~put /\ UNCHANGED talist
          <6>1. K = 0 \/ Num(Server, talist', KeptBy(n)) = T + K
            BY <2>6, <3>1, <4>1, <4>2, <5>1, <5>6
          <6>2. Num(Server, talist', KeptBy(n)) = T
            BY <4>1, <5>6
          <6> QED
            BY <5>3, <5>4, <5>6, <6>1, <6>2
        <5>7. CASE ~put /\ ~UNCHANGED talist
          <6>1. Num(Server, talist', KeptBy(n)) = T + K
            BY <2>6, <4>1, <5>1, <5>7
          <6> QED
            BY <5>3, <5>4, <5>7, <6>1
        <5> QED
          BY <5>5, <5>6, <5>7
      <4>5. Num(Server, failed, KeptBy(n)) \in Nat
        BY <1>1, Counts
      <4>6. P \in 0..1
        BY <4>1 DEF Plus, At
      <4>7. C1 + Num(Server, talist', KeptBy(n)) = C + T
        BY <4>2, <4>3, <4>4, <4>6
      <4> QED
        BY <1>2, <4>1, <4>7 DEF Asked
    <3> QED
      BY <1>1, <1>13, <3>1, OneAnswerKept
  <2>30. PICK take, e, f : take = TRUE /\ e = <<h, s>> /\ f = <<s, h>>
    OBVIOUS
  <2>31. /\ Took(take, e, c) /\ Gave(put, c, f, d) /\ e # <<Term, Top>> /\ f # <<Term, Top>>
         /\ Neutral(e, Head(chan[e])) /\ Neutral(f, d) /\ NoReply(e, Head(chan[e])) /\ NoReply(f, d)
         /\ \A id : Plus(put, Edge, Carrying(id), f, d) = 0 /\ Minus(take, Edge, Carrying(id), e) = 0
    <3>1. e[1] = h /\ e[2] = s /\ f[1] = s /\ f[2] = h /\ e # <<Term, Top>> /\ f # <<Term, Top>>
      BY <1>5, <2>30, Tree
    <3>2. Took(take, e, c) /\ Gave(put, c, f, d) /\ Head(chan[e]).kind = "treq"
      BY <1>4, <2>4, <2>30
    <3>3. /\ Neutral(e, Head(chan[e])) /\ Neutral(f, d) /\ NoReply(e, Head(chan[e])) /\ NoReply(f, d)
      BY <2>2, <3>1, <3>2, Tree DEF Neutral, NoReply
    <3>4. ASSUME NEW id
          PROVE  Plus(put, Edge, Carrying(id), f, d) = 0 /\ Minus(take, Edge, Carrying(id), e) = 0
      <4>1. d \notin Carrying(id)
        BY <2>2 DEF Carrying
      <4> QED
        BY <1>11, <2>30, <4>1 DEF Plus, At
    <3> QED
      BY <3>1, <3>2, <3>3, <3>4
  <2>10. OnePlace'
    <3>1. UNCHANGED <<sub, stack, up>>
      BY <1>13
    <3> QED
      BY <1>1, <2>31, <3>1, OnePlaceServer
  <2>11. FirstTask'
    <3>1. UNCHANGED <<respond, taskHome, exited, stack>>
      BY <1>2, <1>13, <2>1
    <3>2. Plus(put, Edge, Carrying(0), f, d) <= Minus(take, Edge, Carrying(0), e)
      BY <2>31
    <3> QED
      BY <1>1, <2>1, <2>31, <3>1, <3>2, FirstQuiet
  <2>12. DiffsNum'
    <3>1. UNCHANGED <<diff, pdiff, stack>>
      BY <1>13, <2>1
    <3> QED
      BY <1>1, <2>31, <3>1, DiffsQuiet
  <2>13. UnrepliedNum'
    <3>1. UNCHANGED up /\ \A t \in Server : \A n \in Node : unreplied'[t][n] = unreplied[t][n]
      BY <1>13, <2>1
    <3> QED
      BY <1>1, <2>31, <3>1, UnrepliedQuiet
  <2>14. Retried'
    <3>1. \A x \in Server \ {s} : /\ talist'[x] = talist[x] /\ diff'[x] = diff[x]
                                  /\ pdiff'[x] = pdiff[x] /\ unreplied'[x] = unreplied[x]
      BY <2>1, <2>6
    <3>2. unreplied' \in [Server -> [Host -> Int]] /\ UNCHANGED failed
      BY <1>1, <1>2, <2>1 DEF TypeOK
    <3> QED
      BY <1>1, <1>4, <3>1, <3>2, ProcRetried
  <2>15. Nodes' /\ OneTaskAtATime'
    BY <1>1, <1>2, <1>13, <2>1, SameNodes DEF OneTaskAtATime
  <2> QED
    BY <2>7, <2>8, <2>9, <2>10, <2>11, <2>12, <2>13, <2>14, <2>15 DEF IInv
<1> QED
  BY <1>10, <1>15, <1>16, <1>17

(* a step that moves requests between the lists of a server only *)
LEMMA SameLinks ==
  ASSUME UNCHANGED <<chan, diff, pdiff, unreplied, valid>>, UNCHANGED termVars, UNCHANGED nodeVars,
         Nodes, OnePlace, FirstTask, DiffsNum, UnrepliedNum, OneTaskAtATime
  PROVE  Nodes' /\ OnePlace' /\ FirstTask' /\ DiffsNum' /\ UnrepliedNum' /\ OneTaskAtATime'
<1>1. /\ UNCHANGED <<ask, stack, sub, wrack, up, used>> /\ UNCHANGED <<respond, taskHome, exited>>
      /\ UNCHANGED chan /\ UNCHANGED diff /\ UNCHANGED pdiff /\ UNCHANGED unreplied
  BY DEF nodeVars, termVars
<1>2. Nodes'
  BY <1>1, SameNodes
<1>3. OnePlace'
  BY <1>1 DEF OnePlace, AllUp, Waiting, Where, Running
<1>4. FirstTask'
  BY <1>1 DEF FirstTask, Where, Running, TermHome, WayToNode, Way
<1>5. DiffsNum'
  BY <1>1 DEF DiffsNum, SentNo
<1>6. UnrepliedNum'
  BY <1>1 DEF UnrepliedNum, SentNo
<1>7. OneTaskAtATime'
  BY <1>1 DEF OneTaskAtATime
<1> QED
  BY <1>2, <1>3, <1>4, <1>5, <1>6, <1>7

LEMMA SameTypes ==
  ASSUME TypeOK, UNCHANGED <<chan, diff, pdiff, unreplied, valid>>, UNCHANGED termVars, UNCHANGED nodeVars,
         phase' \in [Server -> {"wait", "retry", "return"}],
         Family(Server, Request, talist'), Family(Server, Request, failed')
  PROVE  TypeOK'
<1>1. /\ UNCHANGED <<ask, stack, sub, wrack, up, used>> /\ UNCHANGED <<respond, taskHome, exited>>
      /\ UNCHANGED chan /\ UNCHANGED diff /\ UNCHANGED pdiff /\ UNCHANGED unreplied /\ UNCHANGED valid
  BY DEF nodeVars, termVars
<1> QED
  BY <1>1, TypeParts, TypePartsNext

(* the requests of the lists, and those on the links *)
LEMMA SameMayFail ==
  ASSUME UNCHANGED <<diff, pdiff, unreplied>>, NEW t, NEW from
  PROVE  MayFail(t, from)' <=> MayFail(t, from)
BY DEF MayFail, AlwaysAsksParent, AsksParentFirst, Divisible, ElectedToAsk, MayAskParent

LEMMA RetryOneStep ==
  ASSUME IInv, ~exited, NEW s \in Server, RetryOne(s)
  PROVE  IInv'
<1>1. /\ TypeOK /\ Routes /\ Nodes /\ OneAnswer /\ OnePlace /\ FirstTask
      /\ DiffsNum /\ UnrepliedNum /\ OneTaskAtATime /\ Retried
  BY DEF IInv
<1>2. /\ phase[s] = "retry" /\ talist[s] # <<>> /\ talist' = [talist EXCEPT ![s] = Tail(@)]
      /\ UNCHANGED <<phase, valid, taskHome, nodeVars>>
  BY DEF RetryOne
<1>3. Family(Server, Request, talist) /\ Family(Server, Request, failed) /\ Family(Edge, Msg, chan)
  BY <1>1, TypeParts
<1>4. PICK d : d = talist'
  OBVIOUS
<1>5. Dropped(talist, d, s)
  BY <1>2, <1>3, <1>4, PopDrops
<1>6. PICK r : r = Head(talist[s])
  OBVIOUS
<1>7. /\ Family(Server, Request, talist') /\ \A t \in Server \ {s} : talist'[t] = talist[t]
      /\ \A M : Num(Server, talist, M) = Num(Server, talist', M) + At(Server, M, s, r)
      /\ \A t \in Server : \A q \in Range(talist'[t]) : q \in Range(talist[t])
      /\ r \in Range(talist[s]) /\ r \in Request
  BY <1>4, <1>5, <1>6 DEF Dropped
<1>8. /\ \A t \in Server : \A q \in Range(talist[t]) : Keeps(t, q)
      /\ \A t \in Server : \A q \in Range(failed[t]) : Keeps(t, q)
      /\ Keeps(s, r)
  BY <1>1, <1>7 DEF Routes
<1>9. Way(s, r.head, r.by) /\ r.from \in Links(s) /\ r.by \in Node /\ (up[r.by] => ask[r.by] = AnyTask)
  BY <1>7, <1>8 DEF Keeps, Request
<1>10. \/ \E t \in Targets(s, r.from) : SendTreq(chan, s, t, ANY, r, AnyTask) /\ UNCHANGED failed
       \/ /\ MayFail(s, r.from)
          /\ failed' = [failed EXCEPT ![s] = <<r>> \o @]
          /\ UNCHANGED <<chan, unreplied, diff, pdiff, respond, exited>>
  BY <1>6 DEF RetryOne
<1>11. /\ UNCHANGED <<ask, stack, sub, wrack, up, used>> /\ UNCHANGED phase /\ UNCHANGED nodeVars
       /\ UNCHANGED valid /\ UNCHANGED taskHome
  BY <1>2 DEF nodeVars
<1>12. phase' \in [Server -> {"wait", "retry", "return"}]
  BY <1>1, <1>11 DEF TypeOK
<1>13. ASSUME NEW n \in Node
       PROVE  \E K \in 0..1 : /\ K = (IF n = r.by THEN 1 ELSE 0) /\ At(Server, KeptBy(n), s, r) = K
                              /\ Num(Server, talist', KeptBy(n)) = Num(Server, talist, KeptBy(n)) - K
                              /\ Num(Server, talist, KeptBy(n)) \in Nat
                              /\ Num(Server, failed, KeptBy(n)) \in Nat
                              /\ Num(Edge, chan, RequestsBy(n)) \in Nat
  <2>1. PICK K \in 0..1 : K = IF n = r.by THEN 1 ELSE 0
    OBVIOUS
  <2>2. At(Server, KeptBy(n), s, r) = K
    BY <1>7, <2>1 DEF At, KeptBy
  <2>3. /\ Num(Server, talist, KeptBy(n)) \in Nat /\ Num(Server, failed, KeptBy(n)) \in Nat
        /\ Num(Edge, chan, RequestsBy(n)) \in Nat
    BY <1>1, Counts
  <2>4. Num(Server, talist', KeptBy(n)) \in Nat
    BY <1>7, <2>2, <2>3, Finite, FinitePositions
  <2>5. Num(Server, talist', KeptBy(n)) = Num(Server, talist, KeptBy(n)) - K
    <3>1. Num(Server, talist, KeptBy(n)) = Num(Server, talist', KeptBy(n)) + K
      BY <1>7, <2>2
    <3> QED
      BY <2>3, <2>4, <3>1
  <2> QED
    BY <2>1, <2>2, <2>3, <2>5
<1>14. CASE \E t \in Targets(s, r.from) : SendTreq(chan, s, t, ANY, r, AnyTask) /\ UNCHANGED failed
  <2>1. PICK t \in Targets(s, r.from) : SendTreq(chan, s, t, ANY, r, AnyTask) /\ UNCHANGED failed
    BY <1>14
  <2>2. t \in Links(s) /\ (t = Term => MayAskParent(s))
    BY TargetIs
  <2>3. PICK to \in Path, for \in {AnyTask} \cup SubTask : to = ANY /\ for = AnyTask
    <3>1. ANY \in Path
      BY DEF ANY, Path, Host
    <3> QED
      BY <3>1
  <2>4. PICK take, e : take = FALSE /\ e = <<s, t>>
    OBVIOUS
  <2>5. PICK c : c = chan
    OBVIOUS
  <2>6. Took(take, e, c) /\ (take => e[2] \in Server /\ e[1] # Term /\ Head(chan[e]).kind = "treq")
    BY <2>4, <2>5 DEF Took
  <2>7. /\ \A x \in Server : \A q \in Range(talist'[x]) : Keeps(x, q)
        /\ \A x \in Server : \A q \in Range(failed'[x]) : Keeps(x, q)
    BY <1>7, <1>8, <2>1
  <2>8. UNCHANGED <<valid, taskHome, nodeVars>>
    BY <1>2
  <2>9. /\ Way(s, r.head, r.by) /\ (up[r.by] => ask[r.by] = for)
        /\ (t = Term => MayAskParent(s)) /\ SendTreq(c, s, t, to, r, for)
    BY <1>9, <2>1, <2>2, <2>3, <2>5
  <2>10. (IF to = ANY THEN for = AnyTask ELSE WayToNode(t, to)) /\ r \in Request
    BY <1>7, <2>3
  <2>11. /\ Routes' /\ Nodes' /\ OnePlace' /\ FirstTask' /\ OneTaskAtATime'
         /\ DiffsNum' /\ UnrepliedNum'
         /\ \A n \in Node : up[n] /\ ~exited' =>
              Num(Edge, chan', RequestsBy(n)) = Num(Edge, chan, RequestsBy(n))
                - Minus(take, Edge, RequestsBy(n), e) + IF n = r.by THEN 1 ELSE 0
         /\ Family(Edge, Msg, chan') /\ unreplied' \in [Server -> [Host -> Int]]
         /\ respond' \in {"nil", "initial", "resend", "exit"} /\ exited' \in BOOLEAN
         /\ UNCHANGED <<diff, pdiff>>
         /\ \A x \in Server : unreplied'[x][Term] >= unreplied[x][Term]
         /\ \A x \in Server \ {s} : unreplied'[x] = unreplied[x]
    BY <1>1, <2>2, <2>6, <2>7, <2>8, <2>9, <2>10, AskStep
  <2>12. TypeOK'
    BY <1>1, <1>3, <1>7, <1>11, <1>12, <2>1, <2>11, TypeParts, TypePartsNext
  <2>13. OneAnswer'
    <3>1. ASSUME NEW n \in Node, up[n], ~exited'
          PROVE  Asked(n)' = Asked(n)
      <4>1. PICK K \in 0..1 : /\ K = (IF n = r.by THEN 1 ELSE 0)
                              /\ Num(Server, talist', KeptBy(n)) = Num(Server, talist, KeptBy(n)) - K
                              /\ Num(Server, talist, KeptBy(n)) \in Nat
                              /\ Num(Server, failed, KeptBy(n)) \in Nat
                              /\ Num(Edge, chan, RequestsBy(n)) \in Nat
        BY <1>13
      <4>2. Minus(take, Edge, RequestsBy(n), e) = 0
        BY <2>4 DEF Minus
      <4>3. Num(Edge, chan', RequestsBy(n)) = Num(Edge, chan, RequestsBy(n)) - 0 + K
        BY <2>11, <3>1, <4>1, <4>2
      <4>4. Num(Edge, chan', RequestsBy(n)) + Num(Server, talist', KeptBy(n))
              = Num(Edge, chan, RequestsBy(n)) + Num(Server, talist, KeptBy(n))
        BY <4>1, <4>3
      <4> QED
        BY <2>1, <4>4 DEF Asked
    <3> QED
      BY <1>1, <1>11, <3>1, OneAnswerKept
  <2>14. Retried'
    <3>1. ASSUME NEW x \in Server, NEW q, MayFail(x, q.from)
          PROVE  MayFail(x, q.from)'
      <4>1. /\ diff'[x] = diff[x] /\ pdiff'[x] = pdiff[x] /\ unreplied[x][Term] \in Int
            /\ unreplied'[x][Term] \in Int /\ unreplied'[x][Term] >= unreplied[x][Term]
        BY <1>1, <2>11 DEF TypeOK, Host
      <4> QED
        BY <3>1, <4>1, StillFails
    <3>2. ASSUME NEW x \in Server, phase'[x] # "retry"
          PROVE  talist'[x] = talist[x]
      BY <1>2, <1>7, <1>11, <3>2
    <3> QED
      BY <1>1, <1>11, <2>1, <3>1, <3>2 DEF Retried
  <2> QED
    BY <2>11, <2>12, <2>13, <2>14 DEF IInv
<1>15. CASE /\ MayFail(s, r.from)
            /\ failed' = [failed EXCEPT ![s] = <<r>> \o @]
            /\ UNCHANGED <<chan, unreplied, diff, pdiff, respond, exited>>
  <2>1. /\ UNCHANGED <<chan, diff, pdiff, unreplied, valid>> /\ UNCHANGED termVars
        /\ UNCHANGED nodeVars
    BY <1>2, <1>15 DEF termVars
  <2>2. PICK g : g = failed'
    OBVIOUS
  <2>3. Inserted(failed, g, s, r)
    BY <1>3, <1>7, <1>15, <2>2, ConsInserts
  <2>4. /\ Family(Server, Request, failed') /\ \A t \in Server \ {s} : failed'[t] = failed[t]
        /\ \A M : Num(Server, failed', M) = Num(Server, failed, M) + At(Server, M, s, r)
        /\ \A t \in Server : \A q \in Range(failed'[t]) : (t = s /\ q = r) \/ q \in Range(failed[t])
    BY <2>2, <2>3 DEF Inserted
  <2>5. Nodes' /\ OnePlace' /\ FirstTask' /\ DiffsNum' /\ UnrepliedNum' /\ OneTaskAtATime'
    BY <1>1, <2>1, SameLinks
  <2>6. TypeOK'
    BY <1>1, <1>7, <1>12, <2>1, <2>4, SameTypes
  <2>7. Routes'
    <3>1. UNCHANGED <<ask, up, sub, stack>> /\ UNCHANGED chan
      BY <1>11, <2>1
    <3>2. /\ \A x \in Server : \A q \in Range(talist'[x]) : Keeps(x, q)'
          /\ \A x \in Server : \A q \in Range(failed'[x]) : Keeps(x, q)'
      BY <1>7, <1>8, <2>4, <3>1, SameGoes
    <3>3. \A e \in Edge : \A m \in Range(chan'[e]) : Goes(e[1], e[2], m)'
      BY <1>1, <3>1, SameGoes DEF Routes
    <3> QED
      BY <3>2, <3>3 DEF Routes
  <2>8. OneAnswer'
    <3>1. ASSUME NEW n \in Node
          PROVE  Asked(n)' = Asked(n)
      <4>1. PICK K \in 0..1 : /\ At(Server, KeptBy(n), s, r) = K
                              /\ Num(Server, talist', KeptBy(n)) = Num(Server, talist, KeptBy(n)) - K
                              /\ Num(Server, talist, KeptBy(n)) \in Nat
                              /\ Num(Server, failed, KeptBy(n)) \in Nat
                              /\ Num(Edge, chan, RequestsBy(n)) \in Nat
        BY <1>13
      <4>2. Num(Server, failed', KeptBy(n)) = Num(Server, failed, KeptBy(n)) + K
        BY <2>4, <4>1
      <4>3. Num(Edge, chan', RequestsBy(n)) = Num(Edge, chan, RequestsBy(n))
        BY <2>1
      <4> QED
        BY <4>1, <4>2, <4>3 DEF Asked
    <3> QED
      BY <1>1, <1>11, <3>1, OneAnswerKept
  <2>9. Retried'
    <3>1. \A x, q : MayFail(x, q.from)' <=> MayFail(x, q.from)
      BY <2>1, SameMayFail
    <3>2. ASSUME NEW x \in Server, phase'[x] # "retry"
          PROVE  talist'[x] = talist[x] /\ failed'[x] = failed[x]
      BY <1>2, <1>7, <1>11, <2>4, <3>2
    <3>3. \A x \in Server : phase'[x] = phase[x]
      BY <1>11
    <3>4. ASSUME NEW x \in Server, NEW q \in Range(failed'[x])
          PROVE  MayFail(x, q.from)'
      BY <1>1, <1>15, <2>4, <3>1 DEF Retried
    <3>5. ASSUME NEW x \in Server, phase'[x] # "retry", NEW q \in Range(talist'[x])
          PROVE  MayFail(x, q.from)'
      BY <1>1, <3>1, <3>2, <3>3, <3>5 DEF Retried
    <3>6. ASSUME NEW x \in Server, phase'[x] = "wait"
          PROVE  failed'[x] = <<>>
      BY <1>1, <3>2, <3>3, <3>6 DEF Retried
    <3> QED
      BY <3>4, <3>5, <3>6 DEF Retried
  <2> QED
    BY <2>5, <2>6, <2>7, <2>8, <2>9 DEF IInv
<1> QED
  BY <1>10, <1>14, <1>15

LEMMA RetryEndStep ==
  ASSUME IInv, ~exited, NEW s \in Server, RetryEnd(s)
  PROVE  IInv'
<1>1. /\ TypeOK /\ Routes /\ Nodes /\ OneAnswer /\ OnePlace /\ FirstTask
      /\ DiffsNum /\ UnrepliedNum /\ OneTaskAtATime /\ Retried
  BY DEF IInv
<1>2. /\ UNCHANGED <<chan, diff, pdiff, unreplied, valid>> /\ UNCHANGED termVars
      /\ UNCHANGED nodeVars /\ (AllRetried(s) \/ phase[s] = "return")
  BY DEF RetryEnd
<1>3. /\ UNCHANGED <<ask, stack, sub, wrack, up, used>> /\ UNCHANGED chan
      /\ UNCHANGED <<diff, pdiff, unreplied>>
  BY <1>2 DEF nodeVars
<1>4. /\ Family(Server, Request, talist) /\ Family(Server, Request, failed)
      /\ phase \in [Server -> {"wait", "retry", "return"}]
  BY <1>1, TypeParts
<1>5. Nodes' /\ OnePlace' /\ FirstTask' /\ DiffsNum' /\ UnrepliedNum' /\ OneTaskAtATime'
  BY <1>1, <1>2, SameLinks
<1>6. \A q \in Range(talist[s]) : MayFail(s, q.from)
  <2>1. CASE AllRetried(s)
    <3>1. talist[s] = <<>>
      BY <2>1 DEF AllRetried
    <3>2. Range(talist[s]) = {}
      BY <3>1 DEF Range
    <3> QED
      BY <3>2
  <2>2. CASE phase[s] = "return"
    BY <1>1, <2>2 DEF Retried
  <2> QED
    BY <1>2, <2>1, <2>2
<1>7. \A x, q : MayFail(x, q.from)' <=> MayFail(x, q.from)
  BY <1>3, SameMayFail
<1>8. /\ \A t \in Server : \A q \in Range(talist[t]) : Keeps(t, q)
      /\ \A t \in Server : \A q \in Range(failed[t]) : Keeps(t, q)
      /\ \A e \in Edge : \A m \in Range(chan'[e]) : Goes(e[1], e[2], m)'
      /\ \A t, q : Keeps(t, q)' <=> Keeps(t, q)
  BY <1>1, <1>3, SameGoes DEF Routes
<1>9. CASE failed[s] = <<>>
  <2>1. phase' = [phase EXCEPT ![s] = "wait"] /\ UNCHANGED <<talist, failed>>
    BY <1>9 DEF RetryEnd
  <2>2. TypeOK'
    BY <1>1, <1>2, <1>4, <2>1, SameTypes
  <2>3. Routes'
    BY <1>8, <2>1 DEF Routes
  <2>4. OneAnswer'
    <3>1. \A n \in Node : Asked(n)' = Asked(n)
      BY <1>3, <2>1 DEF Asked
    <3> QED
      BY <1>1, <1>3, <3>1, OneAnswerKept
  <2>5. Retried'
    <3>1. \A x \in Server : phase'[x] = IF x = s THEN "wait" ELSE phase[x]
      BY <1>4, <2>1
    <3>2. ASSUME NEW x \in Server
          PROVE  /\ \A q \in Range(failed[x]) : MayFail(x, q.from)
                 /\ phase'[x] # "retry" => \A q \in Range(talist[x]) : MayFail(x, q.from)
                 /\ phase'[x] = "wait" => failed[x] = <<>>
      BY <1>1, <1>6, <1>9, <3>1 DEF Retried
    <3> QED
      BY <1>7, <2>1, <3>2 DEF Retried
  <2> QED
    BY <1>5, <2>2, <2>3, <2>4, <2>5 DEF IInv
<1>10. CASE failed[s] # <<>>
  <2>1. /\ phase' = [phase EXCEPT ![s] = IF Len(failed[s]) = 1 THEN "wait" ELSE "return"]
        /\ talist' = [talist EXCEPT ![s] = Push(s, @, Head(failed[s]))]
        /\ failed' = [failed EXCEPT ![s] = Tail(@)]
    BY <1>10 DEF RetryEnd
  <2>2. PICK d, g, r : d = talist' /\ g = failed' /\ r = Head(failed[s])
    OBVIOUS
  <2>3. Dropped(failed, g, s)
    BY <1>4, <1>10, <2>1, <2>2, PopDrops
  <2>4. /\ Family(Server, Request, failed') /\ \A t \in Server \ {s} : failed'[t] = failed[t]
        /\ \A M : Num(Server, failed, M) = Num(Server, failed', M) + At(Server, M, s, r)
        /\ \A t \in Server : \A q \in Range(failed'[t]) : q \in Range(failed[t])
        /\ r \in Range(failed[s]) /\ r \in Request
    BY <2>2, <2>3 DEF Dropped
  <2>5. Inserted(talist, d, s, r)
    <3>1. d = [talist EXCEPT ![s] = Push(s, @, r)]
      BY <2>1, <2>2
    <3> QED
      BY <1>4, <2>4, <3>1, PushInserts
  <2>6. /\ Family(Server, Request, talist') /\ \A t \in Server \ {s} : talist'[t] = talist[t]
        /\ \A M : Num(Server, talist', M) = Num(Server, talist, M) + At(Server, M, s, r)
        /\ \A t \in Server : \A q \in Range(talist'[t]) : (t = s /\ q = r) \/ q \in Range(talist[t])
    BY <2>2, <2>5 DEF Inserted
  <2>7. /\ \A x \in Server \ {s} : phase'[x] = phase[x]
        /\ phase' \in [Server -> {"wait", "retry", "return"}]
        /\ phase'[s] = "wait" => Len(failed[s]) = 1
    BY <1>4, <2>1
  <2>8. TypeOK'
    BY <1>1, <1>2, <2>4, <2>6, <2>7, SameTypes
  <2>9. Routes'
    BY <1>8, <2>4, <2>6 DEF Routes
  <2>10. OneAnswer'
    <3>1. ASSUME NEW n \in Node
          PROVE  Asked(n)' = Asked(n)
      <4>1. PICK K \in 0..1 : K = At(Server, KeptBy(n), s, r)
        BY DEF At
      <4>2. PICK T, F, F1 : /\ T = Num(Server, talist, KeptBy(n)) /\ F = Num(Server, failed, KeptBy(n))
                            /\ F1 = Num(Server, failed', KeptBy(n))
        OBVIOUS
      <4>3. T \in Nat /\ F \in Nat /\ F1 \in Nat /\ Num(Edge, chan, RequestsBy(n)) \in Nat
        BY <1>1, <2>4, <4>2, Counts, Finite, FinitePositions
      <4>4. Num(Server, talist', KeptBy(n)) = T + K /\ F = F1 + K
        BY <2>4, <2>6, <4>1, <4>2
      <4>5. Num(Edge, chan, RequestsBy(n)) + (T + K) + F1 = Num(Edge, chan, RequestsBy(n)) + T + F
        BY <4>1, <4>3, <4>4
      <4>6. Num(Edge, chan', RequestsBy(n)) = Num(Edge, chan, RequestsBy(n))
        BY <1>3
      <4> QED
        BY <4>2, <4>4, <4>5, <4>6 DEF Asked
    <3> QED
      BY <1>1, <1>3, <3>1, OneAnswerKept
  <2>11. Retried'
    <3>1. ASSUME NEW x \in Server, NEW q \in Range(failed'[x])
          PROVE  MayFail(x, q.from)'
      BY <1>1, <1>7, <2>4 DEF Retried
    <3>2. ASSUME NEW x \in Server, phase'[x] # "retry", NEW q \in Range(talist'[x])
          PROVE  MayFail(x, q.from)'
      <4>1. CASE x = s
        BY <1>1, <1>6, <1>7, <2>4, <2>6, <4>1 DEF Retried
      <4>2. CASE x # s
        BY <1>1, <1>7, <2>6, <2>7, <3>2, <4>2 DEF Retried
      <4> QED
        BY <4>1, <4>2
    <3>3. ASSUME NEW x \in Server, phase'[x] = "wait"
          PROVE  failed'[x] = <<>>
      <4>1. CASE x = s
        <5>1. Len(failed[s]) = 1 /\ failed[s] \in Seq(Request)
          BY <1>4, <2>7, <3>3, <4>1, FamilyElement
        <5>2. failed'[s] = Tail(failed[s])
          BY <1>4, <2>1 DEF Family
        <5>3. Tail(failed[s]) \in Seq(Request) /\ Len(Tail(failed[s])) = 0
          BY <1>10, <5>1, HeadTailProperties
        <5> QED
          BY <4>1, <5>2, <5>3, EmptySeq
      <4>2. CASE x # s
        BY <1>1, <2>4, <2>7, <3>3, <4>2 DEF Retried
      <4> QED
        BY <4>1, <4>2
    <3> QED
      BY <3>1, <3>2, <3>3 DEF Retried
  <2> QED
    BY <1>5, <2>8, <2>9, <2>10, <2>11 DEF IInv
<1> QED
  BY <1>9, <1>10

-----------------------------------------------------------------------------
(* A server passes a message on, or drops it *)

AsManyRequests(put, f, m, take, e) ==
  \A n \in Node : up[n] => Plus(put, Edge, RequestsBy(n), f, m) = Minus(take, Edge, RequestsBy(n), e)
AsManyTasks(put, f, m, take, e) ==
  \A id \in SubTask :
    /\ Plus(put, Edge, Carrying(id), f, m) <= Minus(take, Edge, Carrying(id), e)
    /\ AllUp => Plus(put, Edge, Carrying(id), f, m) = Minus(take, Edge, Carrying(id), e)

LEMMA ServerMoves ==
  ASSUME TypeOK, Routes, OneAnswer, OnePlace, ~exited,
         UNCHANGED nodeVars, UNCHANGED talist, UNCHANGED failed,
         NEW take, NEW e, NEW c, Took(take, e, c),
         NEW put, NEW f, NEW m, Gave(put, c, f, m), put => Goes(f[1], f[2], m),
         AsManyRequests(put, f, m, take, e), AsManyTasks(put, f, m, take, e)
  PROVE  Routes' /\ OneAnswer' /\ OnePlace'
<1>1. UNCHANGED <<ask, up, sub, stack>> /\ Family(Edge, Msg, chan)
  BY TypeParts DEF nodeVars
<1>2. Routes'
  <2>1. /\ \A x \in Server : \A q \in Range(talist'[x]) : Keeps(x, q)
        /\ \A x \in Server : \A q \in Range(failed'[x]) : Keeps(x, q)
    BY DEF Routes
  <2> QED
    BY <1>1, <2>1, RoutesServer
<1>3. OneAnswer'
  <2>1. ASSUME NEW n \in Node, up[n], ~exited'
        PROVE  Asked(n)' = Asked(n)
    <3>1. PICK P, Q, N : /\ P = Plus(put, Edge, RequestsBy(n), f, m)
                         /\ Q = Minus(take, Edge, RequestsBy(n), e)
                         /\ N = Num(Edge, chan, RequestsBy(n))
      OBVIOUS
    <3>2. Num(Edge, chan', RequestsBy(n)) = N - Q + P /\ N \in Nat /\ P \in 0..1 /\ Q \in 0..1
      BY <1>1, <3>1, MovedNum
    <3>3. P = Q
      BY <2>1, <3>1 DEF AsManyRequests
    <3>4. Num(Edge, chan', RequestsBy(n)) = N
      BY <3>2, <3>3
    <3> QED
      BY <3>1, <3>4 DEF Asked
  <2> QED
    BY <1>1, <2>1, OneAnswerKept
<1>4. OnePlace'
  <2>1. UNCHANGED <<sub, stack, up>>
    BY <1>1
  <2> QED
    <3>1. \A id \in SubTask :
            /\ Plus(put, Edge, Carrying(id), f, m) <= Minus(take, Edge, Carrying(id), e)
            /\ AllUp => Plus(put, Edge, Carrying(id), f, m) = Minus(take, Edge, Carrying(id), e)
      BY DEF AsManyTasks
    <3> QED
      BY <2>1, <3>1, OnePlaceServer
<1> QED
  BY <1>2, <1>3, <1>4

LEMMA SentMoved ==
  ASSUME Family(Edge, Msg, chan), NEW take, NEW e, NEW c, Took(take, e, c),
         NEW put, NEW f, NEW m, Gave(put, c, f, m), NEW a, NEW b, <<a, b>> \in Edge, NEW K
  PROVE  /\ SentNo(a, b, K)' = SentNo(a, b, K) - Minus(take, {<<a, b>>}, OfKind(K), e)
                                + Plus(put, {<<a, b>>}, OfKind(K), f, m)
         /\ SentNo(a, b, K) \in Nat /\ SentNo(a, b, K)' \in Nat
         /\ Minus(take, {<<a, b>>}, OfKind(K), e) \in 0..1 /\ Plus(put, {<<a, b>>}, OfKind(K), f, m) \in 0..1
<1>1. {<<a, b>>} \in SUBSET Edge
  OBVIOUS
<1>2. /\ Num({<<a, b>>}, chan', OfKind(K)) = Num({<<a, b>>}, chan, OfKind(K))
           - Minus(take, {<<a, b>>}, OfKind(K), e) + Plus(put, {<<a, b>>}, OfKind(K), f, m)
      /\ Num({<<a, b>>}, chan, OfKind(K)) \in Nat /\ Num({<<a, b>>}, chan', OfKind(K)) \in Nat
      /\ Minus(take, {<<a, b>>}, OfKind(K), e) \in 0..1 /\ Plus(put, {<<a, b>>}, OfKind(K), f, m) \in 0..1
  BY <1>1, MovedNum
<1> QED
  BY <1>2 DEF SentNo

(* the answer taken is from h to s; what is put is sent by s, and no request *)
Answered(take, e, h, s) ==
  /\ take /\ e = <<h, s>>
  /\ Head(chan[e]).kind \in {"none", "task"} /\ Head(chan[e]) \in Msg
NotAsking(put, f, m, s) == put => f[1] = s /\ m.kind # "treq"

LEMMA RepliedUnreplied ==
  ASSUME TypeOK, UnrepliedNum, UNCHANGED up, NEW s \in Server, NEW h \in Links(s),
         unreplied' = RepliedBy(s, h),
         NEW take, NEW e, NEW c, Took(take, e, c), Answered(take, e, h, s),
         NEW put, NEW f, NEW m, Gave(put, c, f, m), NotAsking(put, f, m, s)
  PROVE  /\ UnrepliedNum' /\ unreplied' \in [Server -> [Host -> Int]]
         /\ \A t \in Server \ {s} : unreplied'[t] = unreplied[t]
         /\ h # Term => unreplied'[Top][Term] = unreplied[Top][Term]
         /\ unreplied'[s][h] = unreplied[s][h] - 1
<1>1. Family(Edge, Msg, chan) /\ unreplied \in [Server -> [Host -> Int]]
  BY TypeParts
<1>2. unreplied' = [unreplied EXCEPT ![s][h] = @ - 1] /\ h \in Host
  BY Tree DEF RepliedBy
<1>3. ASSUME NEW t \in Server, NEW n \in ChildrenOf(t) \cap Node, up[n]
      PROVE  unreplied'[t][n] = SentNo(t, n, {"treq"})' + SentNo(n, t, {"none", "task"})'
  <2>1. /\ <<t, n>> \in Edge /\ <<n, t>> \in Edge /\ {<<t, n>>} \in SUBSET Edge
        /\ {<<n, t>>} \in SUBSET Edge /\ n \in Host /\ n \notin Server /\ n # Term
    BY Edges, Tree DEF Links, Host
  <2>2. PICK K \in 0..1 : K = IF t = s /\ n = h THEN 1 ELSE 0
    OBVIOUS
  <2>3. Minus(take, {<<t, n>>}, OfKind({"treq"}), e) = 0
    BY <2>1 DEF Minus, At, Answered
  <2>4. Plus(put, {<<t, n>>}, OfKind({"treq"}), f, m) = 0
    BY DEF Plus, At, OfKind, NotAsking
  <2>5. Plus(put, {<<n, t>>}, OfKind({"none", "task"}), f, m) = 0
    BY <2>1 DEF Plus, At, NotAsking
  <2>6. Minus(take, {<<n, t>>}, OfKind({"none", "task"}), e) = K
    <3>1. Head(chan[e]) \in OfKind({"none", "task"})
      BY DEF OfKind, Answered
    <3> QED
      BY <2>2, <3>1 DEF Minus, At, Answered
  <2>7. PICK A, A1, B, B1 :
          /\ A = SentNo(t, n, {"treq"}) /\ A1 = SentNo(t, n, {"treq"})'
          /\ B = SentNo(n, t, {"none", "task"}) /\ B1 = SentNo(n, t, {"none", "task"})'
    OBVIOUS
  <2>8. A1 = A /\ A \in Nat
    BY <1>1, <2>1, <2>3, <2>4, <2>7, SentMoved
  <2>9. B1 = B - K /\ B \in Nat
    BY <1>1, <2>1, <2>2, <2>5, <2>6, <2>7, SentMoved
  <2>10. unreplied[t][n] = A + B
    BY <1>3, <2>7 DEF UnrepliedNum
  <2>11. unreplied'[t][n] = unreplied[t][n] - K
    <3>1. unreplied[t][n] \in Int
      BY <1>1, <2>1
    <3>2. CASE t = s /\ n = h
      BY <1>1, <1>2, <2>1, <2>2, <3>2
    <3>3. CASE ~(t = s /\ n = h)
      <4>1. unreplied'[t][n] = unreplied[t][n]
        BY <1>1, <1>2, <2>1, <3>3
      <4> QED
        BY <2>2, <3>1, <3>3, <4>1
    <3> QED
      BY <3>2, <3>3
  <2>12. unreplied'[t][n] = A1 + B1
    BY <2>2, <2>8, <2>9, <2>10, <2>11
  <2> QED
    BY <2>7, <2>12
<1>4. UnrepliedNum'
  BY <1>3 DEF UnrepliedNum
<1>5. Term \in Host /\ Top \in Server
  BY TopIs DEF Host
<1> QED
  BY <1>1, <1>2, <1>4, <1>5

(* none takes the way of its request back *)
LEMMA ProcNoneStep ==
  ASSUME IInv, ~exited, NEW s \in Server, NEW h \in Links(s), ProcNone(s, h)
  PROVE  IInv'
<1>1. /\ TypeOK /\ Routes /\ Nodes /\ OneAnswer /\ OnePlace /\ FirstTask
      /\ DiffsNum /\ UnrepliedNum /\ OneTaskAtATime /\ Retried
  BY DEF IInv
<1>2. /\ Handles(s, h, "none") /\ unreplied' = RepliedBy(s, h)
      /\ UNCHANGED <<talist, failed, diff, pdiff, valid>> /\ UNCHANGED termVars /\ UNCHANGED nodeVars
  BY DEF ProcNone
<1>3. PICK m \in Msg : \E c :
        /\ m = Received(h, s) /\ m = Head(chan[<<h, s>>]) /\ c = Taken(h, s) /\ m.kind = "none"
        /\ Took(TRUE, <<h, s>>, c) /\ Family(Edge, Msg, c) /\ Goes(h, s, m)
        /\ <<h, s>> \in Edge /\ phase[s] = "wait" /\ phase' = [phase EXCEPT ![s] = "retry"]
  BY <1>1, <1>2, HandlesMsg
<1>4. PICK c :
        /\ m = Received(h, s) /\ m = Head(chan[<<h, s>>]) /\ c = Taken(h, s) /\ m.kind = "none"
        /\ Took(TRUE, <<h, s>>, c) /\ Family(Edge, Msg, c) /\ Goes(h, s, m)
        /\ <<h, s>> \in Edge /\ phase[s] = "wait" /\ phase' = [phase EXCEPT ![s] = "retry"]
  BY <1>3
<1>5. h # Term /\ m.to \in Path /\ m.by \in Node /\ Way(s, m.to, m.by)
  BY <1>4, MsgParts DEF Goes
<1>6. PICK to, p : to = Head(m.to) /\ p = Tail(m.to)
  OBVIOUS
<1>7. /\ to \in Links(s) /\ to # Term /\ p \in Path /\ Way(to, p, m.by)
      /\ Invalid(to) => to = m.by /\ ~up[m.by]
  BY <1>1, <1>5, <1>6, Forward
<1>8. PICK g \in Msg : g = none(p, m.by) /\ g.kind = "none" /\ g.to = p /\ g.by = m.by
  BY <1>5, <1>7, MsgMade
<1>9. chan' = Send(c, s, to, g)
  BY <1>4, <1>6, <1>8 DEF ProcNone
<1>10. PICK put, take, e, f : /\ put = (~Invalid(to) /\ to # Term) /\ take = TRUE
                              /\ e = <<h, s>> /\ f = <<s, to>>
  OBVIOUS
<1>11. /\ Took(take, e, c) /\ Gave(put, c, f, g) /\ take /\ Head(chan[e]) = m
       /\ e[1] = h /\ e[2] = s /\ f[1] = s /\ f[2] = to
  BY <1>4, <1>7, <1>9, <1>10, SendIs
<1>12. /\ Family(Edge, Msg, chan) /\ Family(Edge, Msg, chan') /\ e \in Edge /\ f \in Edge
  BY <1>1, <1>4, <1>7, <1>10, <1>11, TypeParts, MovedElements, Edges
<1>13. UNCHANGED <<ask, stack, sub, wrack, up, used>> /\ UNCHANGED <<respond, taskHome, exited>>
  BY <1>2 DEF nodeVars, termVars
<1>14. Routes' /\ OneAnswer' /\ OnePlace'
  <2>1. put => Goes(f[1], f[2], g)
    BY <1>7, <1>8, <1>11, Tree DEF Goes
  <2>2. AsManyRequests(put, f, g, take, e)
    <3>1. ASSUME NEW n \in Node, up[n]
          PROVE  Plus(put, Edge, RequestsBy(n), f, g) = Minus(take, Edge, RequestsBy(n), e)
      <4>1. g \in RequestsBy(n) <=> n = m.by
        BY <1>8 DEF RequestsBy
      <4>2. m \in RequestsBy(n) <=> n = m.by
        BY <1>4 DEF RequestsBy
      <4>3. n = m.by => put
        BY <1>7, <1>10, <3>1
      <4> QED
        BY <1>11, <1>12, <4>1, <4>2, <4>3 DEF Plus, Minus, At
    <3> QED
      BY <3>1 DEF AsManyRequests
  <2>3. AsManyTasks(put, f, g, take, e)
    <3>1. ASSUME NEW id
          PROVE  Plus(put, Edge, Carrying(id), f, g) = 0 /\ Minus(take, Edge, Carrying(id), e) = 0
      <4>1. g \notin Carrying(id) /\ m \notin Carrying(id)
        BY <1>4, <1>8 DEF Carrying
      <4> QED
        BY <1>11, <4>1 DEF Plus, Minus, At
    <3> QED
      BY <3>1 DEF AsManyTasks
  <2>4. UNCHANGED talist /\ UNCHANGED failed
    BY <1>2
  <2> QED
    BY <1>1, <1>2, <1>11, <2>1, <2>2, <2>3, <2>4, ServerMoves
<1>15. /\ UnrepliedNum' /\ unreplied' \in [Server -> [Host -> Int]]
       /\ \A t \in Server \ {s} : unreplied'[t] = unreplied[t]
       /\ unreplied'[Top][Term] = unreplied[Top][Term]
  <2>1. UNCHANGED up /\ Answered(take, e, h, s) /\ NotAsking(put, f, g, s)
    BY <1>4, <1>8, <1>10, <1>11, <1>13 DEF Answered, NotAsking
  <2> QED
    BY <1>1, <1>2, <1>5, <1>11, <2>1, RepliedUnreplied
<1>16. FirstTask'
  <2>1. UNCHANGED <<respond, taskHome, exited, stack>> /\ pdiff'[Top] = pdiff[Top]
    BY <1>2, <1>13
  <2>2. (take => e # <<Term, Top>>) /\ (put => f # <<Term, Top>>)
    BY <1>5, <1>10, Tree
  <2>3. Plus(put, Edge, Carrying(0), f, g) <= Minus(take, Edge, Carrying(0), e)
    <3>1. g \notin Carrying(0) /\ m \notin Carrying(0)
      BY <1>4, <1>8 DEF Carrying
    <3>2. Plus(put, Edge, Carrying(0), f, g) = 0 /\ Minus(take, Edge, Carrying(0), e) = 0
      BY <1>11, <3>1 DEF Plus, Minus, At
    <3> QED
      BY <3>2
  <2> QED
    BY <1>1, <1>11, <1>15, <2>1, <2>2, <2>3, FirstQuiet
<1>17. DiffsNum'
  <2>1. UNCHANGED <<diff, pdiff, stack>>
    BY <1>2, <1>13
  <2>2. (take => Neutral(e, Head(chan[e]))) /\ (put => Neutral(f, g))
    BY <1>4, <1>8, <1>11 DEF Neutral
  <2> QED
    BY <1>1, <1>11, <2>1, <2>2, DiffsQuiet
<1>18. Nodes' /\ OneTaskAtATime'
  <2>1. Nodes'
    BY <1>1, <1>2, <1>13, SameNodes
  <2> QED
    BY <1>1, <1>2, <1>15, <2>1 DEF OneTaskAtATime
<1>19. Retried'
  <2>1. \A t \in Server \ {s} : /\ talist'[t] = talist[t] /\ diff'[t] = diff[t]
                                /\ pdiff'[t] = pdiff[t] /\ unreplied'[t] = unreplied[t]
    BY <1>2, <1>15
  <2>2. UNCHANGED failed
    BY <1>2
  <2> QED
    BY <1>1, <1>4, <1>15, <2>1, <2>2, ProcRetried
<1>20. TypeOK'
  <2>1. phase' \in [Server -> {"wait", "retry", "return"}]
    BY <1>1, <1>4 DEF TypeOK
  <2> QED
    BY <1>1, <1>2, <1>12, <1>13, <1>15, <2>1, TypeParts, TypePartsNext
<1> QED
  BY <1>14, <1>15, <1>16, <1>17, <1>18, <1>19, <1>20 DEF IInv

LEMMA ProcRackStep ==
  ASSUME IInv, ~exited, NEW s \in Server, NEW h \in Links(s), ProcRack(s, h)
  PROVE  IInv'
<1>1. /\ TypeOK /\ Routes /\ Nodes /\ OneAnswer /\ OnePlace /\ FirstTask
      /\ DiffsNum /\ UnrepliedNum /\ OneTaskAtATime /\ Retried
  BY DEF IInv
<1>2. /\ Handles(s, h, "rack") /\ UNCHANGED unreplied
      /\ UNCHANGED <<talist, failed, diff, pdiff, valid>> /\ UNCHANGED termVars /\ UNCHANGED nodeVars
  BY DEF ProcRack
<1>3. PICK m \in Msg : \E c :
        /\ m = Received(h, s) /\ m = Head(chan[<<h, s>>]) /\ c = Taken(h, s) /\ m.kind = "rack"
        /\ Took(TRUE, <<h, s>>, c) /\ Family(Edge, Msg, c) /\ Goes(h, s, m)
        /\ <<h, s>> \in Edge /\ phase[s] = "wait" /\ phase' = [phase EXCEPT ![s] = "retry"]
  BY <1>1, <1>2, HandlesMsg
<1>4. PICK c :
        /\ m = Received(h, s) /\ m = Head(chan[<<h, s>>]) /\ c = Taken(h, s) /\ m.kind = "rack"
        /\ Took(TRUE, <<h, s>>, c) /\ Family(Edge, Msg, c) /\ Goes(h, s, m)
        /\ <<h, s>> \in Edge /\ phase[s] = "wait" /\ phase' = [phase EXCEPT ![s] = "retry"]
  BY <1>3
<1>5. h # Term /\ m.to \in Path /\ m.id \in Task /\ \E x \in Node : Way(s, m.to, x)
  BY <1>4, MsgParts DEF Goes, WayToNode
<1>6. PICK to, p : to = Head(m.to) /\ p = Tail(m.to)
  OBVIOUS
<1>7. to \in Links(s) /\ to # Term /\ p \in Path /\ WayToNode(to, p)
  <2>1. PICK x \in Node : Way(s, m.to, x)
    BY <1>5
  <2>2. to \in Links(s) /\ to # Term /\ p \in Path /\ Way(to, p, x)
    BY <1>1, <1>5, <1>6, <2>1, Forward
  <2> QED
    BY <2>2 DEF WayToNode
<1>8. PICK g \in Msg : g = rack(p, m.id) /\ g.kind = "rack" /\ g.to = p
  BY <1>5, <1>7, MsgMade
<1>9. chan' = Send(c, s, to, g)
  BY <1>4, <1>6, <1>8 DEF ProcRack
<1>10. PICK put, take, e, f : /\ put = (~Invalid(to) /\ to # Term) /\ take = TRUE
                              /\ e = <<h, s>> /\ f = <<s, to>>
  OBVIOUS
<1>11. /\ Took(take, e, c) /\ Gave(put, c, f, g) /\ take /\ Head(chan[e]) = m
       /\ e[1] = h /\ e[2] = s /\ f[1] = s /\ f[2] = to
  BY <1>4, <1>7, <1>9, <1>10, SendIs
<1>12. /\ Family(Edge, Msg, chan) /\ Family(Edge, Msg, chan') /\ e \in Edge /\ f \in Edge
  BY <1>1, <1>4, <1>7, <1>10, <1>11, TypeParts, MovedElements, Edges
<1>13. UNCHANGED <<ask, stack, sub, wrack, up, used>> /\ UNCHANGED <<respond, taskHome, exited>>
  BY <1>2 DEF nodeVars, termVars
<1>14. Routes' /\ OneAnswer' /\ OnePlace'
  <2>1. put => Goes(f[1], f[2], g)
    BY <1>7, <1>8, <1>11, Tree DEF Goes
  <2>2. AsManyRequests(put, f, g, take, e)
    <3>1. ASSUME NEW n
          PROVE  Plus(put, Edge, RequestsBy(n), f, g) = 0 /\ Minus(take, Edge, RequestsBy(n), e) = 0
      <4>1. g \notin RequestsBy(n) /\ m \notin RequestsBy(n)
        BY <1>4, <1>8 DEF RequestsBy
      <4> QED
        BY <1>11, <4>1 DEF Plus, Minus, At
    <3> QED
      BY <3>1 DEF AsManyRequests
  <2>3. AsManyTasks(put, f, g, take, e)
    <3>1. ASSUME NEW id
          PROVE  Plus(put, Edge, Carrying(id), f, g) = 0 /\ Minus(take, Edge, Carrying(id), e) = 0
      <4>1. g \notin Carrying(id) /\ m \notin Carrying(id)
        BY <1>4, <1>8 DEF Carrying
      <4> QED
        BY <1>11, <4>1 DEF Plus, Minus, At
    <3> QED
      BY <3>1 DEF AsManyTasks
  <2>4. UNCHANGED talist /\ UNCHANGED failed
    BY <1>2
  <2> QED
    BY <1>1, <1>2, <1>11, <2>1, <2>2, <2>3, <2>4, ServerMoves
<1>15. UnrepliedNum'
  <2>1. UNCHANGED up /\ \A t \in Server : \A n \in Node : unreplied'[t][n] = unreplied[t][n]
    BY <1>2, <1>13
  <2>2. (take => NoReply(e, Head(chan[e]))) /\ (put => NoReply(f, g))
    BY <1>4, <1>8, <1>11 DEF NoReply
  <2> QED
    BY <1>1, <1>11, <2>1, <2>2, UnrepliedQuiet
<1>16. FirstTask'
  <2>1. /\ UNCHANGED <<respond, taskHome, exited, stack>> /\ pdiff'[Top] = pdiff[Top]
        /\ unreplied'[Top][Term] = unreplied[Top][Term]
    BY <1>2, <1>13
  <2>2. (take => e # <<Term, Top>>) /\ (put => f # <<Term, Top>>)
    BY <1>5, <1>10, Tree
  <2>3. Plus(put, Edge, Carrying(0), f, g) <= Minus(take, Edge, Carrying(0), e)
    <3>1. g \notin Carrying(0) /\ m \notin Carrying(0)
      BY <1>4, <1>8 DEF Carrying
    <3>2. Plus(put, Edge, Carrying(0), f, g) = 0 /\ Minus(take, Edge, Carrying(0), e) = 0
      BY <1>11, <3>1 DEF Plus, Minus, At
    <3> QED
      BY <3>2
  <2> QED
    BY <1>1, <1>11, <2>1, <2>2, <2>3, FirstQuiet
<1>17. DiffsNum'
  <2>1. UNCHANGED <<diff, pdiff, stack>>
    BY <1>2, <1>13
  <2>2. (take => Neutral(e, Head(chan[e]))) /\ (put => Neutral(f, g))
    BY <1>4, <1>8, <1>11 DEF Neutral
  <2> QED
    BY <1>1, <1>11, <2>1, <2>2, DiffsQuiet
<1>18. Nodes' /\ OneTaskAtATime'
  <2>1. Nodes'
    BY <1>1, <1>2, <1>13, SameNodes
  <2> QED
    BY <1>1, <1>2, <2>1 DEF OneTaskAtATime
<1>19. unreplied' \in [Server -> [Host -> Int]]
  BY <1>1, <1>2 DEF TypeOK
<1>20. Retried'
  <2>1. \A t \in Server \ {s} : /\ talist'[t] = talist[t] /\ diff'[t] = diff[t]
                                /\ pdiff'[t] = pdiff[t] /\ unreplied'[t] = unreplied[t]
    BY <1>2
  <2>2. UNCHANGED failed
    BY <1>2
  <2> QED
    BY <1>1, <1>4, <1>19, <2>1, <2>2, ProcRetried
<1>21. TypeOK'
  <2>1. phase' \in [Server -> {"wait", "retry", "return"}]
    BY <1>1, <1>4 DEF TypeOK
  <2> QED
    BY <1>1, <1>2, <1>12, <1>13, <1>19, <2>1, TypeParts, TypePartsNext
<1> QED
  BY <1>14, <1>15, <1>16, <1>17, <1>18, <1>20, <1>21 DEF IInv

LEMMA ProcLeavStep ==
  ASSUME IInv, ~exited, NEW s \in Server, NEW h \in Links(s), h \in Node, ProcLeav(s, h)
  PROVE  IInv'
<1>1. /\ TypeOK /\ Routes /\ Nodes /\ OneAnswer /\ OnePlace /\ FirstTask
      /\ DiffsNum /\ UnrepliedNum /\ OneTaskAtATime /\ Retried
  BY DEF IInv
<1>2. /\ Handles(s, h, "leav") /\ UNCHANGED unreplied /\ valid' = [valid EXCEPT ![h] = FALSE]
      /\ UNCHANGED <<talist, failed, diff, pdiff>> /\ UNCHANGED termVars /\ UNCHANGED nodeVars
  BY DEF ProcLeav
<1>3. PICK m \in Msg : \E c :
        /\ m = Received(h, s) /\ m = Head(chan[<<h, s>>]) /\ c = Taken(h, s) /\ m.kind = "leav"
        /\ Took(TRUE, <<h, s>>, c) /\ Family(Edge, Msg, c) /\ Goes(h, s, m)
        /\ <<h, s>> \in Edge /\ phase[s] = "wait" /\ phase' = [phase EXCEPT ![s] = "retry"]
  BY <1>1, <1>2, HandlesMsg
<1>4. PICK c :
        /\ m = Received(h, s) /\ m = Head(chan[<<h, s>>]) /\ c = Taken(h, s) /\ m.kind = "leav"
        /\ Took(TRUE, <<h, s>>, c) /\ Family(Edge, Msg, c) /\ Goes(h, s, m)
        /\ <<h, s>> \in Edge /\ phase[s] = "wait" /\ phase' = [phase EXCEPT ![s] = "retry"]
  BY <1>3
<1>5. h # Term /\ ~up[h]
  BY <1>4, Tree DEF Goes
<1>10. PICK put, take, e, f, g : /\ put = FALSE /\ take = TRUE
                                 /\ e = <<h, s>> /\ f = <<s, h>> /\ g = m
  OBVIOUS
<1>11. /\ Took(take, e, c) /\ Gave(put, c, f, g) /\ take /\ Head(chan[e]) = m
       /\ e[1] = h /\ e[2] = s /\ f[1] = s /\ f[2] = h /\ ~put
  BY <1>4, <1>10 DEF ProcLeav, Gave
<1>30. Took(take, e, c) /\ Gave(put, c, f, g)
  BY <1>11
<1>12. /\ Family(Edge, Msg, chan) /\ Family(Edge, Msg, chan') /\ e \in Edge /\ f \in Edge
  BY <1>1, <1>4, <1>10, <1>11, TypeParts, MovedElements, Edges
<1>13. UNCHANGED <<ask, stack, sub, wrack, up, used>> /\ UNCHANGED <<respond, taskHome, exited>>
  BY <1>2 DEF nodeVars, termVars
<1>14. Routes' /\ OneAnswer' /\ OnePlace'
  <2>1. put => Goes(f[1], f[2], g)
    BY <1>11
  <2>2. AsManyRequests(put, f, g, take, e)
    <3>1. ASSUME NEW n
          PROVE  Plus(put, Edge, RequestsBy(n), f, g) = 0 /\ Minus(take, Edge, RequestsBy(n), e) = 0
      <4>1. m \notin RequestsBy(n)
        BY <1>4 DEF RequestsBy
      <4> QED
        BY <1>11, <4>1 DEF Plus, Minus, At
    <3> QED
      BY <3>1 DEF AsManyRequests
  <2>3. AsManyTasks(put, f, g, take, e)
    <3>1. ASSUME NEW id
          PROVE  Plus(put, Edge, Carrying(id), f, g) = 0 /\ Minus(take, Edge, Carrying(id), e) = 0
      <4>1. m \notin Carrying(id)
        BY <1>4 DEF Carrying
      <4> QED
        BY <1>11, <4>1 DEF Plus, Minus, At
    <3> QED
      BY <3>1 DEF AsManyTasks
  <2>4. UNCHANGED talist /\ UNCHANGED failed
    BY <1>2
  <2> QED
    BY <1>1, <1>2, <1>11, <2>1, <2>2, <2>3, <2>4, ServerMoves
<1>15. UnrepliedNum'
  <2>1. UNCHANGED up /\ \A t \in Server : \A n \in Node : unreplied'[t][n] = unreplied[t][n]
    BY <1>2, <1>13
  <2>2. (take => NoReply(e, Head(chan[e]))) /\ (put => NoReply(f, g))
    BY <1>4, <1>11 DEF NoReply
  <2> QED
    BY <1>1, <1>30, <2>1, <2>2, UnrepliedQuiet
<1>16. FirstTask'
  <2>1. /\ UNCHANGED <<respond, taskHome, exited, stack>> /\ pdiff'[Top] = pdiff[Top]
        /\ unreplied'[Top][Term] = unreplied[Top][Term]
    BY <1>2, <1>13
  <2>2. (take => e # <<Term, Top>>) /\ (put => f # <<Term, Top>>)
    BY <1>5, <1>10
  <2>3. Plus(put, Edge, Carrying(0), f, g) <= Minus(take, Edge, Carrying(0), e)
    <3>1. m \notin Carrying(0)
      BY <1>4 DEF Carrying
    <3>2. Plus(put, Edge, Carrying(0), f, g) = 0 /\ Minus(take, Edge, Carrying(0), e) = 0
      BY <1>11, <3>1 DEF Plus, Minus, At
    <3> QED
      BY <3>2
  <2> QED
    BY <1>1, <1>11, <2>1, <2>2, <2>3, FirstQuiet
<1>17. DiffsNum'
  <2>1. UNCHANGED <<diff, pdiff, stack>>
    BY <1>2, <1>13
  <2>2. (take => Neutral(e, Head(chan[e]))) /\ (put => Neutral(f, g))
    BY <1>4, <1>11 DEF Neutral
  <2> QED
    BY <1>1, <1>30, <2>1, <2>2, DiffsQuiet
<1>18. Nodes' /\ OneTaskAtATime'
  <2>1. \A n \in Node : ~valid'[n] => ~up[n]
    BY <1>1, <1>2, <1>5 DEF Nodes, TypeOK
  <2>2. Nodes'
    BY <1>1, <1>13, <2>1 DEF Nodes, WayHome, WayToNode, Way, HasSub
  <2> QED
    BY <1>1, <1>2, <2>2 DEF OneTaskAtATime
<1>19. unreplied' \in [Server -> [Host -> Int]]
  BY <1>1, <1>2 DEF TypeOK
<1>20. Retried'
  <2>1. \A t \in Server \ {s} : /\ talist'[t] = talist[t] /\ diff'[t] = diff[t]
                                /\ pdiff'[t] = pdiff[t] /\ unreplied'[t] = unreplied[t]
    BY <1>2
  <2>2. UNCHANGED failed
    BY <1>2
  <2> QED
    BY <1>1, <1>4, <1>19, <2>1, <2>2, ProcRetried
<1>21. TypeOK'
  <2>1. phase' \in [Server -> {"wait", "retry", "return"}] /\ valid' \in [Node -> BOOLEAN]
    BY <1>1, <1>2, <1>4 DEF TypeOK
  <2> QED
    BY <1>1, <1>2, <1>12, <1>13, <1>19, <2>1, TypeParts, TypePartsNext
<1> QED
  BY <1>14, <1>15, <1>16, <1>17, <1>18, <1>20, <1>21 DEF IInv

(* a task is passed on: its receiver has one more, its sender one less *)
TakesOne(take, e, h, s, kind) ==
  take /\ e = <<h, s>> /\ Head(chan[e]).kind = kind /\ Head(chan[e]) \in Msg
PassesOn(put, f, m, s, to, kind) ==
  (put <=> ~Invalid(to) /\ to # Term) /\ f = <<s, to>> /\ m.kind = kind /\ m \in Msg
CountsTask(s, h, to) ==
  /\ diff' = IF to \in ChildrenOf(s) THEN [diff EXCEPT ![s][to] = @ + 1] ELSE diff
  /\ pdiff' = IF h = Parent[s] THEN [pdiff EXCEPT ![s] = @ + 1] ELSE pdiff

LEMMA TaskDiffs ==
  ASSUME TypeOK, Nodes, DiffsNum, UNCHANGED stack, NEW s \in Server, NEW h \in Links(s), NEW to \in Links(s),
         NEW take, NEW e, NEW c, Took(take, e, c), TakesOne(take, e, h, s, "task"),
         NEW put, NEW f, NEW m, Gave(put, c, f, m), PassesOn(put, f, m, s, to, "task"),
         CountsTask(s, h, to)
  PROVE  DiffsNum'
<1>1. /\ Family(Edge, Msg, chan) /\ diff \in [Server -> [Node \cup Server -> Int]]
      /\ pdiff \in [Server -> Int] /\ Family(Node, Given, stack)
  BY TypeParts
<1>3. ASSUME NEW t \in Server, NEW x \in ChildrenOf(t) \ Leaver
      PROVE  diff'[t][x] = SentNo(t, x, {"task"})' + SentNo(x, t, {"rslt"})'
                             + IF x \in Node THEN Len(stack'[x]) ELSE pdiff'[x]
  <2>1. /\ <<t, x>> \in Edge /\ <<x, t>> \in Edge /\ x \in Node \cup Server /\ x # Term
        /\ (x \in Server => Parent[x] = t) /\ to \in Host /\ h \in Host
    BY Edges, Tree DEF Links
  <2>2. PICK K \in 0..1, L \in 0..1 : /\ K = (IF t = s /\ x = to THEN 1 ELSE 0)
                                      /\ L = (IF t = h /\ x = s THEN 1 ELSE 0)
    OBVIOUS
  <2>20. PICK A, A1 : A = SentNo(t, x, {"task"}) /\ A1 = SentNo(t, x, {"task"})'
    OBVIOUS
  <2>21. PICK B, B1 : B = SentNo(x, t, {"rslt"}) /\ B1 = SentNo(x, t, {"rslt"})'
    OBVIOUS
  <2>3. PICK R, R1 :
          /\ R = (IF x \in Node THEN Len(stack[x]) ELSE pdiff[x])
          /\ R1 = (IF x \in Node THEN Len(stack'[x]) ELSE pdiff'[x])
    OBVIOUS
  <2>4. Minus(take, {<<t, x>>}, OfKind({"task"}), e) = L
    <3>1. Head(chan[e]) \in OfKind({"task"})
      BY DEF OfKind, TakesOne
    <3> QED
      BY <2>2, <3>1 DEF Minus, At, TakesOne
  <2>5. Plus(put, {<<t, x>>}, OfKind({"task"}), f, m) = K
    <3>1. m \in OfKind({"task"})
      BY DEF OfKind, PassesOn
    <3>2. t = s /\ x = to => put
      BY <2>1 DEF Invalid, Nodes, PassesOn
    <3> QED
      BY <2>2, <3>1, <3>2 DEF Plus, At, PassesOn
  <2>6. Minus(take, {<<x, t>>}, OfKind({"rslt"}), e) = 0 /\ Plus(put, {<<x, t>>}, OfKind({"rslt"}), f, m) = 0
    BY DEF Minus, Plus, At, OfKind, TakesOne, PassesOn
  <2>7. A1 = A - L + K /\ A \in Nat
    BY <1>1, <2>1, <2>20, <2>4, <2>5, SentMoved
  <2>8. B1 = B - 0 + 0 /\ B \in Nat
    BY <1>1, <2>1, <2>21, <2>6, SentMoved
  <2>9. diff'[t][x] = diff[t][x] + K
    <3>1. diff[t][x] \in Int
      BY <1>1, <2>1
    <3>2. CASE t = s /\ x = to
      BY <1>1, <2>1, <2>2, <3>2 DEF CountsTask
    <3>3. CASE ~(t = s /\ x = to)
      <4>1. diff'[t][x] = diff[t][x]
        BY <1>1, <2>1, <3>3, Tree DEF CountsTask
      <4> QED
        BY <2>2, <3>1, <3>3, <4>1
    <3> QED
      BY <3>2, <3>3
  <2>10. R1 = R + L /\ R \in Int
    <3>1. CASE x \in Node
      <4>1. L = 0
        BY <2>2, <3>1, Tree
      <4>2. R \in Int
        BY <1>1, <2>3, <3>1, FamilyElement
      <4> QED
        BY <2>3, <3>1, <4>1, <4>2
    <3>2. CASE x \in Server
      <4>1. x \notin Node /\ R = pdiff[x] /\ R1 = pdiff'[x] /\ pdiff[x] \in Int
        BY <1>1, <2>3, <3>2, Tree
      <4>2. CASE x = s /\ t = h
        BY <1>1, <2>1, <2>2, <4>1, <4>2 DEF CountsTask
      <4>3. CASE ~(x = s /\ t = h)
        <5>1. pdiff'[x] = pdiff[x]
          BY <1>1, <2>1, <3>2, <4>3 DEF CountsTask
        <5> QED
          BY <2>2, <4>1, <4>3, <5>1
      <4> QED
        BY <4>2, <4>3
    <3> QED
      BY <2>1, <3>1, <3>2
  <2>11. diff[t][x] = A + B + R
    BY <1>3, <2>3, <2>20, <2>21 DEF DiffsNum
  <2>12. diff'[t][x] = A1 + B1 + R1
    BY <2>2, <2>7, <2>8, <2>9, <2>10, <2>11
  <2> QED
    BY <2>3, <2>12, <2>20, <2>21
<1> QED
  BY <1>3 DEF DiffsNum

LEMMA CountsTaskTypes ==
  ASSUME diff \in [Server -> [Node \cup Server -> Int]], pdiff \in [Server -> Int],
         NEW s \in Server, NEW h, NEW to, CountsTask(s, h, to)
  PROVE  /\ diff' \in [Server -> [Node \cup Server -> Int]] /\ pdiff' \in [Server -> Int]
         /\ \A t \in Server \ {s} : diff'[t] = diff[t] /\ pdiff'[t] = pdiff[t]
         /\ h = Parent[s] => pdiff'[s] = pdiff[s] + 1
         /\ h # Parent[s] => pdiff'[s] = pdiff[s]
<1>1. /\ diff' = IF to \in ChildrenOf(s) THEN [diff EXCEPT ![s][to] = @ + 1] ELSE diff
      /\ pdiff' = IF h = Parent[s] THEN [pdiff EXCEPT ![s] = @ + 1] ELSE pdiff
  BY DEF CountsTask
<1>2. /\ pdiff' \in [Server -> Int] /\ \A t \in Server \ {s} : pdiff'[t] = pdiff[t]
      /\ h = Parent[s] => pdiff'[s] = pdiff[s] + 1
      /\ h # Parent[s] => pdiff'[s] = pdiff[s]
  <2>1. CASE h = Parent[s]
    BY <1>1, <2>1
  <2>2. CASE h # Parent[s]
    BY <1>1, <2>2
  <2> QED
    BY <2>1, <2>2
<1>3. diff' \in [Server -> [Node \cup Server -> Int]] /\ \A t \in Server \ {s} : diff'[t] = diff[t]
  <2>1. CASE to \in ChildrenOf(s)
    <3>1. to \in Node \cup Server /\ diff' = [diff EXCEPT ![s][to] = @ + 1]
      BY <1>1, <2>1, Tree
    <3>2. PICK D : D = Node \cup Server
      OBVIOUS
    <3>3. PICK u : u = [diff[s] EXCEPT ![to] = @ + 1]
      OBVIOUS
    <3>4. diff[s] \in [D -> Int] /\ to \in D
      BY <3>1, <3>2
    <3>5. u \in [D -> Int]
      BY <3>3, <3>4
    <3>6. diff' = [diff EXCEPT ![s] = u] /\ diff \in [Server -> [D -> Int]]
      BY <3>1, <3>2, <3>3
    <3>7. diff' \in [Server -> [D -> Int]] /\ \A t \in Server \ {s} : diff'[t] = diff[t]
      BY <3>5, <3>6
    <3> QED
      BY <3>2, <3>7
  <2>2. CASE to \notin ChildrenOf(s)
    BY <1>1, <2>2
  <2> QED
    BY <2>1, <2>2
<1> QED
  BY <1>2, <1>3

(* the first task comes from the terminal *)
LEMMA FirstTaken ==
  ASSUME TypeOK, FirstTask, ~exited, UNCHANGED <<respond, exited, stack>>,
         NEW take, NEW e, NEW c, Took(take, e, c), TakesOne(take, e, Term, Top, "task"),
         NEW put, NEW f, NEW m, Gave(put, c, f, m), put => f # <<Term, Top>>,
         Plus(put, Edge, Carrying(0), f, m) <= Minus(take, Edge, Carrying(0), e),
         unreplied'[Top][Term] = unreplied[Top][Term] - 1, pdiff'[Top] = pdiff[Top] + 1,
         \E t \in taskHome' : taskHome' = {t} /\ TermHome(t)
  PROVE  FirstTask' /\ OneTaskAtATime'
<1>1. /\ Family(Edge, Msg, chan) /\ unreplied \in [Server -> [Host -> Int]] /\ pdiff[Top] \in Int
      /\ Top \in Server /\ Term \in Host /\ unreplied[Top][Term] \in Int /\ <<Term, Top>> \in Edge
  <2>1. Top \in Server /\ Term \in Host /\ <<Term, Top>> \in Edge
    BY TopIs, Edges DEF Host
  <2> QED
    BY <2>1, TypeParts
<1>2. /\ c[<<Term, Top>>] \in Seq(Msg) /\ Len(chan[<<Term, Top>>]) = Len(c[<<Term, Top>>]) + 1
      /\ Family(Edge, Msg, c)
  <2>1. PICK u : u = <<Term, Top>>
    OBVIOUS
  <2>2. Takes(chan, c, u)
    BY <2>1 DEF Took, TakesOne
  <2>3. c[u] \in Seq(Msg) /\ Len(chan[u]) = Len(c[u]) + 1 /\ Family(Edge, Msg, c)
    BY <2>2, TakesElements DEF Takes
  <2> QED
    BY <2>1, <2>3
<1>3. chan'[<<Term, Top>>] = c[<<Term, Top>>]
  <2>1. PICK u : u = <<Term, Top>>
    OBVIOUS
  <2>2. CASE put
    <3>1. Puts(c, chan', f, m) /\ f # u /\ u \in Edge
      BY <1>1, <2>1, <2>2 DEF Gave
    <3>2. chan'[u] = c[u]
      BY <3>1, PutsElements
    <3> QED
      BY <2>1, <3>2
  <2>3. CASE ~put
    BY <2>3 DEF Gave
  <2> QED
    BY <2>2, <2>3
<1>4. PICK N \in Nat : N = Len(c[<<Term, Top>>])
  BY <1>2, LenProperties
<1>5. /\ respond = "nil" /\ unreplied[Top][Term] + pdiff[Top] = 1 /\ unreplied[Top][Term] = N + 1
  BY <1>2, <1>4 DEF FirstTask
<1>6. Where(0)' <= 1
  <2>1. PICK P, Q, C, C1 : /\ P = Plus(put, Edge, Carrying(0), f, m) /\ Q = Minus(take, Edge, Carrying(0), e)
                           /\ C = Num(Edge, chan, Carrying(0)) /\ C1 = Num(Edge, chan', Carrying(0))
    OBVIOUS
  <2>2. C1 = C - Q + P /\ C \in Nat /\ P \in 0..1 /\ Q \in 0..1
    BY <1>1, <2>1, MovedNum
  <2>3. P <= Q /\ Running(0) + C <= 1 /\ Running(0) \in Nat
    BY <2>1, Counts DEF FirstTask, Where
  <2>4. Running(0) + C1 <= 1
    BY <2>2, <2>3
  <2> QED
    BY <2>1, <2>4 DEF Where, Running
<1>7. /\ unreplied'[Top][Term] = Len(chan'[<<Term, Top>>])
      /\ unreplied'[Top][Term] + pdiff'[Top] = 1
  BY <1>1, <1>3, <1>4, <1>5
<1>8. \E t \in taskHome' : taskHome' = {t} /\ TermHome(t)'
  BY DEF TermHome, WayToNode, Way
<1>9. FirstTask'
  BY <1>5, <1>6, <1>7, <1>8 DEF FirstTask
<1> QED
  BY <1>7, <1>9 DEF OneTaskAtATime

(* a task takes the way of its request back, and the way of its result grows *)
LEMMA ProcTaskStep ==
  ASSUME IInv, ~exited, NEW s \in Server, NEW h \in Links(s), ProcTask(s, h)
  PROVE  IInv'
<1>1. /\ TypeOK /\ Routes /\ Nodes /\ OneAnswer /\ OnePlace /\ FirstTask
      /\ DiffsNum /\ UnrepliedNum /\ OneTaskAtATime /\ Retried
  BY DEF IInv
<1>2. /\ Handles(s, h, "task") /\ unreplied' = RepliedBy(s, h)
      /\ UNCHANGED <<talist, failed, valid, respond, exited>> /\ UNCHANGED nodeVars
  BY DEF ProcTask
<1>3. PICK m \in Msg : \E c :
        /\ m = Received(h, s) /\ m = Head(chan[<<h, s>>]) /\ c = Taken(h, s) /\ m.kind = "task"
        /\ Took(TRUE, <<h, s>>, c) /\ Family(Edge, Msg, c) /\ Goes(h, s, m)
        /\ <<h, s>> \in Edge /\ phase[s] = "wait" /\ phase' = [phase EXCEPT ![s] = "retry"]
  BY <1>1, <1>2, HandlesMsg
<1>4. PICK c :
        /\ m = Received(h, s) /\ m = Head(chan[<<h, s>>]) /\ c = Taken(h, s) /\ m.kind = "task"
        /\ Took(TRUE, <<h, s>>, c) /\ Family(Edge, Msg, c) /\ Goes(h, s, m)
        /\ <<h, s>> \in Edge /\ phase[s] = "wait" /\ phase' = [phase EXCEPT ![s] = "retry"]
  BY <1>3
<1>5. /\ m.to \in Path /\ m.from \in Path /\ m.by \in Node /\ m.id \in Task /\ Way(s, m.to, m.by)
      /\ WayHome(h, m.from, m.id) /\ MadeFor(m.id, m.by) /\ (h = Term => m.id = 0)
  BY <1>4, MsgParts DEF Goes
<1>6. PICK to, p, q : to = Head(m.to) /\ p = Tail(m.to) /\ q = HeadPush(h, m.from)
  OBVIOUS
<1>7. /\ to \in Links(s) /\ to # Term /\ p \in Path /\ Way(to, p, m.by)
      /\ Invalid(to) => to = m.by /\ ~up[m.by]
  BY <1>1, <1>5, <1>6, Forward
<1>8. q \in Path /\ WayHome(s, q, m.id)
  <2>1. CASE m.id = 0
    BY <1>5, <1>6, <2>1, WayBack DEF WayHome
  <2>2. CASE m.id # 0
    <3>1. PICK x \in Node : Way(h, m.from, x) /\ HasSub(x, m.id)
      BY <1>5, <2>2 DEF WayHome
    <3>2. q \in Path /\ Way(s, q, x)
      BY <1>5, <1>6, <3>1, WayBack
    <3> QED
      BY <2>2, <3>1, <3>2 DEF WayHome
  <2> QED
    BY <2>1, <2>2
<1>9. PICK g \in Msg : /\ g = task(p, q, m.by, m.id) /\ g.kind = "task" /\ g.to = p /\ g.from = q
                       /\ g.by = m.by /\ g.id = m.id
  BY <1>5, <1>7, <1>8, MsgMade
<1>10. /\ chan' = Send(c, s, to, g) /\ CountsTask(s, h, to)
       /\ taskHome' = IF h = Term THEN {[to |-> to, head |-> p, no |-> 0]} ELSE taskHome
  BY <1>4, <1>6, <1>9 DEF ProcTask, CountsTask
<1>11. PICK put, take, e, f : /\ put = (~Invalid(to) /\ to # Term) /\ take = TRUE
                              /\ e = <<h, s>> /\ f = <<s, to>>
  OBVIOUS
<1>12. /\ Took(take, e, c) /\ Gave(put, c, f, g) /\ take /\ Head(chan[e]) = m
       /\ e[1] = h /\ e[2] = s /\ f[1] = s /\ f[2] = to
  BY <1>4, <1>7, <1>10, <1>11, SendIs
<1>13. Took(take, e, c) /\ Gave(put, c, f, g)
  BY <1>12
<1>14. /\ Family(Edge, Msg, chan) /\ Family(Edge, Msg, chan') /\ e \in Edge /\ f \in Edge
  BY <1>1, <1>4, <1>7, <1>11, <1>12, TypeParts, MovedElements, Edges
<1>15. UNCHANGED <<ask, stack, sub, wrack, up, used>> /\ UNCHANGED <<respond, exited>>
  BY <1>2 DEF nodeVars
<1>16. /\ TakesOne(take, e, h, s, "task") /\ PassesOn(put, f, g, s, to, "task")
       /\ Answered(take, e, h, s) /\ NotAsking(put, f, g, s)
  BY <1>4, <1>9, <1>11, <1>12 DEF TakesOne, PassesOn, Answered, NotAsking
<1>17. AsManyTasks(put, f, g, take, e) /\ Plus(put, Edge, Carrying(0), f, g) <= Minus(take, Edge, Carrying(0), e)
  <2>1. ASSUME NEW id
        PROVE  /\ Plus(put, Edge, Carrying(id), f, g) <= Minus(take, Edge, Carrying(id), e)
               /\ AllUp => Plus(put, Edge, Carrying(id), f, g) = Minus(take, Edge, Carrying(id), e)
    <3>1. g \in Carrying(id) <=> m \in Carrying(id)
      BY <1>4, <1>9 DEF Carrying
    <3>2. AllUp => put
      BY <1>5, <1>7, <1>11 DEF AllUp
    <3> QED
      BY <1>12, <1>14, <3>1, <3>2 DEF Plus, Minus, At
  <2> QED
    BY <2>1 DEF AsManyTasks
<1>18. Routes' /\ OneAnswer' /\ OnePlace'
  <2>1. put => Goes(f[1], f[2], g)
    BY <1>5, <1>7, <1>8, <1>9, <1>12, Tree DEF Goes
  <2>2. AsManyRequests(put, f, g, take, e)
    <3>1. ASSUME NEW n \in Node, up[n]
          PROVE  Plus(put, Edge, RequestsBy(n), f, g) = Minus(take, Edge, RequestsBy(n), e)
      <4>1. g \in RequestsBy(n) <=> n = m.by
        BY <1>9 DEF RequestsBy
      <4>2. m \in RequestsBy(n) <=> n = m.by
        BY <1>4 DEF RequestsBy
      <4>3. n = m.by => put
        BY <1>7, <1>11, <3>1
      <4> QED
        BY <1>12, <1>14, <4>1, <4>2, <4>3 DEF Plus, Minus, At
    <3> QED
      BY <3>1 DEF AsManyRequests
  <2>3. UNCHANGED talist /\ UNCHANGED failed
    BY <1>2
  <2> QED
    BY <1>1, <1>2, <1>13, <1>17, <2>1, <2>2, <2>3, ServerMoves
<1>19. /\ UnrepliedNum' /\ unreplied' \in [Server -> [Host -> Int]]
       /\ \A t \in Server \ {s} : unreplied'[t] = unreplied[t]
       /\ h # Term => unreplied'[Top][Term] = unreplied[Top][Term]
       /\ unreplied'[s][h] = unreplied[s][h] - 1
  BY <1>1, <1>2, <1>13, <1>15, <1>16, RepliedUnreplied
<1>20. DiffsNum'
  BY <1>1, <1>7, <1>10, <1>13, <1>15, <1>16, TaskDiffs
<1>21. /\ diff' \in [Server -> [Node \cup Server -> Int]] /\ pdiff' \in [Server -> Int]
       /\ \A t \in Server \ {s} : diff'[t] = diff[t] /\ pdiff'[t] = pdiff[t]
       /\ h = Parent[s] => pdiff'[s] = pdiff[s] + 1
       /\ h # Parent[s] => pdiff'[s] = pdiff[s]
  <2>1. diff \in [Server -> [Node \cup Server -> Int]] /\ pdiff \in [Server -> Int]
    BY <1>1, TypeParts
  <2> QED
    BY <1>10, <2>1, CountsTaskTypes
<1>22. h = Term => s = Top /\ Parent[s] = Term
  BY <1>14, <1>11, NodeEdge, TopIs
<1>23. FirstTask' /\ OneTaskAtATime'
  <2>1. put => f # <<Term, Top>>
    BY <1>11, Tree
  <2>2. CASE h # Term
    <3>1. UNCHANGED <<respond, taskHome, exited, stack>>
      BY <1>10, <1>15, <2>2
    <3>2. pdiff'[Top] = pdiff[Top]
      BY <1>21, <2>2, TopIs
    <3>3. take => e # <<Term, Top>>
      BY <1>11, <2>2
    <3>4. unreplied'[Top][Term] = unreplied[Top][Term]
      BY <1>19, <2>2
    <3>5. FirstTask'
      BY <1>1, <1>13, <1>17, <2>1, <3>1, <3>2, <3>3, <3>4, FirstQuiet
    <3> QED
      BY <1>1, <3>2, <3>4, <3>5 DEF OneTaskAtATime
  <2>3. CASE h = Term
    <3>1. s = Top
      BY <1>22, <2>3
    <3>2. \E t \in taskHome' : taskHome' = {t} /\ TermHome(t)
      <4>1. PICK t : t = [to |-> to, head |-> p, no |-> 0]
        OBVIOUS
      <4>2. t.to = to /\ t.head = p /\ t.no = 0
        BY <4>1
      <4>3. TermHome(t)
        BY <1>5, <1>7, <3>1, <4>2 DEF TermHome, WayToNode
      <4> QED
        BY <1>10, <2>3, <4>1, <4>3
    <3>3. unreplied'[Top][Term] = unreplied[Top][Term] - 1 /\ pdiff'[Top] = pdiff[Top] + 1
      BY <1>19, <1>21, <1>22, <2>3
    <3>4. TakesOne(take, e, Term, Top, "task") /\ UNCHANGED <<respond, exited, stack>>
      BY <1>15, <1>16, <2>3, <3>1
    <3> QED
      BY <1>1, <1>13, <1>17, <2>1, <3>2, <3>3, <3>4, FirstTaken
  <2> QED
    BY <2>2, <2>3
<1>24. Nodes'
  BY <1>1, <1>2, <1>15, SameNodes
<1>25. Retried'
  <2>1. \A t \in Server \ {s} : /\ talist'[t] = talist[t] /\ diff'[t] = diff[t]
                                /\ pdiff'[t] = pdiff[t] /\ unreplied'[t] = unreplied[t]
    BY <1>2, <1>19, <1>21
  <2>2. UNCHANGED failed
    BY <1>2
  <2> QED
    BY <1>1, <1>4, <1>19, <2>1, <2>2, ProcRetried
<1>26. TypeOK'
  <2>1. phase' \in [Server -> {"wait", "retry", "return"}]
    BY <1>1, <1>4 DEF TypeOK
  <2>2. taskHome' \in SUBSET [to : Host, head : Path, no : 0..AutoResend]
    <3>1. to \in Host /\ 0 \in 0..AutoResend
      BY <1>7, Tree, TreeAssumption
    <3>2. [to |-> to, head |-> p, no |-> 0] \in [to : Host, head : Path, no : 0..AutoResend]
      BY <1>7, <3>1
    <3> QED
      BY <1>1, <1>10, <3>2 DEF TypeOK
  <2> QED
    BY <1>1, <1>2, <1>14, <1>15, <1>19, <1>21, <2>1, <2>2, TypeParts, TypePartsNext
<1> QED
  BY <1>18, <1>19, <1>20, <1>23, <1>24, <1>25, <1>26 DEF IInv

(* a result goes up: the child has one task less, and the server of its parent *)
PassesRslt(put, f, m, s, to) ==
  /\ to # Term => PassesOn(put, f, m, s, to, "rslt")
  /\ to = Term => m.kind \notin {"task", "rslt"}
CountsRslt(s, h, to) ==
  /\ diff' = IF h \in ChildrenOf(s) THEN [diff EXCEPT ![s][h] = @ - 1] ELSE diff
  /\ pdiff' = IF to = Parent[s] THEN [pdiff EXCEPT ![s] = @ - 1] ELSE pdiff

LEMMA CountsRsltTypes ==
  ASSUME diff \in [Server -> [Node \cup Server -> Int]], pdiff \in [Server -> Int],
         NEW s \in Server, NEW h, NEW to, CountsRslt(s, h, to)
  PROVE  /\ diff' \in [Server -> [Node \cup Server -> Int]] /\ pdiff' \in [Server -> Int]
         /\ \A t \in Server \ {s} : diff'[t] = diff[t] /\ pdiff'[t] = pdiff[t]
         /\ to = Parent[s] => pdiff'[s] = pdiff[s] - 1
         /\ to # Parent[s] => pdiff'[s] = pdiff[s]
<1>1. /\ diff' = IF h \in ChildrenOf(s) THEN [diff EXCEPT ![s][h] = @ - 1] ELSE diff
      /\ pdiff' = IF to = Parent[s] THEN [pdiff EXCEPT ![s] = @ - 1] ELSE pdiff
  BY DEF CountsRslt
<1>2. /\ pdiff' \in [Server -> Int] /\ \A t \in Server \ {s} : pdiff'[t] = pdiff[t]
      /\ to = Parent[s] => pdiff'[s] = pdiff[s] - 1
      /\ to # Parent[s] => pdiff'[s] = pdiff[s]
  <2>1. CASE to = Parent[s]
    BY <1>1, <2>1
  <2>2. CASE to # Parent[s]
    BY <1>1, <2>2
  <2> QED
    BY <2>1, <2>2
<1>3. diff' \in [Server -> [Node \cup Server -> Int]] /\ \A t \in Server \ {s} : diff'[t] = diff[t]
  <2>1. CASE h \in ChildrenOf(s)
    <3>1. h \in Node \cup Server /\ diff' = [diff EXCEPT ![s][h] = @ - 1]
      BY <1>1, <2>1, Tree
    <3>2. PICK D : D = Node \cup Server
      OBVIOUS
    <3>3. PICK u : u = [diff[s] EXCEPT ![h] = @ - 1]
      OBVIOUS
    <3>4. diff[s] \in [D -> Int] /\ h \in D
      BY <3>1, <3>2
    <3>5. u \in [D -> Int]
      BY <3>3, <3>4
    <3>6. diff' = [diff EXCEPT ![s] = u] /\ diff \in [Server -> [D -> Int]]
      BY <3>1, <3>2, <3>3
    <3>7. diff' \in [Server -> [D -> Int]] /\ \A t \in Server \ {s} : diff'[t] = diff[t]
      BY <3>5, <3>6
    <3> QED
      BY <3>2, <3>7
  <2>2. CASE h \notin ChildrenOf(s)
    BY <1>1, <2>2
  <2> QED
    BY <2>1, <2>2
<1> QED
  BY <1>2, <1>3

LEMMA RsltDiffs ==
  ASSUME TypeOK, Nodes, DiffsNum, UNCHANGED stack, NEW s \in Server, NEW h \in Links(s), NEW to \in Links(s),
         NEW take, NEW e, NEW c, Took(take, e, c), TakesOne(take, e, h, s, "rslt"),
         NEW put, NEW f, NEW m, Gave(put, c, f, m), PassesRslt(put, f, m, s, to),
         CountsRslt(s, h, to)
  PROVE  DiffsNum'
<1>1. /\ Family(Edge, Msg, chan) /\ diff \in [Server -> [Node \cup Server -> Int]]
      /\ pdiff \in [Server -> Int] /\ Family(Node, Given, stack)
  BY TypeParts
<1>3. ASSUME NEW t \in Server, NEW x \in ChildrenOf(t) \ Leaver
      PROVE  diff'[t][x] = SentNo(t, x, {"task"})' + SentNo(x, t, {"rslt"})'
                             + IF x \in Node THEN Len(stack'[x]) ELSE pdiff'[x]
  <2>1. /\ <<t, x>> \in Edge /\ <<x, t>> \in Edge /\ x \in Node \cup Server /\ x # Term /\ t # Term
        /\ (x \in Server => Parent[x] = t) /\ to \in Host /\ h \in Host /\ t \notin Node
    BY Edges, Tree DEF Links
  <2>2. PICK K \in 0..1, L \in 0..1 : /\ K = (IF t = s /\ x = h THEN 1 ELSE 0)
                                      /\ L = (IF t = to /\ x = s THEN 1 ELSE 0)
    OBVIOUS
  <2>20. PICK A, A1 : A = SentNo(t, x, {"task"}) /\ A1 = SentNo(t, x, {"task"})'
    OBVIOUS
  <2>21. PICK B, B1 : B = SentNo(x, t, {"rslt"}) /\ B1 = SentNo(x, t, {"rslt"})'
    OBVIOUS
  <2>3. PICK R, R1 :
          /\ R = (IF x \in Node THEN Len(stack[x]) ELSE pdiff[x])
          /\ R1 = (IF x \in Node THEN Len(stack'[x]) ELSE pdiff'[x])
    OBVIOUS
  <2>4. Minus(take, {<<x, t>>}, OfKind({"rslt"}), e) = K
    <3>1. Head(chan[e]) \in OfKind({"rslt"})
      BY DEF OfKind, TakesOne
    <3> QED
      BY <2>2, <3>1 DEF Minus, At, TakesOne
  <2>5. Plus(put, {<<x, t>>}, OfKind({"rslt"}), f, m) = L
    <3>1. CASE to = Term
      <4>1. m \notin OfKind({"rslt"}) /\ L = 0
        BY <2>1, <2>2, <3>1 DEF OfKind, PassesRslt
      <4> QED
        BY <4>1 DEF Plus, At
    <3>2. CASE to # Term
      <4>1. m \in OfKind({"rslt"}) /\ f = <<s, to>> /\ (put <=> ~Invalid(to) /\ to # Term)
        BY <3>2 DEF OfKind, PassesOn, PassesRslt
      <4>2. t = to => put
        BY <2>1, <3>2, <4>1 DEF Invalid
      <4> QED
        BY <2>2, <4>1, <4>2 DEF Plus, At
    <3> QED
      BY <3>1, <3>2
  <2>6. Minus(take, {<<t, x>>}, OfKind({"task"}), e) = 0 /\ Plus(put, {<<t, x>>}, OfKind({"task"}), f, m) = 0
    BY DEF Minus, Plus, At, OfKind, TakesOne, PassesOn, PassesRslt
  <2>7. B1 = B - K + L /\ B \in Nat
    BY <1>1, <2>1, <2>21, <2>4, <2>5, SentMoved
  <2>8. A1 = A - 0 + 0 /\ A \in Nat
    BY <1>1, <2>1, <2>20, <2>6, SentMoved
  <2>9. diff'[t][x] = diff[t][x] - K /\ diff[t][x] \in Int
    <3>1. diff[t][x] \in Int
      BY <1>1, <2>1
    <3>2. CASE t = s /\ x = h
      BY <1>1, <2>1, <2>2, <3>2 DEF CountsRslt
    <3>3. CASE ~(t = s /\ x = h)
      <4>1. diff'[t][x] = diff[t][x]
        BY <1>1, <2>1, <3>3, Tree DEF CountsRslt
      <4> QED
        BY <2>2, <3>1, <3>3, <4>1
    <3> QED
      BY <3>1, <3>2, <3>3
  <2>10. R1 = R - L /\ R \in Int
    <3>1. CASE x \in Node
      <4>1. L = 0
        BY <2>2, <3>1, Tree
      <4>2. R \in Int
        BY <1>1, <2>3, <3>1, FamilyElement
      <4> QED
        BY <2>3, <3>1, <4>1, <4>2
    <3>2. CASE x \in Server
      <4>1. x \notin Node /\ R = pdiff[x] /\ R1 = pdiff'[x] /\ pdiff[x] \in Int
        BY <1>1, <2>3, <3>2, Tree
      <4>2. CASE x = s /\ t = to
        BY <1>1, <2>1, <2>2, <4>1, <4>2 DEF CountsRslt
      <4>3. CASE ~(x = s /\ t = to)
        <5>1. pdiff'[x] = pdiff[x]
          BY <1>1, <2>1, <3>2, <4>3 DEF CountsRslt
        <5> QED
          BY <2>2, <4>1, <4>3, <5>1
      <4> QED
        BY <4>2, <4>3
    <3> QED
      BY <2>1, <3>1, <3>2
  <2>11. diff[t][x] = A + B + R
    BY <1>3, <2>3, <2>20, <2>21 DEF DiffsNum
  <2>12. diff'[t][x] = A1 + B1 + R1
    BY <2>2, <2>7, <2>8, <2>9, <2>10, <2>11
  <2> QED
    BY <2>3, <2>12, <2>20, <2>21
<1> QED
  BY <1>3 DEF DiffsNum

(* a result for the terminal: nothing else is out *)
LEMMA FirstDone ==
  ASSUME TypeOK, Routes, FirstTask, ~exited, NEW e \in Edge, NEW c, Took(TRUE, e, c),
         e # <<Term, Top>>, Head(chan[e]).kind = "rslt", Head(chan[e]).id = 0, Head(chan[e]) \in Msg
  PROVE  /\ respond = "nil" /\ unreplied[Top][Term] = 0 /\ pdiff[Top] = 1
         /\ chan[<<Term, Top>>] = <<>> /\ Running(0) = 0
         /\ Num(Edge, chan, Carrying(0)) = 1
         /\ \E t \in taskHome : taskHome = {t} /\ TermHome(t)
<1>1. /\ Takes(chan, c, e) /\ Family(Edge, Msg, chan) /\ Family(Edge, Msg, c)
      /\ pdiff[Top] \in Int /\ Top \in Server /\ <<Term, Top>> \in Edge
  <2>1. Top \in Server
    BY TopIs
  <2> QED
    BY <2>1, TypeParts, Edges DEF Took, Takes
<1>2. PICK C, D, R : C = Num(Edge, chan, Carrying(0)) /\ D = Num(Edge, c, Carrying(0)) /\ R = Running(0)
  OBVIOUS
<1>3. C = D + 1 /\ C \in Nat /\ D \in Nat
  <2>1. Head(chan[e]) \in Carrying(0)
    BY DEF Carrying
  <2>2. At(Edge, Carrying(0), e, Head(chan[e])) = 1
    BY <2>1 DEF At
  <2> QED
    BY <1>1, <1>2, <2>2, TakesNum
<1>4. R \in Nat /\ R + C <= 1
  BY <1>2, Counts DEF FirstTask, Where
<1>5. C = 1 /\ D = 0 /\ R = 0
  BY <1>3, <1>4
<1>6. \A x \in Edge : \A y \in Range(c[x]) : y \notin Carrying(0)
  BY <1>1, <1>2, <1>5, NumZero, Finite
<1>7. chan[<<Term, Top>>] = <<>>
  <2>1. PICK u \in Edge : u = <<Term, Top>>
    BY <1>1
  <2>2. c[u] = chan[u]
    BY <1>1, <2>1, TakesElements
  <2>3. SUFFICES ASSUME chan[u] # <<>>
                 PROVE  FALSE
    BY <2>1
  <2>4. PICK y : y = chan[u][1] /\ y \in Range(chan[u]) /\ y \in Msg
    BY <1>1, <2>3, FamilyElement DEF Range
  <2>5. Goes(u[1], u[2], y) /\ u[1] = Term
    BY <2>1, <2>4 DEF Routes
  <2>6. y.kind = "task" /\ y.id = 0
    BY <2>5 DEF Goes
  <2>7. y \in Carrying(0)
    BY <2>4, <2>6 DEF Carrying
  <2> QED
    BY <1>6, <2>2, <2>4, <2>7
<1>8. unreplied[Top][Term] = 0
  BY <1>7, EmptySeq DEF FirstTask
<1>9. Where(0) # 0
  BY <1>2, <1>5 DEF Where
<1>10. respond = "nil" /\ pdiff[Top] = 1
  BY <1>1, <1>8, <1>9 DEF FirstTask
<1>11. \E t \in taskHome : taskHome = {t} /\ TermHome(t)
  BY <1>10 DEF FirstTask
<1> QED
  BY <1>2, <1>5, <1>7, <1>8, <1>10, <1>11

(* what a result leaves alone, whoever it goes to *)
LEMMA RsltKeeps ==
  ASSUME IInv, ~exited, NEW s \in Server, NEW h \in Links(s), NEW to \in Links(s),
         Handles(s, h, "rslt"), UNCHANGED <<talist, failed, unreplied, valid>>, UNCHANGED nodeVars,
         CountsRslt(s, h, to),
         NEW take, NEW e, NEW c, Took(take, e, c), TakesOne(take, e, h, s, "rslt"),
         NEW put, NEW f, NEW m, Gave(put, c, f, m), PassesRslt(put, f, m, s, to),
         m.kind \in {"rslt", "rack"}, put => Goes(f[1], f[2], m), AsManyTasks(put, f, m, take, e)
  PROVE  /\ Routes' /\ OneAnswer' /\ OnePlace' /\ UnrepliedNum' /\ DiffsNum' /\ Nodes' /\ Retried'
         /\ Family(Edge, Msg, chan')
         /\ diff' \in [Server -> [Node \cup Server -> Int]] /\ pdiff' \in [Server -> Int]
         /\ unreplied' \in [Server -> [Host -> Int]]
         /\ phase' \in [Server -> {"wait", "retry", "return"}]
         /\ to = Parent[s] => pdiff'[s] = pdiff[s] - 1
         /\ to # Parent[s] => pdiff'[s] = pdiff[s]
         /\ \A t \in Server \ {s} : pdiff'[t] = pdiff[t]
<1>1. /\ TypeOK /\ Routes /\ Nodes /\ OneAnswer /\ OnePlace /\ FirstTask
      /\ DiffsNum /\ UnrepliedNum /\ OneTaskAtATime /\ Retried
  BY DEF IInv
<1>2. phase[s] = "wait" /\ phase' = [phase EXCEPT ![s] = "retry"]
  BY DEF Handles
<1>3. /\ UNCHANGED <<ask, stack, sub, wrack, up, used>> /\ UNCHANGED talist /\ UNCHANGED failed
      /\ UNCHANGED unreplied /\ UNCHANGED valid
  BY DEF nodeVars
<1>4. Family(Edge, Msg, chan) /\ Family(Edge, Msg, chan')
  BY <1>1, TypeParts, MovedElements
<1>5. Routes' /\ OneAnswer' /\ OnePlace'
  <2>1. AsManyRequests(put, f, m, take, e)
    <3>1. ASSUME NEW n
          PROVE  Plus(put, Edge, RequestsBy(n), f, m) = 0 /\ Minus(take, Edge, RequestsBy(n), e) = 0
      BY DEF Plus, Minus, At, RequestsBy, TakesOne
    <3> QED
      BY <3>1 DEF AsManyRequests
  <2> QED
    BY <1>1, <1>3, <2>1, ServerMoves
<1>6. UnrepliedNum'
  <2>1. UNCHANGED up /\ \A t \in Server : \A n \in Node : unreplied'[t][n] = unreplied[t][n]
    BY <1>3
  <2>2. (take => NoReply(e, Head(chan[e]))) /\ (put => NoReply(f, m))
    BY DEF NoReply, TakesOne
  <2> QED
    BY <1>1, <2>1, <2>2, UnrepliedQuiet
<1>7. DiffsNum'
  BY <1>1, <1>3, RsltDiffs
<1>8. Nodes'
  BY <1>1, <1>3, SameNodes
<1>9. unreplied' \in [Server -> [Host -> Int]] /\ phase' \in [Server -> {"wait", "retry", "return"}]
  BY <1>1, <1>2, <1>3 DEF TypeOK
<1>10. /\ diff' \in [Server -> [Node \cup Server -> Int]] /\ pdiff' \in [Server -> Int]
       /\ \A t \in Server \ {s} : diff'[t] = diff[t] /\ pdiff'[t] = pdiff[t]
       /\ to = Parent[s] => pdiff'[s] = pdiff[s] - 1
       /\ to # Parent[s] => pdiff'[s] = pdiff[s]
  <2>1. diff \in [Server -> [Node \cup Server -> Int]] /\ pdiff \in [Server -> Int]
    BY <1>1, TypeParts
  <2> QED
    BY <2>1, CountsRsltTypes
<1>11. Retried'
  <2>1. \A t \in Server \ {s} : /\ talist'[t] = talist[t] /\ diff'[t] = diff[t]
                                /\ pdiff'[t] = pdiff[t] /\ unreplied'[t] = unreplied[t]
    BY <1>3, <1>10
  <2> QED
    BY <1>1, <1>2, <1>3, <1>9, <2>1, ProcRetried
<1> QED
  BY <1>4, <1>5, <1>6, <1>7, <1>8, <1>9, <1>10, <1>11

LEMMA ProcRsltStep ==
  ASSUME AutoResend = 0, IInv, ~exited, NEW s \in Server, NEW h \in Links(s), ProcRslt(s, h)
  PROVE  IInv'
<1>1. /\ TypeOK /\ Routes /\ Nodes /\ OneAnswer /\ OnePlace /\ FirstTask
      /\ DiffsNum /\ UnrepliedNum /\ OneTaskAtATime /\ Retried
  BY DEF IInv
<1>2. /\ Handles(s, h, "rslt") /\ UNCHANGED <<talist, failed, unreplied, valid>> /\ UNCHANGED nodeVars
  BY DEF ProcRslt
<1>3. PICK m \in Msg : \E c :
        /\ m = Received(h, s) /\ m = Head(chan[<<h, s>>]) /\ c = Taken(h, s) /\ m.kind = "rslt"
        /\ Took(TRUE, <<h, s>>, c) /\ Family(Edge, Msg, c) /\ Goes(h, s, m)
        /\ <<h, s>> \in Edge /\ phase[s] = "wait" /\ phase' = [phase EXCEPT ![s] = "retry"]
  BY <1>1, <1>2, HandlesMsg
<1>4. PICK c :
        /\ m = Received(h, s) /\ m = Head(chan[<<h, s>>]) /\ c = Taken(h, s) /\ m.kind = "rslt"
        /\ Took(TRUE, <<h, s>>, c) /\ Family(Edge, Msg, c) /\ Goes(h, s, m)
        /\ <<h, s>> \in Edge /\ phase[s] = "wait" /\ phase' = [phase EXCEPT ![s] = "retry"]
  BY <1>3
<1>5. /\ h # Term /\ m.to \in Path /\ m.id \in Task /\ WayHome(s, m.to, m.id)
      /\ m.id = 0 \/ m.id \in SubTask
  BY <1>4, MsgParts, TaskIs DEF Goes
<1>6. PICK to, p : to = Head(m.to) /\ p = Tail(m.to)
  OBVIOUS
<1>7. /\ to \in Links(s) /\ p \in Path
      /\ to # Term => WayHome(to, p, m.id)
      /\ to = Term => m.id = 0 /\ p = <<>>
  <2>1. CASE m.id = 0
    <3>1. Way(s, m.to, Term)
      BY <1>5, <2>1 DEF WayHome
    <3>2. /\ m.to # <<>> /\ to \in Links(s) /\ p \in Path /\ Way(to, p, Term)
          /\ to \notin Server => to = Term /\ p = <<>>
      BY <1>5, <1>6, <3>1, WayForward
    <3> QED
      BY <2>1, <3>2, Tree DEF WayHome
  <2>2. CASE m.id # 0
    <3>1. PICK x \in Node : Way(s, m.to, x) /\ HasSub(x, m.id)
      BY <1>5, <2>2 DEF WayHome
    <3>2. to \in Links(s) /\ to # Term /\ p \in Path /\ Way(to, p, x)
      BY <1>1, <1>5, <1>6, <3>1, Forward
    <3> QED
      BY <2>2, <3>1, <3>2 DEF WayHome
  <2> QED
    BY <2>1, <2>2
<1>8. /\ CountsRslt(s, h, to)
      /\ IF to # Term
         THEN chan' = Send(c, s, to, rslt(p, m.id)) /\ UNCHANGED termVars
         ELSE \E home : /\ home = (CHOOSE t \in taskHome : TRUE)
                        /\ chan' = Send(c, s, home.to, rack(home.head, m.id))
                        /\ respond' = (IF home.no < AutoResend THEN "resend" ELSE "exit")
                        /\ taskHome' = (IF home.no < AutoResend THEN {[home EXCEPT !.no = @ + 1]} ELSE {})
                        /\ UNCHANGED exited
  BY <1>4, <1>6 DEF ProcRslt, ReturnedBy, CountsRslt, SendAgain
<1>16. CountsRslt(s, h, to)
  BY <1>8
<1>17. to \in Links(s)
  BY <1>7
<1>9. PICK take, e : take = TRUE /\ e = <<h, s>>
  OBVIOUS
<1>10. /\ Took(take, e, c) /\ TakesOne(take, e, h, s, "rslt") /\ Head(chan[e]) = m /\ e \in Edge
       /\ e # <<Term, Top>> /\ take
  BY <1>4, <1>5, <1>9 DEF TakesOne
<1>11. Took(take, e, c)
  BY <1>10
<1>12. Family(Edge, Msg, chan) /\ Top \in Server /\ <<Term, Top>> \in Edge
  BY <1>1, TypeParts, TopIs, Edges
<1>13. /\ UNCHANGED <<ask, stack, sub, wrack, up, used>> /\ UNCHANGED talist /\ UNCHANGED failed
       /\ UNCHANGED unreplied /\ UNCHANGED valid
  BY <1>2 DEF nodeVars
<1>14. CASE to # Term
  <2>1. PICK g \in Msg : g = rslt(p, m.id) /\ g.kind = "rslt" /\ g.to = p /\ g.id = m.id
    BY <1>5, <1>7, MsgMade
  <2>2. chan' = Send(c, s, to, g) /\ UNCHANGED <<respond, taskHome, exited>>
    BY <1>8, <1>14, <2>1 DEF termVars
  <2>3. PICK put, f : put = (~Invalid(to) /\ to # Term) /\ f = <<s, to>>
    OBVIOUS
  <2>4. Gave(put, c, f, g) /\ f \in Edge /\ f[1] = s /\ f[2] = to
    BY <1>4, <1>7, <2>2, <2>3, SendIs, Edges
  <2>5. PassesRslt(put, f, g, s, to)
    BY <1>14, <2>1, <2>3 DEF PassesRslt, PassesOn
  <2>6. put => Goes(f[1], f[2], g)
    BY <1>7, <1>14, <2>1, <2>4, Tree DEF Goes
  <2>7. AsManyTasks(put, f, g, take, e) /\ Plus(put, Edge, Carrying(0), f, g) <= Minus(take, Edge, Carrying(0), e)
    <3>1. ASSUME NEW id
          PROVE  /\ Plus(put, Edge, Carrying(id), f, g) <= Minus(take, Edge, Carrying(id), e)
                 /\ AllUp => Plus(put, Edge, Carrying(id), f, g) = Minus(take, Edge, Carrying(id), e)
      <4>1. g \in Carrying(id) <=> m \in Carrying(id)
        BY <1>4, <2>1 DEF Carrying
      <4>2. AllUp => put
        BY <1>1, <1>14, <2>3 DEF AllUp, Invalid, Nodes
      <4> QED
        BY <1>10, <2>4, <4>1, <4>2 DEF Plus, Minus, At
    <3> QED
      BY <3>1 DEF AsManyTasks
  <2>8. /\ Routes' /\ OneAnswer' /\ OnePlace' /\ UnrepliedNum' /\ DiffsNum' /\ Nodes' /\ Retried'
        /\ Family(Edge, Msg, chan')
        /\ diff' \in [Server -> [Node \cup Server -> Int]] /\ pdiff' \in [Server -> Int]
        /\ unreplied' \in [Server -> [Host -> Int]]
        /\ phase' \in [Server -> {"wait", "retry", "return"}]
        /\ to # Parent[s] => pdiff'[s] = pdiff[s]
        /\ \A t \in Server \ {s} : pdiff'[t] = pdiff[t]
    <3>1. g.kind \in {"rslt", "rack"}
      BY <2>1
    <3>2. AsManyTasks(put, f, g, take, e)
      BY <2>7
    <3>3. Gave(put, c, f, g)
      BY <2>4
    <3>4. Took(take, e, c) /\ TakesOne(take, e, h, s, "rslt")
      BY <1>10
    <3>5. /\ Routes' /\ OneAnswer' /\ OnePlace' /\ UnrepliedNum' /\ DiffsNum' /\ Nodes' /\ Retried'
          /\ Family(Edge, Msg, chan')
          /\ diff' \in [Server -> [Node \cup Server -> Int]] /\ pdiff' \in [Server -> Int]
          /\ unreplied' \in [Server -> [Host -> Int]]
          /\ phase' \in [Server -> {"wait", "retry", "return"}]
      BY <1>2, <1>16, <1>17, <2>5, <2>6, <3>1, <3>2, <3>3, <3>4, RsltKeeps
    <3>6. /\ to # Parent[s] => pdiff'[s] = pdiff[s]
          /\ \A t \in Server \ {s} : pdiff'[t] = pdiff[t]
      BY <1>2, <1>16, <1>17, <2>5, <2>6, <3>1, <3>2, <3>3, <3>4, RsltKeeps
    <3> QED
      BY <3>5, <3>6
  <2>9. pdiff'[Top] = pdiff[Top]
    BY <1>12, <1>14, <2>8, TopIs
  <2>10. FirstTask'
    <3>1. /\ UNCHANGED <<respond, taskHome, exited, stack>>
          /\ unreplied'[Top][Term] = unreplied[Top][Term]
      BY <1>13, <2>2
    <3>2. (take => e # <<Term, Top>>) /\ (put => f # <<Term, Top>>)
      BY <1>10, <2>3, Tree
    <3> QED
      BY <1>1, <1>11, <2>4, <2>7, <2>9, <3>1, <3>2, FirstQuiet
  <2>11. OneTaskAtATime'
    BY <1>1, <1>13, <2>9 DEF OneTaskAtATime
  <2>12. TypeOK'
    BY <1>1, <1>13, <2>2, <2>8, TypeParts, TypePartsNext
  <2> QED
    BY <2>8, <2>10, <2>11, <2>12 DEF IInv
<1>15. CASE to = Term
  <2>1. s = Top
    BY <1>7, <1>15, Tree, TopIs, Edges, NodeEdge
  <2>2. /\ respond = "nil" /\ unreplied[Top][Term] = 0 /\ pdiff[Top] = 1
        /\ chan[<<Term, Top>>] = <<>> /\ Running(0) = 0
        /\ Num(Edge, chan, Carrying(0)) = 1
        /\ \E t \in taskHome : taskHome = {t} /\ TermHome(t)
    BY <1>1, <1>4, <1>7, <1>9, <1>10, <1>15, FirstDone
  <2>3. PICK home : /\ home = (CHOOSE t \in taskHome : TRUE)
                    /\ chan' = Send(c, s, home.to, rack(home.head, m.id))
                    /\ respond' = (IF home.no < AutoResend THEN "resend" ELSE "exit")
                    /\ taskHome' = (IF home.no < AutoResend THEN {[home EXCEPT !.no = @ + 1]} ELSE {})
                    /\ UNCHANGED exited
    BY <1>8, <1>15
  <2>4. home \in taskHome /\ TermHome(home)
    BY <2>2, <2>3
  <2>5. respond' = "exit" /\ taskHome' = {}
    <3>1. home.no = 0
      BY <2>4 DEF TermHome
    <3>2. ~(home.no < AutoResend)
      BY <3>1
    <3>3. PICK again : again = {[home EXCEPT !.no = @ + 1]}
      OBVIOUS
    <3>4. /\ respond' = (IF home.no < AutoResend THEN "resend" ELSE "exit")
          /\ taskHome' = (IF home.no < AutoResend THEN again ELSE {})
      BY <2>3, <3>3
    <3> QED
      BY <3>2, <3>4
  <2>6. /\ home.to \in Links(s) /\ home.to # Term /\ home.head \in Path /\ WayToNode(home.to, home.head)
    BY <1>1, <2>1, <2>4 DEF TermHome, TypeOK
  <2>7. PICK g \in Msg : g = rack(home.head, m.id) /\ g.kind = "rack" /\ g.to = home.head
    BY <1>5, <2>6, MsgMade
  <2>8. PICK put, f : put = (~Invalid(home.to) /\ home.to # Term) /\ f = <<s, home.to>>
    OBVIOUS
  <2>9. Gave(put, c, f, g) /\ f \in Edge /\ f[1] = s /\ f[2] = home.to
    <3>1. chan' = Send(c, s, home.to, g)
      BY <2>3, <2>7
    <3> QED
      BY <1>4, <2>6, <2>8, <3>1, SendIs, Edges
  <2>10. PassesRslt(put, f, g, s, to)
    BY <1>15, <2>7 DEF PassesRslt
  <2>11. put => Goes(f[1], f[2], g)
    BY <2>6, <2>7, <2>9, Tree DEF Goes
  <2>12. /\ AsManyTasks(put, f, g, take, e) /\ Plus(put, Edge, Carrying(0), f, g) = 0
         /\ Minus(take, Edge, Carrying(0), e) = 1
    <3>1. \A id : g \notin Carrying(id)
      BY <2>7 DEF Carrying
    <3>2. \A id : Plus(put, Edge, Carrying(id), f, g) = 0
      BY <3>1 DEF Plus, At
    <3>3. \A id \in SubTask : m \notin Carrying(id)
      BY <1>7, <1>15, Zero DEF Carrying
    <3>4. \A id \in SubTask : Minus(take, Edge, Carrying(id), e) = 0
      BY <1>10, <3>3 DEF Minus, At
    <3>5. m \in Carrying(0)
      BY <1>4, <1>7, <1>15 DEF Carrying
    <3>6. Minus(take, Edge, Carrying(0), e) = 1
      BY <1>10, <3>5 DEF Minus, At
    <3> QED
      BY <3>2, <3>4, <3>6 DEF AsManyTasks
  <2>13. /\ Routes' /\ OneAnswer' /\ OnePlace' /\ UnrepliedNum' /\ DiffsNum' /\ Nodes' /\ Retried'
         /\ Family(Edge, Msg, chan')
         /\ diff' \in [Server -> [Node \cup Server -> Int]] /\ pdiff' \in [Server -> Int]
         /\ unreplied' \in [Server -> [Host -> Int]]
         /\ phase' \in [Server -> {"wait", "retry", "return"}]
         /\ to = Parent[s] => pdiff'[s] = pdiff[s] - 1
    <3>1. g.kind \in {"rslt", "rack"}
      BY <2>7
    <3> QED
      BY <1>2, <1>16, <1>17, <1>10, <1>11, <2>9, <2>10, <2>11, <2>12, <3>1, RsltKeeps
  <2>14. pdiff'[Top] = 0 /\ unreplied'[Top][Term] = 0
    BY <1>13, <1>15, <2>1, <2>2, <2>13, TopIs
  <2>15. chan'[<<Term, Top>>] = <<>>
    <3>1. PICK u \in Edge : u = <<Term, Top>>
      BY <1>12
    <3>2. (take => u # e) /\ (put => u # f)
      BY <1>10, <2>8, <3>1, Tree
    <3>3. chan'[u] = chan[u]
      BY <1>11, <1>12, <2>9, <3>2, MovedElements
    <3> QED
      BY <2>2, <3>1, <3>3
  <2>16. Where(0)' = 0
    <3>1. PICK C, C1, P, Q : /\ C = Num(Edge, chan, Carrying(0)) /\ C1 = Num(Edge, chan', Carrying(0))
                             /\ P = Plus(put, Edge, Carrying(0), f, g) /\ Q = Minus(take, Edge, Carrying(0), e)
      OBVIOUS
    <3>2. C1 = C - Q + P
      BY <1>11, <1>12, <2>9, <3>1, MovedNum
    <3>3. C1 = 0
      BY <2>2, <2>12, <3>1, <3>2
    <3>4. Running(0)' = 0
      BY <1>13, <2>2 DEF Running
    <3> QED
      BY <3>1, <3>3, <3>4 DEF Where
  <2>17. FirstTask'
    BY <2>5, <2>14, <2>15, <2>16, EmptySeq DEF FirstTask
  <2>18. OneTaskAtATime'
    BY <2>14 DEF OneTaskAtATime
  <2>19. TypeOK'
    BY <1>1, <1>13, <2>3, <2>5, <2>13, TypeParts, TypePartsNext
  <2> QED
    BY <2>13, <2>17, <2>18, <2>19 DEF IInv
<1> QED
  BY <1>14, <1>15

-----------------------------------------------------------------------------
(* The steps of a node *)

(* it takes a message from its server or not, and sends it m or not *)
Moves(n, take, e, c, put, f, m) ==
  /\ e = <<ServerOf(n), n>> /\ Took(take, e, c) /\ (take => Head(chan[e]) \in Msg)
  /\ f = <<n, ServerOf(n)>> /\ Gave(put, c, f, m) /\ (put => m \in Msg)
OthersKeep(n) ==
  /\ \A x \in Node \ {n} : /\ ask'[x] = ask[x] /\ up'[x] = up[x]
                           /\ stack'[x] = stack[x] /\ sub'[x] = sub[x]
  /\ \A x \in Node : up'[x] => up[x]

(* the stack grows with a task and shrinks with a result, a treq is answered, *)
(* and the node waits from the treq that it sends to the answer               *)
StackFollows(n, take, e, put, m) ==
  Len(stack'[n]) = Len(stack[n]) + (IF take /\ Head(chan[e]).kind = "task" THEN 1 ELSE 0)
                                 - (IF put /\ m.kind = "rslt" THEN 1 ELSE 0)
TreqAnswered(take, e, put, m) ==
  (take /\ Head(chan[e]).kind = "treq") <=> (put /\ m.kind \in {"none", "task"})
AskFollows(take, e, put, f, m) ==
  \A x \in Node : up'[x] =>
    Plus(put, Edge, RequestsBy(x), f, m) + (IF ask[x] = NoTask THEN 0 ELSE 1)
      = Minus(take, Edge, RequestsBy(x), e) + (IF ask'[x] = NoTask THEN 0 ELSE 1)

(* what is waited for stays what it is made of *)
Keeping(id) ==
  \A x \in Node : \A t \in Range(sub[x]) : t.id = id =>
    t \in Range(sub'[x]) /\ \A k \in 1..t.depth : stack'[x][k].id = stack[x][k].id

LEMMA WayHomeKept ==
  ASSUME NEW id, Keeping(id), NEW h, NEW p, WayHome(h, p, id)
  PROVE  WayHome(h, p, id)'
<1>1. CASE id = 0
  BY <1>1 DEF WayHome
<1>2. CASE id # 0
  <2>1. PICK x \in Node : Way(h, p, x) /\ HasSub(x, id)
    BY <1>2 DEF WayHome
  <2>2. PICK t \in Range(sub[x]) : t.id = id
    BY <2>1 DEF HasSub
  <2>3. HasSub(x, id)'
    BY <2>2 DEF HasSub, Keeping
  <2> QED
    BY <1>2, <2>1, <2>3 DEF WayHome
<1> QED
  BY <1>1, <1>2

LEMMA GoesKept ==
  ASSUME NEW m \in Msg, NEW a, NEW b, Goes(a, b, m), \A x \in Node : up'[x] => up[x],
         m.kind \in {"treq", "task"} => (up'[m.by] => ask'[m.by] = ask[m.by]),
         m.kind \in {"task", "rslt"} => Keeping(m.id)
  PROVE  Goes(a, b, m)'
<1>1. m.kind = "treq" => Treq(a, b, m)'
  <2> SUFFICES ASSUME m.kind = "treq"
               PROVE  Treq(a, b, m)'
    OBVIOUS
  <2>1. Treq(a, b, m) /\ m.by \in Node
    BY MsgParts DEF Goes
  <2>2. up'[m.by] => ask'[m.by] = m.for
    BY <2>1 DEF Treq
  <2> QED
    BY <2>1, <2>2 DEF Treq
<1>2. m.kind = "none" => Way(b, m.to, m.by)
  BY DEF Goes
<1>3. m.kind = "task" => /\ Way(b, m.to, m.by) /\ WayHome(a, m.from, m.id)'
                         /\ MadeFor(m.id, m.by)'
  <2> SUFFICES ASSUME m.kind = "task"
               PROVE  /\ Way(b, m.to, m.by) /\ WayHome(a, m.from, m.id)'
                      /\ MadeFor(m.id, m.by)'
    OBVIOUS
  <2>1. Way(b, m.to, m.by) /\ WayHome(a, m.from, m.id) /\ MadeFor(m.id, m.by) /\ Keeping(m.id)
    BY DEF Goes
  <2>2. WayHome(a, m.from, m.id)'
    BY <2>1, WayHomeKept
  <2>3. PICK id, y : id = m.id /\ y = m.by
    OBVIOUS
  <2>4. y \in Node /\ (up'[y] => up[y] /\ ask'[y] = ask[y])
    BY <2>3, MsgParts
  <2>5. MadeFor(id, y) /\ Keeping(id)
    BY <2>1, <2>3
  <2>6. MadeFor(id, y)'
    <3> SUFFICES ASSUME up'[y], ask'[y] \in SubTask
                 PROVE  \E x \in Node : \E t \in Range(sub'[x]) :
                          t.id = id /\ \E k \in 1..t.depth : stack'[x][k].id = ask'[y]
      BY DEF MadeFor
    <3>1. up[y] /\ ask[y] \in SubTask /\ ask'[y] = ask[y]
      BY <2>4
    <3>2. PICK x \in Node : \E t \in Range(sub[x]) :
            t.id = id /\ \E k \in 1..t.depth : stack[x][k].id = ask[y]
      BY <2>5, <3>1 DEF MadeFor
    <3>3. PICK t \in Range(sub[x]) : t.id = id /\ \E k \in 1..t.depth : stack[x][k].id = ask[y]
      BY <3>2
    <3>4. t \in Range(sub'[x]) /\ \A k \in 1..t.depth : stack'[x][k].id = stack[x][k].id
      BY <2>5, <3>3 DEF Keeping
    <3> QED
      BY <3>1, <3>3, <3>4
  <2> QED
    BY <2>1, <2>2, <2>3, <2>6
<1>4. m.kind = "rslt" => WayHome(b, m.to, m.id)'
  BY WayHomeKept DEF Goes
<1>5. m.kind = "rack" => WayToNode(b, m.to)
  BY DEF Goes
<1>6. m.kind = "leav" => a \in Node /\ ~up'[a]
  BY DEF Goes
<1>7. a = Term => m.kind = "task" /\ m.id = 0 /\ m.from = <<>>
  BY DEF Goes
<1> QED
  BY <1>1, <1>2, <1>3, <1>4, <1>5, <1>6, <1>7 DEF Goes

(* a message or a request that the step of a node does not concern *)
StaysMsg(y) ==
  /\ y.kind \in {"treq", "task"} => (up'[y.by] => ask'[y.by] = ask[y.by])
  /\ y.kind \in {"task", "rslt"} => Keeping(y.id)
StaysKept(r) == up'[r.by] => ask'[r.by] = ask[r.by]

LEMMA NodeRoutes ==
  ASSUME TypeOK, Routes, NEW n \in Node, OthersKeep(n), UNCHANGED <<talist, failed>>,
         NEW take, NEW e, NEW c, NEW put, NEW f, NEW m, Moves(n, take, e, c, put, f, m),
         put => Goes(f[1], f[2], m)',
         \A x \in Edge : \A y \in Range(chan'[x]) \cap Range(chan[x]) :
           (put /\ x = f /\ y = m) \/ StaysMsg(y),
         \A s \in Server : \A r \in Range(talist[s]) : StaysKept(r),
         \A s \in Server : \A r \in Range(failed[s]) : StaysKept(r)
  PROVE  Routes'
<1>1. Family(Edge, Msg, chan) /\ Took(take, e, c) /\ Gave(put, c, f, m)
  BY TypeParts DEF Moves
<1>2. \A x \in Node : up'[x] => up[x]
  BY DEF OthersKeep
<1>3. ASSUME NEW x \in Edge, NEW y \in Range(chan'[x])
      PROVE  Goes(x[1], x[2], y)'
  <2>1. CASE put /\ x = f /\ y = m
    BY <2>1
  <2>2. CASE y \in Range(chan[x]) /\ ~(put /\ x = f /\ y = m)
    <3>1. Goes(x[1], x[2], y)
      BY <2>2 DEF Routes
    <3>2. StaysMsg(y)
      BY <2>2, <1>3
    <3>3. y \in Msg
      BY <1>1, <2>2, FamilyElement DEF Range
    <3> QED
      BY <1>2, <3>1, <3>2, <3>3, GoesKept DEF StaysMsg
  <2> QED
    BY <1>1, <2>1, <2>2, MovedElements
<1>4. ASSUME NEW s, NEW r \in Request, Keeps(s, r), StaysKept(r)
      PROVE  Keeps(s, r)'
  <2>1. r.by \in Node
    BY DEF Request
  <2> QED
    BY <1>4, <1>2, <2>1 DEF Keeps, StaysKept
<1>5. ASSUME NEW s \in Server
      PROVE  /\ \A r \in Range(talist'[s]) : Keeps(s, r)'
             /\ \A r \in Range(failed'[s]) : Keeps(s, r)'
  <2>1. Family(Server, Request, talist) /\ Family(Server, Request, failed)
    BY TypeParts
  <2>2. \A r \in Range(talist[s]) : r \in Request /\ Keeps(s, r) /\ StaysKept(r)
    BY <2>1, FamilyElement DEF Routes, Range
  <2>3. \A r \in Range(failed[s]) : r \in Request /\ Keeps(s, r) /\ StaysKept(r)
    BY <2>1, FamilyElement DEF Routes, Range
  <2> QED
    BY <1>4, <2>2, <2>3
<1> QED
  BY <1>3, <1>5 DEF Routes

LEMMA NodeDiffs ==
  ASSUME TypeOK, DiffsNum, NEW n \in Node, OthersKeep(n), UNCHANGED <<diff, pdiff>>,
         NEW take, NEW e, NEW c, NEW put, NEW f, NEW m, Moves(n, take, e, c, put, f, m),
         StackFollows(n, take, e, put, m)
  PROVE  DiffsNum'
<1>1. Family(Edge, Msg, chan) /\ Took(take, e, c) /\ Gave(put, c, f, m)
  BY TypeParts DEF Moves
<1>2. /\ e = <<ServerOf(n), n>> /\ f = <<n, ServerOf(n)>> /\ n \notin Server /\ ServerOf(n) \in Server
      /\ (take => Head(chan[e]) \in Msg) /\ (put => m \in Msg)
  BY ServerOfIs, Tree DEF Moves
<1>3. ASSUME NEW s \in Server, NEW k \in ChildrenOf(s) \ Leaver
      PROVE  diff'[s][k] = SentNo(s, k, {"task"})' + SentNo(k, s, {"rslt"})'
                             + IF k \in Node THEN Len(stack'[k]) ELSE pdiff'[k]
  <2>1. <<s, k>> \in Edge /\ <<k, s>> \in Edge /\ (k = n => s = ServerOf(n))
    BY Edges, ServerOfIs DEF Links
  <2>2. PICK T \in 0..1 : T = IF k = n /\ take /\ Head(chan[e]).kind = "task" THEN 1 ELSE 0
    OBVIOUS
  <2>3. PICK R \in 0..1 : R = IF k = n /\ put /\ m.kind = "rslt" THEN 1 ELSE 0
    OBVIOUS
  <2>4. Minus(take, {<<s, k>>}, OfKind({"task"}), e) = T
    BY <1>2, <2>1, <2>2 DEF Minus, At, OfKind
  <2>5. Plus(put, {<<s, k>>}, OfKind({"task"}), f, m) = 0
    BY <1>2, <2>1 DEF Plus, At
  <2>6. Minus(take, {<<k, s>>}, OfKind({"rslt"}), e) = 0
    BY <1>2, <2>1 DEF Minus, At
  <2>7. Plus(put, {<<k, s>>}, OfKind({"rslt"}), f, m) = R
    BY <1>2, <2>1, <2>3 DEF Plus, At, OfKind
  <2>8. PICK A, A1, B, B1 :
          /\ A = SentNo(s, k, {"task"}) /\ A1 = SentNo(s, k, {"task"})'
          /\ B = SentNo(k, s, {"rslt"}) /\ B1 = SentNo(k, s, {"rslt"})'
    OBVIOUS
  <2>9. A1 = A - T /\ A \in Nat
    BY <1>1, <2>1, <2>2, <2>4, <2>5, <2>8, SentMoved
  <2>10. B1 = B + R /\ B \in Nat
    BY <1>1, <2>1, <2>3, <2>6, <2>7, <2>8, SentMoved
  <2>11. PICK L, L1 : /\ L = IF k \in Node THEN Len(stack[k]) ELSE pdiff[k]
                      /\ L1 = IF k \in Node THEN Len(stack'[k]) ELSE pdiff'[k]
    OBVIOUS
  <2>12. L1 = L + T - R /\ L \in Int
    <3>1. Family(Node, Given, stack) /\ pdiff \in [Server -> Int] /\ k \in Node \cup Server
      BY TypeParts, Tree
    <3>2. L \in Int
      BY <2>11, <3>1, FamilyElement
    <3>3. CASE k = n
      <4>1. L1 = Len(stack'[n]) /\ L = Len(stack[n])
        BY <2>11, <3>3
      <4>2. Len(stack'[n]) = Len(stack[n]) + T - R
        BY <2>2, <2>3, <3>3 DEF StackFollows
      <4> QED
        BY <4>1, <4>2, <3>2
    <3>4. CASE k # n
      <4>1. T = 0 /\ R = 0
        BY <2>2, <2>3, <3>4
      <4>2. L1 = L
        BY <2>11, <3>4 DEF OthersKeep
      <4> QED
        BY <3>2, <4>1, <4>2
    <3> QED
      BY <3>3, <3>4
  <2>13. diff[s][k] = A + B + L
    BY <1>3, <2>8, <2>11 DEF DiffsNum
  <2>14. diff'[s][k] = A1 + B1 + L1
    BY <2>2, <2>3, <2>9, <2>10, <2>12, <2>13
  <2> QED
    BY <2>8, <2>11, <2>14
<1> QED
  BY <1>3 DEF DiffsNum

LEMMA NodeUnreplied ==
  ASSUME TypeOK, UnrepliedNum, NEW n \in Node, OthersKeep(n), UNCHANGED unreplied,
         NEW take, NEW e, NEW c, NEW put, NEW f, NEW m, Moves(n, take, e, c, put, f, m),
         TreqAnswered(take, e, put, m)
  PROVE  UnrepliedNum'
<1>1. Family(Edge, Msg, chan) /\ Took(take, e, c) /\ Gave(put, c, f, m)
  BY TypeParts DEF Moves
<1>2. /\ e = <<ServerOf(n), n>> /\ f = <<n, ServerOf(n)>> /\ n \notin Server /\ ServerOf(n) \in Server
      /\ (take => Head(chan[e]) \in Msg) /\ (put => m \in Msg)
  BY ServerOfIs, Tree DEF Moves
<1>3. ASSUME NEW s \in Server, NEW k \in ChildrenOf(s) \cap Node, up'[k]
      PROVE  unreplied'[s][k] = SentNo(s, k, {"treq"})' + SentNo(k, s, {"none", "task"})'
  <2>1. <<s, k>> \in Edge /\ <<k, s>> \in Edge /\ (k = n => s = ServerOf(n))
    BY Edges, ServerOfIs DEF Links
  <2>2. PICK T \in 0..1 : T = IF k = n /\ take /\ Head(chan[e]).kind = "treq" THEN 1 ELSE 0
    OBVIOUS
  <2>3. T = IF k = n /\ put /\ m.kind \in {"none", "task"} THEN 1 ELSE 0
    BY <2>2 DEF TreqAnswered
  <2>4. Minus(take, {<<s, k>>}, OfKind({"treq"}), e) = T
    BY <1>2, <2>1, <2>2 DEF Minus, At, OfKind
  <2>5. Plus(put, {<<s, k>>}, OfKind({"treq"}), f, m) = 0
    BY <1>2, <2>1 DEF Plus, At
  <2>6. Minus(take, {<<k, s>>}, OfKind({"none", "task"}), e) = 0
    BY <1>2, <2>1 DEF Minus, At
  <2>7. Plus(put, {<<k, s>>}, OfKind({"none", "task"}), f, m) = T
    BY <1>2, <2>1, <2>3 DEF Plus, At, OfKind
  <2>8. PICK A, A1, B, B1 :
          /\ A = SentNo(s, k, {"treq"}) /\ A1 = SentNo(s, k, {"treq"})'
          /\ B = SentNo(k, s, {"none", "task"}) /\ B1 = SentNo(k, s, {"none", "task"})'
    OBVIOUS
  <2>9. A1 = A - T /\ A \in Nat
    BY <1>1, <2>1, <2>2, <2>4, <2>5, <2>8, SentMoved
  <2>10. B1 = B + T /\ B \in Nat
    BY <1>1, <2>1, <2>2, <2>6, <2>7, <2>8, SentMoved
  <2>11. up[k]
    BY <1>3 DEF OthersKeep
  <2>12. unreplied[s][k] = A + B
    BY <2>8, <2>11 DEF UnrepliedNum
  <2>13. unreplied'[s][k] = A1 + B1
    BY <2>2, <2>9, <2>10, <2>12
  <2> QED
    BY <2>8, <2>13
<1> QED
  BY <1>3 DEF UnrepliedNum

LEMMA NodeAnswer ==
  ASSUME TypeOK, OneAnswer, ~exited, NEW n \in Node, OthersKeep(n), UNCHANGED <<talist, failed>>,
         NEW take, NEW e, NEW c, NEW put, NEW f, NEW m, Moves(n, take, e, c, put, f, m),
         AskFollows(take, e, put, f, m)
  PROVE  OneAnswer'
<1>1. Family(Edge, Msg, chan) /\ Took(take, e, c) /\ Gave(put, c, f, m)
  BY TypeParts DEF Moves
<1>2. ASSUME NEW x \in Node, up'[x]
      PROVE  Asked(x)' = IF ask'[x] = NoTask THEN 0 ELSE 1
  <2>1. up[x]
    BY <1>2 DEF OthersKeep
  <2>2. PICK P \in 0..1 : P = Plus(put, Edge, RequestsBy(x), f, m)
    BY <1>1, MovedNum
  <2>3. PICK Q \in 0..1 : Q = Minus(take, Edge, RequestsBy(x), e)
    BY <1>1, MovedNum
  <2>4. PICK N \in Nat : N = Num(Edge, chan, RequestsBy(x)) /\ Num(Edge, chan', RequestsBy(x)) = N - Q + P
    BY <1>1, <2>2, <2>3, MovedNum
  <2>5. PICK V \in 0..1 : V = IF ask[x] = NoTask THEN 0 ELSE 1
    OBVIOUS
  <2>6. PICK W \in 0..1 : W = IF ask'[x] = NoTask THEN 0 ELSE 1
    OBVIOUS
  <2>7. P + V = Q + W
    BY <1>2, <2>2, <2>3, <2>5, <2>6 DEF AskFollows
  <2>8. PICK K \in Nat, L \in Nat : K = Num(Server, talist, KeptBy(x)) /\ L = Num(Server, failed, KeptBy(x))
    BY Counts
  <2>9. N + K + L = V
    BY <2>1, <2>4, <2>5, <2>8 DEF OneAnswer, Asked
  <2>10. (N - Q + P) + K + L = W
    BY <2>7, <2>9
  <2>11. Asked(x)' = (N - Q + P) + K + L
    BY <2>4, <2>8 DEF Asked
  <2> QED
    BY <2>6, <2>10, <2>11
<1> QED
  BY <1>2 DEF OneAnswer

LEMMA NodeFirst ==
  ASSUME TypeOK, FirstTask, NEW n \in Node, UNCHANGED <<respond, taskHome, exited, pdiff, unreplied>>,
         NEW take, NEW e, NEW c, NEW put, NEW f, NEW m, Moves(n, take, e, c, put, f, m),
         Where(0)' = Where(0)
  PROVE  FirstTask'
<1>1. Family(Edge, Msg, chan) /\ Took(take, e, c) /\ Gave(put, c, f, m)
  BY TypeParts DEF Moves
<1>2. chan'[<<Term, Top>>] = chan[<<Term, Top>>]
  <2>1. e # <<Term, Top>> /\ f # <<Term, Top>>
    BY ServerOfIs, Tree DEF Moves
  <2>2. PICK u \in Edge : u = <<Term, Top>>
    BY Edges
  <2>3. chan'[u] = chan[u]
    BY <1>1, <2>1, <2>2, MovedElements
  <2> QED
    BY <2>2, <2>3
<1> QED
  BY <1>2 DEF FirstTask

LEMMA NodeRetried ==
  ASSUME Retried, UNCHANGED serverVars
  PROVE  Retried'
<1>1. UNCHANGED <<diff, pdiff, unreplied>> /\ UNCHANGED <<phase, talist, failed>>
  BY DEF serverVars
<1>2. \A t, from : MayFail(t, from)' <=> MayFail(t, from)
  BY <1>1, SameMayFail
<1> QED
  BY <1>1, <1>2 DEF Retried

(* what a step of a node leaves alone *)
LEMMA NodeKeeps ==
  ASSUME IInv, ~exited, NEW n \in Node, OthersKeep(n), UNCHANGED serverVars, UNCHANGED termVars,
         NEW take, NEW e, NEW c, NEW put, NEW f, NEW m, Moves(n, take, e, c, put, f, m),
         StackFollows(n, take, e, put, m), TreqAnswered(take, e, put, m),
         AskFollows(take, e, put, f, m), Where(0)' = Where(0)
  PROVE  /\ DiffsNum' /\ UnrepliedNum' /\ OneAnswer' /\ FirstTask' /\ OneTaskAtATime' /\ Retried'
         /\ Family(Edge, Msg, chan')
<1>1. UNCHANGED <<diff, pdiff>> /\ UNCHANGED unreplied /\ UNCHANGED <<talist, failed>>
  BY DEF serverVars
<1>2. UNCHANGED <<respond, taskHome, exited, pdiff, unreplied>>
  BY <1>1 DEF termVars
<1>3. TypeOK /\ OneAnswer /\ FirstTask /\ DiffsNum /\ UnrepliedNum /\ OneTaskAtATime /\ Retried
  BY DEF IInv
<1>4. DiffsNum'
  BY <1>1, <1>3, NodeDiffs
<1>5. UnrepliedNum'
  BY <1>1, <1>3, NodeUnreplied
<1>6. OneAnswer'
  BY <1>1, <1>3, NodeAnswer
<1>7. FirstTask'
  BY <1>2, <1>3, NodeFirst
<1>8. OneTaskAtATime'
  BY <1>1, <1>3 DEF OneTaskAtATime
<1>9. Retried'
  BY <1>3, NodeRetried
<1>10. Family(Edge, Msg, chan')
  BY <1>3, TypeParts, MovedElements DEF Moves
<1> QED
  BY <1>4, <1>5, <1>6, <1>7, <1>8, <1>9, <1>10

LEMMA NodeHears ==
  ASSUME TypeOK, Routes, NEW n \in Node, NEW kind, NodeReceives(n, kind)
  PROVE  \E m \in Msg : \E c :
           /\ m = Received(ServerOf(n), n) /\ m = Head(chan[<<ServerOf(n), n>>]) /\ c = NodeTaken(n)
           /\ Took(TRUE, <<ServerOf(n), n>>, c) /\ Family(Edge, Msg, c) /\ Goes(ServerOf(n), n, m)
           /\ m.kind = kind /\ up[n]
<1>1. <<ServerOf(n), n>> \in Edge
  BY Edges
<1>2. Receives(ServerOf(n), n) /\ Received(ServerOf(n), n).kind = kind /\ up[n]
  BY DEF NodeReceives
<1> QED
  BY <1>1, <1>2, ReceivedMsg DEF NodeTaken

LEMMA NodeSays ==
  ASSUME NEW n \in Node, NEW c, Family(Edge, Msg, c), NEW m \in Msg, chan' = NodeSends(n, c, m)
  PROVE  Gave(TRUE, c, <<n, ServerOf(n)>>, m)
<1>1. PICK f \in Edge : f = <<n, ServerOf(n)>>
  BY Edges
<1>2. chan' = [c EXCEPT ![f] = Append(@, m)]
  BY <1>1 DEF NodeSends
<1>3. Puts(c, chan', f, m)
  BY <1>2, Putting
<1> QED
  BY <1>1, <1>3 DEF Gave

LEMMA KeepingSame ==
  ASSUME UNCHANGED <<stack, sub>>
  PROVE  \A id : Keeping(id)
  BY DEF Keeping

LEMMA StaysOther ==
  ASSUME NEW n \in Node, OthersKeep(n), NEW y \in Msg,
         y \notin RequestsBy(n) \/ ask'[n] = ask[n],
         y.kind \in {"task", "rslt"} => Keeping(y.id)
  PROVE  StaysMsg(y)
<1>1. y.kind \in {"treq", "task"} => y.by \in Node
  BY MsgParts
<1>2. y.kind \in {"treq", "task"} /\ y.by = n => y \in RequestsBy(n)
  BY DEF RequestsBy
<1> QED
  BY <1>1, <1>2 DEF StaysMsg, OthersKeep

(* who waits for no answer has no request anywhere *)
LEMMA NobodyAsks ==
  ASSUME NEW c, NEW l, NEW g, NEW n, Family(Edge, Msg, c),
         Family(Server, Request, l), Family(Server, Request, g),
         Num(Edge, c, RequestsBy(n)) + Num(Server, l, KeptBy(n)) + Num(Server, g, KeptBy(n)) = 0
  PROVE  /\ \A x \in Edge : \A y \in Range(c[x]) : y \in Msg /\ y \notin RequestsBy(n)
         /\ \A s \in Server : \A r \in Range(l[s]) : r \in Request /\ r.by # n
         /\ \A s \in Server : \A r \in Range(g[s]) : r \in Request /\ r.by # n
<1>1. /\ Num(Edge, c, RequestsBy(n)) \in Nat /\ Num(Server, l, KeptBy(n)) \in Nat
      /\ Num(Server, g, KeptBy(n)) \in Nat
  BY Finite, FinitePositions
<1>2. /\ Num(Edge, c, RequestsBy(n)) = 0 /\ Num(Server, l, KeptBy(n)) = 0
      /\ Num(Server, g, KeptBy(n)) = 0
  BY <1>1
<1>3. \A x \in Edge : \A y \in Range(c[x]) : y \notin RequestsBy(n)
  BY <1>2, Finite, NumZero
<1>4. \A s \in Server : \A r \in Range(l[s]) : r \notin KeptBy(n)
  BY <1>2, Finite, NumZero
<1>5. \A s \in Server : \A r \in Range(g[s]) : r \notin KeptBy(n)
  BY <1>2, Finite, NumZero
<1>6. \A x \in Edge : \A y \in Range(c[x]) : y \in Msg
  BY FamilyElement DEF Range
<1>7. \A s \in Server : \A r \in Range(l[s]) : r \in Request
  BY FamilyElement DEF Range
<1>8. \A s \in Server : \A r \in Range(g[s]) : r \in Request
  BY FamilyElement DEF Range
<1> QED
  BY <1>3, <1>4, <1>5, <1>6, <1>7, <1>8 DEF KeptBy

LEMMA NodesNext ==
  ASSUME TypeOK, Nodes, NEW n \in Node, OthersKeep(n), UNCHANGED valid,
         used' \in Nat, used <= used',
         \A x \in Node : \A t \in Range(stack'[x]) : WayHome(ServerOf(x), t.back, t.id)',
         \A t \in Range(sub'[n]) : /\ t.id <= used' /\ t.depth \in DOMAIN stack'[n]
                                   /\ WayToNode(ServerOf(n), t.thief),
         \A id \in SubTask : HasSub(n, id)' => HasSub(n, id) \/ id > used,
         ask'[n] = AnyTask => stack'[n] = <<>>,
         \A id \in SubTask :
           ask'[n] = id => id <= used' /\ \A x \in Node : HasSub(x, id)' => x = n,
         ~up'[n] => n \in Leaver
  PROVE  Nodes'
<1>1. ASSUME NEW x \in Node
      PROVE  /\ \A t \in Range(stack'[x]) : WayHome(ServerOf(x), t.back, t.id)'
             /\ \A t \in Range(sub'[x]) : /\ t.id <= used' /\ t.depth \in DOMAIN stack'[x]
                                          /\ WayToNode(ServerOf(x), t.thief)
             /\ ask'[x] = AnyTask => stack'[x] = <<>>
             /\ \A id \in SubTask :
                  ask'[x] = id => id <= used' /\ \A y \in Node : HasSub(y, id)' => y = x
             /\ ~up'[x] => x \in Leaver
             /\ ~valid'[x] => ~up'[x]
  <2>1. \A t \in Range(sub'[x]) : /\ t.id <= used' /\ t.depth \in DOMAIN stack'[x]
                                  /\ WayToNode(ServerOf(x), t.thief)
    <3>1. CASE x = n
      BY <3>1
    <3>2. CASE x # n
      <4>1. stack'[x] = stack[x] /\ sub'[x] = sub[x]
        BY <3>2 DEF OthersKeep
      <4>2. ASSUME NEW t \in Range(sub[x])
            PROVE  t.id <= used'
        <5>1. t.id <= used
          BY DEF Nodes
        <5>2. t \in Spawned
          BY TypeParts, FamilyElement DEF Range
        <5>3. t.id \in Int /\ used \in Int
          BY <5>2 DEF Spawned, SubTask, TypeOK
        <5> QED
          BY <5>1, <5>3
      <4> QED
        BY <4>1, <4>2 DEF Nodes
    <3> QED
      BY <3>1, <3>2
  <2>2. ask'[x] = AnyTask => stack'[x] = <<>>
    <3>1. CASE x = n
      BY <3>1
    <3>2. CASE x # n
      BY <3>2 DEF OthersKeep, Nodes
    <3> QED
      BY <3>1, <3>2
  <2>3. ASSUME NEW id \in SubTask, ask'[x] = id
        PROVE  id <= used' /\ \A y \in Node : HasSub(y, id)' => y = x
    <3>1. CASE x = n
      BY <2>3, <3>1
    <3>2. CASE x # n
      <4>1. ask[x] = id
        BY <2>3, <3>2 DEF OthersKeep
      <4>2. id <= used /\ \A y \in Node : HasSub(y, id) => y = x
        BY <4>1 DEF Nodes
      <4>3. id \in Int /\ used \in Int
        BY DEF SubTask, TypeOK
      <4>4. \A y \in Node \ {n} : HasSub(y, id)' => HasSub(y, id)
        BY DEF HasSub, OthersKeep
      <4>5. HasSub(n, id)' => HasSub(n, id)
        BY <4>2, <4>3
      <4> QED
        BY <4>2, <4>3, <4>4, <4>5
    <3> QED
      BY <3>1, <3>2
  <2>4. (~up'[x] => x \in Leaver) /\ (~valid'[x] => ~up'[x])
    BY DEF OthersKeep, Nodes
  <2> QED
    BY <2>1, <2>2, <2>3, <2>4
<1> QED
  BY <1>1 DEF Nodes

(* a step that changes neither stacks nor subtasks, nor asks for anything *)
LEMMA NodesStay ==
  ASSUME TypeOK, Nodes, NEW n \in Node, OthersKeep(n), UNCHANGED <<valid, used, stack, sub>>,
         ask'[n] \in {NoTask, ask[n]}, ~up'[n] => n \in Leaver
  PROVE  Nodes'
<1>1. UNCHANGED valid /\ used' \in Nat /\ used <= used'
  BY DEF TypeOK
<1>2. \A x \in Node : \A t \in Range(stack'[x]) : WayHome(ServerOf(x), t.back, t.id)'
  <2>1. \A id : Keeping(id)
    BY KeepingSame
  <2>2. \A x \in Node : \A t \in Range(stack'[x]) : WayHome(ServerOf(x), t.back, t.id)
    BY DEF Nodes
  <2> QED
    BY <2>1, <2>2, WayHomeKept
<1>3. \A t \in Range(sub'[n]) : /\ t.id <= used' /\ t.depth \in DOMAIN stack'[n]
                                /\ WayToNode(ServerOf(n), t.thief)
  BY DEF Nodes
<1>4. \A x, id : HasSub(x, id)' <=> HasSub(x, id)
  BY DEF HasSub
<1>5. ask'[n] = AnyTask => stack'[n] = <<>>
  BY Zero DEF Nodes
<1>6. \A id \in SubTask : ask'[n] = id => id <= used' /\ \A x \in Node : HasSub(x, id)' => x = n
  BY <1>4, Zero DEF Nodes
<1> QED
  BY <1>1, <1>2, <1>3, <1>4, <1>5, <1>6, NodesNext

(* a step that conserves every task *)
LEMMA OnePlaceKept ==
  ASSUME OnePlace, AllUp' => AllUp,
         \A id \in SubTask : Waiting(id)' = Waiting(id) /\ Where(id)' = Where(id)
  PROVE  OnePlace'
  BY DEF OnePlace

LEMMA UpStays ==
  ASSUME NEW n, OthersKeep(n)
  PROVE  AllUp' => AllUp
  BY DEF AllUp, OthersKeep

LEMMA WhereMoved ==
  ASSUME TypeOK, NEW n, NEW take, NEW e, NEW c, NEW put, NEW f, NEW m, Moves(n, take, e, c, put, f, m), NEW id
  PROVE  \E A, B \in Nat : \E P, Q \in 0..1 :
           /\ P = Plus(put, Edge, Carrying(id), f, m) /\ Q = Minus(take, Edge, Carrying(id), e)
           /\ Where(id) = Running(id) + A /\ Where(id)' = Running(id)' + B /\ B = A - Q + P
<1>1. Family(Edge, Msg, chan) /\ Took(take, e, c) /\ Gave(put, c, f, m)
  BY TypeParts DEF Moves
<1>2. PICK A, B : A = Num(Edge, chan, Carrying(id)) /\ B = Num(Edge, chan', Carrying(id))
  OBVIOUS
<1>3. PICK P, Q : P = Plus(put, Edge, Carrying(id), f, m) /\ Q = Minus(take, Edge, Carrying(id), e)
  OBVIOUS
<1>4. A \in Nat /\ B \in Nat /\ P \in 0..1 /\ Q \in 0..1 /\ B = A - Q + P
  BY <1>1, <1>2, <1>3, MovedNum
<1>5. Where(id) = Running(id) + A /\ Where(id)' = Running(id)' + B
  BY <1>2 DEF Where
<1> QED
  BY <1>3, <1>4, <1>5

(* ... when no stack changes and nothing that carries the task is moved *)
LEMMA WhereQuiet ==
  ASSUME TypeOK, UNCHANGED stack, NEW n, NEW take, NEW e, NEW c, NEW put, NEW f, NEW m,
         Moves(n, take, e, c, put, f, m), NEW id,
         take => Head(chan[e]) \notin Carrying(id), put => m \notin Carrying(id)
  PROVE  Where(id)' = Where(id)
<1>1. PICK A \in Nat, B \in Nat : \E P, Q \in 0..1 :
           /\ P = Plus(put, Edge, Carrying(id), f, m) /\ Q = Minus(take, Edge, Carrying(id), e)
           /\ Where(id) = Running(id) + A /\ Where(id)' = Running(id)' + B /\ B = A - Q + P
  BY WhereMoved
<1>2. Plus(put, Edge, Carrying(id), f, m) = 0 /\ Minus(take, Edge, Carrying(id), e) = 0
  BY DEF Plus, Minus, At
<1>3. Running(id)' = Running(id)
  BY DEF Running
<1>4. A = B
  BY <1>1, <1>2
<1> QED
  BY <1>1, <1>3, <1>4

LEMMA WhereNext ==
  ASSUME TypeOK, NEW n, NEW take, NEW e, NEW c, NEW put, NEW f, NEW m, Moves(n, take, e, c, put, f, m),
         NEW id, NEW P, NEW Q, NEW K \in Int, P = Plus(put, Edge, Carrying(id), f, m),
         Q = Minus(take, Edge, Carrying(id), e), Running(id)' = Running(id) + K
  PROVE  Where(id)' = Where(id) + K + P - Q /\ Where(id) \in Nat /\ P \in 0..1 /\ Q \in 0..1
<1>1. PICK A \in Nat : \E B \in Nat : \E P1, Q1 \in 0..1 :
           /\ P1 = Plus(put, Edge, Carrying(id), f, m) /\ Q1 = Minus(take, Edge, Carrying(id), e)
           /\ Where(id) = Running(id) + A /\ Where(id)' = Running(id)' + B /\ B = A - Q1 + P1
  BY WhereMoved
<1>2. PICK B \in Nat :
           /\ P \in 0..1 /\ Q \in 0..1
           /\ Where(id) = Running(id) + A /\ Where(id)' = Running(id)' + B /\ B = A - Q + P
  BY <1>1
<1>3. PICK R \in Nat : R = Running(id)
  BY Counts
<1>4. Running(id)' = R + K /\ Where(id)' = (R + K) + B /\ Where(id) = R + A
  BY <1>2, <1>3
<1>5. B = A - Q + P /\ P \in 0..1 /\ Q \in 0..1
  BY <1>2
<1>6. (R + K) + B = (R + A) + K + P - Q
  BY <1>5
<1> QED
  BY <1>4, <1>5, <1>6

LEMMA StackStays ==
  ASSUME TypeOK, NEW n \in Node, UNCHANGED stack, NEW take, NEW e, NEW put, NEW m,
         ~(take /\ Head(chan[e]).kind = "task"), ~(put /\ m.kind = "rslt")
  PROVE  StackFollows(n, take, e, put, m)
<1>1. Len(stack[n]) \in Nat
  BY TypeParts, FamilyElement
<1>2. PICK A, B : /\ A = (IF take /\ Head(chan[e]).kind = "task" THEN 1 ELSE 0)
                  /\ B = (IF put /\ m.kind = "rslt" THEN 1 ELSE 0)
  OBVIOUS
<1>3. A = 0
  BY <1>2
<1>4. B = 0
  BY <1>2
<1>5. PICK L, L1 : L = Len(stack[n]) /\ L1 = Len(stack'[n])
  OBVIOUS
<1>6. L1 = L /\ L \in Nat
  BY <1>1, <1>5
<1>7. L1 = L + A - B
  BY <1>3, <1>4, <1>6
<1> QED
  BY <1>2, <1>5, <1>7 DEF StackFollows

(* an answer to the node n: its only one *)
TakesAnswer(n, take, e, put) == take /\ ~put /\ Head(chan[e]) \in RequestsBy(n) /\ ask'[n] = NoTask

LEMMA AnswerTaken ==
  ASSUME TypeOK, OneAnswer, ~exited, NEW n \in Node, OthersKeep(n), up[n],
         NEW take, NEW e, NEW c, NEW put, NEW f, NEW m, Moves(n, take, e, c, put, f, m),
         TakesAnswer(n, take, e, put)
  PROVE  AskFollows(take, e, put, f, m)
<1>1. Family(Edge, Msg, chan) /\ e \in Edge /\ Takes(chan, c, e)
  BY TypeParts, Edges DEF Moves, Took, TakesAnswer
<1>2. ask[n] # NoTask
  <2>1. Head(chan[e]) \in Range(chan[e])
    BY <1>1, TakesElements DEF Range
  <2>2. Num(Edge, chan, RequestsBy(n)) \in Nat \ {0}
    <3>1. PICK y \in Range(chan[e]) : y \in RequestsBy(n)
      BY <2>1 DEF TakesAnswer
    <3> QED
      BY <1>1, <3>1, Finite, NumSome
  <2>3. Num(Server, talist, KeptBy(n)) \in Nat /\ Num(Server, failed, KeptBy(n)) \in Nat
    BY Counts
  <2>4. Asked(n) # 0
    BY <2>2, <2>3 DEF Asked
  <2> QED
    BY <2>4 DEF OneAnswer
<1>3. ASSUME NEW x \in Node, up'[x]
      PROVE  Plus(put, Edge, RequestsBy(x), f, m) + (IF ask[x] = NoTask THEN 0 ELSE 1)
               = Minus(take, Edge, RequestsBy(x), e) + (IF ask'[x] = NoTask THEN 0 ELSE 1)
  <2>1. Plus(put, Edge, RequestsBy(x), f, m) = 0
    BY DEF Plus, TakesAnswer
  <2>2. CASE x = n
    <3>1. Minus(take, Edge, RequestsBy(x), e) = 1
      BY <1>1, <2>2 DEF Minus, At, TakesAnswer
    <3>2. (IF ask[x] = NoTask THEN 0 ELSE 1) = 1 /\ (IF ask'[x] = NoTask THEN 0 ELSE 1) = 0
      BY <1>2, <2>2 DEF TakesAnswer
    <3> QED
      BY <2>1, <3>1, <3>2
  <2>3. CASE x # n
    <3>1. Head(chan[e]) \notin RequestsBy(x)
      BY <2>3 DEF TakesAnswer, RequestsBy
    <3>2. Minus(take, Edge, RequestsBy(x), e) = 0
      BY <3>1 DEF Minus, At
    <3>3. ask'[x] = ask[x]
      BY <2>3 DEF OthersKeep
    <3> QED
      BY <2>1, <3>2, <3>3
  <2> QED
    BY <2>2, <2>3
<1> QED
  BY <1>3 DEF AskFollows

(* ... and no request of n is left *)
LEMMA NoneIsLeft ==
  ASSUME TypeOK, OneAnswer', ~exited', Family(Edge, Msg, chan'), UNCHANGED <<talist, failed>>,
         NEW n \in Node, OthersKeep(n), up'[n], ask'[n] = NoTask, \A id : Keeping(id)
  PROVE  /\ \A x \in Edge : \A y \in Range(chan'[x]) : StaysMsg(y)
         /\ \A s \in Server : \A r \in Range(talist[s]) : StaysKept(r)
         /\ \A s \in Server : \A r \in Range(failed[s]) : StaysKept(r)
<1>1. Asked(n)' = 0
  BY DEF OneAnswer
<1>2. Family(Server, Request, talist) /\ Family(Server, Request, failed)
  BY TypeParts
<1>3. /\ \A x \in Edge : \A y \in Range(chan'[x]) : y \in Msg /\ y \notin RequestsBy(n)
      /\ \A s \in Server : \A r \in Range(talist[s]) : r \in Request /\ r.by # n
      /\ \A s \in Server : \A r \in Range(failed[s]) : r \in Request /\ r.by # n
  <2>1. Num(Edge, chan', RequestsBy(n)) + Num(Server, talist, KeptBy(n))
          + Num(Server, failed, KeptBy(n)) = 0
    BY <1>1 DEF Asked
  <2>2. PICK d : d = chan'
    OBVIOUS
  <2> QED
    BY <1>2, <2>1, <2>2, NobodyAsks
<1>4. ASSUME NEW r \in Request, r.by # n
      PROVE  StaysKept(r)
  BY <1>4 DEF Request, OthersKeep, StaysKept
<1>5. \A x \in Edge : \A y \in Range(chan'[x]) : StaysMsg(y)
  BY <1>3, StaysOther
<1> QED
  BY <1>3, <1>4, <1>5

LEMMA NodeNoneStep ==
  ASSUME IInv, ~exited, NEW n \in Node, NodeNone(n)
  PROVE  IInv'
<1>1. /\ TypeOK /\ Routes /\ Nodes /\ OneAnswer /\ OnePlace /\ FirstTask
      /\ DiffsNum /\ UnrepliedNum /\ OneTaskAtATime /\ Retried
  BY DEF IInv
<1>2. /\ NodeReceives(n, "none") /\ ask' = [ask EXCEPT ![n] = NoTask] /\ chan' = NodeTaken(n)
      /\ UNCHANGED serverVars /\ UNCHANGED termVars /\ UNCHANGED <<stack, sub, wrack, up, used>>
  BY DEF NodeNone
<1>3. PICK m \in Msg : \E c :
           /\ m = Received(ServerOf(n), n) /\ m = Head(chan[<<ServerOf(n), n>>]) /\ c = NodeTaken(n)
           /\ Took(TRUE, <<ServerOf(n), n>>, c) /\ Family(Edge, Msg, c) /\ Goes(ServerOf(n), n, m)
           /\ m.kind = "none" /\ up[n]
  BY <1>1, <1>2, NodeHears
<1>4. PICK c : /\ m = Head(chan[<<ServerOf(n), n>>]) /\ c = chan' /\ Took(TRUE, <<ServerOf(n), n>>, c)
  BY <1>2, <1>3
<1>5. m.by = n /\ m \in RequestsBy(n)
  <2>1. Way(n, m.to, m.by)
    BY <1>3 DEF Goes
  <2>2. m.by = n
    BY <2>1, Tree, WayEnds
  <2> QED
    BY <1>3, <2>2 DEF RequestsBy
<1>6. PICK take, e : take = TRUE /\ e = <<ServerOf(n), n>>
  OBVIOUS
<1>7. PICK put, f : put = FALSE /\ f = <<n, ServerOf(n)>>
  OBVIOUS
<1>8. Moves(n, take, e, c, put, f, m)
  BY <1>4, <1>6, <1>7 DEF Moves, Gave
<1>9. OthersKeep(n) /\ ask'[n] = NoTask
  BY <1>1, <1>2 DEF OthersKeep, TypeOK
<1>10. TakesAnswer(n, take, e, put)
  BY <1>4, <1>5, <1>6, <1>7, <1>9 DEF TakesAnswer
<1>11. AskFollows(take, e, put, f, m)
  BY <1>1, <1>3, <1>8, <1>9, <1>10, AnswerTaken
<1>12. StackFollows(n, take, e, put, m) /\ TreqAnswered(take, e, put, m)
  <2>1. UNCHANGED stack /\ Head(chan[e]).kind = "none" /\ ~put
    BY <1>2, <1>3, <1>4, <1>6, <1>7
  <2> QED
    BY <1>1, <2>1, StackStays DEF TreqAnswered
<1>13. \A id : Where(id)' = Where(id)
  <2>1. UNCHANGED stack /\ (take => Head(chan[e]).kind = "none") /\ ~put
    BY <1>2, <1>3, <1>4, <1>6, <1>7
  <2>2. \A id : (take => Head(chan[e]) \notin Carrying(id)) /\ (put => m \notin Carrying(id))
    BY <2>1 DEF Carrying
  <2> QED
    BY <1>1, <1>8, <2>1, <2>2, WhereQuiet
<1>14. Where(0)' = Where(0)
  BY <1>13
<1>15. /\ DiffsNum' /\ UnrepliedNum' /\ OneAnswer' /\ FirstTask' /\ OneTaskAtATime' /\ Retried'
       /\ Family(Edge, Msg, chan')
  BY <1>2, <1>8, <1>9, <1>11, <1>12, <1>14, NodeKeeps
<1>16. OnePlace'
  <2>1. \A id : Waiting(id)' = Waiting(id)
    BY <1>2 DEF Waiting
  <2> QED
    BY <1>1, <1>9, <1>13, <2>1, OnePlaceKept, UpStays
<1>17. Nodes'
  <2>1. UNCHANGED <<valid, used, stack, sub>> /\ up'[n] = up[n]
    BY <1>2 DEF serverVars
  <2>2. ask'[n] \in {NoTask, ask[n]} /\ (~up'[n] => n \in Leaver)
    BY <1>1, <1>9, <2>1 DEF Nodes
  <2> QED
    BY <1>1, <1>9, <2>1, <2>2, NodesStay
<1>18. Routes'
  <2>1. UNCHANGED <<talist, failed>> /\ UNCHANGED <<stack, sub>> /\ ~exited' /\ up'[n]
    BY <1>2, <1>3 DEF serverVars, termVars
  <2>2. \A id : Keeping(id)
    BY <2>1, KeepingSame
  <2>3. /\ \A x \in Edge : \A y \in Range(chan'[x]) : StaysMsg(y)
        /\ \A s \in Server : \A r \in Range(talist[s]) : StaysKept(r)
        /\ \A s \in Server : \A r \in Range(failed[s]) : StaysKept(r)
    BY <1>1, <1>9, <1>15, <2>1, <2>2, NoneIsLeft
  <2>4. put => Goes(f[1], f[2], m)'
    BY <1>7
  <2> QED
    BY <1>1, <1>8, <1>9, <2>1, <2>3, <2>4, NodeRoutes
<1>19. TypeOK'
  <2>1. ask' \in [Node -> {NoTask, AnyTask} \cup SubTask]
    BY <1>1, <1>2 DEF TypeOK
  <2>2. UNCHANGED <<phase, talist, failed, diff, pdiff, unreplied, valid, respond, taskHome, exited>>
    BY <1>2 DEF serverVars, termVars
  <2>3. UNCHANGED <<stack, sub, wrack, up, used>>
    BY <1>2
  <2> QED
    BY <1>1, <1>15, <2>1, <2>2, <2>3, TypeParts, TypePartsNext
<1> QED
  BY <1>15, <1>16, <1>17, <1>18, <1>19 DEF IInv

(* steps that change no task, no stack and nothing about requests *)
LEMMA QuietStep ==
  ASSUME IInv, ~exited, NEW n \in Node, OthersKeep(n), UNCHANGED serverVars, UNCHANGED termVars,
         UNCHANGED <<ask, stack, sub, used>>, ~up'[n] => n \in Leaver,
         wrack' \in [Node -> Int], up' \in [Node -> BOOLEAN],
         NEW take, NEW e, NEW c, NEW put, NEW f, NEW m, Moves(n, take, e, c, put, f, m),
         TreqAnswered(take, e, put, m), AskFollows(take, e, put, f, m),
         take => Head(chan[e]).kind \notin {"task", "rslt"}, put => m.kind \notin {"task", "rslt"},
         put => Goes(f[1], f[2], m)'
  PROVE  IInv'
<1>1. /\ TypeOK /\ Routes /\ Nodes /\ OneAnswer /\ OnePlace /\ FirstTask
      /\ DiffsNum /\ UnrepliedNum /\ OneTaskAtATime /\ Retried
  BY DEF IInv
<1>2. StackFollows(n, take, e, put, m)
  <2>1. ~(take /\ Head(chan[e]).kind = "task") /\ ~(put /\ m.kind = "rslt") /\ UNCHANGED stack
    OBVIOUS
  <2> QED
    BY <1>1, <2>1, StackStays
<1>3. \A id : Where(id)' = Where(id)
  <2>1. \A id : (take => Head(chan[e]) \notin Carrying(id)) /\ (put => m \notin Carrying(id))
    BY DEF Carrying
  <2>2. UNCHANGED stack
    OBVIOUS
  <2> QED
    BY <1>1, <2>1, <2>2, WhereQuiet
<1>4. Where(0)' = Where(0)
  BY <1>3
<1>5. /\ DiffsNum' /\ UnrepliedNum' /\ OneAnswer' /\ FirstTask' /\ OneTaskAtATime' /\ Retried'
      /\ Family(Edge, Msg, chan')
  BY <1>2, <1>4, NodeKeeps
<1>6. OnePlace'
  <2>1. \A id : Waiting(id)' = Waiting(id)
    BY DEF Waiting
  <2> QED
    BY <1>1, <1>3, <2>1, OnePlaceKept, UpStays
<1>7. Nodes'
  <2>1. UNCHANGED <<valid, used, stack, sub>> /\ ask'[n] \in {NoTask, ask[n]}
    BY DEF serverVars
  <2> QED
    BY <1>1, <2>1, NodesStay
<1>8. Routes'
  <2>1. UNCHANGED <<talist, failed>> /\ UNCHANGED <<stack, sub>>
    BY DEF serverVars
  <2>2. \A id : Keeping(id)
    BY <2>1, KeepingSame
  <2>3. /\ \A y : StaysMsg(y)
        /\ \A r : StaysKept(r)
    BY <2>2 DEF StaysMsg, StaysKept
  <2> QED
    BY <1>1, <2>1, <2>3, NodeRoutes
<1>9. TypeOK'
  <2>1. UNCHANGED <<phase, talist, failed, diff, pdiff, unreplied, valid, respond, taskHome, exited>>
    BY DEF serverVars, termVars
  <2>2. UNCHANGED <<ask, stack, sub, used>>
    OBVIOUS
  <2> QED
    BY <1>1, <1>5, <2>1, <2>2, TypeParts, TypePartsNext
<1> QED
  BY <1>5, <1>6, <1>7, <1>8, <1>9 DEF IInv

(* nothing about requests is sent or taken *)
LEMMA NoRequests ==
  ASSUME UNCHANGED ask, NEW take, NEW e, NEW put, NEW f, NEW m,
         take => Head(chan[e]).kind \notin {"treq", "none", "task"},
         put => m.kind \notin {"treq", "none", "task"}
  PROVE  AskFollows(take, e, put, f, m)
<1>1. ASSUME NEW x \in Node
      PROVE  Plus(put, Edge, RequestsBy(x), f, m) = 0 /\ Minus(take, Edge, RequestsBy(x), e) = 0
  BY DEF Plus, Minus, At, RequestsBy
<1>2. \A x \in Node : ask'[x] = ask[x]
  OBVIOUS
<1> QED
  BY <1>1, <1>2 DEF AskFollows

LEMMA NodeRackStep ==
  ASSUME IInv, ~exited, NEW n \in Node, NodeRack(n)
  PROVE  IInv'
<1>1. TypeOK /\ Routes /\ Nodes
  BY DEF IInv
<1>2. /\ NodeReceives(n, "rack") /\ wrack' = [wrack EXCEPT ![n] = @ - 1] /\ chan' = NodeTaken(n)
      /\ UNCHANGED serverVars /\ UNCHANGED termVars /\ UNCHANGED <<ask, stack, sub, up, used>>
  BY DEF NodeRack
<1>3. PICK m \in Msg : \E c :
           /\ m = Received(ServerOf(n), n) /\ m = Head(chan[<<ServerOf(n), n>>]) /\ c = NodeTaken(n)
           /\ Took(TRUE, <<ServerOf(n), n>>, c) /\ Family(Edge, Msg, c) /\ Goes(ServerOf(n), n, m)
           /\ m.kind = "rack" /\ up[n]
  BY <1>1, <1>2, NodeHears
<1>4. PICK c : /\ m = Head(chan[<<ServerOf(n), n>>]) /\ c = chan' /\ Took(TRUE, <<ServerOf(n), n>>, c)
  BY <1>2, <1>3
<1>5. PICK take, e : take = TRUE /\ e = <<ServerOf(n), n>>
  OBVIOUS
<1>6. PICK put, f : put = FALSE /\ f = <<n, ServerOf(n)>>
  OBVIOUS
<1>7. Moves(n, take, e, c, put, f, m)
  BY <1>4, <1>5, <1>6 DEF Moves, Gave
<1>8. Head(chan[e]).kind = "rack" /\ ~put
  BY <1>3, <1>4, <1>5, <1>6
<1>9. AskFollows(take, e, put, f, m)
  BY <1>2, <1>8, NoRequests
<1>10. TreqAnswered(take, e, put, m)
  BY <1>8 DEF TreqAnswered
<1>11. OthersKeep(n) /\ (~up'[n] => n \in Leaver)
  BY <1>1, <1>2 DEF OthersKeep, Nodes
<1>12. wrack' \in [Node -> Int] /\ up' \in [Node -> BOOLEAN]
  BY <1>1, <1>2 DEF TypeOK
<1>13. UNCHANGED <<ask, stack, sub, used>> /\ UNCHANGED serverVars /\ UNCHANGED termVars
  BY <1>2
<1> QED
  BY <1>7, <1>8, <1>9, <1>10, <1>11, <1>12, <1>13, QuietStep

LEMMA LeaveStep ==
  ASSUME IInv, ~exited, NEW n \in Node, Leave(n)
  PROVE  IInv'
<1>1. TypeOK /\ Routes /\ Nodes
  BY DEF IInv
<1>2. /\ n \in Leaver /\ up' = [up EXCEPT ![n] = FALSE] /\ chan' = NodeSends(n, chan, leav)
      /\ UNCHANGED serverVars /\ UNCHANGED termVars /\ UNCHANGED <<ask, stack, sub, wrack, used>>
  BY DEF Leave
<1>3. PICK m \in Msg : m = leav /\ m.kind = "leav"
  BY LeavMade
<1>4. PICK c : c = chan
  OBVIOUS
<1>5. PICK take, e : take = FALSE /\ e = <<ServerOf(n), n>>
  OBVIOUS
<1>6. PICK put, f : put = TRUE /\ f = <<n, ServerOf(n)>>
  OBVIOUS
<1>7. Moves(n, take, e, c, put, f, m)
  <2>1. Family(Edge, Msg, c) /\ chan' = NodeSends(n, c, m)
    BY <1>1, <1>2, <1>3, <1>4, TypeParts
  <2>2. Gave(put, c, f, m)
    BY <1>6, <2>1, NodeSays
  <2> QED
    BY <1>4, <1>5, <1>6, <2>2 DEF Moves, Took
<1>8. m.kind = "leav" /\ ~take
  BY <1>3, <1>5
<1>9. AskFollows(take, e, put, f, m)
  BY <1>2, <1>8, NoRequests
<1>10. TreqAnswered(take, e, put, m)
  BY <1>8 DEF TreqAnswered
<1>11. OthersKeep(n) /\ n \in Leaver /\ ~up'[n]
  BY <1>1, <1>2 DEF OthersKeep, TypeOK
<1>12. wrack' \in [Node -> Int] /\ up' \in [Node -> BOOLEAN]
  BY <1>1, <1>2 DEF TypeOK
<1>13. UNCHANGED <<ask, stack, sub, used>> /\ UNCHANGED serverVars /\ UNCHANGED termVars
  BY <1>2
<1>14. put => Goes(f[1], f[2], m)'
  BY <1>6, <1>8, <1>11, Tree DEF Goes
<1> QED
  BY <1>7, <1>8, <1>9, <1>10, <1>11, <1>12, <1>13, <1>14, QuietStep

LEMMA RequestAnswered ==
  ASSUME NEW n, UNCHANGED ask, NEW take, NEW e, NEW put, NEW f, NEW m, NEW c,
         Moves(n, take, e, c, put, f, m), take, put, e \in Edge, f \in Edge,
         Head(chan[e]).kind = "treq", m.kind \in {"none", "task"}, m.by = Head(chan[e]).by
  PROVE  AskFollows(take, e, put, f, m) /\ TreqAnswered(take, e, put, m)
<1>1. Head(chan[e]) \in Msg /\ m \in Msg
  BY DEF Moves
<1>2. ASSUME NEW x \in Node
      PROVE  Plus(put, Edge, RequestsBy(x), f, m) = Minus(take, Edge, RequestsBy(x), e)
  <2>1. m \in RequestsBy(x) <=> Head(chan[e]) \in RequestsBy(x)
    BY <1>1 DEF RequestsBy
  <2> QED
    BY <2>1 DEF Plus, Minus, At
<1>3. \A x \in Node : ask'[x] = ask[x]
  OBVIOUS
<1>4. AskFollows(take, e, put, f, m)
  BY <1>2, <1>3 DEF AskFollows
<1>5. TreqAnswered(take, e, put, m)
  BY DEF TreqAnswered
<1> QED
  BY <1>4, <1>5

LEMMA NumNone ==
  ASSUME NEW at, NEW c, NEW M, \A x \in at : \A y \in Range(c[x]) : y \notin M
  PROVE  Num(at, c, M) = 0
<1>1. \A x \in at : \A i \in DOMAIN c[x] : c[x][i] \notin M
  BY DEF Range
<1>2. Positions(at, c, M) = {}
  BY <1>1 DEF Positions
<1> QED
  BY <1>2, FS_EmptySet DEF Num

(* d has what c has, and t in the sequence of x *)
Adds(D, X, c, d, x, t) ==
  /\ Family(D, X, c) /\ Family(D, X, d) /\ x \in D /\ t \in X
  /\ \A y \in D \ {x} : d[y] = c[y]
  /\ \A M : Num(D, d, M) = Num(D, c, M) + At(D, M, x, t)
  /\ \A M : Num(D, c, M) \in Nat /\ Num(D, d, M) \in Nat
  /\ \A y \in D : \A q \in Range(c[y]) : q \in Range(d[y])
  /\ \A y \in D : \A q \in Range(d[y]) : (y = x /\ q = t) \/ q \in Range(c[y])
  /\ t \in Range(d[x])

LEMMA AddsOne ==
  ASSUME NEW D, IsFiniteSet(D), NEW X, NEW c, NEW d, Family(D, X, c), Family(D, X, d),
         NEW x \in D, NEW k, Without(d, c, x, k)
  PROVE  Adds(D, X, c, d, x, d[x][k])
<1>1. \A y \in D \ {x} : d[y] = c[y]
  BY Differ
<1>2. \A M : Num(D, d, M) = Num(D, c, M) + At(D, M, x, d[x][k])
  BY Differ
<1>3. \A M : Num(D, c, M) \in Nat /\ Num(D, d, M) \in Nat
  BY Differ
<1>4. \A y \in D : \A q \in Range(c[y]) : q \in Range(d[y])
  BY Differ
<1>5. \A y \in D : \A q \in Range(d[y]) : (y = x /\ q = d[x][k]) \/ q \in Range(c[y])
  BY Differ
<1>6. d[x][k] \in Range(d[x]) /\ d[x][k] \in X
  BY Differ
<1> QED
  BY <1>1, <1>2, <1>3, <1>4, <1>5, <1>6 DEF Adds

LEMMA AppendAdds ==
  ASSUME NEW D, IsFiniteSet(D), NEW X, NEW c, Family(D, X, c), NEW x \in D, NEW t \in X,
         NEW d, d = [c EXCEPT ![x] = Append(@, t)]
  PROVE  /\ Adds(D, X, c, d, x, t) /\ Len(d[x]) = Len(c[x]) + 1
         /\ \A k \in 1..Len(c[x]) : d[x][k] = c[x][k]
<1>1. c[x] \in Seq(X) /\ Len(c[x]) \in Nat
  BY DEF Family
<1>2. PICK u : u = Append(c[x], t)
  OBVIOUS
<1>3. u \in Seq(X) /\ Lacks(u, c[x], Len(c[x]) + 1) /\ u[Len(c[x]) + 1] = t
  BY <1>1, <1>2, AppendLacks
<1>4. d[x] = u /\ (\A y \in D \ {x} : d[y] = c[y]) /\ d \in [D -> Seq(X)]
  BY <1>2, <1>3 DEF Family
<1>5. Family(D, X, d)
  BY <1>4 DEF Family
<1>6. PICK K : K = Len(c[x]) + 1
  OBVIOUS
<1>7. Without(d, c, x, K) /\ d[x][K] = t
  BY <1>3, <1>4, <1>6 DEF Without
<1>8. Adds(D, X, c, d, x, d[x][K])
  BY <1>5, <1>7, AddsOne
<1>9. Len(d[x]) = Len(c[x]) + 1 /\ \A k \in 1..Len(c[x]) : d[x][k] = c[x][k]
  BY <1>1, <1>2, <1>4
<1> QED
  BY <1>7, <1>8, <1>9

LEMMA NodeRefuses ==
  ASSUME IInv, ~exited, NEW n \in Node, UNCHANGED serverVars, UNCHANGED termVars,
         UNCHANGED <<ask, stack, wrack, up>>, UNCHANGED <<sub, used>>,
         NEW m \in Msg, m.kind = "treq", Goes(ServerOf(n), n, m),
         NEW take, NEW e, NEW c, NEW put, NEW f, NEW g, Moves(n, take, e, c, put, f, g), take, put,
         Head(chan[e]) = m, g = none(m.from, m.by)
  PROVE  IInv'
<1>1. TypeOK /\ Nodes
  BY DEF IInv
<1>2. m.from \in Path /\ m.by \in Node /\ Way(ServerOf(n), m.from, m.by)
  BY MsgParts DEF Goes, Treq
<1>3. g.kind = "none" /\ g.to = m.from /\ g.by = m.by
  BY <1>2, MsgMade
<1>4. e \in Edge /\ f \in Edge /\ f[1] = n /\ f[2] = ServerOf(n)
  BY Edges DEF Moves
<1>5. AskFollows(take, e, put, f, g) /\ TreqAnswered(take, e, put, g)
  <2>1. Head(chan[e]).kind = "treq" /\ g.kind \in {"none", "task"} /\ g.by = Head(chan[e]).by
    BY <1>3
  <2>2. UNCHANGED ask
    OBVIOUS
  <2> QED
    BY <1>4, <2>1, <2>2, RequestAnswered
<1>6. Goes(f[1], f[2], g)'
  BY <1>2, <1>3, <1>4, Tree DEF Goes
<1>7. OthersKeep(n) /\ (~up'[n] => n \in Leaver)
  BY <1>1 DEF OthersKeep, Nodes
<1>8. wrack' \in [Node -> Int] /\ up' \in [Node -> BOOLEAN]
  BY <1>1 DEF TypeOK
<1>9. Head(chan[e]).kind \notin {"task", "rslt"} /\ g.kind \notin {"task", "rslt"}
  BY <1>3
<1>10. UNCHANGED <<ask, stack, sub, used>>
  OBVIOUS
<1> QED
  BY <1>5, <1>6, <1>7, <1>8, <1>9, <1>10, QuietStep

(* a request is accepted: a task is made for it of what the node has *)
NewTask(id) == id = used + 1 /\ id \in SubTask /\ used' = id
MadeOf(n, m, id, t) ==
  /\ t.id = id /\ t.thief = m.from /\ t.depth = Len(stack[n])
  /\ Adds(Node, Spawned, sub, sub', n, t)
Gives(take, e, put, g, m, id) ==
  /\ take /\ put /\ Head(chan[e]) = m
  /\ g.kind = "task" /\ g.to = m.from /\ g.from = <<>> /\ g.by = m.by /\ g.id = id

LEMMA NodeAccepts ==
  ASSUME IInv, ~exited, NEW n \in Node, UNCHANGED serverVars, UNCHANGED termVars,
         UNCHANGED <<ask, stack, wrack, up>>,
         NEW m \in Msg, m.kind = "treq", Goes(ServerOf(n), n, m), MayAccept(n, m),
         NEW id, NewTask(id), NEW t \in Spawned, MadeOf(n, m, id, t),
         NEW take, NEW e, NEW c, NEW put, NEW f, NEW g, Moves(n, take, e, c, put, f, g),
         Gives(take, e, put, g, m, id)
  PROVE  IInv'
<1>1. /\ TypeOK /\ Routes /\ Nodes /\ OneAnswer /\ OnePlace /\ FirstTask
      /\ DiffsNum /\ UnrepliedNum /\ OneTaskAtATime /\ Retried
  BY DEF IInv
<1>2. /\ m.from \in Path /\ m.by \in Node /\ Treq(ServerOf(n), n, m)
      /\ Way(ServerOf(n), m.from, m.by)
  BY MsgParts DEF Goes, Treq
<1>3. Family(Node, Spawned, sub) /\ Family(Node, Given, stack) /\ used \in 0..MaxTask
  BY <1>1, TypeParts
<1>4. /\ Family(Node, Spawned, sub') /\ \A y \in Node \ {n} : sub'[y] = sub[y]
      /\ \A M : Num(Node, sub', M) = Num(Node, sub, M) + At(Node, M, n, t)
      /\ \A M : Num(Node, sub, M) \in Nat
      /\ \A y \in Node : \A q \in Range(sub[y]) : q \in Range(sub'[y])
      /\ \A y \in Node : \A q \in Range(sub'[y]) : (y = n /\ q = t) \/ q \in Range(sub[y])
      /\ t \in Range(sub'[n])
  BY DEF MadeOf, Adds
<1>5. e \in Edge /\ f \in Edge /\ f[1] = n /\ f[2] = ServerOf(n)
  BY Edges DEF Moves
<1>6. id # 0 /\ id \in Nat /\ used' = id
  BY Zero DEF SubTask, NewTask
<1>7. OthersKeep(n)
  BY <1>4 DEF OthersKeep
<1>8. AskFollows(take, e, put, f, g) /\ TreqAnswered(take, e, put, g)
  <2>1. /\ Head(chan[e]).kind = "treq" /\ g.kind \in {"none", "task"} /\ g.by = Head(chan[e]).by
        /\ take /\ put
    BY DEF Gives
  <2>2. UNCHANGED ask
    OBVIOUS
  <2> QED
    BY <1>5, <2>1, <2>2, RequestAnswered
<1>9. StackFollows(n, take, e, put, g)
  <2>1. ~(take /\ Head(chan[e]).kind = "task") /\ ~(put /\ g.kind = "rslt") /\ UNCHANGED stack
    BY DEF Gives
  <2> QED
    BY <1>1, <2>1, StackStays
<1>10. \A j : j # id => Where(j)' = Where(j)
  <2>1. Head(chan[e]).kind = "treq" /\ UNCHANGED stack /\ g.id = id
    BY DEF Gives
  <2>2. ASSUME NEW j, j # id
        PROVE  Where(j)' = Where(j)
    <3>1. (take => Head(chan[e]) \notin Carrying(j)) /\ (put => g \notin Carrying(j))
      BY <2>1, <2>2 DEF Carrying
    <3> QED
      BY <1>1, <2>1, <3>1, WhereQuiet
  <2> QED
    BY <2>2
<1>11. /\ DiffsNum' /\ UnrepliedNum' /\ OneAnswer' /\ FirstTask' /\ OneTaskAtATime' /\ Retried'
       /\ Family(Edge, Msg, chan')
  <2>1. Where(0)' = Where(0)
    BY <1>6, <1>10
  <2> QED
    BY <1>7, <1>8, <1>9, <2>1, NodeKeeps
<1>12. Waiting(id) = 0
  <2>1. ASSUME NEW x \in Node, NEW y \in Range(sub[x])
        PROVE  y \notin SpawnedAs(id)
    <3>1. y.id <= used /\ used \in Nat
      BY <1>1, <1>3 DEF Nodes
    <3>2. y \in Spawned
      BY <1>3, FamilyElement DEF Range
    <3>3. y.id # id
      BY <3>1, <3>2 DEF Spawned, SubTask, NewTask
    <3> QED
      BY <3>3 DEF SpawnedAs
  <2> QED
    BY <2>1, NumNone DEF Waiting
<1>13. Waiting(id)' = 1 /\ \A j : j # id => Waiting(j)' = Waiting(j)
  <2>1. \A j : Waiting(j)' = Waiting(j) + At(Node, SpawnedAs(j), n, t) /\ Waiting(j) \in Nat
    BY <1>4 DEF Waiting
  <2>2. At(Node, SpawnedAs(id), n, t) = 1
    BY DEF At, SpawnedAs, MadeOf
  <2>3. \A j : j # id => At(Node, SpawnedAs(j), n, t) = 0
    BY DEF At, SpawnedAs, MadeOf
  <2> QED
    BY <1>12, <2>1, <2>2, <2>3
<1>14. Where(id)' = 1
  <2>1. PICK A \in Nat, B \in Nat : \E P, Q \in 0..1 :
           /\ P = Plus(put, Edge, Carrying(id), f, g) /\ Q = Minus(take, Edge, Carrying(id), e)
           /\ Where(id) = Running(id) + A /\ Where(id)' = Running(id)' + B /\ B = A - Q + P
    BY <1>1, WhereMoved
  <2>2. Plus(put, Edge, Carrying(id), f, g) = 1
    <3>1. g \in Msg
      BY DEF Moves, Gives
    <3>2. g \in Carrying(id)
      BY <3>1 DEF Carrying, Gives
    <3> QED
      BY <1>5, <3>2 DEF Plus, At, Gives
  <2>3. Minus(take, Edge, Carrying(id), e) = 0
    BY DEF Minus, At, Carrying, Gives
  <2>4. Running(id)' = Running(id) /\ Running(id) \in Nat
    BY <1>1, Counts DEF Running
  <2>5. Where(id) = 0
    <3>1. Where(id) <= 0
      BY <1>1, <1>12 DEF OnePlace, NewTask
    <3> QED
      BY <2>1, <2>4, <3>1
  <2>6. B = A + 1 /\ Running(id) + A = 0 /\ Where(id)' = Running(id)' + B
    BY <2>1, <2>2, <2>3, <2>5
  <2> QED
    BY <2>4, <2>6
<1>15. OnePlace'
  <2>1. ASSUME NEW j \in SubTask
        PROVE  /\ Waiting(j)' <= 1 /\ Where(j)' <= Waiting(j)'
               /\ AllUp' => Where(j)' = Waiting(j)'
    <3>1. CASE j = id
      BY <1>13, <1>14, <3>1
    <3>2. CASE j # id
      <4>1. Waiting(j)' = Waiting(j) /\ Where(j)' = Where(j)
        BY <1>10, <1>13, <3>2
      <4>2. AllUp' => AllUp
        BY <1>7, UpStays
      <4> QED
        BY <1>1, <4>1, <4>2 DEF OnePlace
    <3> QED
      BY <3>1, <3>2
  <2> QED
    BY <2>1 DEF OnePlace
<1>16. \A j : Keeping(j)
  BY <1>4 DEF Keeping
<1>17. Nodes'
  <2>1. UNCHANGED valid /\ used' \in Nat /\ used <= used' /\ UNCHANGED up /\ UNCHANGED ask
    BY <1>3, <1>6 DEF serverVars, NewTask
  <2>2. \A x \in Node : \A q \in Range(stack'[x]) : WayHome(ServerOf(x), q.back, q.id)'
    <3>1. \A x \in Node : \A q \in Range(stack'[x]) : WayHome(ServerOf(x), q.back, q.id)
      BY <1>1 DEF Nodes
    <3> QED
      BY <1>16, <3>1, WayHomeKept
  <2>3. ASSUME NEW q \in Range(sub'[n])
        PROVE  /\ q.id <= used' /\ q.depth \in DOMAIN stack'[n]
               /\ WayToNode(ServerOf(n), q.thief)
    <3>1. CASE q = t
      <4>1. stack[n] # <<>>
        BY DEF MayAccept
      <4>2. Len(stack[n]) \in DOMAIN stack[n]
        <5>1. stack[n] \in Seq(Given) /\ DOMAIN stack[n] = 1..Len(stack[n]) /\ Len(stack[n]) \in Nat \ {0}
          BY <1>3, <4>1, FamilyElement
        <5> QED
          BY <5>1
      <4>3. WayToNode(ServerOf(n), m.from)
        BY <1>2 DEF WayToNode
      <4> QED
        BY <1>6, <3>1, <4>2, <4>3 DEF MadeOf
    <3>2. CASE q \in Range(sub[n])
      <4>1. q.id <= used /\ q.depth \in DOMAIN stack[n] /\ WayToNode(ServerOf(n), q.thief)
        BY <1>1, <3>2 DEF Nodes
      <4>2. q \in Spawned
        BY <1>3, <3>2, FamilyElement DEF Range
      <4>3. q.id \in Int
        BY <4>2 DEF Spawned, SubTask
      <4> QED
        BY <2>1, <1>3, <4>1, <4>3
    <3> QED
      BY <1>4, <3>1, <3>2
  <2>4. ASSUME NEW j \in SubTask, HasSub(n, j)'
        PROVE  HasSub(n, j) \/ j > used
    <3>1. PICK q \in Range(sub'[n]) : q.id = j
      BY <2>4 DEF HasSub
    <3>2. CASE q = t
      BY <1>3, <3>1, <3>2 DEF MadeOf, NewTask
    <3>3. CASE q \in Range(sub[n])
      BY <3>1, <3>3 DEF HasSub
    <3> QED
      BY <1>4, <3>1, <3>2, <3>3
  <2>5. ask'[n] = AnyTask => stack'[n] = <<>>
    BY <1>1 DEF Nodes
  <2>6. ASSUME NEW j \in SubTask, ask'[n] = j
        PROVE  j <= used' /\ \A x \in Node : HasSub(x, j)' => x = n
    <3>1. ask[n] = j
      BY <2>1, <2>6
    <3>2. j <= used /\ j \in Int
      BY <1>1, <3>1 DEF Nodes, SubTask
    <3>3. j <= used'
      BY <1>3, <2>1, <3>2
    <3>4. \A x \in Node : HasSub(x, j) => x = n
      BY <1>1, <3>1 DEF Nodes
    <3>5. \A x \in Node : x # n => (HasSub(x, j)' <=> HasSub(x, j))
      BY <1>4 DEF HasSub
    <3> QED
      BY <3>3, <3>4, <3>5
  <2>7. ~up'[n] => n \in Leaver
    BY <1>1, <2>1 DEF Nodes
  <2> QED
    BY <1>1, <1>7, <2>1, <2>2, <2>3, <2>4, <2>5, <2>6, <2>7, NodesNext
<1>18. Goes(f[1], f[2], g)'
  <2>1. WayHome(n, <<>>, id)'
    <3>1. Way(n, <<>>, n)
      BY WayHere
    <3>2. HasSub(n, id)'
      BY <1>4 DEF HasSub, MadeOf
    <3> QED
      BY <1>6, <3>1, <3>2 DEF WayHome
  <2>2. ASSUME up'[m.by], ask'[m.by] \in SubTask
        PROVE  \E x \in Node : \E q \in Range(sub'[x]) :
                 q.id = id /\ \E k \in 1..q.depth : stack'[x][k].id = ask'[m.by]
    <3>1. ask[m.by] = m.for /\ m.for \in SubTask
      BY <1>2, <2>2 DEF Treq
    <3>2. PICK k \in DOMAIN stack[n] : stack[n][k].id = m.for
      BY <3>1, Zero DEF MayAccept
    <3>3. k \in 1..t.depth
      BY <1>3, FamilyElement DEF MadeOf
    <3> QED
      BY <1>4, <3>1, <3>2, <3>3 DEF MadeOf
  <2>3. MadeFor(id, m.by)'
    BY <2>2 DEF MadeFor
  <2> QED
    BY <1>2, <1>5, <2>1, <2>3, Tree DEF Goes, Gives
<1>19. Routes'
  <2>1. UNCHANGED <<talist, failed>>
    BY DEF serverVars
  <2>2. (\A y : StaysMsg(y)) /\ \A r : StaysKept(r)
    BY <1>16 DEF StaysMsg, StaysKept
  <2> QED
    BY <1>1, <1>7, <1>18, <2>1, <2>2, NodeRoutes
<1>20. TypeOK'
  <2>1. UNCHANGED <<phase, talist, failed, diff, pdiff, unreplied, valid, respond, taskHome, exited>>
    BY DEF serverVars, termVars
  <2>2. UNCHANGED <<ask, stack, wrack, up>> /\ used' \in 0..MaxTask
    BY <1>3 DEF SubTask, NewTask
  <2> QED
    BY <1>1, <1>4, <1>11, <2>1, <2>2, TypeParts, TypePartsNext
<1> QED
  BY <1>11, <1>15, <1>17, <1>19, <1>20 DEF IInv

LEMMA NodeTreqStep ==
  ASSUME IInv, ~exited, NEW n \in Node, NodeTreq(n)
  PROVE  IInv'
<1>1. TypeOK /\ Routes /\ Nodes
  BY DEF IInv
<1>2. NodeReceives(n, "treq") /\ UNCHANGED serverVars /\ UNCHANGED termVars /\ UNCHANGED <<ask, stack, wrack, up>>
  BY DEF NodeTreq
<1>3. PICK m \in Msg : \E c :
           /\ m = Received(ServerOf(n), n) /\ m = Head(chan[<<ServerOf(n), n>>]) /\ c = NodeTaken(n)
           /\ Took(TRUE, <<ServerOf(n), n>>, c) /\ Family(Edge, Msg, c) /\ Goes(ServerOf(n), n, m)
           /\ m.kind = "treq" /\ up[n]
  BY <1>1, <1>2, NodeHears
<1>4. PICK c :
           /\ m = Received(ServerOf(n), n) /\ m = Head(chan[<<ServerOf(n), n>>]) /\ c = NodeTaken(n)
           /\ Took(TRUE, <<ServerOf(n), n>>, c) /\ Family(Edge, Msg, c) /\ Goes(ServerOf(n), n, m)
           /\ m.kind = "treq" /\ up[n]
  BY <1>3
<1>5. m.from \in Path /\ m.by \in Node
  BY <1>4, MsgParts
<1>6. PICK take, e : take = TRUE /\ e = <<ServerOf(n), n>>
  OBVIOUS
<1>7. PICK put, f : put = TRUE /\ f = <<n, ServerOf(n)>>
  OBVIOUS
<1>8. ASSUME NEW g \in Msg, chan' = NodeSends(n, c, g)
      PROVE  Moves(n, take, e, c, put, f, g)
  <2>1. Gave(put, c, f, g)
    BY <1>4, <1>7, <1>8, NodeSays
  <2> QED
    BY <1>4, <1>6, <1>7, <2>1 DEF Moves
<1>9. PICK id : id = used + 1
  OBVIOUS
<1>10. PICK t : t = [id |-> id, thief |-> m.from, depth |-> Len(stack[n])]
  OBVIOUS
<1>11. CASE /\ MayAccept(n, m) /\ used < MaxTask /\ used' = id
            /\ sub' = [sub EXCEPT ![n] = Append(@, t)]
            /\ chan' = NodeSends(n, c, task(m.from, <<>>, m.by, id))
  <2>1. NewTask(id)
    <3>1. used \in 0..MaxTask /\ MaxTask \in Nat
      BY <1>1, TreeAssumption DEF TypeOK
    <3>2. id \in SubTask
      BY <1>9, <1>11, <3>1 DEF SubTask
    <3> QED
      BY <1>9, <1>11, <3>2 DEF NewTask
  <2>2. t \in Spawned
    <3>1. Len(stack[n]) \in Nat
      BY <1>1, TypeParts, FamilyElement
    <3> QED
      BY <1>5, <1>10, <2>1, <3>1 DEF Spawned, NewTask
  <2>3. MadeOf(n, m, id, t)
    <3>1. PICK d : d = sub' /\ d = [sub EXCEPT ![n] = Append(@, t)]
      BY <1>11
    <3>2. Family(Node, Spawned, sub)
      BY <1>1, TypeParts
    <3>3. Adds(Node, Spawned, sub, d, n, t)
      BY <2>2, <3>1, <3>2, Finite, AppendAdds
    <3> QED
      BY <1>10, <3>1, <3>3 DEF MadeOf
  <2>4. PICK g \in Msg : /\ g = task(m.from, <<>>, m.by, id) /\ g.kind = "task" /\ g.to = m.from
                         /\ g.from = <<>> /\ g.by = m.by /\ g.id = id
    <3>1. id \in Task /\ <<>> \in Path
      BY <2>1, WayHere DEF Task, NewTask
    <3> QED
      BY <1>5, <3>1, MsgMade
  <2>5. Gives(take, e, put, g, m, id)
    BY <1>4, <1>6, <1>7, <2>4 DEF Gives
  <2>6. Moves(n, take, e, c, put, f, g)
    BY <1>8, <1>11, <2>4
  <2>7. m.kind = "treq" /\ Goes(ServerOf(n), n, m) /\ MayAccept(n, m)
    BY <1>4, <1>11
  <2> QED
    BY <1>2, <2>1, <2>2, <2>3, <2>5, <2>6, <2>7, NodeAccepts
<1>12. CASE chan' = NodeSends(n, c, none(m.from, m.by)) /\ UNCHANGED <<sub, used>>
  <2>1. PICK g \in Msg : g = none(m.from, m.by)
    BY <1>5, MsgMade
  <2>2. Moves(n, take, e, c, put, f, g)
    BY <1>8, <1>12, <2>1
  <2>3. m.kind = "treq" /\ Goes(ServerOf(n), n, m)
    BY <1>4
  <2>4. take /\ put /\ Head(chan[e]) = m
    BY <1>4, <1>6, <1>7
  <2>5. UNCHANGED <<sub, used>>
    BY <1>12
  <2> QED
    BY <1>2, <2>1, <2>2, <2>3, <2>4, <2>5, NodeRefuses
<1> QED
  BY <1>4, <1>9, <1>10, <1>11, <1>12 DEF NodeTreq

(* a node takes the task that it has asked for *)
Longer(n) ==
  /\ Len(stack'[n]) = Len(stack[n]) + 1 /\ \A k \in 1..Len(stack[n]) : stack'[n][k] = stack[n][k]
TakesTask(n, m, t, take, put, e) ==
  /\ take /\ ~put /\ Head(chan[e]) = m /\ m.kind = "task"
  /\ t.id = m.id /\ t.back = m.from /\ Adds(Node, Given, stack, stack', n, t) /\ Longer(n)
NoLongerAsks(n) == ask'[n] = NoTask /\ ask' \in [Node -> {NoTask, AnyTask} \cup SubTask]

LEMMA NodeTakes ==
  ASSUME IInv, ~exited, NEW n \in Node, UNCHANGED serverVars, UNCHANGED termVars,
         UNCHANGED <<sub, wrack, up, used>>, up[n], OthersKeep(n), NoLongerAsks(n),
         NEW m \in Msg, Goes(ServerOf(n), n, m), NEW t, NEW take, NEW e, NEW c, NEW put, NEW f, NEW g,
         Moves(n, take, e, c, put, f, g), TakesTask(n, m, t, take, put, e)
  PROVE  IInv'
<1>1. /\ TypeOK /\ Routes /\ Nodes /\ OneAnswer /\ OnePlace /\ FirstTask
      /\ DiffsNum /\ UnrepliedNum /\ OneTaskAtATime /\ Retried
  BY DEF IInv
<1>2. m.by = n /\ m \in RequestsBy(n) /\ WayHome(ServerOf(n), m.from, m.id)
  <2>1. Way(n, m.to, m.by) /\ WayHome(ServerOf(n), m.from, m.id)
    BY DEF Goes, TakesTask
  <2>2. m.by = n
    BY <2>1, Tree, WayEnds
  <2> QED
    BY <2>1, <2>2 DEF RequestsBy, TakesTask
<1>3. /\ Family(Node, Given, stack') /\ Family(Node, Given, stack)
      /\ \A M : Num(Node, stack', M) = Num(Node, stack, M) + At(Node, M, n, t)
      /\ \A M : Num(Node, stack, M) \in Nat
      /\ \A y \in Node : \A q \in Range(stack'[y]) : (y = n /\ q = t) \/ q \in Range(stack[y])
      /\ t \in Given
  BY DEF Adds, TakesTask
<1>4. Len(stack[n]) \in Nat /\ Family(Node, Spawned, sub)
  BY <1>1, <1>3, FamilyElement, TypeParts
<1>5. e \in Edge
  BY Edges DEF Moves
<1>6. AskFollows(take, e, put, f, g)
  <2>1. TakesAnswer(n, take, e, put)
    BY <1>2 DEF TakesAnswer, TakesTask, NoLongerAsks
  <2> QED
    BY <1>1, <2>1, AnswerTaken
<1>7. StackFollows(n, take, e, put, g) /\ TreqAnswered(take, e, put, g)
  <2>1. (IF take /\ Head(chan[e]).kind = "task" THEN 1 ELSE 0) = 1
    BY DEF TakesTask
  <2>2. (IF put /\ g.kind = "rslt" THEN 1 ELSE 0) = 0
    BY DEF TakesTask
  <2>3. Len(stack'[n]) = Len(stack[n]) + 1 - 0
    BY <1>4 DEF Longer, TakesTask
  <2>4. TreqAnswered(take, e, put, g)
    BY DEF TreqAnswered, TakesTask
  <2> QED
    BY <2>1, <2>2, <2>3, <2>4 DEF StackFollows
<1>8. ASSUME NEW id
      PROVE  Where(id)' = Where(id)
  <2>1. PICK K \in 0..1 : K = IF m.id = id THEN 1 ELSE 0
    OBVIOUS
  <2>2. Plus(put, Edge, Carrying(id), f, g) = 0
    BY DEF Plus, TakesTask
  <2>3. Minus(take, Edge, Carrying(id), e) = K
    BY <1>5, <2>1 DEF Minus, At, Carrying, TakesTask
  <2>4. At(Node, GivenAs(id), n, t) = K
    BY <1>3, <2>1 DEF At, GivenAs, TakesTask
  <2>5. Running(id)' = Running(id) + K
    BY <1>3, <2>4 DEF Running
  <2>6. Where(id)' = Where(id) + K + 0 - K /\ Where(id) \in Nat
    BY <1>1, <2>2, <2>3, <2>5, WhereNext
  <2> QED
    BY <2>6
<1>9. /\ DiffsNum' /\ UnrepliedNum' /\ OneAnswer' /\ FirstTask' /\ OneTaskAtATime' /\ Retried'
      /\ Family(Edge, Msg, chan')
  <2>1. Where(0)' = Where(0)
    BY <1>8
  <2> QED
    BY <1>6, <1>7, <2>1, NodeKeeps
<1>10. OnePlace'
  <2>1. \A id : Waiting(id)' = Waiting(id) /\ Where(id)' = Where(id)
    BY <1>8 DEF Waiting
  <2> QED
    BY <1>1, <2>1, OnePlaceKept, UpStays
<1>11. \A id : Keeping(id)
  <2>1. ASSUME NEW x \in Node, NEW q \in Range(sub[x]), NEW k \in 1..q.depth
        PROVE  stack'[x][k] = stack[x][k]
    <3>1. CASE x = n
      <4>1. q.depth \in DOMAIN stack[n] /\ DOMAIN stack[n] = 1..Len(stack[n])
        BY <1>1, <1>3, <3>1, FamilyElement DEF Nodes
      <4>2. k \in 1..Len(stack[n])
        BY <1>4, <4>1
      <4> QED
        BY <3>1, <4>2 DEF Longer, TakesTask
    <3>2. CASE x # n
      BY <3>2 DEF OthersKeep
    <3> QED
      BY <3>1, <3>2
  <2> QED
    BY <2>1 DEF Keeping
<1>12. Nodes'
  <2>1. UNCHANGED valid /\ used' \in Nat /\ used <= used'
    BY <1>1 DEF serverVars, TypeOK
  <2>2. ASSUME NEW x \in Node, NEW q \in Range(stack'[x])
        PROVE  WayHome(ServerOf(x), q.back, q.id)'
    <3>1. WayHome(ServerOf(x), q.back, q.id)
      BY <1>1, <1>2, <1>3 DEF Nodes, TakesTask
    <3> QED
      BY <1>11, <3>1, WayHomeKept
  <2>3. ASSUME NEW q \in Range(sub'[n])
        PROVE  /\ q.id <= used' /\ q.depth \in DOMAIN stack'[n]
               /\ WayToNode(ServerOf(n), q.thief)
    <3>1. q.id <= used /\ q.depth \in DOMAIN stack[n] /\ WayToNode(ServerOf(n), q.thief)
      BY <1>1 DEF Nodes
    <3>2. q.depth \in 1..Len(stack[n]) /\ DOMAIN stack'[n] = 1..Len(stack'[n])
      BY <1>3, <3>1, FamilyElement
    <3>3. q.depth \in DOMAIN stack'[n]
      BY <1>4, <3>2 DEF Longer, TakesTask
    <3> QED
      BY <3>1, <3>3
  <2>4. \A j \in SubTask : HasSub(n, j)' => HasSub(n, j)
    BY DEF HasSub
  <2>5. ask'[n] # AnyTask /\ ask'[n] \notin SubTask
    BY Zero DEF NoLongerAsks
  <2>6. ~up'[n] => n \in Leaver
    BY <1>1 DEF Nodes
  <2> QED
    BY <1>1, <2>1, <2>2, <2>3, <2>4, <2>5, <2>6, NodesNext
<1>13. Routes'
  <2>1. UNCHANGED <<talist, failed>> /\ ~exited' /\ up'[n] /\ ask'[n] = NoTask
    BY DEF serverVars, termVars, NoLongerAsks
  <2>2. /\ \A x \in Edge : \A y \in Range(chan'[x]) : StaysMsg(y)
        /\ \A s \in Server : \A r \in Range(talist[s]) : StaysKept(r)
        /\ \A s \in Server : \A r \in Range(failed[s]) : StaysKept(r)
    BY <1>1, <1>9, <1>11, <2>1, NoneIsLeft
  <2>3. put => Goes(f[1], f[2], g)'
    BY DEF TakesTask
  <2>4. \A x \in Edge : \A y \in Range(chan'[x]) \cap Range(chan[x]) :
          (put /\ x = f /\ y = g) \/ StaysMsg(y)
    BY <2>2
  <2>5. UNCHANGED <<talist, failed>>
    BY <2>1
  <2>6. TypeOK /\ Routes
    BY <1>1
  <2> QED
    BY <2>2, <2>3, <2>4, <2>5, <2>6, NodeRoutes
<1>14. TypeOK'
  <2>1. UNCHANGED <<phase, talist, failed, diff, pdiff, unreplied, valid, respond, taskHome, exited>>
    BY DEF serverVars, termVars
  <2>2. UNCHANGED <<sub, wrack, up, used>> /\ ask' \in [Node -> {NoTask, AnyTask} \cup SubTask]
    BY DEF NoLongerAsks
  <2> QED
    BY <1>1, <1>3, <1>9, <2>1, <2>2, TypeParts, TypePartsNext
<1> QED
  BY <1>9, <1>10, <1>12, <1>13, <1>14 DEF IInv

LEMMA NodeTaskStep ==
  ASSUME IInv, ~exited, NEW n \in Node, NodeTask(n)
  PROVE  IInv'
<1>1. TypeOK /\ Routes /\ Nodes
  BY DEF IInv
<1>2. PICK m : m = Received(ServerOf(n), n)
  OBVIOUS
<1>3. /\ NodeReceives(n, "task") /\ ask' = [ask EXCEPT ![n] = NoTask] /\ chan' = NodeTaken(n)
      /\ UNCHANGED serverVars /\ UNCHANGED termVars /\ UNCHANGED <<sub, wrack, up, used>>
      /\ stack' = [stack EXCEPT ![n] = Append(@, [id |-> m.id, back |-> m.from])]
  BY <1>2 DEF NodeTask
<1>4. /\ m \in Msg /\ m = Head(chan[<<ServerOf(n), n>>]) /\ m.kind = "task" /\ up[n]
      /\ Took(TRUE, <<ServerOf(n), n>>, chan') /\ Goes(ServerOf(n), n, m)
  BY <1>1, <1>2, <1>3, NodeHears
<1>5. PICK t : t = [id |-> m.id, back |-> m.from]
  OBVIOUS
<1>6. t \in Given /\ t.id = m.id /\ t.back = m.from
  BY <1>4, <1>5, MsgParts DEF Given
<1>7. Adds(Node, Given, stack, stack', n, t) /\ Longer(n)
  <2>1. PICK d : d = stack' /\ d = [stack EXCEPT ![n] = Append(@, t)]
    BY <1>3, <1>5
  <2>2. Family(Node, Given, stack) /\ IsFiniteSet(Node) /\ t \in Given
    BY <1>1, <1>6, TypeParts, Finite
  <2>3. Adds(Node, Given, stack, d, n, t)
    BY <2>1, <2>2, AppendAdds
  <2>4. stack[n] \in Seq(Given) /\ Len(stack[n]) \in Nat /\ d[n] = Append(stack[n], t)
    BY <2>1, <2>2 DEF Family
  <2>5. Len(d[n]) = Len(stack[n]) + 1 /\ \A k \in 1..Len(stack[n]) : d[n][k] = stack[n][k]
    BY <2>2, <2>4
  <2> QED
    BY <2>1, <2>3, <2>5 DEF Longer
<1>8. OthersKeep(n) /\ NoLongerAsks(n)
  BY <1>1, <1>3 DEF OthersKeep, NoLongerAsks, TypeOK
<1>9. PICK take, e, c, put, f : /\ take = TRUE /\ e = <<ServerOf(n), n>> /\ c = chan'
                                /\ put = FALSE /\ f = <<n, ServerOf(n)>>
  OBVIOUS
<1>10. Moves(n, take, e, c, put, f, m)
  BY <1>4, <1>9 DEF Moves, Gave
<1>11. TakesTask(n, m, t, take, put, e)
  BY <1>4, <1>6, <1>7, <1>9 DEF TakesTask
<1>12. UNCHANGED serverVars /\ UNCHANGED termVars /\ UNCHANGED <<sub, wrack, up, used>>
  BY <1>3
<1>13. Goes(ServerOf(n), n, m) /\ up[n] /\ m \in Msg
  BY <1>4
<1> QED
  BY <1>8, <1>10, <1>11, <1>12, <1>13, NodeTakes

LEMMA TwoPlaces ==
  ASSUME NEW D, NEW X, NEW c, Family(D, X, c), NEW at \in SUBSET D, IsFiniteSet(at), NEW M,
         Num(at, c, M) <= 1,
         NEW x \in at, NEW y \in Range(c[x]), y \in M, NEW z \in at, NEW w \in Range(c[z]), w \in M
  PROVE  x = z /\ y = w
<1>1. PICK i \in DOMAIN c[x], j \in DOMAIN c[z] : c[x][i] = y /\ c[z][j] = w
  BY DEF Range
<1>2. PICK S : S = Positions(at, c, M)
  OBVIOUS
<1>3. <<x, i>> \in S /\ <<z, j>> \in S
  BY <1>1, <1>2, Position
<1>4. IsFiniteSet(S) /\ Cardinality(S) \in Nat /\ Cardinality(S) <= 1
  BY <1>2, FinitePositions DEF Num
<1>5. IsFiniteSet(S \ {<<x, i>>}) /\ Cardinality(S \ {<<x, i>>}) = Cardinality(S) - 1
  BY <1>3, <1>4, FS_RemoveElement
<1>6. Cardinality(S \ {<<x, i>>}) = 0
  BY <1>4, <1>5, FS_CardinalityType
<1>7. S \ {<<x, i>>} = {}
  BY <1>5, <1>6, FS_EmptySet
<1> QED
  BY <1>1, <1>3, <1>7

(* a node that waits for no answer asks *)
AsksFor(n, take, put, g) ==
  /\ ~take /\ put
  /\ g.kind = "treq" /\ g.by = n /\ g.from = <<>> /\ g.for = ask'[n] /\ ask[n] = NoTask
  /\ IF g.to = ANY THEN g.for = AnyTask ELSE WayToNode(ServerOf(n), g.to)
  /\ ask'[n] = AnyTask => stack[n] = <<>>
  /\ \A id \in SubTask : ask'[n] = id => HasSub(n, id)
  /\ ask' \in [Node -> {NoTask, AnyTask} \cup SubTask]

LEMMA NodeAsks ==
  ASSUME IInv, ~exited, NEW n \in Node, UNCHANGED serverVars, UNCHANGED termVars,
         UNCHANGED <<stack, sub, wrack, up, used>>, up[n], OthersKeep(n),
         NEW take, NEW e, NEW c, NEW put, NEW f, NEW g, Moves(n, take, e, c, put, f, g),
         AsksFor(n, take, put, g)
  PROVE  IInv'
<1>1. /\ TypeOK /\ Routes /\ Nodes /\ OneAnswer /\ OnePlace /\ FirstTask
      /\ DiffsNum /\ UnrepliedNum /\ OneTaskAtATime /\ Retried
  BY DEF IInv
<1>2. e \in Edge /\ f \in Edge /\ f[1] = n /\ f[2] = ServerOf(n) /\ g \in Msg
  <2>1. e \in Edge /\ f \in Edge /\ f[1] = n /\ f[2] = ServerOf(n)
    BY Edges DEF Moves
  <2> QED
    BY <2>1 DEF Moves, AsksFor
<1>3. g \in RequestsBy(n) /\ g.kind = "treq" /\ ask'[n] # NoTask /\ ask[n] = NoTask
  BY <1>2, MsgParts, Zero DEF AsksFor, RequestsBy
<1>4. AskFollows(take, e, put, f, g)
  <2>1. ASSUME NEW x \in Node
        PROVE  Plus(put, Edge, RequestsBy(x), f, g) + (IF ask[x] = NoTask THEN 0 ELSE 1)
                 = Minus(take, Edge, RequestsBy(x), e) + (IF ask'[x] = NoTask THEN 0 ELSE 1)
    <3>1. Minus(take, Edge, RequestsBy(x), e) = 0
      BY DEF Minus, AsksFor
    <3>2. CASE x = n
      <4>1. Plus(put, Edge, RequestsBy(x), f, g) = 1
        BY <1>2, <1>3, <3>2 DEF Plus, At, AsksFor
      <4>2. (IF ask[x] = NoTask THEN 0 ELSE 1) = 0 /\ (IF ask'[x] = NoTask THEN 0 ELSE 1) = 1
        BY <1>3, <3>2
      <4> QED
        BY <3>1, <4>1, <4>2
    <3>3. CASE x # n
      <4>1. Plus(put, Edge, RequestsBy(x), f, g) = 0
        BY <3>3 DEF Plus, At, RequestsBy, AsksFor
      <4>2. ask'[x] = ask[x]
        BY <3>3 DEF OthersKeep
      <4> QED
        BY <3>1, <4>1, <4>2
    <3> QED
      BY <3>2, <3>3
  <2> QED
    BY <2>1 DEF AskFollows
<1>5. StackFollows(n, take, e, put, g) /\ TreqAnswered(take, e, put, g)
  <2>1. UNCHANGED stack /\ ~take /\ g.kind = "treq"
    BY <1>3 DEF AsksFor
  <2> QED
    BY <1>1, <2>1, StackStays DEF TreqAnswered
<1>6. \A id : Where(id)' = Where(id)
  <2>1. \A id : (take => Head(chan[e]) \notin Carrying(id)) /\ (put => g \notin Carrying(id))
    BY <1>3 DEF Carrying, AsksFor
  <2>2. UNCHANGED stack
    OBVIOUS
  <2> QED
    BY <1>1, <2>1, <2>2, WhereQuiet
<1>7. Where(0)' = Where(0)
  BY <1>6
<1>8. /\ DiffsNum' /\ UnrepliedNum' /\ OneAnswer' /\ FirstTask' /\ OneTaskAtATime' /\ Retried'
      /\ Family(Edge, Msg, chan')
  BY <1>4, <1>5, <1>7, NodeKeeps
<1>9. OnePlace'
  <2>1. \A id : Waiting(id)' = Waiting(id)
    BY DEF Waiting
  <2> QED
    BY <1>1, <1>6, <2>1, OnePlaceKept, UpStays
<1>10. UNCHANGED <<stack, sub>> /\ \A id : Keeping(id)
  BY KeepingSame
<1>11. Nodes'
  <2>1. UNCHANGED valid /\ used' \in Nat /\ used <= used'
    BY <1>1 DEF TypeOK, serverVars
  <2>2. \A x \in Node : \A t \in Range(stack'[x]) : WayHome(ServerOf(x), t.back, t.id)'
    <3>1. \A x \in Node : \A t \in Range(stack'[x]) : WayHome(ServerOf(x), t.back, t.id)
      BY <1>1 DEF Nodes
    <3> QED
      BY <1>10, <3>1, WayHomeKept
  <2>3. \A t \in Range(sub'[n]) : /\ t.id <= used' /\ t.depth \in DOMAIN stack'[n]
                                  /\ WayToNode(ServerOf(n), t.thief)
    BY <1>1 DEF Nodes
  <2>4. \A x, id : HasSub(x, id)' <=> HasSub(x, id)
    BY DEF HasSub
  <2>5. ask'[n] = AnyTask => stack'[n] = <<>>
    BY DEF AsksFor
  <2>6. ASSUME NEW id \in SubTask, ask'[n] = id
        PROVE  id <= used' /\ \A x \in Node : HasSub(x, id)' => x = n
    <3>1. PICK t \in Range(sub[n]) : t.id = id
      BY <2>6 DEF AsksFor, HasSub
    <3>2. id <= used
      BY <1>1, <3>1 DEF Nodes
    <3>3. Family(Node, Spawned, sub) /\ IsFiniteSet(Node) /\ Num(Node, sub, SpawnedAs(id)) <= 1
      BY <1>1, TypeParts, Finite DEF OnePlace, Waiting
    <3>4. ASSUME NEW x \in Node, HasSub(x, id)
          PROVE  x = n
      <4>1. PICK w \in Range(sub[x]) : w.id = id
        BY <3>4 DEF HasSub
      <4>2. w \in SpawnedAs(id) /\ t \in SpawnedAs(id)
        BY <3>1, <3>3, <4>1, FamilyElement DEF Range, SpawnedAs
      <4> QED
        BY <3>3, <4>2, TwoPlaces
    <3> QED
      BY <2>4, <3>2, <3>4
  <2>7. ~up'[n] => n \in Leaver
    BY <1>1 DEF Nodes
  <2> QED
    BY <1>1, <2>1, <2>2, <2>3, <2>4, <2>5, <2>6, <2>7, NodesNext
<1>12. Goes(f[1], f[2], g)'
  <2>1. Way(n, g.from, n)
    BY WayHere DEF AsksFor
  <2>2. Treq(n, ServerOf(n), g)'
    BY <2>1 DEF Treq, AsksFor
  <2> QED
    BY <1>2, <1>3, <2>2, Tree DEF Goes
<1>13. Routes'
  <2>1. Asked(n) = 0
    BY <1>1, <1>3 DEF OneAnswer
  <2>2. /\ \A x \in Edge : \A y \in Range(chan[x]) : y \in Msg /\ y \notin RequestsBy(n)
        /\ \A s \in Server : \A r \in Range(talist[s]) : r \in Request /\ r.by # n
        /\ \A s \in Server : \A r \in Range(failed[s]) : r \in Request /\ r.by # n
    BY <1>1, <2>1, TypeParts, NobodyAsks DEF Asked
  <2>3. \A x \in Edge : \A y \in Range(chan[x]) : StaysMsg(y)
    BY <1>10, <2>2, StaysOther
  <2>4. ASSUME NEW r \in Request, r.by # n
        PROVE  StaysKept(r)
    BY <2>4 DEF Request, OthersKeep, StaysKept
  <2>5. \A x \in Edge : \A y \in Range(chan'[x]) \cap Range(chan[x]) :
          (put /\ x = f /\ y = g) \/ StaysMsg(y)
    BY <2>3
  <2>6. UNCHANGED <<talist, failed>>
    BY DEF serverVars
  <2>7. /\ \A s \in Server : \A r \in Range(talist[s]) : StaysKept(r)
        /\ \A s \in Server : \A r \in Range(failed[s]) : StaysKept(r)
    BY <2>2, <2>4
  <2>8. put => Goes(f[1], f[2], g)'
    BY <1>12
  <2> QED
    BY <1>1, <2>5, <2>6, <2>7, <2>8, NodeRoutes
<1>14. TypeOK'
  <2>1. UNCHANGED <<phase, talist, failed, diff, pdiff, unreplied, valid, respond, taskHome, exited>>
    BY DEF serverVars, termVars
  <2>2. UNCHANGED <<stack, sub, wrack, up, used>> /\ ask' \in [Node -> {NoTask, AnyTask} \cup SubTask]
    BY DEF AsksFor
  <2> QED
    BY <1>1, <1>8, <2>1, <2>2, TypeParts, TypePartsNext
<1> QED
  BY <1>8, <1>9, <1>11, <1>13, <1>14 DEF IInv

LEMMA NodeAskStep ==
  ASSUME IInv, ~exited, NEW n \in Node, NodeAsk(n)
  PROVE  IInv'
<1>1. TypeOK /\ Routes /\ Nodes
  BY DEF IInv
<1>2. /\ UNCHANGED serverVars /\ UNCHANGED termVars /\ UNCHANGED <<stack, sub, wrack, up, used>>
      /\ up[n] /\ ask[n] = NoTask
  BY DEF NodeAsk
<1>3. Family(Edge, Msg, chan) /\ Family(Node, Spawned, sub)
  BY <1>1, TypeParts
<1>4. \E g \in Msg : \E a \in {AnyTask} \cup SubTask :
        /\ chan' = NodeSends(n, chan, g) /\ ask' = [ask EXCEPT ![n] = a]
        /\ g.kind = "treq" /\ g.by = n /\ g.from = <<>> /\ g.for = a
        /\ IF g.to = ANY THEN g.for = AnyTask ELSE WayToNode(ServerOf(n), g.to)
        /\ a = AnyTask => stack[n] = <<>>
        /\ a \in SubTask => HasSub(n, a)
  <2>1. CASE stack[n] = <<>>
    <3>1. ask' = [ask EXCEPT ![n] = AnyTask] /\ chan' = NodeSends(n, chan, treq(ANY, <<>>, n, AnyTask))
      BY <2>1 DEF NodeAsk
    <3>2. ANY \in Path /\ <<>> \in Path
      BY WayHere DEF Path, ANY, Host
    <3>3. PICK g \in Msg : /\ g = treq(ANY, <<>>, n, AnyTask) /\ g.kind = "treq" /\ g.to = ANY
                           /\ g.from = <<>> /\ g.by = n /\ g.for = AnyTask
      BY <3>2, MsgMade
    <3> QED
      BY <2>1, <3>1, <3>3, Zero
  <2>2. CASE stack[n] # <<>>
    <3>1. PICK last : last = Last(sub[n])
      OBVIOUS
    <3>2. /\ OwnSubs(n) # {} /\ ask' = [ask EXCEPT ![n] = last.id]
          /\ chan' = NodeSends(n, chan, treq(last.thief, <<>>, n, last.id))
      BY <2>2, <3>1 DEF NodeAsk
    <3>3. sub[n] # <<>> /\ sub[n] \in Seq(Spawned)
      BY <1>3, <3>2, FamilyElement DEF OwnSubs
    <3>4. last \in Range(sub[n]) /\ last \in Spawned
      BY <3>1, <3>3, FrontLacks DEF Range
    <3>5. last.id \in SubTask /\ last.thief \in Path /\ HasSub(n, last.id)
      BY <3>4 DEF Spawned, HasSub
    <3>6. WayToNode(ServerOf(n), last.thief)
      BY <1>1, <3>4 DEF Nodes
    <3>7. last.thief # ANY
      BY <3>6, NotAny DEF WayToNode
    <3>8. <<>> \in Path
      BY WayHere
    <3>9. PICK g \in Msg : /\ g = treq(last.thief, <<>>, n, last.id) /\ g.kind = "treq"
                           /\ g.to = last.thief /\ g.from = <<>> /\ g.by = n /\ g.for = last.id
      BY <3>5, <3>8, MsgMade
    <3> QED
      BY <3>2, <3>5, <3>6, <3>7, <3>9, Zero
  <2> QED
    BY <2>1, <2>2
<1>5. PICK g \in Msg : \E a \in {AnyTask} \cup SubTask :
        /\ chan' = NodeSends(n, chan, g) /\ ask' = [ask EXCEPT ![n] = a]
        /\ g.kind = "treq" /\ g.by = n /\ g.from = <<>> /\ g.for = a
        /\ IF g.to = ANY THEN g.for = AnyTask ELSE WayToNode(ServerOf(n), g.to)
        /\ a = AnyTask => stack[n] = <<>>
        /\ a \in SubTask => HasSub(n, a)
  BY <1>4
<1>6. PICK a \in {AnyTask} \cup SubTask :
        /\ chan' = NodeSends(n, chan, g) /\ ask' = [ask EXCEPT ![n] = a]
        /\ g.kind = "treq" /\ g.by = n /\ g.from = <<>> /\ g.for = a
        /\ IF g.to = ANY THEN g.for = AnyTask ELSE WayToNode(ServerOf(n), g.to)
        /\ a = AnyTask => stack[n] = <<>>
        /\ a \in SubTask => HasSub(n, a)
  BY <1>5
<1>7. ask' \in [Node -> {NoTask, AnyTask} \cup SubTask] /\ ask'[n] = a /\ OthersKeep(n)
  BY <1>1, <1>2, <1>6 DEF TypeOK, OthersKeep
<1>9. PICK c : c = chan
  OBVIOUS
<1>10. PICK take, e : take = FALSE /\ e = <<ServerOf(n), n>>
  OBVIOUS
<1>11. PICK put, f : put = TRUE /\ f = <<n, ServerOf(n)>>
  OBVIOUS
<1>12. Moves(n, take, e, c, put, f, g)
  <2>1. Family(Edge, Msg, c) /\ chan' = NodeSends(n, c, g)
    BY <1>3, <1>6, <1>9
  <2>2. Gave(put, c, f, g)
    BY <1>11, <2>1, NodeSays
  <2> QED
    BY <1>9, <1>10, <1>11, <2>2 DEF Moves, Took
<1>13. AsksFor(n, take, put, g)
  BY <1>2, <1>6, <1>7, <1>10, <1>11 DEF AsksFor
<1> QED
  BY <1>2, <1>7, <1>12, <1>13, NodeAsks

LEMMA FrontAdds ==
  ASSUME NEW D, IsFiniteSet(D), NEW X, NEW c, Family(D, X, c), NEW x \in D, c[x] # <<>>,
         NEW d, d = [c EXCEPT ![x] = Front(@)]
  PROVE  /\ Adds(D, X, d, c, x, Last(c[x])) /\ Len(d[x]) = Len(c[x]) - 1
         /\ \A k \in 1..(Len(c[x]) - 1) : d[x][k] = c[x][k]
<1>1. c[x] \in Seq(X) /\ Len(c[x]) \in Nat
  BY DEF Family
<1>2. PICK u : u = Front(c[x])
  OBVIOUS
<1>3. PICK K : K = Len(c[x])
  OBVIOUS
<1>4. /\ u \in Seq(X) /\ Lacks(c[x], u, K) /\ Last(c[x]) = c[x][K] /\ Len(u) = Len(c[x]) - 1
      /\ \A k \in 1..(Len(c[x]) - 1) : u[k] = c[x][k]
  BY <1>1, <1>2, <1>3, FrontLacks
<1>5. d[x] = u /\ (\A y \in D \ {x} : d[y] = c[y]) /\ d \in [D -> Seq(X)]
  BY <1>2, <1>4 DEF Family
<1>6. Family(D, X, d)
  BY <1>5 DEF Family
<1>7. Without(c, d, x, K)
  BY <1>4, <1>5 DEF Without, Family
<1>8. Adds(D, X, d, c, x, c[x][K])
  BY <1>6, <1>7, AddsOne
<1> QED
  BY <1>4, <1>5, <1>8

(* a node has done the task on top of its stack *)
Shorter(n) ==
  /\ stack[n] # <<>> /\ Len(stack'[n]) = Len(stack[n]) - 1
  /\ \A k \in 1..(Len(stack[n]) - 1) : stack'[n][k] = stack[n][k]
Finishes(n, t, take, put, g) ==
  /\ ~take /\ put /\ g.kind = "rslt" /\ g.to = t.back /\ g.id = t.id
  /\ Adds(Node, Given, stack', stack, n, t) /\ Shorter(n) /\ OwnSubs(n) = {}

LEMMA NodeFinishes ==
  ASSUME IInv, ~exited, NEW n \in Node, UNCHANGED serverVars, UNCHANGED termVars,
         UNCHANGED <<ask, sub, up, used>>, wrack' \in [Node -> Int], OthersKeep(n),
         NEW take, NEW e, NEW c, NEW put, NEW f, NEW g, Moves(n, take, e, c, put, f, g),
         NEW t, Finishes(n, t, take, put, g)
  PROVE  IInv'
<1>1. /\ TypeOK /\ Routes /\ Nodes /\ OneAnswer /\ OnePlace /\ FirstTask
      /\ DiffsNum /\ UnrepliedNum /\ OneTaskAtATime /\ Retried
  BY DEF IInv
<1>2. e \in Edge /\ f \in Edge /\ f[1] = n /\ f[2] = ServerOf(n) /\ g \in Msg
  <2>1. e \in Edge /\ f \in Edge /\ f[1] = n /\ f[2] = ServerOf(n)
    BY Edges DEF Moves
  <2> QED
    BY <2>1 DEF Moves, Finishes
<1>3. /\ Family(Node, Given, stack') /\ Family(Node, Given, stack)
      /\ \A M : Num(Node, stack, M) = Num(Node, stack', M) + At(Node, M, n, t)
      /\ \A M : Num(Node, stack, M) \in Nat /\ Num(Node, stack', M) \in Nat
      /\ \A y \in Node : \A q \in Range(stack'[y]) : q \in Range(stack[y])
      /\ t \in Given /\ t \in Range(stack[n])
  BY DEF Adds, Finishes
<1>4. /\ Len(stack[n]) \in Nat \ {0} /\ DOMAIN stack[n] = 1..Len(stack[n])
      /\ Len(stack'[n]) = Len(stack[n]) - 1 /\ DOMAIN stack'[n] = 1..Len(stack'[n])
      /\ Family(Node, Spawned, sub)
  BY <1>1, <1>3, FamilyElement, TypeParts DEF Finishes, Shorter
<1>5. ASSUME NEW q \in Range(sub[n])
      PROVE  q.depth \in 1..(Len(stack[n]) - 1)
  <2>1. PICK i \in DOMAIN sub[n] : q = sub[n][i]
    BY DEF Range
  <2>2. q.depth # Len(stack[n])
    BY <2>1 DEF OwnSubs, Finishes
  <2>3. q.depth \in 1..Len(stack[n])
    BY <1>1, <1>4 DEF Nodes
  <2> QED
    BY <1>4, <2>2, <2>3
<1>6. \A id : Keeping(id)
  <2>1. ASSUME NEW x \in Node, NEW q \in Range(sub[x]), NEW k \in 1..q.depth
        PROVE  stack'[x][k] = stack[x][k]
    <3>1. CASE x = n
      <4>1. k \in 1..(Len(stack[n]) - 1)
        BY <1>4, <1>5, <3>1
      <4> QED
        BY <3>1, <4>1 DEF Finishes, Shorter
    <3>2. CASE x # n
      BY <3>2 DEF OthersKeep
    <3> QED
      BY <3>1, <3>2
  <2>2. UNCHANGED sub
    OBVIOUS
  <2> QED
    BY <2>1, <2>2 DEF Keeping
<1>7. AskFollows(take, e, put, f, g)
  <2>1. /\ take => Head(chan[e]).kind \notin {"treq", "none", "task"}
        /\ put => g.kind \notin {"treq", "none", "task"}
        /\ UNCHANGED ask
    BY DEF Finishes
  <2> QED
    BY <2>1, NoRequests
<1>8. StackFollows(n, take, e, put, g) /\ TreqAnswered(take, e, put, g)
  <2>1. (IF take /\ Head(chan[e]).kind = "task" THEN 1 ELSE 0) = 0
    BY DEF Finishes
  <2>2. (IF put /\ g.kind = "rslt" THEN 1 ELSE 0) = 1
    BY DEF Finishes
  <2>3. Len(stack'[n]) = Len(stack[n]) + 0 - 1
    BY <1>4
  <2>4. TreqAnswered(take, e, put, g)
    BY DEF TreqAnswered, Finishes
  <2> QED
    BY <2>1, <2>2, <2>3, <2>4 DEF StackFollows
<1>9. ASSUME NEW id
      PROVE  Where(id)' = Where(id)
  <2>1. PICK K \in 0..1 : K = IF t.id = id THEN 1 ELSE 0
    OBVIOUS
  <2>2. Plus(put, Edge, Carrying(id), f, g) = K
    BY <1>2, <2>1 DEF Plus, At, Carrying, Finishes
  <2>3. Minus(take, Edge, Carrying(id), e) = 0
    BY DEF Minus, Finishes
  <2>4. At(Node, GivenAs(id), n, t) = K
    BY <1>3, <2>1 DEF At, GivenAs
  <2>5. Running(id) = Running(id)' + K /\ Running(id)' \in Nat
    BY <1>3, <2>4 DEF Running
  <2>6. PICK L \in Int : L = 0 - K
    BY <2>1
  <2>7. Running(id)' = Running(id) + L
    BY <2>5, <2>6
  <2>8. Where(id)' = Where(id) + L + K - 0 /\ Where(id) \in Nat
    BY <1>1, <2>2, <2>3, <2>7, WhereNext
  <2> QED
    BY <2>6, <2>8
<1>10. Where(0)' = Where(0)
  BY <1>9
<1>11. /\ DiffsNum' /\ UnrepliedNum' /\ OneAnswer' /\ FirstTask' /\ OneTaskAtATime' /\ Retried'
       /\ Family(Edge, Msg, chan')
  BY <1>7, <1>8, <1>10, NodeKeeps
<1>12. OnePlace'
  <2>1. \A id : Waiting(id)' = Waiting(id)
    BY DEF Waiting
  <2> QED
    BY <1>1, <1>9, <2>1, OnePlaceKept, UpStays
<1>13. Nodes'
  <2>1. UNCHANGED valid /\ used' \in Nat /\ used <= used'
    BY <1>1 DEF TypeOK, serverVars
  <2>2. \A x \in Node : \A q \in Range(stack'[x]) : WayHome(ServerOf(x), q.back, q.id)'
    <3>1. \A x \in Node : \A q \in Range(stack'[x]) : WayHome(ServerOf(x), q.back, q.id)
      BY <1>1, <1>3 DEF Nodes
    <3> QED
      BY <1>6, <3>1, WayHomeKept
  <2>3. \A q \in Range(sub'[n]) : /\ q.id <= used' /\ q.depth \in DOMAIN stack'[n]
                                  /\ WayToNode(ServerOf(n), q.thief)
    BY <1>1, <1>4, <1>5 DEF Nodes
  <2>4. \A x, id : HasSub(x, id)' <=> HasSub(x, id)
    BY DEF HasSub
  <2>5. ask'[n] # AnyTask
    BY <1>1 DEF Nodes, Finishes, Shorter
  <2>6. \A id \in SubTask : ask'[n] = id => id <= used' /\ \A x \in Node : HasSub(x, id)' => x = n
    BY <1>1, <2>4 DEF Nodes
  <2>7. ~up'[n] => n \in Leaver
    BY <1>1 DEF Nodes
  <2> QED
    BY <1>1, <2>1, <2>2, <2>3, <2>4, <2>5, <2>6, <2>7, NodesNext
<1>14. Goes(f[1], f[2], g)'
  <2>1. WayHome(ServerOf(n), t.back, t.id)
    BY <1>1, <1>3 DEF Nodes
  <2>2. WayHome(ServerOf(n), t.back, t.id)'
    BY <1>6, <2>1, WayHomeKept
  <2> QED
    BY <1>2, <2>2, Tree DEF Goes, Finishes
<1>15. Routes'
  <2>1. UNCHANGED <<talist, failed>>
    BY DEF serverVars
  <2>2. (\A y : StaysMsg(y)) /\ \A r : StaysKept(r)
    BY <1>6 DEF StaysMsg, StaysKept
  <2>3. put => Goes(f[1], f[2], g)'
    BY <1>14
  <2> QED
    BY <1>1, <2>1, <2>2, <2>3, NodeRoutes
<1>16. TypeOK'
  <2>1. UNCHANGED <<phase, talist, failed, diff, pdiff, unreplied, valid, respond, taskHome, exited>>
    BY DEF serverVars, termVars
  <2>2. UNCHANGED <<ask, sub, up, used>>
    OBVIOUS
  <2> QED
    BY <1>1, <1>3, <1>11, <2>1, <2>2, TypeParts, TypePartsNext
<1> QED
  BY <1>11, <1>12, <1>13, <1>15, <1>16 DEF IInv

LEMMA NodeFinishStep ==
  ASSUME IInv, ~exited, NEW n \in Node, NodeFinish(n)
  PROVE  IInv'
<1>1. TypeOK /\ Routes /\ Nodes
  BY DEF IInv
<1>2. PICK t : t = Last(stack[n])
  OBVIOUS
<1>3. /\ UNCHANGED serverVars /\ UNCHANGED termVars /\ UNCHANGED <<ask, sub, up, used>>
      /\ stack[n] # <<>> /\ OwnSubs(n) = {} /\ wrack' = [wrack EXCEPT ![n] = @ + 1]
      /\ stack' = [stack EXCEPT ![n] = Front(@)]
      /\ chan' = NodeSends(n, chan, rslt(t.back, t.id))
  BY <1>2 DEF NodeFinish
<1>4. Family(Edge, Msg, chan) /\ Family(Node, Given, stack)
  BY <1>1, TypeParts
<1>5. Adds(Node, Given, stack', stack, n, t) /\ Shorter(n)
  <2>1. PICK d : d = stack' /\ d = [stack EXCEPT ![n] = Front(@)]
    BY <1>3
  <2>2. stack[n] # <<>> /\ IsFiniteSet(Node)
    BY <1>3, Finite
  <2>3. Adds(Node, Given, d, stack, n, Last(stack[n]))
    BY <1>4, <2>1, <2>2, FrontAdds
  <2>4. Len(d[n]) = Len(stack[n]) - 1 /\ \A k \in 1..(Len(stack[n]) - 1) : d[n][k] = stack[n][k]
    <3>1. PICK z \in Seq(Given) : z = stack[n] /\ z # <<>> /\ d[n] = Front(z)
      BY <1>4, <2>1, <2>2 DEF Family
    <3>2. Len(Front(z)) = Len(z) - 1 /\ \A k \in 1..Len(z) - 1 : Front(z)[k] = z[k]
      BY <3>1, FrontLacks
    <3> QED
      BY <3>1, <3>2
  <2> QED
    BY <1>2, <2>1, <2>2, <2>3, <2>4 DEF Shorter
<1>6. t \in Given /\ t.back \in Path /\ t.id \in Task
  BY <1>5 DEF Adds, Given
<1>7. PICK g \in Msg : g = rslt(t.back, t.id) /\ g.kind = "rslt" /\ g.to = t.back /\ g.id = t.id
  BY <1>6, MsgMade
<1>8. PICK c : c = chan
  OBVIOUS
<1>9. PICK take, e : take = FALSE /\ e = <<ServerOf(n), n>>
  OBVIOUS
<1>10. PICK put, f : put = TRUE /\ f = <<n, ServerOf(n)>>
  OBVIOUS
<1>11. Moves(n, take, e, c, put, f, g)
  <2>1. Family(Edge, Msg, c) /\ chan' = NodeSends(n, c, g)
    BY <1>3, <1>4, <1>7, <1>8
  <2>2. Gave(put, c, f, g)
    BY <1>10, <2>1, NodeSays
  <2> QED
    BY <1>8, <1>9, <1>10, <2>2 DEF Moves, Took
<1>12. Finishes(n, t, take, put, g)
  BY <1>3, <1>5, <1>7, <1>9, <1>10 DEF Finishes
<1>13. wrack' \in [Node -> Int] /\ OthersKeep(n)
  BY <1>1, <1>3 DEF TypeOK, OthersKeep
<1>14. UNCHANGED serverVars /\ UNCHANGED termVars /\ UNCHANGED <<ask, sub, up, used>>
  BY <1>3
<1> QED
  BY <1>11, <1>12, <1>13, <1>14, NodeFinishes

LEMMA RemoveAdds ==
  ASSUME NEW D, IsFiniteSet(D), NEW X, NEW c, Family(D, X, c), NEW x \in D, NEW k \in DOMAIN c[x],
         NEW d, d = [c EXCEPT ![x] = RemoveAt(@, k)]
  PROVE  Adds(D, X, d, c, x, c[x][k])
<1>1. c[x] \in Seq(X)
  BY DEF Family
<1>2. PICK u : u = RemoveAt(c[x], k)
  OBVIOUS
<1>3. u \in Seq(X) /\ Lacks(c[x], u, k)
  BY <1>1, <1>2, RemoveLacks
<1>4. d[x] = u /\ (\A y \in D \ {x} : d[y] = c[y]) /\ d \in [D -> Seq(X)]
  BY <1>2, <1>3 DEF Family
<1>5. Family(D, X, d)
  BY <1>4 DEF Family
<1>6. Without(c, d, x, k)
  BY <1>3, <1>4 DEF Without, Family
<1> QED
  BY <1>5, <1>6, AddsOne

(* the result of a subtask has come *)
Returns(n, m, t, take, put, e, g) ==
  /\ take /\ put /\ Head(chan[e]) = m /\ m.kind = "rslt" /\ m.id = t.id
  /\ g.kind = "rack" /\ g.to = t.thief /\ Adds(Node, Spawned, sub', sub, n, t)

LEMMA NodeReturns ==
  ASSUME IInv, ~exited, NEW n \in Node, UNCHANGED serverVars, UNCHANGED termVars,
         UNCHANGED <<ask, stack, wrack, up, used>>, OthersKeep(n), NEW m \in Msg,
         NEW take, NEW e, NEW c, NEW put, NEW f, NEW g, Moves(n, take, e, c, put, f, g),
         NEW t, Returns(n, m, t, take, put, e, g)
  PROVE  IInv'
<1>1. /\ TypeOK /\ Routes /\ Nodes /\ OneAnswer /\ OnePlace /\ FirstTask
      /\ DiffsNum /\ UnrepliedNum /\ OneTaskAtATime /\ Retried
  BY DEF IInv
<1>2. e \in Edge /\ f \in Edge /\ f[1] = n /\ f[2] = ServerOf(n) /\ g \in Msg
  <2>1. e \in Edge /\ f \in Edge /\ f[1] = n /\ f[2] = ServerOf(n)
    BY Edges DEF Moves
  <2> QED
    BY <2>1 DEF Moves, Returns
<1>3. /\ Family(Node, Spawned, sub') /\ Family(Node, Spawned, sub)
      /\ \A y \in Node \ {n} : sub'[y] = sub[y]
      /\ \A M : Num(Node, sub, M) = Num(Node, sub', M) + At(Node, M, n, t)
      /\ \A M : Num(Node, sub, M) \in Nat /\ Num(Node, sub', M) \in Nat
      /\ \A y \in Node : \A q \in Range(sub'[y]) : q \in Range(sub[y])
      /\ \A y \in Node : \A q \in Range(sub[y]) : (y = n /\ q = t) \/ q \in Range(sub'[y])
      /\ t \in Spawned /\ t \in Range(sub[n])
  BY DEF Adds, Returns
<1>4. PICK id : id = t.id
  OBVIOUS
<1>5. id \in SubTask /\ id # 0
  BY <1>3, <1>4, Zero DEF Spawned
<1>6. \A j : j # id => Keeping(j)
  BY <1>3, <1>4 DEF Keeping
<1>7. AskFollows(take, e, put, f, g)
  <2>1. /\ take => Head(chan[e]).kind \notin {"treq", "none", "task"}
        /\ put => g.kind \notin {"treq", "none", "task"}
        /\ UNCHANGED ask
    BY DEF Returns
  <2> QED
    BY <2>1, NoRequests
<1>8. StackFollows(n, take, e, put, g) /\ TreqAnswered(take, e, put, g)
  <2>1. ~(take /\ Head(chan[e]).kind = "task") /\ ~(put /\ g.kind = "rslt") /\ UNCHANGED stack
    BY DEF Returns
  <2>2. TreqAnswered(take, e, put, g)
    BY DEF TreqAnswered, Returns
  <2> QED
    BY <1>1, <2>1, <2>2, StackStays
<1>9. ASSUME NEW j, NEW K \in 0..1, K = IF j = id THEN 1 ELSE 0
      PROVE  /\ Where(j)' = Where(j) - K /\ Where(j) \in Nat
             /\ Waiting(j)' = Waiting(j) - K /\ Waiting(j) \in Nat
  <2>1. Plus(put, Edge, Carrying(j), f, g) = 0
    BY DEF Plus, At, Carrying, Returns
  <2>2. Minus(take, Edge, Carrying(j), e) = K
    BY <1>2, <1>4, <1>9 DEF Minus, At, Carrying, Returns
  <2>3. Running(j)' = Running(j) + 0
    <3>1. Running(j) \in Nat
      BY <1>1, Counts DEF Running
    <3>2. Running(j)' = Running(j)
      BY DEF Running
    <3> QED
      BY <3>1, <3>2
  <2>4. Where(j)' = Where(j) + 0 + 0 - K /\ Where(j) \in Nat
    BY <1>1, <2>1, <2>2, <2>3, WhereNext
  <2>5. At(Node, SpawnedAs(j), n, t) = K
    BY <1>3, <1>4, <1>9 DEF At, SpawnedAs
  <2>6. Waiting(j) = Waiting(j)' + K /\ Waiting(j)' \in Nat /\ Waiting(j) \in Nat
    BY <1>3, <2>5 DEF Waiting
  <2> QED
    BY <2>4, <2>6
<1>10. ASSUME NEW j, j # id
       PROVE  Where(j)' = Where(j) /\ Waiting(j)' = Waiting(j)
  <2>1. PICK K \in 0..1 : K = 0
    OBVIOUS
  <2>2. K = IF j = id THEN 1 ELSE 0
    BY <1>10, <2>1
  <2> QED
    BY <1>9, <2>1, <2>2
<1>11. Where(id)' = 0 /\ Waiting(id)' = 0
  <2>1. PICK K \in 0..1 : K = 1
    OBVIOUS
  <2>2. K = IF id = id THEN 1 ELSE 0
    BY <2>1
  <2>3. /\ Where(id)' = Where(id) - 1 /\ Where(id) \in Nat
        /\ Waiting(id)' = Waiting(id) - 1 /\ Waiting(id) \in Nat
    BY <1>9, <2>1, <2>2
  <2>4. Waiting(id) <= 1 /\ Where(id) <= Waiting(id)
    BY <1>1, <1>5 DEF OnePlace
  <2>5. Where(id)' \in Nat /\ Waiting(id)' \in Nat
    <3>1. Waiting(id)' \in Nat
      BY <1>3 DEF Waiting
    <3>2. PICK A \in Nat, B \in Nat : \E P, Q \in 0..1 :
           /\ P = Plus(put, Edge, Carrying(id), f, g) /\ Q = Minus(take, Edge, Carrying(id), e)
           /\ Where(id) = Running(id) + A /\ Where(id)' = Running(id)' + B /\ B = A - Q + P
      BY <1>1, WhereMoved
    <3>3. Running(id)' = Running(id)
      BY DEF Running
    <3>4. Running(id) \in Nat
      BY <1>1, Counts DEF Running
    <3> QED
      BY <3>1, <3>2, <3>3, <3>4
  <2> QED
    BY <2>3, <2>4, <2>5
<1>12. Where(0)' = Where(0)
  BY <1>5, <1>10
<1>13. /\ DiffsNum' /\ UnrepliedNum' /\ OneAnswer' /\ FirstTask' /\ OneTaskAtATime' /\ Retried'
       /\ Family(Edge, Msg, chan')
  BY <1>7, <1>8, <1>12, NodeKeeps
<1>14. OnePlace'
  <2>1. ASSUME NEW j \in SubTask
        PROVE  /\ Waiting(j)' <= 1 /\ Where(j)' <= Waiting(j)'
               /\ AllUp' => Where(j)' = Waiting(j)'
    <3>1. CASE j = id
      BY <1>11, <3>1
    <3>2. CASE j # id
      <4>1. Waiting(j)' = Waiting(j) /\ Where(j)' = Where(j)
        BY <1>10, <3>2
      <4>2. AllUp' => AllUp
        BY UpStays
      <4> QED
        BY <1>1, <4>1, <4>2 DEF OnePlace
    <3> QED
      BY <3>1, <3>2
  <2> QED
    BY <2>1 DEF OnePlace
(* nobody has the task any more *)
<1>15. /\ \A x \in Edge : \A y \in Range(chan'[x]) : y \notin Carrying(id)
       /\ \A x \in Node : \A q \in Range(stack'[x]) : q \notin GivenAs(id)
  <2>1. PICK d, s : d = chan' /\ s = stack'
    OBVIOUS
  <2>2. Family(Edge, Msg, d) /\ Family(Node, Given, s)
    BY <1>1, <1>13, <2>1, TypeParts
  <2>3. Num(Edge, d, Carrying(id)) = 0 /\ Num(Node, s, GivenAs(id)) = 0
    <3>1. Num(Edge, d, Carrying(id)) \in Nat /\ Num(Node, s, GivenAs(id)) \in Nat
      BY <2>2, Finite, FinitePositions
    <3>2. Num(Node, s, GivenAs(id)) + Num(Edge, d, Carrying(id)) = 0
      BY <1>11, <2>1 DEF Where, Running
    <3> QED
      BY <3>1, <3>2
  <2>4. \A x \in Edge : \A y \in Range(d[x]) : y \notin Carrying(id)
    BY <2>2, <2>3, Finite, NumZero
  <2>5. \A x \in Node : \A q \in Range(s[x]) : q \notin GivenAs(id)
    BY <2>2, <2>3, Finite, NumZero
  <2> QED
    BY <2>1, <2>4, <2>5
<1>16. Nodes'
  <2>1. UNCHANGED valid /\ used' \in Nat /\ used <= used'
    BY <1>1 DEF TypeOK, serverVars
  <2>2. ASSUME NEW x \in Node, NEW q \in Range(stack'[x])
        PROVE  WayHome(ServerOf(x), q.back, q.id)'
    <3>1. WayHome(ServerOf(x), q.back, q.id)
      BY <1>1 DEF Nodes
    <3>2. q \in Given
      BY <1>1, TypeParts, FamilyElement DEF Range
    <3>3. q.id # id
      BY <1>15, <3>2 DEF GivenAs
    <3> QED
      BY <1>6, <3>1, <3>3, WayHomeKept
  <2>3. \A q \in Range(sub'[n]) : /\ q.id <= used' /\ q.depth \in DOMAIN stack'[n]
                                  /\ WayToNode(ServerOf(n), q.thief)
    BY <1>1, <1>3 DEF Nodes
  <2>4. \A x \in Node : \A j : HasSub(x, j)' => HasSub(x, j)
    BY <1>3 DEF HasSub
  <2>5. ask'[n] = AnyTask => stack'[n] = <<>>
    BY <1>1 DEF Nodes
  <2>6. \A j \in SubTask : ask'[n] = j => j <= used' /\ \A x \in Node : HasSub(x, j)' => x = n
    BY <1>1, <2>4 DEF Nodes
  <2>7. ~up'[n] => n \in Leaver
    BY <1>1 DEF Nodes
  <2> QED
    BY <1>1, <2>1, <2>2, <2>3, <2>4, <2>5, <2>6, <2>7, NodesNext
<1>17. Goes(f[1], f[2], g)'
  <2>1. WayToNode(ServerOf(n), t.thief)
    BY <1>1, <1>3 DEF Nodes
  <2> QED
    BY <1>2, <2>1, Tree DEF Goes, Returns
<1>18. Routes'
  <2>1. UNCHANGED <<talist, failed>>
    BY DEF serverVars
  <2>2. \A r : StaysKept(r)
    BY DEF StaysKept
  <2>3. put => Goes(f[1], f[2], g)'
    BY <1>17
  <2>4. ASSUME NEW x \in Edge, NEW y \in Range(chan'[x]) \cap Range(chan[x])
        PROVE  StaysMsg(y)
    <3>1. y \in Msg
      BY <1>1, TypeParts, FamilyElement DEF Range
    <3>2. y.kind \in {"task", "rslt"} => y.id # id
      BY <1>15, <3>1 DEF Carrying
    <3> QED
      BY <1>6, <3>2 DEF StaysMsg
  <2>5. \A x \in Edge : \A y \in Range(chan'[x]) \cap Range(chan[x]) :
          (put /\ x = f /\ y = g) \/ StaysMsg(y)
    BY <2>4
  <2> QED
    BY <1>1, <2>1, <2>2, <2>3, <2>5, NodeRoutes
<1>19. TypeOK'
  <2>1. UNCHANGED <<phase, talist, failed, diff, pdiff, unreplied, valid, respond, taskHome, exited>>
    BY DEF serverVars, termVars
  <2>2. UNCHANGED <<ask, stack, wrack, up, used>>
    OBVIOUS
  <2> QED
    BY <1>1, <1>3, <1>13, <2>1, <2>2, TypeParts, TypePartsNext
<1> QED
  BY <1>13, <1>14, <1>16, <1>18, <1>19 DEF IInv

LEMMA NodeRsltStep ==
  ASSUME IInv, ~exited, NEW n \in Node, NodeRslt(n)
  PROVE  IInv'
<1>1. TypeOK /\ Routes /\ Nodes
  BY DEF IInv
<1>2. NodeReceives(n, "rslt")
  BY DEF NodeRslt
<1>3. PICK m \in Msg : \E c :
           /\ m = Received(ServerOf(n), n) /\ m = Head(chan[<<ServerOf(n), n>>]) /\ c = NodeTaken(n)
           /\ Took(TRUE, <<ServerOf(n), n>>, c) /\ Family(Edge, Msg, c) /\ Goes(ServerOf(n), n, m)
           /\ m.kind = "rslt" /\ up[n]
  BY <1>1, <1>2, NodeHears
<1>4. PICK c :
           /\ m = Received(ServerOf(n), n) /\ m = Head(chan[<<ServerOf(n), n>>]) /\ c = NodeTaken(n)
           /\ Took(TRUE, <<ServerOf(n), n>>, c) /\ Family(Edge, Msg, c) /\ Goes(ServerOf(n), n, m)
           /\ m.kind = "rslt" /\ up[n]
  BY <1>3
<1>5. HasSub(n, m.id)
  <2>1. WayHome(n, m.to, m.id)
    BY <1>4 DEF Goes
  <2>2. m.id # 0
    <3>1. ~Way(n, m.to, Term)
      BY Tree, WayEnds
    <3> QED
      BY <2>1, <3>1 DEF WayHome
  <2>3. PICK x \in Node : Way(n, m.to, x) /\ HasSub(x, m.id)
    BY <2>1, <2>2 DEF WayHome
  <2> QED
    BY <2>3, Tree, WayEnds
<1>6. \E j \in DOMAIN sub[n] : sub[n][j].id = m.id
  BY <1>5 DEF HasSub, Range
<1>7. PICK i : i = CHOOSE j \in DOMAIN sub[n] : sub[n][j].id = m.id
  OBVIOUS
<1>8. i \in DOMAIN sub[n] /\ sub[n][i].id = m.id
  BY <1>6, <1>7
<1>9. PICK t : t = sub[n][i]
  OBVIOUS
<1>10. /\ sub' = [sub EXCEPT ![n] = RemoveAt(@, i)] /\ chan' = NodeSends(n, c, rack(t.thief, m.id))
       /\ UNCHANGED serverVars /\ UNCHANGED termVars /\ UNCHANGED <<ask, stack, wrack, up, used>>
  BY <1>4, <1>7, <1>9 DEF NodeRslt, SubsWithout
<1>11. Adds(Node, Spawned, sub', sub, n, t)
  <2>1. PICK d : d = sub' /\ d = [sub EXCEPT ![n] = RemoveAt(@, i)]
    BY <1>10
  <2>2. Family(Node, Spawned, sub) /\ IsFiniteSet(Node) /\ i \in DOMAIN sub[n]
    BY <1>1, <1>8, TypeParts, Finite
  <2>3. Adds(Node, Spawned, d, sub, n, sub[n][i])
    BY <2>1, <2>2, RemoveAdds
  <2> QED
    BY <1>9, <2>1, <2>3
<1>12. t \in Spawned /\ t.thief \in Path /\ t.id = m.id /\ m.id \in Task
  BY <1>4, <1>8, <1>9, <1>11, MsgParts DEF Adds, Spawned
<1>13. PICK g \in Msg : g = rack(t.thief, m.id) /\ g.kind = "rack" /\ g.to = t.thief
  BY <1>12, MsgMade
<1>14. PICK take, e : take = TRUE /\ e = <<ServerOf(n), n>>
  OBVIOUS
<1>15. PICK put, f : put = TRUE /\ f = <<n, ServerOf(n)>>
  OBVIOUS
<1>16. Moves(n, take, e, c, put, f, g)
  <2>1. Gave(put, c, f, g)
    BY <1>4, <1>10, <1>13, <1>15, NodeSays
  <2> QED
    BY <1>4, <1>14, <1>15, <2>1 DEF Moves
<1>17. Returns(n, m, t, take, put, e, g)
  BY <1>4, <1>11, <1>12, <1>13, <1>14, <1>15 DEF Returns
<1>18. OthersKeep(n)
  BY <1>10, <1>11 DEF Adds, OthersKeep
<1>19. UNCHANGED serverVars /\ UNCHANGED termVars /\ UNCHANGED <<ask, stack, wrack, up, used>>
  BY <1>10
<1> QED
  BY <1>16, <1>17, <1>18, <1>19, NodeReturns

-----------------------------------------------------------------------------
(* The invariant *)

LEMMA InitIInv == Init => IInv
<1> SUFFICES ASSUME Init PROVE IInv
  OBVIOUS
<1>1. /\ \A e \in Edge : chan[e] = <<>>
      /\ \A s \in Server : talist[s] = <<>> /\ failed[s] = <<>> /\ phase[s] = "wait"
      /\ \A n \in Node : stack[n] = <<>> /\ sub[n] = <<>>
      /\ \A n \in Node : ask[n] = NoTask /\ up[n] /\ valid[n]
  BY DEF Init
<1>2. Range(<<>>) = {} /\ Len(<<>>) = 0
  BY DEF Range
<1>3. /\ \A at \in SUBSET Edge : \A M : Num(at, chan, M) = 0
      /\ \A M : Num(Server, talist, M) = 0 /\ Num(Server, failed, M) = 0
      /\ \A M : Num(Node, stack, M) = 0 /\ Num(Node, sub, M) = 0
  <2>1. ASSUME NEW at \in SUBSET Edge, NEW M
        PROVE  Num(at, chan, M) = 0
    <3>1. \A x \in at : \A y \in Range(chan[x]) : y \notin M
      BY <1>1, <1>2
    <3> QED
      BY <3>1, NumNone
  <2>2. ASSUME NEW M
        PROVE  Num(Server, talist, M) = 0 /\ Num(Server, failed, M) = 0
    <3>1. \A x \in Server : \A y \in Range(talist[x]) : y \notin M
      BY <1>1, <1>2
    <3>2. \A x \in Server : \A y \in Range(failed[x]) : y \notin M
      BY <1>1, <1>2
    <3> QED
      BY <3>1, <3>2, NumNone
  <2>3. ASSUME NEW M
        PROVE  Num(Node, stack, M) = 0 /\ Num(Node, sub, M) = 0
    <3>1. \A x \in Node : \A y \in Range(stack[x]) : y \notin M
      BY <1>1, <1>2
    <3>2. \A x \in Node : \A y \in Range(sub[x]) : y \notin M
      BY <1>1, <1>2
    <3> QED
      BY <3>1, <3>2, NumNone
  <2> QED
    BY <2>1, <2>2, <2>3
<1>4. TypeOK
  <2>1. <<>> \in Seq(Msg) /\ <<>> \in Seq(Request) /\ <<>> \in Seq(Given) /\ <<>> \in Seq(Spawned)
    OBVIOUS
  <2>2. Family(Edge, Msg, chan)
    BY <2>1 DEF Init, Family
  <2>3. Family(Server, Request, talist) /\ Family(Server, Request, failed)
    BY <2>1 DEF Init, Family
  <2>4. Family(Node, Given, stack) /\ Family(Node, Spawned, sub)
    BY <2>1 DEF Init, Family
  <2>5. /\ phase \in [Server -> {"wait", "retry", "return"}]
        /\ diff \in [Server -> [Node \cup Server -> Int]] /\ pdiff \in [Server -> Int]
        /\ unreplied \in [Server -> [Host -> Int]] /\ valid \in [Node -> BOOLEAN]
    BY DEF Init
  <2>6. /\ respond \in {"nil", "initial", "resend", "exit"} /\ exited \in BOOLEAN
        /\ taskHome \in SUBSET [to : Host, head : Path, no : 0..AutoResend]
        /\ ask \in [Node -> {NoTask, AnyTask} \cup SubTask]
        /\ wrack \in [Node -> Int] /\ up \in [Node -> BOOLEAN] /\ used \in 0..MaxTask
    <3>1. MaxTask \in Nat
      BY TreeAssumption
    <3>2. used \in 0..MaxTask
      BY <3>1 DEF Init
    <3>3. respond \in {"nil", "initial", "resend", "exit"} /\ exited \in BOOLEAN
      BY DEF Init
    <3>4. taskHome \in SUBSET [to : Host, head : Path, no : 0..AutoResend]
      BY DEF Init
    <3>5. ask \in [Node -> {NoTask, AnyTask} \cup SubTask]
      BY DEF Init
    <3>6. wrack \in [Node -> Int] /\ up \in [Node -> BOOLEAN]
      BY DEF Init
    <3> QED
      BY <3>2, <3>3, <3>4, <3>5, <3>6
  <2> QED
    BY <2>2, <2>3, <2>4, <2>5, <2>6, TypeParts
<1>5. Routes
  BY <1>1, <1>2 DEF Routes
<1>6. Nodes
  BY <1>1, <1>2, Zero DEF Nodes
<1>7. OneAnswer
  BY <1>1, <1>3 DEF OneAnswer, Asked
<1>8. \A id : Where(id) = 0 /\ Waiting(id) = 0
  BY <1>3 DEF Where, Running, Waiting
<1>9. OnePlace
  BY <1>8 DEF OnePlace
<1>10. unreplied[Top][Term] = 0 /\ pdiff[Top] = 0 /\ respond = "initial" /\ <<Term, Top>> \in Edge
  BY TopIs, Edges DEF Init, Host
<1>11. FirstTask
  BY <1>1, <1>2, <1>8, <1>10 DEF FirstTask
<1>12. DiffsNum
  <2>1. ASSUME NEW s \in Server, NEW c \in ChildrenOf(s)
        PROVE  diff[s][c] = SentNo(s, c, {"task"}) + SentNo(c, s, {"rslt"})
                              + IF c \in Node THEN Len(stack[c]) ELSE pdiff[c]
    <3>1. c \in Node \cup Server /\ <<s, c>> \in Edge /\ <<c, s>> \in Edge
      BY Tree, Edges DEF Links
    <3>2. diff[s][c] = 0
      BY <3>1 DEF Init
    <3>3. SentNo(s, c, {"task"}) = 0 /\ SentNo(c, s, {"rslt"}) = 0
      BY <1>3, <3>1 DEF SentNo
    <3>4. (IF c \in Node THEN Len(stack[c]) ELSE pdiff[c]) = 0
      BY <1>1, <1>2, <3>1 DEF Init
    <3> QED
      BY <3>2, <3>3, <3>4
  <2> QED
    BY <2>1 DEF DiffsNum
<1>13. UnrepliedNum
  <2>1. ASSUME NEW s \in Server, NEW n \in ChildrenOf(s)
        PROVE  unreplied[s][n] = SentNo(s, n, {"treq"}) + SentNo(n, s, {"none", "task"})
    <3>1. n \in Host /\ <<s, n>> \in Edge /\ <<n, s>> \in Edge
      BY Tree, Edges DEF Links
    <3>2. unreplied[s][n] = 0
      BY <3>1 DEF Init
    <3>3. SentNo(s, n, {"treq"}) = 0 /\ SentNo(n, s, {"none", "task"}) = 0
      BY <1>3, <3>1 DEF SentNo
    <3> QED
      BY <3>2, <3>3
  <2> QED
    BY <2>1 DEF UnrepliedNum
<1>14. OneTaskAtATime
  BY <1>10 DEF OneTaskAtATime
<1>15. Retried
  BY <1>1, <1>2 DEF Retried
<1> QED
  BY <1>4, <1>5, <1>6, <1>7, <1>9, <1>11, <1>12, <1>13, <1>14, <1>15 DEF IInv

LEMMA Stutter ==
  ASSUME IInv, UNCHANGED vars
  PROVE  IInv'
<1>1. UNCHANGED chan /\ UNCHANGED serverVars /\ UNCHANGED termVars /\ UNCHANGED nodeVars
  BY DEF vars
<1>2. UNCHANGED <<phase, talist, failed, diff, pdiff, unreplied, valid, respond, taskHome, exited>>
  BY <1>1 DEF serverVars, termVars
<1>3. UNCHANGED <<ask, stack, sub, wrack, up, used>>
  BY <1>1 DEF nodeVars
<1>4. TypeOK'
  BY <1>1, <1>2, <1>3 DEF IInv, TypeOK
<1>5. \A h, p, id : WayHome(h, p, id)' <=> WayHome(h, p, id)
  BY <1>3 DEF WayHome, HasSub
<1>6. \A id, n : MadeFor(id, n)' <=> MadeFor(id, n)
  BY <1>3 DEF MadeFor
<1>7. \A a, b, m : Goes(a, b, m)' <=> Goes(a, b, m)
  <2>1. \A a, b, m : Treq(a, b, m)' <=> Treq(a, b, m)
    BY <1>3 DEF Treq
  <2> QED
    BY <1>3, <1>5, <1>6, <2>1 DEF Goes
<1>8. \A s, r : Keeps(s, r)' <=> Keeps(s, r)
  BY <1>3 DEF Keeps
<1>9. Routes'
  BY <1>1, <1>2, <1>7, <1>8 DEF IInv, Routes
<1>10. Nodes'
  <2>1. \A x, id : HasSub(x, id)' <=> HasSub(x, id)
    BY <1>3 DEF HasSub
  <2> QED
    BY <1>2, <1>3, <1>5, <2>1 DEF IInv, Nodes
<1>11. OneAnswer'
  BY <1>1, <1>2, <1>3 DEF IInv, OneAnswer, Asked
<1>12. \A id : Where(id)' = Where(id) /\ Waiting(id)' = Waiting(id)
  BY <1>1, <1>3 DEF Where, Waiting, Running
<1>13. OnePlace'
  BY <1>3, <1>12 DEF IInv, OnePlace, AllUp
<1>14. FirstTask'
  BY <1>1, <1>2, <1>12 DEF IInv, FirstTask
<1>15. DiffsNum' /\ UnrepliedNum'
  <2>1. \A a, b, K : SentNo(a, b, K)' = SentNo(a, b, K)
    BY <1>1 DEF SentNo
  <2> QED
    BY <1>2, <1>3, <2>1 DEF IInv, DiffsNum, UnrepliedNum
<1>16. OneTaskAtATime'
  BY <1>2 DEF IInv, OneTaskAtATime
<1>17. Retried'
  BY <1>1, NodeRetried DEF IInv
<1> QED
  BY <1>4, <1>9, <1>10, <1>11, <1>13, <1>14, <1>15, <1>16, <1>17 DEF IInv

LEMMA StepIInv ==
  ASSUME AutoResend = 0, IInv, [Next]_vars
  PROVE  IInv'
<1>1. CASE UNCHANGED vars
  BY <1>1, Stutter
<1>2. ASSUME ~exited, NEW s \in Server, NEW h \in Links(s), Proc(s, h)
      PROVE  IInv'
  <2>1. CASE ProcTreq(s, h)
    BY <1>2, <2>1, ProcTreqStep
  <2>2. CASE ProcTask(s, h)
    BY <1>2, <2>2, ProcTaskStep
  <2>3. CASE ProcNone(s, h)
    BY <1>2, <2>3, ProcNoneStep
  <2>4. CASE ProcRslt(s, h)
    BY <1>2, <2>4, ProcRsltStep
  <2>5. CASE ProcRack(s, h)
    BY <1>2, <2>5, ProcRackStep
  <2>6. CASE h \in Node /\ ProcLeav(s, h)
    BY <1>2, <2>6, ProcLeavStep
  <2> QED
    BY <1>2, <2>1, <2>2, <2>3, <2>4, <2>5, <2>6 DEF Proc
<1>3. ASSUME ~exited, NEW s \in Server, Retry(s)
      PROVE  IInv'
  BY <1>3, RetryOneStep, RetryEndStep DEF Retry
<1>4. ASSUME ~exited, NEW n \in Node, NodeStep(n) \/ Leave(n)
      PROVE  IInv'
  <2>1. CASE NodeTreq(n)
    BY <1>4, <2>1, NodeTreqStep
  <2>2. CASE NodeTask(n)
    BY <1>4, <2>2, NodeTaskStep
  <2>3. CASE NodeNone(n)
    BY <1>4, <2>3, NodeNoneStep
  <2>4. CASE NodeRslt(n)
    BY <1>4, <2>4, NodeRsltStep
  <2>5. CASE NodeRack(n)
    BY <1>4, <2>5, NodeRackStep
  <2>6. CASE NodeAsk(n)
    BY <1>4, <2>6, NodeAskStep
  <2>7. CASE NodeFinish(n)
    BY <1>4, <2>7, NodeFinishStep
  <2>8. CASE Leave(n)
    BY <1>4, <2>8, LeaveStep
  <2> QED
    BY <1>4, <2>1, <2>2, <2>3, <2>4, <2>5, <2>6, <2>7, <2>8 DEF NodeStep, NodeRecv
<1> QED
  BY <1>1, <1>2, <1>3, <1>4 DEF Next

(* Every state that the tree of servers and nodes can reach satisfies the   *)
(* inductive invariant: where every message on its way leads to, who waits  *)
(* for what, where every task is and what the servers' counters count.      *)
THEOREM Invariance ==
  ASSUME AutoResend = 0
  PROVE  Spec => []IInv
<1>1. Init => IInv
  BY InitIInv
<1>2. IInv /\ [Next]_vars => IInv'
  BY StepIInv
<1> QED
  BY <1>1, <1>2, PTL DEF Spec

-----------------------------------------------------------------------------
(* What the invariant says of the properties that the runs check *)

LEMMA RequestsCounted ==
  ASSUME IInv
  PROVE  RequestAccounting
<1>1. Family(Edge, Msg, chan) /\ Family(Server, Request, talist) /\ Family(Server, Request, failed)
  BY TypeParts DEF IInv
<1>2. ASSUME ~exited, NEW n \in Node, up[n]
      PROVE  OnTheWay(LAMBDA m : m.kind \in {"treq", "none", "task"} /\ m.by = n) + Kept(n)
               = IF ask[n] = NoTask THEN 0 ELSE 1
  <2>1. PICK A, B, C : /\ A = Num(Edge, chan, RequestsBy(n)) /\ B = Num(Server, talist, KeptBy(n))
                       /\ C = Num(Server, failed, KeptBy(n))
    OBVIOUS
  <2>2. A \in Nat /\ B \in Nat /\ C \in Nat
    BY <1>1, <2>1, Finite, FinitePositions
  <2>3. A + B + C = IF ask[n] = NoTask THEN 0 ELSE 1
    BY <1>2, <2>1 DEF IInv, OneAnswer, Asked
  <2>4. OnTheWay(LAMBDA m : m.kind \in {"treq", "none", "task"} /\ m.by = n) = A
    BY <1>1, <2>1, PlacesRequests, Zenon DEF OnTheWay
  <2>5. Kept(n) = B + C
    BY <1>1, <2>1, PlacesKept, Zenon DEF Kept
  <2>6. A + (B + C) = A + B + C
    BY <2>2
  <2> QED
    BY <2>3, <2>4, <2>5, <2>6
<1> QED
  BY <1>2, Zenon DEF RequestAccounting

LEMMA TasksCounted ==
  ASSUME IInv
  PROVE  TaskAccounting
<1>1. Family(Edge, Msg, chan) /\ Family(Node, Given, stack) /\ Family(Node, Spawned, sub)
  BY TypeParts DEF IInv
<1>2. ASSUME \A n \in Node : up[n], NEW id \in SubTask
      PROVE  /\ Places(Node, sub, LAMBDA t : t.id = id) <= 1
             /\ Places(Node, sub, LAMBDA t : t.id = id)
                  = Places(Node, stack, LAMBDA t : t.id = id)
                      + OnTheWay(LAMBDA m : m.kind \in {"task", "rslt"} /\ m.id = id)
  <2>1. PICK A, B, C : /\ A = Num(Node, sub, SpawnedAs(id)) /\ B = Num(Node, stack, GivenAs(id))
                       /\ C = Num(Edge, chan, Carrying(id))
    OBVIOUS
  <2>2. A <= 1 /\ B + C = A
    BY <1>2, <2>1 DEF IInv, OnePlace, AllUp, Where, Waiting, Running
  <2>3. Places(Node, sub, LAMBDA t : t.id = id) = A
    BY <1>1, <2>1, PlacesTasks, Zenon
  <2>4. Places(Node, stack, LAMBDA t : t.id = id) = B
    BY <1>1, <2>1, PlacesTasks, Zenon
  <2>5. OnTheWay(LAMBDA m : m.kind \in {"task", "rslt"} /\ m.id = id) = C
    BY <1>1, <2>1, PlacesCarrying, Zenon DEF OnTheWay
  <2> QED
    BY <2>2, <2>3, <2>4, <2>5
<1> QED
  BY <1>2, Zenon DEF TaskAccounting

LEMMA CountersCounted ==
  ASSUME IInv
  PROVE  CountersAgree
<1>1. TypeOK /\ DiffsNum /\ UnrepliedNum /\ Family(Edge, Msg, chan)
  BY TypeParts DEF IInv
<1>2. ASSUME NEW s \in Server, NEW c \in ChildrenOf(s), NEW K
      PROVE  Sent(s, c, K) = SentNo(s, c, K) /\ Sent(c, s, K) = SentNo(c, s, K)
  <2>1. <<s, c>> \in Edge /\ <<c, s>> \in Edge
    BY Edges DEF Links
  <2> QED
    BY <1>1, <2>1, SentNum, Zenon DEF SentNo
<1>3. Diffs
  BY <1>1, <1>2 DEF Diffs, DiffsNum
<1>4. Unreplied
  BY <1>1, <1>2 DEF Unreplied, UnrepliedNum
<1> QED
  BY <1>1, <1>3, <1>4 DEF CountersAgree

(* Every node that waits for an answer has exactly one request or answer on *)
(* its way or kept by a server, and no other node has any, in any tree of   *)
(* servers (proc-treq, proc-none, proc-task, retry-treq of server.lsp).     *)
THEOREM RequestsAccounted ==
  ASSUME AutoResend = 0
  PROVE  Spec => []RequestAccounting
<1>1. IInv => RequestAccounting
  BY RequestsCounted
<1> QED
  BY <1>1, Invariance, PTL

(* While no node leaves, a subtask that somebody waits for is in exactly    *)
(* one place, and one that nobody waits for is nowhere (proc-task,          *)
(* proc-rslt, recv-task, recv-rslt).                                        *)
THEOREM TasksAccounted ==
  ASSUME AutoResend = 0
  PROVE  Spec => []TaskAccounting
<1>1. IInv => TaskAccounting
  BY TasksCounted
<1> QED
  BY <1>1, Invariance, PTL

(* The counters by which a server chooses whom to ask, child-diff-task-rslt *)
(* and host-unreplied-treqs, agree with what is on the links, with the      *)
(* nodes' stacks and with the counts of the child servers.                  *)
THEOREM ServersCount ==
  ASSUME AutoResend = 0
  PROVE  Spec => []CountersAgree
<1>1. IInv => CountersAgree
  BY CountersCounted
<1> QED
  BY <1>1, Invariance, PTL

(* The terminal is asked for one task at a time, when the task it gave has  *)
(* been done (server.lsp l.1094).                                           *)
THEOREM TerminalAskedOnce ==
  ASSUME AutoResend = 0
  PROVE  Spec => []OneTaskAtATime
<1>1. IInv => OneTaskAtATime
  BY DEF IInv
<1> QED
  BY <1>1, Invariance, PTL

(* A server that waits for messages keeps no request that it could pass on  *)
(* (retry-treq after every message that may make a host divisible).         *)
THEOREM NoRequestForgotten ==
  ASSUME AutoResend = 0
  PROVE  Spec => []NothingForgotten
<1>1. IInv => NothingForgotten
  <2> SUFFICES ASSUME IInv, NEW s \in Server, phase[s] = "wait", NEW i \in DOMAIN talist[s]
               PROVE  MayFail(s, talist[s][i].from)
    BY DEF NothingForgotten
  <2>1. talist[s][i] \in Range(talist[s]) /\ phase[s] # "retry"
    BY DEF Range
  <2> QED
    BY <2>1 DEF IInv, Retried
<1> QED
  BY <1>1, Invariance, PTL

(* only recv-task makes a stack longer *)
LEMMA OnlyTasksGrow ==
  ASSUME IInv, NEW n \in Node, Next, Len(stack'[n]) > Len(stack[n])
  PROVE  ~exited /\ NodeTask(n)
<1>1. Len(stack[n]) \in Nat
  BY TypeParts, FamilyElement DEF IInv
<1>2. stack'[n] # stack[n]
  BY <1>1
<1>3. ~exited
  BY DEF Next
<1>4. ASSUME NEW s \in Server, NEW h \in Links(s), Proc(s, h)
      PROVE  FALSE
  BY <1>2, <1>4 DEF Proc, ProcTreq, ProcTask, ProcNone, ProcRslt, ProcRack, ProcLeav, nodeVars
<1>5. ASSUME NEW s \in Server, Retry(s)
      PROVE  FALSE
  BY <1>2, <1>5 DEF Retry, RetryOne, RetryEnd, nodeVars
<1>6. ASSUME NEW x \in Node, NodeStep(x) \/ Leave(x)
      PROVE  x = n /\ NodeTask(n)
  <2>1. ~NodeTreq(x) /\ ~NodeNone(x) /\ ~NodeRslt(x) /\ ~NodeRack(x) /\ ~NodeAsk(x) /\ ~Leave(x)
    BY <1>2 DEF NodeTreq, NodeNone, NodeRslt, NodeRack, NodeAsk, Leave
  <2>2. ~NodeFinish(x)
    <3> SUFFICES ASSUME NodeFinish(x) PROVE FALSE
      OBVIOUS
    <3>1. stack' = [stack EXCEPT ![x] = Front(@)] /\ stack[x] # <<>> /\ stack[x] \in Seq(Given)
      BY TypeParts, FamilyElement DEF NodeFinish, IInv
    <3>2. Len(Front(stack[x])) = Len(stack[x]) - 1
      BY <3>1, FrontLacks
    <3>3. x = n
      BY <1>2, <3>1
    <3>4. stack'[n] = Front(stack[n])
      BY <3>1, <3>3, TypeParts DEF IInv, Family
    <3> QED
      BY <1>1, <3>2, <3>3, <3>4
  <2>3. NodeTask(x)
    BY <1>6, <2>1, <2>2 DEF NodeStep, NodeRecv
  <2>4. x = n
    BY <1>2, <2>3 DEF NodeTask
  <2> QED
    BY <2>3, <2>4
<1> QED
  BY <1>3, <1>4, <1>5, <1>6 DEF Next

(* ... and the node that takes a task still waits for it *)
LEMMA TakerWaits ==
  ASSUME IInv, ~exited, NEW n \in Node, NodeTask(n)
  PROVE  (ask[n] = AnyTask /\ stack[n] = <<>>) \/ WaitsForSub(n)
<1>1. TypeOK /\ Routes /\ Nodes /\ OneAnswer /\ OnePlace
  BY DEF IInv
<1>2. Family(Edge, Msg, chan) /\ Family(Node, Given, stack) /\ Family(Node, Spawned, sub)
  BY <1>1, TypeParts
<1>3. NodeReceives(n, "task")
  BY DEF NodeTask
<1>4. PICK m \in Msg : \E c :
           /\ m = Received(ServerOf(n), n) /\ m = Head(chan[<<ServerOf(n), n>>]) /\ c = NodeTaken(n)
           /\ Took(TRUE, <<ServerOf(n), n>>, c) /\ Family(Edge, Msg, c) /\ Goes(ServerOf(n), n, m)
           /\ m.kind = "task" /\ up[n]
  BY <1>1, <1>3, NodeHears
<1>5. PICK e \in Edge : e = <<ServerOf(n), n>>
  BY Edges
<1>6. m \in Range(chan[e])
  <2>1. PICK c : Takes(chan, c, e)
    BY <1>4, <1>5 DEF Took
  <2>2. Head(chan[e]) = chan[e][1] /\ 1 \in DOMAIN chan[e]
    BY <2>1, TakesElements
  <2>3. m = Head(chan[e])
    BY <1>4, <1>5
  <2> QED
    BY <2>2, <2>3 DEF Range
<1>7. m.by = n /\ MadeFor(m.id, n)
  <2>1. Way(n, m.to, m.by) /\ MadeFor(m.id, m.by)
    BY <1>4 DEF Goes
  <2> QED
    BY <2>1, Tree, WayEnds
<1>8. ask[n] # NoTask
  <2>1. m \in RequestsBy(n)
    BY <1>4, <1>7 DEF RequestsBy
  <2>2. Num(Edge, chan, RequestsBy(n)) \in Nat \ {0}
    BY <1>2, <1>6, <2>1, Finite, NumSome
  <2>3. Num(Server, talist, KeptBy(n)) \in Nat /\ Num(Server, failed, KeptBy(n)) \in Nat
    BY <1>1, Counts
  <2>4. Asked(n) # 0
    BY <2>2, <2>3 DEF Asked
  <2> QED
    BY <1>1, <1>4, <2>4 DEF OneAnswer
<1>9. CASE ask[n] = AnyTask
  BY <1>1, <1>9 DEF Nodes
<1>10. CASE ask[n] \in SubTask
  <2>1. PICK id \in SubTask : id = ask[n]
    BY <1>10
  <2>2. PICK x \in Node : \E t \in Range(sub[x]) : \E k \in 1..t.depth : stack[x][k].id = id
    BY <1>4, <1>7, <2>1 DEF MadeFor
  <2>3. PICK t \in Range(sub[x]) : \E k \in 1..t.depth : stack[x][k].id = id
    BY <2>2
  <2>4. PICK k \in 1..t.depth : stack[x][k].id = id
    BY <2>3
  <2>5. k \in DOMAIN stack[x]
    <3>1. t.depth \in DOMAIN stack[x] /\ DOMAIN stack[x] = 1..Len(stack[x]) /\ Len(stack[x]) \in Nat
      BY <1>1, <1>2, FamilyElement DEF Nodes
    <3> QED
      BY <3>1
  <2>6. stack[x][k] \in Range(stack[x]) /\ stack[x][k] \in GivenAs(id)
    BY <1>2, <2>4, <2>5, FamilyElement DEF Range, GivenAs
  <2>7. Running(id) \in Nat \ {0}
    <3>1. PICK y \in Range(stack[x]) : y \in GivenAs(id)
      BY <2>6
    <3> QED
      BY <1>2, <3>1, Finite, NumSome DEF Running
  <2>8. Where(id) # 0 /\ Where(id) \in Nat /\ Waiting(id) \in Nat
    <3>1. Num(Edge, chan, Carrying(id)) \in Nat /\ Waiting(id) \in Nat
      BY <1>1, Counts
    <3> QED
      BY <2>7, <3>1 DEF Where
  <2>9. Waiting(id) # 0
    BY <1>1, <2>8 DEF OnePlace
  <2>10. \E z \in Node : \E y \in Range(sub[z]) : y \in SpawnedAs(id)
    BY <2>9, NumNone DEF Waiting
  <2>11. HasSub(n, id)
    <3>1. PICK z \in Node : HasSub(z, id)
      BY <2>10 DEF HasSub, SpawnedAs
    <3> QED
      BY <1>1, <2>1, <3>1 DEF Nodes
  <2> QED
    BY <2>1, <2>11 DEF HasSub, WaitsForSub, Range
<1> QED
  BY <1>1, <1>8, <1>9, <1>10 DEF TypeOK

(* recv-task finds the worker that asked still waiting: it is idle, or the  *)
(* subtask for which it asked the thief is still out (worker.sc l.425).     *)
THEOREM TasksAreWaitedFor ==
  ASSUME AutoResend = 0
  PROVE  Spec => TaskToRequester
<1>1. ASSUME IInv, [Next]_vars
      PROVE  [\A n \in Node : Len(stack'[n]) > Len(stack[n]) =>
                (ask[n] = AnyTask /\ stack[n] = <<>>) \/ WaitsForSub(n)]_vars
  BY <1>1, OnlyTasksGrow, TakerWaits
<1> QED
  BY <1>1, Invariance, PTL DEF Spec, TaskToRequester

-----------------------------------------------------------------------------
(* The servers implement WorkSharing *)

(* what there is of a request and of a task, wherever it is *)
Flying == UNION {Range(chan[e]) : e \in Edge}
Listed == UNION {Range(talist[s]) \cup Range(failed[s]) : s \in Server}
HasKept(n) == \E r \in Listed : r.by = n
Value(m) == IF m.kind = "treq" THEN -1 ELSE IF m.kind = "none" THEN -2 ELSE m.id
Stage(m) == IF m.kind = "task" THEN "given" ELSE "done"
Shows(n, w) ==
  (\E m \in Flying : m \in RequestsBy(n) /\ Value(m) = w) \/ (w = -1 /\ HasKept(n))
Stands(id, st) ==
  (st = "running" /\ HolderOf(id) # {}) \/ (\E m \in Flying : m \in Carrying(id) /\ Stage(m) = st)

(* every request and every task once, at most *)
Once ==
  /\ \A n \in Node : Asked(n) <= IF ask[n] = NoTask THEN 0 ELSE 1
  /\ \A id \in OneRoot : Where(id) <= 1

LEMMA FlyingIs ==
  ASSUME NEW m
  PROVE  m \in Flying <=> \E e \in Edge : m \in Range(chan[e])
BY DEF Flying

LEMMA ListedIs ==
  ASSUME NEW r
  PROVE  r \in Listed <=> \E s \in Server : r \in Range(talist[s]) \/ r \in Range(failed[s])
BY DEF Listed

LEMMA FlyingMsg ==
  ASSUME Family(Edge, Msg, chan)
  PROVE  \A m \in Flying : m \in Msg
BY FlyingIs, FamilyElement DEF Range

(* the counts of the invariant, and what there is *)
LEMMA Counted ==
  ASSUME TypeOK, NEW M
  PROVE  /\ (\E m \in Flying : m \in M) <=> Num(Edge, chan, M) # 0
         /\ Num(Edge, chan, M) <= 1 => \A m, k \in Flying : m \in M /\ k \in M => m = k
         /\ Num(Edge, chan, M) \in Nat
<1>1. Family(Edge, Msg, chan) /\ IsFiniteSet(Edge) /\ Edge \in SUBSET Edge
  BY TypeParts, Finite
<1>2. Num(Edge, chan, M) \in Nat
  BY Counts
<1>3. ASSUME NEW m \in Flying, m \in M
      PROVE  Num(Edge, chan, M) # 0
  <2>1. PICK e \in Edge : m \in Range(chan[e])
    BY FlyingIs
  <2>2. Num(Edge, chan, M) \in Nat \ {0}
    BY <1>1, <1>3, <2>1, NumSome
  <2> QED
    BY <2>2
<1>4. ASSUME ~\E m \in Flying : m \in M
      PROVE  Num(Edge, chan, M) = 0
  BY <1>4, FlyingIs, NumNone
<1>5. ASSUME Num(Edge, chan, M) <= 1, NEW m \in Flying, NEW k \in Flying, m \in M, k \in M
      PROVE  m = k
  <2>1. PICK e \in Edge : m \in Range(chan[e])
    BY FlyingIs
  <2>2. PICK g \in Edge : k \in Range(chan[g])
    BY FlyingIs
  <2> QED
    BY <1>1, <1>5, <2>1, <2>2, TwoPlaces
<1> QED
  BY <1>2, <1>3, <1>4, <1>5

LEMMA KeptCounted ==
  ASSUME TypeOK, NEW n
  PROVE  /\ HasKept(n) <=> Num(Server, talist, KeptBy(n)) + Num(Server, failed, KeptBy(n)) # 0
         /\ Num(Server, talist, KeptBy(n)) \in Nat /\ Num(Server, failed, KeptBy(n)) \in Nat
         /\ Kept(n) > 0 <=> HasKept(n)
<1>1. /\ Family(Server, Request, talist) /\ Family(Server, Request, failed)
      /\ IsFiniteSet(Server) /\ Server \in SUBSET Server
  BY TypeParts, Finite
<1>2. Num(Server, talist, KeptBy(n)) \in Nat /\ Num(Server, failed, KeptBy(n)) \in Nat
  BY Counts
<1>3. ASSUME NEW c, Family(Server, Request, c), NEW s \in Server, NEW r \in Range(c[s])
      PROVE  r \in Request
  BY <1>3, FamilyElement DEF Range
<1>4. ASSUME HasKept(n)
      PROVE  Num(Server, talist, KeptBy(n)) # 0 \/ Num(Server, failed, KeptBy(n)) # 0
  <2>1. PICK r \in Listed : r.by = n
    BY <1>4 DEF HasKept
  <2>2. PICK s \in Server : r \in Range(talist[s]) \/ r \in Range(failed[s])
    BY ListedIs
  <2>3. CASE r \in Range(talist[s])
    <3>1. r \in KeptBy(n)
      BY <1>1, <1>3, <2>1, <2>3 DEF KeptBy
    <3>2. Num(Server, talist, KeptBy(n)) \in Nat \ {0}
      BY <1>1, <2>3, <3>1, NumSome
    <3> QED
      BY <3>2
  <2>4. CASE r \in Range(failed[s])
    <3>1. r \in KeptBy(n)
      BY <1>1, <1>3, <2>1, <2>4 DEF KeptBy
    <3>2. Num(Server, failed, KeptBy(n)) \in Nat \ {0}
      BY <1>1, <2>4, <3>1, NumSome
    <3> QED
      BY <3>2
  <2> QED
    BY <2>2, <2>3, <2>4
<1>5. ASSUME ~HasKept(n)
      PROVE  Num(Server, talist, KeptBy(n)) = 0 /\ Num(Server, failed, KeptBy(n)) = 0
  <2>1. /\ \A s \in Server : \A r \in Range(talist[s]) : r \notin KeptBy(n)
        /\ \A s \in Server : \A r \in Range(failed[s]) : r \notin KeptBy(n)
    BY <1>5, ListedIs DEF HasKept, KeptBy
  <2> QED
    BY <2>1, NumNone
<1>6. Kept(n) = Num(Server, talist, KeptBy(n)) + Num(Server, failed, KeptBy(n))
  BY <1>1, PlacesKept DEF Kept
<1> QED
  BY <1>2, <1>4, <1>5, <1>6

LEMMA ShownOnce ==
  ASSUME TypeOK, NEW n \in Node
  PROVE  /\ Asked(n) <= 1 => \A v, w : Shows(n, v) /\ Shows(n, w) => v = w
         /\ Asked(n) # 0 <=> \E w : Shows(n, w)
<1>1. PICK A, B, C : /\ A = Num(Edge, chan, RequestsBy(n)) /\ B = Num(Server, talist, KeptBy(n))
                     /\ C = Num(Server, failed, KeptBy(n))
  OBVIOUS
<1>2. /\ A \in Nat /\ B \in Nat /\ C \in Nat /\ Asked(n) = A + B + C
      /\ HasKept(n) <=> B + C # 0
  BY <1>1, Counted, KeptCounted DEF Asked
<1>3. /\ (\E m \in Flying : m \in RequestsBy(n)) <=> A # 0
      /\ A <= 1 => \A m, k \in Flying : m \in RequestsBy(n) /\ k \in RequestsBy(n) => m = k
  BY <1>1, Counted
<1>4. ASSUME Asked(n) <= 1, NEW v, NEW w, Shows(n, v), Shows(n, w)
      PROVE  v = w
  <2>1. A <= 1 /\ (A = 0 \/ ~HasKept(n))
    BY <1>2, <1>4
  <2> QED
    BY <1>3, <1>4, <2>1 DEF Shows
<1>5. Asked(n) # 0 <=> \E w : Shows(n, w)
  <2>1. Asked(n) # 0 <=> (A # 0 \/ HasKept(n))
    BY <1>2
  <2>2. (\E w : Shows(n, w)) <=> (\E m \in Flying : m \in RequestsBy(n)) \/ HasKept(n)
    BY DEF Shows
  <2> QED
    BY <1>3, <2>1, <2>2
<1> QED
  BY <1>4, <1>5

(* what WantOf finds *)
LEMMA WantIs ==
  ASSUME AutoResend = 0, TypeOK, NEW n \in Node, Asked(n) <= IF ask[n] = NoTask THEN 0 ELSE 1
  PROVE  /\ \A w : Shows(n, w) => ask[n] # NoTask /\ WantOf(n) = w
         /\ ~(\E w : Shows(n, w)) => WantOf(n) = -3
         /\ Asked(n) # 0 <=> \E w : Shows(n, w)
<1>1. PICK G : G = GivenTo(n)
  OBVIOUS
<1>2. \A m \in Flying : /\ m \in RequestsBy(n) <=> m.kind \in {"treq", "none", "task"} /\ m.by = n
                        /\ m \in RequestsBy(n) /\ m.kind = "task" => m.id \in Task
  BY TypeParts, FlyingMsg, MsgParts DEF RequestsBy
<1>3. \A kind : \A m : m \in Messages(kind) <=> m \in Flying /\ m.kind = kind
  BY FlyingIs DEF Messages
<1>4. \A id : id \in G <=> \E m \in Flying : m.kind = "task" /\ m.by = n /\ m.id = id
  BY <1>1, <1>3 DEF GivenTo
<1>5. WantOf(n) = IF ask[n] = NoTask THEN -3
                  ELSE IF G # {} THEN CHOOSE id \in G : TRUE
                  ELSE IF \E m \in Flying : m.kind = "none" /\ m.by = n THEN -2
                  ELSE IF (\E m \in Flying : m.kind = "treq" /\ m.by = n) \/ HasKept(n) THEN -1 ELSE -3
  BY <1>1, <1>3, KeptCounted DEF WantOf
<1>6. Asked(n) \in Nat
  BY Counts
<1>7. /\ \A v, w : Shows(n, v) /\ Shows(n, w) => v = w
      /\ Asked(n) # 0 <=> \E w : Shows(n, w)
  BY <1>6, ShownOnce
<1>8. ASSUME NEW w, Shows(n, w)
      PROVE  ask[n] # NoTask /\ WantOf(n) = w
  <2>1. ask[n] # NoTask
    BY <1>6, <1>7, <1>8
  <2>2. \A id \in G : id = w
    <3>1. ASSUME NEW id \in G
          PROVE  Shows(n, id)
      <4>1. PICK m \in Flying : m.kind = "task" /\ m.by = n /\ m.id = id
        BY <1>4
      <4> QED
        BY <1>2, <4>1 DEF Shows, Value
    <3> QED
      BY <1>7, <1>8, <3>1
  <2>3. (\E m \in Flying : m.kind = "none" /\ m.by = n) => w = -2
    BY <1>2, <1>7, <1>8 DEF Shows, Value
  <2>4. ((\E m \in Flying : m.kind = "treq" /\ m.by = n) \/ HasKept(n)) => w = -1
    BY <1>2, <1>7, <1>8 DEF Shows, Value
  <2>5. \/ w \in G
        \/ w = -2 /\ \E m \in Flying : m.kind = "none" /\ m.by = n
        \/ w = -1 /\ ((\E m \in Flying : m.kind = "treq" /\ m.by = n) \/ HasKept(n))
    BY <1>2, <1>4, <1>8 DEF Shows, Value
  <2>6. G \subseteq SubTask \cup {0}
    BY <1>2, <1>4, TaskIs
  <2>7. w \in G => w >= 0
    BY <2>6 DEF SubTask
  <2> QED
    BY <1>5, <2>1, <2>2, <2>3, <2>4, <2>5, <2>7
<1>9. ASSUME ~\E w : Shows(n, w)
      PROVE  WantOf(n) = -3
  <2>1. ~HasKept(n) /\ \A m \in Flying : m \notin RequestsBy(n)
    BY <1>9 DEF Shows
  <2>2. G = {}
    BY <1>2, <1>4, <2>1
  <2> QED
    BY <1>2, <1>5, <2>1, <2>2
<1> QED
  BY <1>7, <1>8, <1>9

LEMMA HolderIs ==
  ASSUME TypeOK, NEW id
  PROVE  /\ HolderOf(id) # {} <=> Running(id) # 0
         /\ Running(id) <= 1 => \A x \in HolderOf(id) : HolderOf(id) = {x}
         /\ \A n : n \in HolderOf(id) <=> n \in Node /\ \E t \in Range(stack[n]) : t.id = id
         /\ Running(id) \in Nat
<1>1. Family(Node, Given, stack) /\ IsFiniteSet(Node) /\ Node \in SUBSET Node
  BY TypeParts, Finite
<1>2. Running(id) \in Nat /\ Running(id) = Num(Node, stack, GivenAs(id))
  BY Counts DEF Running
<1>3. \A n : n \in HolderOf(id) <=> n \in Node /\ \E t \in Range(stack[n]) : t.id = id
  BY DEF HolderOf, Range
<1>4. \A n \in Node : \A t \in Range(stack[n]) : t \in Given
  BY <1>1, FamilyElement DEF Range
<1>5. \A n : n \in HolderOf(id) <=> n \in Node /\ \E t \in Range(stack[n]) : t \in GivenAs(id)
  BY <1>3, <1>4 DEF GivenAs
<1>6. ASSUME NEW x \in HolderOf(id)
      PROVE  Running(id) # 0
  <2>1. PICK t \in Range(stack[x]) : t \in GivenAs(id)
    BY <1>5
  <2>2. Num(Node, stack, GivenAs(id)) \in Nat \ {0}
    BY <1>1, <1>5, <2>1, NumSome
  <2> QED
    BY <1>2, <2>2
<1>7. ASSUME HolderOf(id) = {}
      PROVE  Running(id) = 0
  <2>1. \A n \in Node : \A t \in Range(stack[n]) : t \notin GivenAs(id)
    BY <1>5, <1>7
  <2> QED
    BY <1>2, <2>1, NumNone
<1>8. ASSUME Running(id) <= 1, NEW x \in HolderOf(id), NEW y \in HolderOf(id)
      PROVE  x = y
  <2>1. PICK t \in Range(stack[x]) : t \in GivenAs(id)
    BY <1>5
  <2>2. PICK u \in Range(stack[y]) : u \in GivenAs(id)
    BY <1>5
  <2>3. x \in Node /\ y \in Node /\ Num(Node, stack, GivenAs(id)) <= 1
    BY <1>2, <1>5, <1>8
  <2> QED
    BY <1>1, <2>1, <2>2, <2>3, TwoPlaces
<1> QED
  BY <1>2, <1>3, <1>6, <1>7, <1>8

(* what StateOf finds *)
LEMMA StateIs ==
  ASSUME TypeOK, NEW id, Where(id) <= 1
  PROVE  /\ IsNew(id) => StateOf(id) = "new"
         /\ ~IsNew(id) => /\ \A st : Stands(id, st) => StateOf(id) = st
                          /\ ~(\E st : Stands(id, st)) => StateOf(id) = "back"
         /\ Where(id) # 0 <=> \E st : Stands(id, st)
         /\ \A x \in HolderOf(id) : HolderOf(id) = {x}
         /\ \A v, w : Stands(id, v) /\ Stands(id, w) => v = w
<1>1. PICK R, A : R = Running(id) /\ A = Num(Edge, chan, Carrying(id))
  OBVIOUS
<1>2. R \in Nat /\ A \in Nat /\ Where(id) = R + A
  BY <1>1, Counts, Counted DEF Where
<1>3. /\ HolderOf(id) # {} <=> R # 0
      /\ \A x \in HolderOf(id) : HolderOf(id) = {x}
  BY <1>1, <1>2, HolderIs
<1>4. /\ (\E m \in Flying : m \in Carrying(id)) <=> A # 0
      /\ \A m, k \in Flying : m \in Carrying(id) /\ k \in Carrying(id) => m = k
  BY <1>1, <1>2, Counted
<1>5. \A kind : \A m : m \in Messages(kind) <=> m \in Flying /\ m.kind = kind
  BY FlyingIs DEF Messages
<1>6. \A m \in Flying : m \in Carrying(id) <=> m.kind \in {"task", "rslt"} /\ m.id = id
  BY TypeParts, FlyingMsg DEF Carrying
<1>7. R = 0 \/ A = 0
  BY <1>2
<1>8. StateOf(id) = IF IsNew(id) THEN "new"
                    ELSE IF HolderOf(id) # {} THEN "running"
                    ELSE IF \E m \in Flying : m.kind = "task" /\ m.id = id THEN "given"
                    ELSE IF \E m \in Flying : m.kind = "rslt" /\ m.id = id THEN "done" ELSE "back"
  BY <1>5 DEF StateOf
<1>9. \A v, w : Stands(id, v) /\ Stands(id, w) => v = w
  BY <1>3, <1>4, <1>7 DEF Stands
<1>10. Where(id) # 0 <=> \E st : Stands(id, st)
  <2>1. Where(id) # 0 <=> R # 0 \/ A # 0
    BY <1>2
  <2> QED
    BY <1>3, <1>4, <2>1 DEF Stands
<1>11. ASSUME ~IsNew(id), NEW st, Stands(id, st)
       PROVE  StateOf(id) = st
  <2>1. CASE HolderOf(id) # {}
    <3>1. Stands(id, "running")
      BY <2>1 DEF Stands
    <3> QED
      BY <1>8, <1>9, <1>11, <2>1, <3>1
  <2>2. CASE HolderOf(id) = {}
    <3>1. PICK m \in Flying : m \in Carrying(id) /\ Stage(m) = st
      BY <1>11, <2>2 DEF Stands
    <3>2. m.kind \in {"task", "rslt"} /\ m.id = id
      BY <1>6, <3>1
    <3>3. CASE m.kind = "task"
      BY <1>8, <1>11, <2>2, <3>1, <3>2, <3>3 DEF Stage
    <3>4. CASE m.kind = "rslt"
      <4>1. ~\E k \in Flying : k.kind = "task" /\ k.id = id
        BY <1>4, <1>6, <3>1, <3>4
      <4> QED
        BY <1>8, <1>11, <2>2, <3>1, <3>2, <3>4, <4>1 DEF Stage
    <3> QED
      BY <3>2, <3>3, <3>4
  <2> QED
    BY <2>1, <2>2
<1>12. ASSUME ~IsNew(id), ~\E st : Stands(id, st)
       PROVE  StateOf(id) = "back"
  <2>1. HolderOf(id) = {} /\ \A m \in Flying : m \notin Carrying(id)
    BY <1>12 DEF Stands
  <2> QED
    BY <1>6, <1>8, <1>12, <2>1
<1> QED
  BY <1>3, <1>8, <1>9, <1>10, <1>11, <1>12

WantFound(n) ==
  /\ \A w : Shows(n, w) => ask[n] # NoTask /\ WantOf(n) = w
  /\ ~(\E w : Shows(n, w)) => WantOf(n) = -3
  /\ Asked(n) # 0 <=> \E w : Shows(n, w)
StateFound(id) ==
  /\ IsNew(id) => StateOf(id) = "new"
  /\ ~IsNew(id) => /\ \A st : Stands(id, st) => StateOf(id) = st
                   /\ ~(\E st : Stands(id, st)) => StateOf(id) = "back"
  /\ Where(id) # 0 <=> \E st : Stands(id, st)
  /\ \A x \in HolderOf(id) : HolderOf(id) = {x}
  /\ \A v, w : Stands(id, v) /\ Stands(id, w) => v = w
Found == (\A n \in Node : WantFound(n)) /\ (\A id \in OneRoot : StateFound(id))

LEMMA FoundIs == AutoResend = 0 /\ TypeOK /\ Once => Found
<1> SUFFICES ASSUME AutoResend = 0, TypeOK, Once
             PROVE  Found
  OBVIOUS
<1>1. ASSUME NEW n \in Node
      PROVE  WantFound(n)
  <2>1. Asked(n) <= IF ask[n] = NoTask THEN 0 ELSE 1
    BY DEF Once
  <2> QED
    BY <2>1, WantIs DEF WantFound
<1>2. ASSUME NEW id \in OneRoot
      PROVE  StateFound(id)
  <2>1. Where(id) <= 1
    BY DEF Once
  <2> QED
    BY <2>1, StateIs DEF StateFound
<1> QED
  BY <1>1, <1>2 DEF Found

LEMMA FoundPrime == (AutoResend = 0 /\ TypeOK /\ Once)' => Found'
BY FoundIs, PTL

LEMMA FoundNext ==
  ASSUME AutoResend = 0, TypeOK', Once'
  PROVE  Found'
BY FoundPrime

LEMMA OnceIs == IInv /\ AllUp /\ ~exited => Once
<1> SUFFICES ASSUME IInv, AllUp, ~exited
             PROVE  Once
  OBVIOUS
<1>1. TypeOK /\ OneAnswer /\ OnePlace /\ FirstTask
  BY DEF IInv
<1>2. ASSUME NEW n \in Node
      PROVE  Asked(n) <= IF ask[n] = NoTask THEN 0 ELSE 1
  BY <1>1 DEF OneAnswer, AllUp
<1>3. ASSUME NEW id \in SubTask
      PROVE  Where(id) <= 1
  <2>1. Where(id) \in Nat /\ Waiting(id) \in Nat
    BY <1>1, Counts
  <2> QED
    BY <1>1, <2>1 DEF OnePlace
<1>4. Where(0) <= 1
  BY <1>1 DEF FirstTask
<1> QED
  BY <1>2, <1>3, <1>4 DEF Once, OneRoot

LEMMA OncePrime == (IInv /\ AllUp /\ ~exited)' => Once'
BY OnceIs, PTL

(* one message is taken from the links, one is put there *)
Flows(take, old, put, new) ==
  /\ \A y \in Flying' : y \in Flying \/ (put /\ y = new)
  /\ \A y \in Flying : y \in Flying' \/ (take /\ y = old)
  /\ put => new \in Flying'
  /\ take => old \in Flying

LEMMA FlyingNext ==
  ASSUME NEW m
  PROVE  m \in Flying' <=> \E e \in Edge : m \in Range(chan'[e])
BY DEF Flying

LEMMA FlowIs ==
  ASSUME Family(Edge, Msg, chan), NEW take, NEW e, NEW c, Took(take, e, c),
         NEW put, NEW f, NEW m, Gave(put, c, f, m)
  PROVE  Flows(take, Head(chan[e]), put, m)
<1>1. /\ \A x \in Edge : \A y \in Range(chan'[x]) : (put /\ x = f /\ y = m) \/ y \in Range(chan[x])
      /\ Family(Edge, Msg, chan') /\ Family(Edge, Msg, c)
  BY MovedElements
<1>2. /\ take => e \in Edge /\ Head(chan[e]) \in Range(chan[e])
      /\ \A x \in Edge : \A y \in Range(chan[x]) :
           (take /\ x = e /\ y = Head(chan[e])) \/ y \in Range(c[x])
  <2>1. CASE take
    <3>1. Takes(chan, c, e)
      BY <2>1 DEF Took
    <3>2. /\ Family(Edge, Msg, chan) /\ Family(Edge, Msg, c) /\ e \in Edge /\ Without(chan, c, e, 1)
          /\ Head(chan[e]) = chan[e][1] /\ 1 \in DOMAIN chan[e]
      BY <3>1, TakesElements DEF Takes
    <3>3. \A x \in Edge : \A j \in DOMAIN chan[x] :
              (x = e /\ j = 1) \/ \E i \in DOMAIN c[x] : chan[x][j] = c[x][i]
      BY <3>2, Elements
    <3> QED
      BY <2>1, <3>2, <3>3 DEF Range
  <2>2. CASE ~take
    BY <2>2 DEF Took
  <2> QED
    BY <2>1, <2>2
<1>3. /\ put => f \in Edge /\ m \in Range(chan'[f])
      /\ \A x \in Edge : \A y \in Range(c[x]) : y \in Range(chan'[x])
  <2>1. CASE put
    <3>1. PICK d : d = chan'
      OBVIOUS
    <3>2. Puts(c, d, f, m)
      BY <2>1, <3>1 DEF Gave
    <3>3. PICK k : k = Len(d[f])
      OBVIOUS
    <3>4. /\ Family(Edge, Msg, c) /\ Family(Edge, Msg, d) /\ f \in Edge
          /\ Without(d, c, f, k) /\ d[f][k] = m
      BY <3>2, <3>3 DEF Puts
    <3>5. /\ \A x \in Edge : \A i \in DOMAIN c[x] : \E j \in DOMAIN d[x] : c[x][i] = d[x][j]
          /\ k \in DOMAIN d[f]
      BY <3>4, Elements
    <3> QED
      BY <2>1, <3>1, <3>4, <3>5 DEF Range
  <2>2. CASE ~put
    BY <2>2 DEF Gave
  <2> QED
    BY <2>1, <2>2
<1>4. \A y \in Flying' : y \in Flying \/ (put /\ y = m)
  BY <1>1, FlyingIs, FlyingNext
<1>5. \A y \in Flying : y \in Flying' \/ (take /\ y = Head(chan[e]))
  BY <1>2, <1>3, FlyingIs, FlyingNext
<1>6. put => m \in Flying'
  BY <1>3, FlyingNext
<1>7. take => Head(chan[e]) \in Flying
  BY <1>2, FlyingIs
<1> QED
  BY <1>4, <1>5, <1>6, <1>7 DEF Flows

(* the message that is put says the same as the one that is taken *)
SameRequest(take, old, put, new, n) ==
  /\ (take /\ old \in RequestsBy(n)) <=> (put /\ new \in RequestsBy(n))
  /\ take /\ put /\ old \in RequestsBy(n) => Value(new) = Value(old)
SameTask(take, old, put, new, id) ==
  /\ (take /\ old \in Carrying(id)) <=> (put /\ new \in Carrying(id))
  /\ take /\ put /\ old \in Carrying(id) => Stage(new) = Stage(old)

LEMMA WantStays ==
  ASSUME Found, Found', NEW n \in Node, HasKept(n)' <=> HasKept(n),
         NEW take, NEW old, NEW put, NEW new, Flows(take, old, put, new),
         SameRequest(take, old, put, new, n)
  PROVE  WantOf(n)' = WantOf(n)
<1>1. ASSUME NEW w
      PROVE  Shows(n, w)' <=> Shows(n, w)
  BY DEF Flows, SameRequest, Shows
<1>2. WantFound(n) /\ WantFound(n)'
  BY DEF Found
<1> QED
  BY <1>1, <1>2 DEF WantFound

LEMMA StateStays ==
  ASSUME Found, Found', NEW id \in OneRoot, IsNew(id)' <=> IsNew(id), HolderOf(id)' = HolderOf(id),
         NEW take, NEW old, NEW put, NEW new, Flows(take, old, put, new),
         SameTask(take, old, put, new, id)
  PROVE  StateOf(id)' = StateOf(id)
<1>1. ASSUME NEW st
      PROVE  Stands(id, st)' <=> Stands(id, st)
  BY DEF Flows, SameTask, Stands
<1>2. StateFound(id) /\ StateFound(id)'
  BY DEF Found
<1> QED
  BY <1>1, <1>2 DEF StateFound

(* the steps of WorkSharing *)
Wanted == [n \in Node |-> WantOf(n)]
Stood == [id \in OneRoot |-> StateOf(id)]
Held == [id \in OneRoot |-> HolderOf(id)]

Simulated == Sharing!Next \/ (Wanted' = Wanted /\ Stood' = Stood /\ Held' = Held /\ exited' = exited)

OtherWants(n) == \A x \in Node \ {n} : WantOf(x)' = WantOf(x)
OtherTasks(t) ==
  \A id \in OneRoot \ {t} : StateOf(id)' = StateOf(id) /\ HolderOf(id)' = HolderOf(id)
SameTasks == \A id \in OneRoot : StateOf(id)' = StateOf(id) /\ HolderOf(id)' = HolderOf(id)
SameWants == \A x \in Node : WantOf(x)' = WantOf(x)

LEMMA NothingSeen ==
  ASSUME SameWants, SameTasks, exited' = exited
  PROVE  Simulated
BY DEF Simulated, SameWants, SameTasks, Wanted, Stood, Held

LEMMA WantSet ==
  ASSUME NEW n \in Node, OtherWants(n), NEW w, WantOf(n)' = w
  PROVE  Wanted' = [Wanted EXCEPT ![n] = w]
BY DEF Wanted, OtherWants

LEMMA StateSet ==
  ASSUME NEW t \in OneRoot, OtherTasks(t), NEW st, StateOf(t)' = st
  PROVE  Stood' = [Stood EXCEPT ![t] = st]
BY DEF Stood, OtherTasks

LEMMA HolderSet ==
  ASSUME NEW t \in OneRoot, OtherTasks(t), NEW h, HolderOf(t)' = h
  PROVE  Held' = [Held EXCEPT ![t] = h]
BY DEF Held, OtherTasks

LEMMA TasksSame ==
  ASSUME SameTasks
  PROVE  Stood' = Stood /\ Held' = Held
BY DEF Stood, Held, SameTasks

LEMMA WantsSame ==
  ASSUME SameWants
  PROVE  Wanted' = Wanted
BY DEF Wanted, SameWants

LEMMA AskSeen ==
  ASSUME ~exited, exited' = exited, NEW n \in Node, OtherWants(n), SameTasks, WantOf(n) = -3, WantOf(n)' = -1
  PROVE  Simulated
<1>1. Wanted' = [Wanted EXCEPT ![n] = -1] /\ Stood' = Stood /\ Held' = Held
  BY WantSet, TasksSame
<1>2. Wanted[n] = -3
  BY DEF Wanted
<1>3. Sharing!Ask(n)
  BY <1>1, <1>2 DEF Sharing!Ask, Wanted, Stood, Held
<1> QED
  BY <1>3 DEF Simulated, Sharing!Next

LEMMA RefuseSeen ==
  ASSUME ~exited, exited' = exited, NEW n \in Node, OtherWants(n), SameTasks, WantOf(n) = -1, WantOf(n)' = -2
  PROVE  Simulated
<1>1. Wanted' = [Wanted EXCEPT ![n] = -2] /\ Stood' = Stood /\ Held' = Held
  BY WantSet, TasksSame
<1>2. Wanted[n] = -1
  BY DEF Wanted
<1>3. Sharing!Refuse(n)
  BY <1>1, <1>2 DEF Sharing!Refuse, Wanted, Stood, Held
<1> QED
  BY <1>3 DEF Simulated, Sharing!Next

LEMMA ResumeSeen ==
  ASSUME ~exited, exited' = exited, NEW n \in Node, OtherWants(n), SameTasks, WantOf(n) = -2, WantOf(n)' = -3
  PROVE  Simulated
<1>1. Wanted' = [Wanted EXCEPT ![n] = -3] /\ Stood' = Stood /\ Held' = Held
  BY WantSet, TasksSame
<1>2. Wanted[n] = -2
  BY DEF Wanted
<1>3. Sharing!Resume(n)
  BY <1>1, <1>2 DEF Sharing!Resume, Wanted, Stood, Held
<1> QED
  BY <1>3 DEF Simulated, Sharing!Next

LEMMA GiveSeen ==
  ASSUME ~exited, exited' = exited, NEW n \in Node, OtherWants(n), NEW t \in OneRoot, OtherTasks(t),
         WantOf(n) = -1, WantOf(n)' = t, StateOf(t) = "new", StateOf(t)' = "given",
         HolderOf(t)' = HolderOf(t)
  PROVE  Simulated
<1>1. Wanted' = [Wanted EXCEPT ![n] = t] /\ Stood' = [Stood EXCEPT ![t] = "given"]
  BY WantSet, StateSet
<1>2. Held' = Held
  BY DEF Held, OtherTasks
<1>3. Wanted[n] = -1 /\ Stood[t] = "new"
  BY DEF Wanted, Stood
<1>4. Sharing!Give(n, t)
  BY <1>1, <1>2, <1>3 DEF Sharing!Give, Wanted, Stood, Held
<1> QED
  BY <1>4 DEF Simulated, Sharing!Next

LEMMA StartSeen ==
  ASSUME ~exited, exited' = exited, NEW n \in Node, OtherWants(n), NEW t \in OneRoot, OtherTasks(t),
         WantOf(n) = t, WantOf(n)' = -3, StateOf(t)' = "running", HolderOf(t)' = {n}
  PROVE  Simulated
<1>1. /\ Wanted' = [Wanted EXCEPT ![n] = -3] /\ Stood' = [Stood EXCEPT ![t] = "running"]
      /\ Held' = [Held EXCEPT ![t] = {n}]
  BY WantSet, StateSet, HolderSet
<1>2. Wanted[n] = t
  BY DEF Wanted
<1>3. Sharing!Start(n, t)
  BY <1>1, <1>2 DEF Sharing!Start, Wanted, Stood, Held
<1> QED
  BY <1>3 DEF Simulated, Sharing!Next

LEMMA FinishSeen ==
  ASSUME ~exited, exited' = exited, NEW n \in Node, SameWants, NEW t \in OneRoot, OtherTasks(t),
         HolderOf(t) = {n}, StateOf(t)' = "done", HolderOf(t)' = {}
  PROVE  Simulated
<1>1. /\ Wanted' = Wanted /\ Stood' = [Stood EXCEPT ![t] = "done"]
      /\ Held' = [Held EXCEPT ![t] = {}]
  BY WantsSame, StateSet, HolderSet
<1>2. Held[t] = {n}
  BY DEF Held
<1>3. Sharing!Finish(n, t)
  BY <1>1, <1>2 DEF Sharing!Finish, Wanted, Stood, Held
<1> QED
  BY <1>3 DEF Simulated, Sharing!Next

LEMMA ReturnSeen ==
  ASSUME ~exited, exited' = exited, SameWants, NEW t \in OneRoot, OtherTasks(t),
         StateOf(t) = "done", StateOf(t)' = "back", HolderOf(t)' = HolderOf(t)
  PROVE  Simulated
<1>1. Wanted' = Wanted /\ Stood' = [Stood EXCEPT ![t] = "back"]
  BY WantsSame, StateSet
<1>2. Held' = Held
  BY DEF Held, OtherTasks
<1>3. Stood[t] = "done"
  BY DEF Stood
<1>4. Sharing!Return(t)
  BY <1>1, <1>2, <1>3 DEF Sharing!Return, Wanted, Stood, Held
<1> QED
  BY <1>4 DEF Simulated, Sharing!Next

LEMMA EndSeen ==
  ASSUME ~exited, exited' = TRUE, NEW n \in Node, OtherWants(n), SameTasks, WantOf(n)' = -3
  PROVE  Simulated
<1>1. Wanted' = [Wanted EXCEPT ![n] = -3] /\ Stood' = Stood /\ Held' = Held
  BY WantSet, TasksSame
<1>2. Sharing!End
  BY <1>1 DEF Sharing!End, Wanted, Stood, Held
<1> QED
  BY <1>2 DEF Simulated, Sharing!Next

(* where every node stays, whatever is sent arrives *)
LEMMA ServerSends ==
  ASSUME Nodes, AllUp, NEW c, Family(Edge, Msg, c), NEW s \in Server, NEW h \in Links(s), h # Term,
         NEW m \in Msg, chan' = Send(c, s, h, m)
  PROVE  Gave(TRUE, c, <<s, h>>, m)
<1>1. Gave(~Invalid(h) /\ h # Term, c, <<s, h>>, m)
  BY SendIs
<1>2. ~Invalid(h)
  BY DEF Invalid, Nodes, AllUp
<1> QED
  BY <1>1, <1>2 DEF Gave

LEMMA HandlesFlow ==
  ASSUME IInv, NEW s \in Server, NEW h \in Links(s), NEW kind, Handles(s, h, kind)
  PROVE  \E m \in Msg : \E c :
           /\ m = Received(h, s) /\ c = Taken(h, s) /\ m.kind = kind /\ Family(Edge, Msg, c)
           /\ Goes(h, s, m) /\ m \in Flying
           /\ \A put, f, g : Gave(put, c, f, g) => Flows(TRUE, m, put, g)
<1>1. TypeOK /\ Routes /\ Family(Edge, Msg, chan)
  BY TypeParts DEF IInv
<1>2. PICK m \in Msg : \E c :
        /\ m = Received(h, s) /\ m = Head(chan[<<h, s>>]) /\ c = Taken(h, s) /\ m.kind = kind
        /\ Took(TRUE, <<h, s>>, c) /\ Family(Edge, Msg, c) /\ Goes(h, s, m)
        /\ <<h, s>> \in Edge /\ phase[s] = "wait" /\ phase' = [phase EXCEPT ![s] = "retry"]
  BY <1>1, HandlesMsg
<1>3. PICK c :
        /\ m = Received(h, s) /\ m = Head(chan[<<h, s>>]) /\ c = Taken(h, s) /\ m.kind = kind
        /\ Took(TRUE, <<h, s>>, c) /\ Family(Edge, Msg, c) /\ Goes(h, s, m) /\ <<h, s>> \in Edge
  BY <1>2
<1>4. PICK e \in Edge : e = <<h, s>>
  BY <1>3
<1>5. ASSUME NEW put, NEW f, NEW g, Gave(put, c, f, g)
      PROVE  Flows(TRUE, m, put, g)
  <2>1. Flows(TRUE, Head(chan[e]), put, g)
    BY <1>1, <1>3, <1>4, <1>5, FlowIs
  <2> QED
    BY <1>3, <1>4, <2>1
<1>6. m \in Flying
  <2>1. Takes(chan, c, e)
    BY <1>3, <1>4 DEF Took
  <2>2. Head(chan[e]) = chan[e][1] /\ 1 \in DOMAIN chan[e]
    BY <2>1, TakesElements
  <2>3. m \in Range(chan[e])
    BY <1>3, <1>4, <2>2 DEF Range
  <2> QED
    BY <2>3, FlyingIs
<1> QED
  BY <1>3, <1>5, <1>6

LEMMA NodeHearsFlow ==
  ASSUME IInv, NEW n \in Node, NEW kind, NodeReceives(n, kind)
  PROVE  \E m \in Msg : \E c :
           /\ m = Received(ServerOf(n), n) /\ c = NodeTaken(n) /\ m.kind = kind /\ Family(Edge, Msg, c)
           /\ Goes(ServerOf(n), n, m) /\ m \in Flying
           /\ \A put, f, g : Gave(put, c, f, g) => Flows(TRUE, m, put, g)
<1>1. TypeOK /\ Routes /\ Family(Edge, Msg, chan)
  BY TypeParts DEF IInv
<1>2. PICK m \in Msg : \E c :
           /\ m = Received(ServerOf(n), n) /\ m = Head(chan[<<ServerOf(n), n>>]) /\ c = NodeTaken(n)
           /\ Took(TRUE, <<ServerOf(n), n>>, c) /\ Family(Edge, Msg, c) /\ Goes(ServerOf(n), n, m)
           /\ m.kind = kind /\ up[n]
  BY <1>1, NodeHears
<1>3. PICK c :
           /\ m = Received(ServerOf(n), n) /\ m = Head(chan[<<ServerOf(n), n>>]) /\ c = NodeTaken(n)
           /\ Took(TRUE, <<ServerOf(n), n>>, c) /\ Family(Edge, Msg, c) /\ Goes(ServerOf(n), n, m)
           /\ m.kind = kind
  BY <1>2
<1>4. PICK e \in Edge : e = <<ServerOf(n), n>>
  BY Edges
<1>5. ASSUME NEW put, NEW f, NEW g, Gave(put, c, f, g)
      PROVE  Flows(TRUE, m, put, g)
  <2>1. Flows(TRUE, Head(chan[e]), put, g)
    BY <1>1, <1>3, <1>4, <1>5, FlowIs
  <2> QED
    BY <1>3, <1>4, <2>1
<1>6. m \in Flying
  <2>1. Takes(chan, c, e)
    BY <1>3, <1>4 DEF Took
  <2>2. Head(chan[e]) = chan[e][1] /\ 1 \in DOMAIN chan[e]
    BY <2>1, TakesElements
  <2>3. m \in Range(chan[e])
    BY <1>3, <1>4, <2>2 DEF Range
  <2> QED
    BY <2>3, FlyingIs
<1> QED
  BY <1>3, <1>5, <1>6

SameLists == \A n : HasKept(n)' <=> HasKept(n)
SameHolders == \A id \in OneRoot : HolderOf(id)' = HolderOf(id)
SameNew == \A id \in OneRoot : IsNew(id)' <=> IsNew(id)

LEMMA KeptSame ==
  ASSUME UNCHANGED <<talist, failed>>
  PROVE  SameLists
BY DEF SameLists, HasKept, Listed

LEMMA HoldersSame ==
  ASSUME UNCHANGED stack
  PROVE  SameHolders
BY DEF SameHolders, HolderOf

LEMMA NewSame ==
  ASSUME respond' = "initial" <=> respond = "initial", UNCHANGED used
  PROVE  SameNew
BY DEF SameNew, IsNew

LEMMA TasksStay ==
  ASSUME Found, Found', SameHolders, SameNew,
         NEW take, NEW old, NEW put, NEW new, Flows(take, old, put, new),
         \A id \in OneRoot : SameTask(take, old, put, new, id)
  PROVE  SameTasks
<1>1. ASSUME NEW id \in OneRoot
      PROVE  StateOf(id)' = StateOf(id) /\ HolderOf(id)' = HolderOf(id)
  BY StateStays DEF SameHolders, SameNew
<1> QED
  BY <1>1 DEF SameTasks

LEMMA WantsStay ==
  ASSUME Found, Found', SameLists,
         NEW take, NEW old, NEW put, NEW new, Flows(take, old, put, new),
         \A n \in Node : SameRequest(take, old, put, new, n)
  PROVE  SameWants
<1>1. ASSUME NEW n \in Node
      PROVE  WantOf(n)' = WantOf(n)
  BY WantStays DEF SameLists
<1> QED
  BY <1>1 DEF SameWants

(* a server passes on what it has received *)
LEMMA PassedOn ==
  ASSUME Found, Found', UNCHANGED nodeVars, UNCHANGED <<talist, failed>>, UNCHANGED <<respond, exited>>,
         NEW take, NEW old, NEW put, NEW new, Flows(take, old, put, new),
         \A n \in Node : SameRequest(take, old, put, new, n),
         \A id \in OneRoot : SameTask(take, old, put, new, id)
  PROVE  Simulated
<1>1. UNCHANGED stack /\ UNCHANGED used /\ UNCHANGED exited /\ UNCHANGED respond
  BY DEF nodeVars
<1>2. SameLists /\ SameHolders /\ SameNew
  BY <1>1, KeptSame, HoldersSame, NewSame
<1>3. SameWants /\ SameTasks
  BY <1>2, WantsStay, TasksStay
<1> QED
  BY <1>1, <1>3, NothingSeen

LEMMA ProcNoneSeen ==
  ASSUME IInv, AllUp, Found, Found', NEW s \in Server, NEW h \in Links(s), ProcNone(s, h)
  PROVE  Simulated
<1>1. /\ Handles(s, h, "none") /\ Nodes
      /\ UNCHANGED <<talist, failed>> /\ UNCHANGED <<respond, exited>> /\ UNCHANGED nodeVars
  BY DEF ProcNone, IInv, termVars
<1>2. PICK m \in Msg : \E c :
           /\ m = Received(h, s) /\ c = Taken(h, s) /\ m.kind = "none" /\ Family(Edge, Msg, c)
           /\ Goes(h, s, m) /\ m \in Flying
           /\ \A put, f, g : Gave(put, c, f, g) => Flows(TRUE, m, put, g)
  BY <1>1, HandlesFlow
<1>3. PICK c :
           /\ m = Received(h, s) /\ c = Taken(h, s) /\ m.kind = "none" /\ Family(Edge, Msg, c)
           /\ Goes(h, s, m) /\ \A put, f, g : Gave(put, c, f, g) => Flows(TRUE, m, put, g)
  BY <1>2
<1>4. m.to \in Path /\ m.by \in Node /\ Way(s, m.to, m.by)
  BY <1>3, MsgParts DEF Goes
<1>5. PICK to, p : to = Head(m.to) /\ p = Tail(m.to)
  OBVIOUS
<1>6. to \in Links(s) /\ to # Term /\ p \in Path
  BY <1>1, <1>4, <1>5, Forward
<1>7. PICK g \in Msg : g = none(p, m.by) /\ g.kind = "none" /\ g.by = m.by
  BY <1>4, <1>6, MsgMade
<1>8. chan' = Send(c, s, to, g)
  BY <1>3, <1>5, <1>7 DEF ProcNone
<1>9. Gave(TRUE, c, <<s, to>>, g)
  BY <1>1, <1>3, <1>6, <1>8, ServerSends
<1>10. Flows(TRUE, m, TRUE, g)
  BY <1>3, <1>9
<1>11. ASSUME NEW n \in Node
       PROVE  SameRequest(TRUE, m, TRUE, g, n)
  BY <1>3, <1>7 DEF SameRequest, RequestsBy, Value
<1>12. ASSUME NEW id \in OneRoot
       PROVE  SameTask(TRUE, m, TRUE, g, id)
  BY <1>3, <1>7 DEF SameTask, Carrying
<1> QED
  BY <1>1, <1>10, <1>11, <1>12, PassedOn

LEMMA ProcRackSeen ==
  ASSUME IInv, AllUp, Found, Found', NEW s \in Server, NEW h \in Links(s), ProcRack(s, h)
  PROVE  Simulated
<1>1. /\ Handles(s, h, "rack") /\ Nodes
      /\ UNCHANGED <<talist, failed>> /\ UNCHANGED <<respond, exited>> /\ UNCHANGED nodeVars
  BY DEF ProcRack, IInv, termVars
<1>2. PICK m \in Msg : \E c :
           /\ m = Received(h, s) /\ c = Taken(h, s) /\ m.kind = "rack" /\ Family(Edge, Msg, c)
           /\ Goes(h, s, m) /\ m \in Flying
           /\ \A put, f, g : Gave(put, c, f, g) => Flows(TRUE, m, put, g)
  BY <1>1, HandlesFlow
<1>3. PICK c :
           /\ m = Received(h, s) /\ c = Taken(h, s) /\ m.kind = "rack" /\ Family(Edge, Msg, c)
           /\ Goes(h, s, m) /\ \A put, f, g : Gave(put, c, f, g) => Flows(TRUE, m, put, g)
  BY <1>2
<1>4. m.to \in Path /\ m.id \in Task /\ \E x \in Node : Way(s, m.to, x)
  BY <1>3, MsgParts DEF Goes, WayToNode
<1>5. PICK to, p : to = Head(m.to) /\ p = Tail(m.to)
  OBVIOUS
<1>6. to \in Links(s) /\ to # Term /\ p \in Path
  BY <1>1, <1>4, <1>5, Forward
<1>7. PICK g \in Msg : g = rack(p, m.id) /\ g.kind = "rack"
  BY <1>4, <1>6, MsgMade
<1>8. chan' = Send(c, s, to, g)
  BY <1>3, <1>5, <1>7 DEF ProcRack
<1>9. Gave(TRUE, c, <<s, to>>, g)
  BY <1>1, <1>3, <1>6, <1>8, ServerSends
<1>10. Flows(TRUE, m, TRUE, g)
  BY <1>3, <1>9
<1>11. ASSUME NEW n \in Node
       PROVE  SameRequest(TRUE, m, TRUE, g, n)
  BY <1>3, <1>7 DEF SameRequest, RequestsBy
<1>12. ASSUME NEW id \in OneRoot
       PROVE  SameTask(TRUE, m, TRUE, g, id)
  BY <1>3, <1>7 DEF SameTask, Carrying
<1> QED
  BY <1>1, <1>10, <1>11, <1>12, PassedOn

LEMMA ProcTaskSeen ==
  ASSUME IInv, AllUp, Found, Found', NEW s \in Server, NEW h \in Links(s), ProcTask(s, h)
  PROVE  Simulated
<1>1. /\ Handles(s, h, "task") /\ Nodes
      /\ UNCHANGED <<talist, failed>> /\ UNCHANGED <<respond, exited>> /\ UNCHANGED nodeVars
  BY DEF ProcTask, IInv
<1>2. PICK m \in Msg : \E c :
           /\ m = Received(h, s) /\ c = Taken(h, s) /\ m.kind = "task" /\ Family(Edge, Msg, c)
           /\ Goes(h, s, m) /\ m \in Flying
           /\ \A put, f, g : Gave(put, c, f, g) => Flows(TRUE, m, put, g)
  BY <1>1, HandlesFlow
<1>3. PICK c :
           /\ m = Received(h, s) /\ c = Taken(h, s) /\ m.kind = "task" /\ Family(Edge, Msg, c)
           /\ Goes(h, s, m) /\ \A put, f, g : Gave(put, c, f, g) => Flows(TRUE, m, put, g)
  BY <1>2
<1>4. /\ m.to \in Path /\ m.from \in Path /\ m.by \in Node /\ m.id \in Task /\ Way(s, m.to, m.by)
      /\ WayHome(h, m.from, m.id)
  BY <1>3, MsgParts DEF Goes
<1>5. PICK to, p, q : to = Head(m.to) /\ p = Tail(m.to) /\ q = HeadPush(h, m.from)
  OBVIOUS
<1>6. to \in Links(s) /\ to # Term /\ p \in Path /\ q \in Path
  <2>1. to \in Links(s) /\ to # Term /\ p \in Path
    BY <1>1, <1>4, <1>5, Forward
  <2>2. PICK x : Way(h, m.from, x)
    BY <1>4 DEF WayHome
  <2> QED
    BY <1>4, <1>5, <2>1, <2>2, WayBack
<1>7. PICK g \in Msg : g = task(p, q, m.by, m.id) /\ g.kind = "task" /\ g.by = m.by /\ g.id = m.id
  BY <1>4, <1>6, MsgMade
<1>8. chan' = Send(c, s, to, g)
  BY <1>3, <1>5, <1>7 DEF ProcTask
<1>9. Gave(TRUE, c, <<s, to>>, g)
  BY <1>1, <1>3, <1>6, <1>8, ServerSends
<1>10. Flows(TRUE, m, TRUE, g)
  BY <1>3, <1>9
<1>11. ASSUME NEW n \in Node
       PROVE  SameRequest(TRUE, m, TRUE, g, n)
  BY <1>3, <1>7 DEF SameRequest, RequestsBy, Value
<1>12. ASSUME NEW id \in OneRoot
       PROVE  SameTask(TRUE, m, TRUE, g, id)
  BY <1>3, <1>7 DEF SameTask, Carrying, Stage
<1> QED
  BY <1>1, <1>10, <1>11, <1>12, PassedOn

LEMMA ProcRsltSeen ==
  ASSUME AutoResend = 0, IInv, IInv', ~exited, AllUp, Found, Found',
         NEW s \in Server, NEW h \in Links(s), ProcRslt(s, h)
  PROVE  Simulated
<1>1. /\ Handles(s, h, "rslt") /\ Nodes /\ TypeOK /\ Routes /\ FirstTask
      /\ UNCHANGED <<talist, failed>> /\ UNCHANGED nodeVars
  BY DEF ProcRslt, IInv
<1>2. PICK m \in Msg : \E c :
           /\ m = Received(h, s) /\ c = Taken(h, s) /\ m.kind = "rslt" /\ Family(Edge, Msg, c)
           /\ Goes(h, s, m) /\ m \in Flying
           /\ \A put, f, g : Gave(put, c, f, g) => Flows(TRUE, m, put, g)
  BY <1>1, HandlesFlow
<1>3. PICK c :
           /\ m = Received(h, s) /\ c = Taken(h, s) /\ m.kind = "rslt" /\ Family(Edge, Msg, c)
           /\ Goes(h, s, m) /\ m \in Flying
           /\ \A put, f, g : Gave(put, c, f, g) => Flows(TRUE, m, put, g)
  BY <1>2
<1>4. h # Term /\ m.to \in Path /\ m.id \in Task /\ WayHome(s, m.to, m.id)
  BY <1>3, MsgParts DEF Goes
<1>5. PICK to, p : to = Head(m.to) /\ p = Tail(m.to)
  OBVIOUS
<1>6. to \in Links(s) /\ p \in Path /\ (to = Term => m.id = 0)
  <2>1. CASE m.id = 0
    <3>1. Way(s, m.to, Term)
      BY <1>4, <2>1 DEF WayHome
    <3> QED
      BY <1>4, <1>5, <2>1, <3>1, WayForward
  <2>2. CASE m.id # 0
    <3>1. PICK x \in Node : Way(s, m.to, x)
      BY <1>4, <2>2 DEF WayHome
    <3> QED
      BY <1>1, <1>4, <1>5, <3>1, Forward
  <2> QED
    BY <2>1, <2>2
<1>7. CASE to # Term
  <2>1. PICK g \in Msg : g = rslt(p, m.id) /\ g.kind = "rslt" /\ g.id = m.id
    BY <1>4, <1>6, MsgMade
  <2>2. chan' = Send(c, s, to, g) /\ UNCHANGED <<respond, exited>>
    BY <1>3, <1>5, <1>7, <2>1 DEF ProcRslt, termVars
  <2>3. Gave(TRUE, c, <<s, to>>, g)
    BY <1>1, <1>3, <1>6, <1>7, <2>2, ServerSends
  <2>4. Flows(TRUE, m, TRUE, g)
    BY <1>3, <2>3
  <2>5. ASSUME NEW n \in Node
        PROVE  SameRequest(TRUE, m, TRUE, g, n)
    BY <1>3, <2>1 DEF SameRequest, RequestsBy
  <2>6. ASSUME NEW id \in OneRoot
        PROVE  SameTask(TRUE, m, TRUE, g, id)
    BY <1>3, <2>1 DEF SameTask, Carrying, Stage
  <2> QED
    BY <1>1, <2>2, <2>4, <2>5, <2>6, PassedOn
<1>8. CASE to = Term
  <2>1. m.id = 0 /\ m \in Carrying(0) /\ s = Top
    <3>1. Term = Parent[s]
      BY <1>6, <1>8, Tree DEF Links
    <3> QED
      BY <1>3, <1>6, <1>8, <3>1, TopIs DEF Carrying
  <2>2. PICK home \in taskHome : taskHome = {home} /\ TermHome(home) /\ respond = "nil"
    <3>1. PICK e \in Edge : m \in Range(chan[e])
      BY <1>3, FlyingIs
    <3>2. Num(Edge, chan, Carrying(0)) # 0 /\ Num(Edge, chan, Carrying(0)) \in Nat
      BY <1>1, <1>3, <2>1, Counted
    <3>3. Where(0) # 0
      BY <1>1, <3>2, Counts DEF Where
    <3>4. respond = "nil"
      BY <1>1, <3>3 DEF FirstTask
    <3>5. Handles(s, h, "rslt") /\ <<h, s>> \in Edge /\ Receives(h, s) /\ m = Head(chan[<<h, s>>])
      BY <1>1, <1>3, Edges DEF Handles, Received
    <3>6. PICK d : Took(TRUE, <<h, s>>, d)
      BY <1>1, <3>5, ReceivedMsg
    <3>7. PICK g \in Edge : g = <<h, s>> /\ g # <<Term, Top>>
      BY <1>4, <3>5
    <3>8. \E t \in taskHome : taskHome = {t} /\ TermHome(t)
      BY <1>1, <1>3, <2>1, <3>5, <3>6, <3>7, FirstDone
    <3> QED
      BY <3>4, <3>8
  <2>3. /\ chan' = Send(c, s, home.to, rack(home.head, m.id))
        /\ respond' = (IF home.no < AutoResend THEN "resend" ELSE "exit") /\ exited' = exited
    BY <1>3, <1>5, <1>8, <2>2 DEF ProcRslt, SendAgain
  <2>4. respond' = "exit" /\ home.to \in Links(s) /\ home.to # Term /\ home.head \in Path
    BY <1>1, <2>1, <2>2, <2>3 DEF TermHome, TypeOK
  <2>5. PICK g \in Msg : g = rack(home.head, m.id) /\ g.kind = "rack"
    BY <1>4, <2>4, MsgMade
  <2>6. Gave(TRUE, c, <<s, home.to>>, g)
    BY <1>1, <1>3, <2>3, <2>4, <2>5, ServerSends
  <2>7. Flows(TRUE, m, TRUE, g)
    BY <1>3, <2>6
  <2>8. ASSUME NEW n \in Node
        PROVE  SameRequest(TRUE, m, TRUE, g, n)
    BY <1>3, <2>5 DEF SameRequest, RequestsBy
  <2>9. SameLists /\ SameHolders /\ SameNew
    <3>1. UNCHANGED stack /\ UNCHANGED used /\ (respond' = "initial" <=> respond = "initial")
      BY <1>1, <2>2, <2>4 DEF nodeVars
    <3> QED
      BY <1>1, <3>1, KeptSame, HoldersSame, NewSame
  <2>10. SameWants
    BY <2>7, <2>8, <2>9, WantsStay
  <2>11. OtherTasks(0)
    <3>1. ASSUME NEW id \in OneRoot \ {0}
          PROVE  StateOf(id)' = StateOf(id)
      <4>1. SameTask(TRUE, m, TRUE, g, id)
        BY <2>1, <2>5 DEF SameTask, Carrying
      <4> QED
        BY <2>7, <2>9, <4>1, StateStays DEF SameHolders, SameNew
    <3> QED
      BY <2>9, <3>1 DEF OtherTasks, SameHolders
  <2>12. 0 \in OneRoot /\ HolderOf(0)' = HolderOf(0) /\ StateFound(0) /\ StateFound(0)'
    BY <2>9 DEF OneRoot, SameHolders, Found
  <2>13. StateOf(0) = "done"
    <3>1. Stands(0, "done")
      BY <1>3, <2>1 DEF Stands, Stage
    <3>2. ~IsNew(0)
      BY <2>2 DEF IsNew
    <3> QED
      BY <2>12, <3>1, <3>2 DEF StateFound
  <2>14. StateOf(0)' = "back"
    <3>1. ~IsNew(0)'
      BY <2>4 DEF IsNew
    <3>2. Where(0)' = 0
      BY <2>3, <2>4 DEF IInv, FirstTask
    <3> QED
      BY <2>12, <3>1, <3>2 DEF StateFound
  <2> QED
    BY <2>3, <2>10, <2>11, <2>12, <2>13, <2>14, ReturnSeen
<1> QED
  BY <1>7, <1>8

LEMMA ProcLeavSeen ==
  ASSUME IInv, AllUp, NEW s \in Server, NEW h \in Links(s), ProcLeav(s, h)
  PROVE  FALSE
<1>1. Handles(s, h, "leav")
  BY DEF ProcLeav
<1>2. PICK m \in Msg : m.kind = "leav" /\ Goes(h, s, m)
  BY <1>1, HandlesFlow
<1> QED
  BY <1>2 DEF Goes, AllUp

(* requests that only change places *)
LEMMA ListsMove ==
  ASSUME Found, Found', UNCHANGED chan, UNCHANGED nodeVars, UNCHANGED <<respond, exited>>, SameLists
  PROVE  Simulated
<1>1. UNCHANGED stack /\ UNCHANGED used /\ UNCHANGED exited /\ UNCHANGED respond
  BY DEF nodeVars
<1>2. SameHolders /\ SameNew
  BY <1>1, HoldersSame, NewSame
<1>3. Flying' = Flying
  BY DEF Flying
<1>4. PICK take, put : take = FALSE /\ put = FALSE
  OBVIOUS
<1>5. Flows(take, leav, put, leav)
  BY <1>3, <1>4 DEF Flows
<1>6. /\ \A n \in Node : SameRequest(take, leav, put, leav, n)
      /\ \A id \in OneRoot : SameTask(take, leav, put, leav, id)
  BY <1>4 DEF SameRequest, SameTask
<1>7. SameWants /\ SameTasks
  BY <1>2, <1>5, <1>6, WantsStay, TasksStay
<1> QED
  BY <1>1, <1>7, NothingSeen

(* as many requests kept as before *)
LEMMA KeptPrime == TypeOK' => \A n : /\ HasKept(n)' <=> Num(Server, talist', KeptBy(n)) + Num(Server, failed', KeptBy(n)) # 0
                                     /\ Num(Server, talist', KeptBy(n)) \in Nat
                                     /\ Num(Server, failed', KeptBy(n)) \in Nat
<1>1. TypeOK => \A n : /\ HasKept(n) <=> Num(Server, talist, KeptBy(n)) + Num(Server, failed, KeptBy(n)) # 0
                       /\ Num(Server, talist, KeptBy(n)) \in Nat
                       /\ Num(Server, failed, KeptBy(n)) \in Nat
  BY KeptCounted
<1>2. TypeOK' => (\A n : /\ HasKept(n) <=> Num(Server, talist, KeptBy(n)) + Num(Server, failed, KeptBy(n)) # 0
                         /\ Num(Server, talist, KeptBy(n)) \in Nat
                         /\ Num(Server, failed, KeptBy(n)) \in Nat)'
  BY <1>1, PTL
<1> QED
  BY <1>2 DEF Num, Positions, KeptBy

LEMMA ListsSwap ==
  ASSUME TypeOK, TypeOK', NEW s, NEW r,
         \/ /\ \A M : Num(Server, talist, M) = Num(Server, talist', M) + At(Server, M, s, r)
            /\ \A M : Num(Server, failed', M) = Num(Server, failed, M) + At(Server, M, s, r)
         \/ /\ \A M : Num(Server, failed, M) = Num(Server, failed', M) + At(Server, M, s, r)
            /\ \A M : Num(Server, talist', M) = Num(Server, talist, M) + At(Server, M, s, r)
  PROVE  SameLists
<1>1. ASSUME NEW n
      PROVE  HasKept(n)' <=> HasKept(n)
  <2>1. PICK T, F, U, G, K : /\ T = Num(Server, talist, KeptBy(n)) /\ F = Num(Server, failed, KeptBy(n))
                             /\ U = Num(Server, talist', KeptBy(n)) /\ G = Num(Server, failed', KeptBy(n))
                             /\ K = At(Server, KeptBy(n), s, r)
    OBVIOUS
  <2>2. /\ T \in Nat /\ F \in Nat /\ U \in Nat /\ G \in Nat
        /\ HasKept(n) <=> T + F # 0
        /\ HasKept(n)' <=> U + G # 0
    BY <2>1, KeptCounted, KeptPrime
  <2>3. K \in 0..1
    BY <2>1 DEF At
  <2>4. (T = U + K /\ G = F + K) \/ (F = G + K /\ U = T + K)
    BY <2>1
  <2> QED
    BY <2>2, <2>3, <2>4
<1> QED
  BY <1>1 DEF SameLists

LEMMA RetryEndSeen ==
  ASSUME IInv, IInv', Found, Found', NEW s \in Server, RetryEnd(s)
  PROVE  Simulated
<1>1. /\ TypeOK /\ TypeOK' /\ Family(Server, Request, talist) /\ Family(Server, Request, failed)
  BY TypeParts DEF IInv
<1>2. UNCHANGED chan /\ UNCHANGED <<respond, exited>> /\ UNCHANGED nodeVars
  BY DEF RetryEnd, termVars
<1>3. CASE failed[s] = <<>>
  <2>1. UNCHANGED <<talist, failed>>
    BY <1>3 DEF RetryEnd
  <2> QED
    BY <1>2, <2>1, KeptSame, ListsMove
<1>4. CASE failed[s] # <<>>
  <2>1. PICK d, g, r : d = talist' /\ g = failed' /\ r = Head(failed[s])
    OBVIOUS
  <2>2. d = [talist EXCEPT ![s] = Push(s, @, r)] /\ g = [failed EXCEPT ![s] = Tail(@)]
    BY <1>4, <2>1 DEF RetryEnd
  <2>3. Dropped(failed, g, s)
    BY <1>1, <1>4, <2>2, PopDrops
  <2>4. r \in Request
    BY <2>1, <2>3 DEF Dropped
  <2>5. Inserted(talist, d, s, r)
    BY <1>1, <2>2, <2>4, PushInserts
  <2>6. /\ \A M : Num(Server, failed, M) = Num(Server, failed', M) + At(Server, M, s, r)
        /\ \A M : Num(Server, talist', M) = Num(Server, talist, M) + At(Server, M, s, r)
    BY <2>1, <2>3, <2>5 DEF Dropped, Inserted
  <2>7. SameLists
    BY <1>1, <2>6, ListsSwap
  <2> QED
    BY <1>2, <2>7, ListsMove
<1> QED
  BY <1>3, <1>4

(* a request is passed on, answered by the terminal, or ends the run *)
Fewer(n) ==
  /\ \A x \in Node : Asked(x)' = Asked(x) - IF x = n THEN 1 ELSE 0
  /\ \A id \in OneRoot : Where(id)' = Where(id)

LEMMA FewerOnce ==
  ASSUME TypeOK, Once, NEW n \in Node, Fewer(n), UNCHANGED ask
  PROVE  Once'
<1>1. ASSUME NEW x \in Node
      PROVE  Asked(x)' <= IF ask'[x] = NoTask THEN 0 ELSE 1
  <2>1. PICK A, B, C, K : /\ A = Asked(x) /\ B = Asked(x)' /\ K = (IF x = n THEN 1 ELSE 0)
                          /\ C = IF ask[x] = NoTask THEN 0 ELSE 1
    OBVIOUS
  <2>2. A \in Nat /\ A <= C /\ B = A - K /\ C \in Nat /\ K \in Nat
    BY <2>1, Counts DEF Once, Fewer
  <2>3. B <= C
    BY <2>2
  <2> QED
    BY <2>1, <2>3
<1>2. ASSUME NEW id \in OneRoot
      PROVE  Where(id)' <= 1
  BY DEF Once, Fewer
<1> QED
  BY <1>1, <1>2 DEF Once

LEMMA Passing ==
  ASSUME AutoResend = 0, TypeOK, TypeOK', Once, ~exited, Found, ~exited' => Found', AllUp, Nodes,
         NEW s \in Server, NEW h \in Links(s), NEW to \in Path, NEW r \in Request,
         NEW for \in {AnyTask} \cup SubTask,
         NEW put \in BOOLEAN, NEW f \in Edge, NEW m \in Msg, Asks(put, f, m, s, h, to, r, for),
         r.head \in Path, r.by \in Node,
         NEW take, NEW old, Flows(take, old, put, m),
         take => old \in Msg /\ old.kind = "treq" /\ old.by = r.by,
         \A n \in Node \ {r.by} : HasKept(n)' <=> HasKept(n),
         Shows(r.by, -1), UNCHANGED nodeVars, exited' => Fewer(r.by)
  PROVE  Simulated
<1>1. UNCHANGED <<ask, stack, used>> /\ UNCHANGED ask /\ UNCHANGED stack /\ UNCHANGED used
  BY DEF nodeVars
<1>2. SameHolders
  BY <1>1, HoldersSame
<1>3. /\ \A n : take => (old \in RequestsBy(n) <=> n = r.by)
      /\ \A id : take => old \notin Carrying(id)
  BY DEF RequestsBy, Carrying
<1>4. <<>> \in Path
  BY WayHere
<1>5. CASE AnswersFor(put, f, m, s, h, r)
  BY <1>5 DEF AnswersFor, Invalid, Nodes, AllUp
<1>6. WantOf(r.by) = -1
  BY DEF Found, WantFound
<1>7. ASSUME Found', put => m.by = r.by /\ m.kind \in {"treq", "none", "task"}
      PROVE  OtherWants(r.by)
  <2>1. ASSUME NEW n \in Node \ {r.by}
        PROVE  WantOf(n)' = WantOf(n)
    <3>1. SameRequest(take, old, put, m, n)
      BY <1>3, <1>7 DEF SameRequest, RequestsBy
    <3> QED
      BY <1>7, <3>1, WantStays
  <2> QED
    BY <2>1 DEF OtherWants
<1>8. CASE AsksHost(put, f, m, s, h, to, r, for)
  <2>1. /\ put /\ m = treq(to, r.head, r.by, for) /\ UNCHANGED <<respond, exited>>
        /\ UNCHANGED respond /\ exited' = exited
    BY <1>8 DEF AsksHost
  <2>2. m.kind = "treq" /\ m.by = r.by
    BY <2>1, MsgMade
  <2>3. Found' /\ SameNew
    BY <1>1, <2>1, NewSame
  <2>4. WantOf(r.by)' = -1
    <3>1. Shows(r.by, -1)'
      BY <2>1, <2>2 DEF Flows, Shows, Value, RequestsBy
    <3> QED
      BY <2>3, <3>1 DEF Found, WantFound
  <2>5. SameWants
    BY <1>6, <1>7, <2>2, <2>3, <2>4 DEF SameWants, OtherWants
  <2>6. \A id \in OneRoot : SameTask(take, old, put, m, id)
    BY <1>3, <2>2 DEF SameTask, Carrying
  <2>7. SameTasks
    BY <1>2, <2>3, <2>6, TasksStay
  <2> QED
    BY <2>1, <2>5, <2>7, NothingSeen
<1>9. CASE FirstIsGiven(put, f, m, s, h, r)
  <2>1. put /\ m = task(r.head, <<>>, r.by, 0) /\ respond = "initial" /\ respond' = "nil" /\ exited' = exited
    <3>1. exited = FALSE
      BY DEF TypeOK
    <3> QED
      BY <1>9, <3>1 DEF FirstIsGiven
  <2>2. m.kind = "task" /\ m.by = r.by /\ m.id = 0
    BY <1>4, <2>1, Zero, MsgMade
  <2>3. Found' /\ 0 \in OneRoot /\ StateFound(0) /\ StateFound(0)' /\ m \in Flying'
    BY <2>1 DEF OneRoot, Found, Flows
  <2>4. OtherWants(r.by)
    BY <1>7, <2>2, <2>3
  <2>5. WantOf(r.by)' = 0
    <3>1. Shows(r.by, 0)'
      BY <2>2, <2>3 DEF Shows, Value, RequestsBy
    <3> QED
      BY <2>3, <3>1 DEF Found, WantFound
  <2>6. StateOf(0) = "new"
    BY <2>1, <2>3 DEF StateFound, IsNew
  <2>7. StateOf(0)' = "given"
    <3>1. ~IsNew(0)'
      BY <2>1 DEF IsNew
    <3>2. Stands(0, "given")'
      BY <2>2, <2>3 DEF Stands, Stage, Carrying
    <3> QED
      BY <2>3, <3>1, <3>2 DEF StateFound
  <2>8. OtherTasks(0)
    <3>1. ASSUME NEW id \in OneRoot \ {0}
          PROVE  StateOf(id)' = StateOf(id) /\ HolderOf(id)' = HolderOf(id)
      <4>1. SameTask(take, old, put, m, id)
        BY <1>3, <2>2 DEF SameTask, Carrying
      <4>2. IsNew(id)' <=> IsNew(id)
        BY <1>1 DEF IsNew
      <4> QED
        BY <1>2, <2>3, <4>1, <4>2, StateStays DEF SameHolders
    <3> QED
      BY <3>1 DEF OtherTasks
  <2> QED
    BY <1>2, <1>6, <2>1, <2>3, <2>4, <2>5, <2>6, <2>7, <2>8, GiveSeen DEF SameHolders
<1>10. CASE Exits(put, s, h)
  <2>1. ~put /\ exited' = TRUE /\ respond = "exit" /\ respond' = "nil"
    BY <1>10 DEF Exits
  <2>2. Once'
    BY <1>1, <2>1, FewerOnce
  <2>3. Found' /\ SameNew
    BY <1>1, <2>1, <2>2, FoundNext, NewSame
  <2>4. OtherWants(r.by)
    BY <1>7, <2>1, <2>3
  <2>5. WantOf(r.by)' = -3
    <3>1. PICK A : A = Asked(r.by)
      OBVIOUS
    <3>2. A \in Nat /\ A # 0 /\ A <= 1
      <4>1. A <= IF ask[r.by] = NoTask THEN 0 ELSE 1
        BY <3>1 DEF Once
      <4>2. A \in Nat /\ A # 0
        BY <3>1, Counts DEF Found, WantFound
      <4> QED
        BY <4>1, <4>2
    <3>3. Asked(r.by)' = A - 1
      BY <2>1, <3>1 DEF Fewer
    <3>4. Asked(r.by)' = 0
      BY <3>2, <3>3
    <3> QED
      BY <2>3, <3>4 DEF Found, WantFound
  <2>6. \A id \in OneRoot : SameTask(take, old, put, m, id)
    BY <1>3, <2>1 DEF SameTask
  <2>7. SameTasks
    BY <1>2, <2>3, <2>6, TasksStay
  <2> QED
    BY <2>1, <2>4, <2>5, <2>7, EndSeen
<1> QED
  BY <1>5, <1>8, <1>9, <1>10 DEF Asks

LEMMA AsksFewer ==
  ASSUME TypeOK, NEW s \in Server, NEW h \in Links(s), NEW to, NEW r \in Request, NEW for,
         NEW put \in BOOLEAN, NEW f \in Edge, NEW m \in Msg, Asks(put, f, m, s, h, to, r, for),
         NEW take, NEW e, NEW c, Took(take, e, c), Gave(put, c, f, m),
         take => Head(chan[e]) \in Msg /\ Head(chan[e]).kind = "treq",
         UNCHANGED stack, ~exited, exited'
  PROVE  /\ \A n : Num(Edge, chan', RequestsBy(n)) = Num(Edge, chan, RequestsBy(n)) - Minus(take, Edge, RequestsBy(n), e)
         /\ \A id : Where(id)' = Where(id)
<1>1. ~put
  BY DEF Asks, AnswersFor, AsksHost, FirstIsGiven, Exits
<1>2. Family(Edge, Msg, chan) /\ Edge \in SUBSET Edge
  BY TypeParts
<1>3. ASSUME NEW M
      PROVE  Num(Edge, chan', M) = Num(Edge, chan, M) - Minus(take, Edge, M, e)
  <2>1. Plus(put, Edge, M, f, m) = 0
    BY <1>1 DEF Plus
  <2>2. PICK A, B, C : /\ A = Num(Edge, chan, M) /\ B = Num(Edge, chan', M) /\ C = Minus(take, Edge, M, e)
    OBVIOUS
  <2>3. B = A - C + Plus(put, Edge, M, f, m) /\ A \in Nat /\ B \in Nat /\ C \in 0..1
    BY <1>2, <2>2, MovedNum
  <2> QED
    BY <2>1, <2>2, <2>3
<1>4. ASSUME NEW id
      PROVE  Where(id)' = Where(id)
  <2>1. Minus(take, Edge, Carrying(id), e) = 0
    BY DEF Minus, At, Carrying
  <2>2. Num(Edge, chan, Carrying(id)) \in Nat
    BY Counts
  <2>3. Num(Edge, chan', Carrying(id)) = Num(Edge, chan, Carrying(id))
    BY <1>3, <2>1, <2>2
  <2>4. Running(id)' = Running(id)
    BY DEF Running
  <2> QED
    BY <2>3, <2>4 DEF Where
<1> QED
  BY <1>3, <1>4

LEMMA RetryOneSeen ==
  ASSUME AutoResend = 0, IInv, IInv', Once, ~exited, Found, ~exited' => Found', AllUp,
         NEW s \in Server, RetryOne(s)
  PROVE  Simulated
<1>1. TypeOK /\ TypeOK' /\ Routes /\ Nodes /\ FirstTask
  BY DEF IInv
<1>2. /\ talist[s] # <<>> /\ talist' = [talist EXCEPT ![s] = Tail(@)]
      /\ UNCHANGED nodeVars
  BY DEF RetryOne
<1>3. Family(Server, Request, talist) /\ Family(Server, Request, failed) /\ Family(Edge, Msg, chan)
  BY <1>1, TypeParts
<1>4. PICK d : d = talist'
  OBVIOUS
<1>5. Dropped(talist, d, s)
  BY <1>2, <1>3, <1>4, PopDrops
<1>6. PICK r : r = Head(talist[s])
  OBVIOUS
<1>7. /\ \A M : Num(Server, talist, M) = Num(Server, talist', M) + At(Server, M, s, r)
      /\ r \in Range(talist[s]) /\ r \in Request
  BY <1>4, <1>5, <1>6 DEF Dropped
<1>8. Keeps(s, r) /\ r.by \in Node /\ r.head \in Path
  BY <1>1, <1>7 DEF Routes, Request, Path
<1>9. Way(s, r.head, r.by)
  BY <1>8 DEF Keeps
<1>10. \/ \E t \in Targets(s, r.from) : SendTreq(chan, s, t, ANY, r, AnyTask) /\ UNCHANGED failed
       \/ /\ MayFail(s, r.from)
          /\ failed' = [failed EXCEPT ![s] = <<r>> \o @]
          /\ UNCHANGED <<chan, unreplied, diff, pdiff, respond, exited>>
  BY <1>6 DEF RetryOne
<1>11. CASE \E t \in Targets(s, r.from) : SendTreq(chan, s, t, ANY, r, AnyTask) /\ UNCHANGED failed
  <2>1. PICK t \in Targets(s, r.from) : SendTreq(chan, s, t, ANY, r, AnyTask) /\ UNCHANGED failed
    BY <1>11
  <2>2. t \in Links(s) /\ (t = Term => MayAskParent(s))
    BY TargetIs
  <2>3. PICK to \in Path, for \in {AnyTask} \cup SubTask : to = ANY /\ for = AnyTask
    <3>1. ANY \in Path
      BY DEF ANY, Path, Host
    <3> QED
      BY <3>1
  <2>4. PICK take, e, c : take = FALSE /\ e = <<s, t>> /\ c = chan
    OBVIOUS
  <2>5. Took(take, e, c) /\ Family(Edge, Msg, c) /\ SendTreq(c, s, t, to, r, for)
    BY <1>3, <2>1, <2>3, <2>4 DEF Took
  <2>6. PICK put \in BOOLEAN, f \in Edge, m \in Msg : Gave(put, c, f, m) /\ Asks(put, f, m, s, t, to, r, for)
    BY <1>1, <1>7, <1>9, <2>2, <2>5, SendTreqAsks
  <2>7. PICK old : old = Head(chan[e])
    OBVIOUS
  <2>8. Flows(take, old, put, m)
    BY <1>3, <2>5, <2>6, <2>7, FlowIs
  <2>9. ASSUME NEW n \in Node
        PROVE  \E K \in 0..1 : /\ K = (IF n = r.by THEN 1 ELSE 0)
                               /\ Num(Server, talist, KeptBy(n)) = Num(Server, talist', KeptBy(n)) + K
    <3>1. PICK K \in 0..1 : K = IF n = r.by THEN 1 ELSE 0
      OBVIOUS
    <3>2. At(Server, KeptBy(n), s, r) = K
      BY <1>7, <3>1 DEF At, KeptBy
    <3> QED
      BY <1>7, <3>1, <3>2
  <2>10. ASSUME NEW n \in Node \ {r.by}
         PROVE  HasKept(n)' <=> HasKept(n)
    <3>1. PICK K \in 0..1 : K = 0 /\ Num(Server, talist, KeptBy(n)) = Num(Server, talist', KeptBy(n)) + K
      BY <2>9
    <3>2. /\ HasKept(n) <=> Num(Server, talist, KeptBy(n)) + Num(Server, failed, KeptBy(n)) # 0
          /\ HasKept(n)' <=> Num(Server, talist', KeptBy(n)) + Num(Server, failed', KeptBy(n)) # 0
          /\ Num(Server, talist, KeptBy(n)) \in Nat /\ Num(Server, talist', KeptBy(n)) \in Nat
      BY <1>1, KeptCounted, KeptPrime
    <3>3. Num(Server, talist', KeptBy(n)) = Num(Server, talist, KeptBy(n))
      BY <3>1, <3>2
    <3> QED
      BY <2>1, <3>2, <3>3
  <2>11. Shows(r.by, -1)
    BY <1>7, ListedIs DEF Shows, HasKept
  <2>12. exited' => Fewer(r.by)
    <3> SUFFICES ASSUME exited'
                 PROVE  Fewer(r.by)
      OBVIOUS
    <3>1. UNCHANGED stack /\ (take => Head(chan[e]) \in Msg /\ Head(chan[e]).kind = "treq")
      BY <1>2, <2>4 DEF nodeVars
    <3>2. /\ \A n : Num(Edge, chan', RequestsBy(n)) = Num(Edge, chan, RequestsBy(n)) - Minus(take, Edge, RequestsBy(n), e)
          /\ \A id : Where(id)' = Where(id)
      BY <1>1, <1>7, <2>2, <2>5, <2>6, <3>1, AsksFewer
    <3>3. ASSUME NEW n \in Node
          PROVE  Asked(n)' = Asked(n) - IF n = r.by THEN 1 ELSE 0
      <4>1. PICK K \in 0..1 : /\ K = (IF n = r.by THEN 1 ELSE 0)
                              /\ Num(Server, talist, KeptBy(n)) = Num(Server, talist', KeptBy(n)) + K
        BY <2>9
      <4>2. Minus(take, Edge, RequestsBy(n), e) = 0
        BY <2>4 DEF Minus
      <4>3. PICK A, B, C, D, E : /\ A = Num(Edge, chan, RequestsBy(n)) /\ B = Num(Edge, chan', RequestsBy(n))
                                 /\ C = Num(Server, talist, KeptBy(n)) /\ D = Num(Server, talist', KeptBy(n))
                                 /\ E = Num(Server, failed, KeptBy(n))
        OBVIOUS
      <4>4. A \in Nat /\ C \in Nat /\ D \in Nat /\ E \in Nat
        BY <1>1, <4>3, Counts, KeptCounted, KeptPrime
      <4>5. B = A - 0 /\ C = D + K
        BY <3>2, <4>1, <4>2, <4>3
      <4>6. B + D + E = (A + C + E) - K
        BY <4>4, <4>5
      <4>7. Asked(n) = A + C + E /\ Asked(n)' = B + D + E
        BY <2>1, <4>3 DEF Asked
      <4> QED
        BY <4>1, <4>6, <4>7
    <3> QED
      BY <3>2, <3>3 DEF Fewer
  <2>13. take => old \in Msg /\ old.kind = "treq" /\ old.by = r.by
    BY <2>4
  <2> QED
    BY <1>1, <1>2, <1>7, <1>8, <2>2, <2>6, <2>8, <2>10, <2>11, <2>12, <2>13, Passing
<1>12. CASE /\ MayFail(s, r.from)
            /\ failed' = [failed EXCEPT ![s] = <<r>> \o @]
            /\ UNCHANGED <<chan, unreplied, diff, pdiff, respond, exited>>
  <2>1. UNCHANGED chan /\ UNCHANGED <<respond, exited>> /\ exited' = exited
    BY <1>12
  <2>2. PICK g : g = failed'
    OBVIOUS
  <2>3. Inserted(failed, g, s, r)
    BY <1>3, <1>7, <1>12, <2>2, ConsInserts
  <2>4. \A M : Num(Server, failed', M) = Num(Server, failed, M) + At(Server, M, s, r)
    BY <2>2, <2>3 DEF Inserted
  <2>5. SameLists
    BY <1>1, <1>7, <2>4, ListsSwap
  <2>6. Found'
    BY <2>1
  <2> QED
    BY <1>2, <2>1, <2>5, <2>6, ListsMove
<1> QED
  BY <1>10, <1>11, <1>12

LEMMA ProcTreqSeen ==
  ASSUME AutoResend = 0, IInv, IInv', Once, ~exited, Found, ~exited' => Found', AllUp,
         NEW s \in Server, NEW h \in Links(s), ProcTreq(s, h)
  PROVE  Simulated
<1>1. TypeOK /\ TypeOK' /\ Routes /\ Nodes /\ FirstTask
  BY DEF IInv
<1>2. Handles(s, h, "treq") /\ UNCHANGED nodeVars /\ UNCHANGED failed
  BY DEF ProcTreq
<1>3. PICK m \in Msg : \E c :
        /\ m = Received(h, s) /\ m = Head(chan[<<h, s>>]) /\ c = Taken(h, s) /\ m.kind = "treq"
        /\ Took(TRUE, <<h, s>>, c) /\ Family(Edge, Msg, c) /\ Goes(h, s, m)
        /\ <<h, s>> \in Edge /\ phase[s] = "wait" /\ phase' = [phase EXCEPT ![s] = "retry"]
  BY <1>1, <1>2, HandlesMsg
<1>4. PICK c :
        /\ m = Received(h, s) /\ m = Head(chan[<<h, s>>]) /\ c = Taken(h, s) /\ m.kind = "treq"
        /\ Took(TRUE, <<h, s>>, c) /\ Family(Edge, Msg, c) /\ Goes(h, s, m)
        /\ <<h, s>> \in Edge
  BY <1>3
<1>5. /\ h # Term /\ Treq(h, s, m) /\ m.to \in Path /\ m.from \in Path /\ m.by \in Node
      /\ m.for \in {AnyTask} \cup SubTask /\ h \in Host
  BY <1>4, MsgParts, Tree DEF Goes
<1>6. /\ HeadPush(h, m.from) \in Path /\ Tail(HeadPush(h, m.from)) = m.from
      /\ Way(s, HeadPush(h, m.from), m.by)
  BY <1>5, WayBack DEF Treq
<1>7. PICK r \in Request : r = [from |-> h, head |-> HeadPush(h, m.from), by |-> m.by]
  BY <1>5, <1>6 DEF Request
<1>8. /\ Way(s, r.head, r.by) /\ r.by = m.by /\ r.from = h /\ Tail(r.head) = m.from
      /\ r.head \in Path /\ r.by \in Node
  BY <1>5, <1>6, <1>7
<1>9. \/ m.to = ANY /\ (\E t \in Targets(s, h) : SendTreq(c, s, t, ANY, r, AnyTask)) /\ UNCHANGED talist
      \/ m.to = ANY /\ RefuseTreq(c, s, r)
      \/ m.to # ANY /\ SendTreq(c, s, Head(m.to), Tail(m.to), r, m.for) /\ UNCHANGED talist
  BY <1>4, <1>7 DEF ProcTreq
<1>10. PICK take, e : take = TRUE /\ e = <<h, s>>
  OBVIOUS
<1>11. /\ Took(take, e, c) /\ m = Head(chan[e]) /\ Family(Edge, Msg, chan)
       /\ take => Head(chan[e]) \in Msg /\ Head(chan[e]).kind = "treq"
       /\ take => m \in Msg /\ m.kind = "treq" /\ m.by = r.by
  BY <1>1, <1>4, <1>8, <1>10, TypeParts
<1>12. ASSUME NEW put, NEW f, NEW g, Gave(put, c, f, g)
       PROVE  Flows(take, m, put, g)
  BY <1>11, <1>12, FlowIs
<1>13. Shows(r.by, -1) /\ WantOf(r.by) = -1
  <2>1. m \in Flying
    <3>2. Takes(chan, c, e) /\ e \in Edge
      BY <1>4, <1>10 DEF Took
    <3>3. Head(chan[e]) = chan[e][1] /\ 1 \in DOMAIN chan[e]
      BY <3>2, TakesElements
    <3>4. m \in Range(chan[e])
      BY <1>11, <3>3 DEF Range
    <3> QED
      BY <3>2, <3>4, FlyingIs
  <2>2. m \in RequestsBy(r.by) /\ Value(m) = -1
    BY <1>4, <1>8 DEF RequestsBy, Value
  <2>3. Shows(r.by, -1)
    BY <2>1, <2>2 DEF Shows
  <2> QED
    BY <1>8, <2>3 DEF Found, WantFound
<1>14. ASSUME NEW t \in Links(s), NEW to \in Path, NEW for \in {AnyTask} \cup SubTask,
              t = Term => MayAskParent(s), SendTreq(c, s, t, to, r, for), UNCHANGED talist
       PROVE  Simulated
  <2>1. PICK put \in BOOLEAN, f \in Edge, g \in Msg : Gave(put, c, f, g) /\ Asks(put, f, g, s, t, to, r, for)
    BY <1>1, <1>4, <1>8, <1>14, SendTreqAsks
  <2>2. Flows(take, m, put, g)
    BY <1>12, <2>1
  <2>3. \A n \in Node \ {r.by} : HasKept(n)' <=> HasKept(n)
    BY <1>2, <1>14, KeptSame DEF SameLists
  <2>4. exited' => Fewer(r.by)
    <3> SUFFICES ASSUME exited'
                 PROVE  Fewer(r.by)
      OBVIOUS
    <3>1. UNCHANGED stack
      BY <1>2 DEF nodeVars
    <3>2. /\ \A n : Num(Edge, chan', RequestsBy(n)) = Num(Edge, chan, RequestsBy(n)) - Minus(take, Edge, RequestsBy(n), e)
          /\ \A id : Where(id)' = Where(id)
      BY <1>1, <1>11, <2>1, <3>1, AsksFewer
    <3>3. ASSUME NEW n \in Node
          PROVE  Asked(n)' = Asked(n) - IF n = r.by THEN 1 ELSE 0
      <4>1. PICK K \in 0..1 : K = IF n = r.by THEN 1 ELSE 0
        OBVIOUS
      <4>2. Minus(take, Edge, RequestsBy(n), e) = K
        <5>1. m \in RequestsBy(n) <=> n = r.by
          BY <1>4, <1>8 DEF RequestsBy
        <5> QED
          BY <1>4, <1>10, <4>1, <5>1 DEF Minus, At
      <4>3. PICK A, B, C, E : /\ A = Num(Edge, chan, RequestsBy(n)) /\ B = Num(Edge, chan', RequestsBy(n))
                              /\ C = Num(Server, talist, KeptBy(n)) /\ E = Num(Server, failed, KeptBy(n))
        OBVIOUS
      <4>4. A \in Nat /\ C \in Nat /\ E \in Nat
        BY <1>1, <4>3, Counts
      <4>5. B = A - K
        BY <3>2, <4>2, <4>3
      <4>6. B + C + E = (A + C + E) - K
        BY <4>4, <4>5
      <4>7. Asked(n) = A + C + E /\ Asked(n)' = B + C + E
        BY <1>2, <1>14, <4>3 DEF Asked
      <4> QED
        BY <4>1, <4>6, <4>7
    <3> QED
      BY <3>2, <3>3 DEF Fewer
  <2> QED
    BY <1>1, <1>2, <1>8, <1>11, <1>13, <1>14, <2>1, <2>2, <2>3, <2>4, Passing
<1>15. CASE m.to = ANY /\ (\E t \in Targets(s, h) : SendTreq(c, s, t, ANY, r, AnyTask)) /\ UNCHANGED talist
  <2>1. PICK t \in Targets(s, h) : SendTreq(c, s, t, ANY, r, AnyTask)
    BY <1>15
  <2>2. t \in Links(s) /\ (t = Term => MayAskParent(s))
    BY TargetIs
  <2>3. ANY \in Path
    BY DEF ANY, Path, Host
  <2> QED
    BY <1>14, <1>15, <2>1, <2>2, <2>3
<1>16. CASE m.to # ANY /\ SendTreq(c, s, Head(m.to), Tail(m.to), r, m.for) /\ UNCHANGED talist
  <2>1. PICK x \in Node : Way(s, m.to, x)
    BY <1>5, <1>16 DEF Treq, WayToNode
  <2>2. PICK t, to : t = Head(m.to) /\ to = Tail(m.to)
    OBVIOUS
  <2>3. t \in Links(s) /\ t # Term /\ to \in Path
    BY <1>1, <1>5, <2>1, <2>2, Forward
  <2> QED
    BY <1>5, <1>14, <1>16, <2>2, <2>3
<1>17. CASE m.to = ANY /\ RefuseTreq(c, s, r)
  <2>1. UNCHANGED <<respond, exited>> /\ exited' = exited
    BY <1>17 DEF RefuseTreq
  <2>2. PICK d \in Msg : d = none(m.from, m.by) /\ d.kind = "none" /\ d.by = m.by
    BY <1>5, MsgMade
  <2>3. \/ chan' = Send(c, s, h, d) /\ UNCHANGED talist
        \/ chan' = c /\ talist' = [talist EXCEPT ![s] = Push(s, @, r)]
    BY <1>8, <1>17, <2>2 DEF RefuseTreq
  <2>4. Found' /\ SameHolders /\ SameNew
    <3>1. UNCHANGED stack /\ UNCHANGED used
      BY <1>2 DEF nodeVars
    <3> QED
      BY <2>1, <3>1, HoldersSame, NewSame
  <2>5. ASSUME NEW put, Flows(take, m, put, d)
        PROVE  /\ SameTasks
               /\ (\A n \in Node \ {r.by} : HasKept(n)' <=> HasKept(n)) => OtherWants(r.by)
    <3>1. \A id \in OneRoot : SameTask(take, m, put, d, id)
      BY <1>4, <2>2 DEF SameTask, Carrying
    <3>2. ASSUME NEW n \in Node \ {r.by}, HasKept(n)' <=> HasKept(n)
          PROVE  WantOf(n)' = WantOf(n)
      <4>1. SameRequest(take, m, put, d, n)
        BY <1>8, <2>2 DEF SameRequest, RequestsBy
      <4> QED
        BY <2>4, <2>5, <3>2, <4>1, WantStays
    <3> QED
      BY <2>4, <2>5, <3>1, <3>2, TasksStay DEF OtherWants
  <2>6. CASE chan' = Send(c, s, h, d) /\ UNCHANGED talist
    <3>1. Gave(TRUE, c, <<s, h>>, d)
      BY <1>1, <1>4, <1>5, <2>6, ServerSends
    <3>2. Flows(take, m, TRUE, d)
      BY <1>12, <3>1
    <3>3. SameTasks /\ OtherWants(r.by)
      BY <1>2, <2>5, <2>6, <3>2, KeptSame DEF SameLists
    <3>4. Shows(r.by, -2)'
      BY <1>8, <2>2, <3>2 DEF Flows, Shows, RequestsBy, Value
    <3>5. WantOf(r.by)' = -2
      BY <1>8, <2>4, <3>4 DEF Found, WantFound
    <3> QED
      BY <1>8, <1>13, <2>1, <3>3, <3>5, RefuseSeen
  <2>7. CASE chan' = c /\ talist' = [talist EXCEPT ![s] = Push(s, @, r)]
    <3>1. Gave(FALSE, c, <<s, h>>, d)
      BY <2>7 DEF Gave
    <3>2. Flows(take, m, FALSE, d)
      BY <1>12, <3>1
    <3>3. PICK d2 : d2 = talist'
      OBVIOUS
    <3>4. Inserted(talist, d2, s, r)
      BY <1>1, <2>7, <3>3, TypeParts, PushInserts
    <3>5. \A M : Num(Server, talist', M) = Num(Server, talist, M) + At(Server, M, s, r)
      BY <3>3, <3>4 DEF Inserted
    <3>6. ASSUME NEW n \in Node
          PROVE  /\ n # r.by => (HasKept(n)' <=> HasKept(n))
                 /\ n = r.by => HasKept(n)'
      <4>1. PICK T, F, U, K : /\ T = Num(Server, talist, KeptBy(n)) /\ F = Num(Server, failed, KeptBy(n))
                              /\ U = Num(Server, talist', KeptBy(n)) /\ K = At(Server, KeptBy(n), s, r)
        OBVIOUS
      <4>2. /\ T \in Nat /\ F \in Nat /\ U \in Nat /\ (HasKept(n) <=> T + F # 0)
            /\ HasKept(n)' <=> U + Num(Server, failed', KeptBy(n)) # 0
        BY <1>1, <4>1, KeptCounted, KeptPrime
      <4>3. F = Num(Server, failed', KeptBy(n))
        BY <1>2, <4>1
      <4>4. K = IF n = r.by THEN 1 ELSE 0
        BY <4>1 DEF At, KeptBy
      <4>5. U = T + K
        BY <3>5, <4>1
      <4> QED
        BY <4>2, <4>3, <4>4, <4>5
    <3>7. SameTasks /\ OtherWants(r.by)
      BY <2>5, <3>2, <3>6
    <3>8. Shows(r.by, -1)'
      BY <1>8, <3>6 DEF Shows
    <3>9. WantOf(r.by)' = -1
      BY <1>8, <2>4, <3>8 DEF Found, WantFound
    <3>10. SameWants
      BY <1>13, <3>7, <3>9 DEF SameWants, OtherWants
    <3> QED
      BY <2>1, <3>7, <3>10, NothingSeen
  <2> QED
    BY <2>3, <2>6, <2>7
<1> QED
  BY <1>9, <1>15, <1>16, <1>17

(* steps of nodes *)
LEMMA MovesFlow ==
  ASSUME TypeOK, NEW n, NEW take, NEW e, NEW c, NEW put, NEW f, NEW m, Moves(n, take, e, c, put, f, m)
  PROVE  Flows(take, Head(chan[e]), put, m)
BY TypeParts, FlowIs DEF Moves

LEMMA NodeFrame ==
  ASSUME UNCHANGED serverVars, UNCHANGED termVars
  PROVE  SameLists /\ exited' = exited /\ respond' = respond
<1>1. UNCHANGED <<talist, failed>> /\ exited' = exited /\ respond' = respond
  BY DEF serverVars, termVars
<1> QED
  BY <1>1, KeptSame

LEMMA WantsOfOthers ==
  ASSUME Found, Found', SameLists, NEW x,
         NEW take, NEW old, NEW put, NEW new, Flows(take, old, put, new),
         take => old \notin UNION {RequestsBy(n) : n \in Node \ {x}},
         put => new \notin UNION {RequestsBy(n) : n \in Node \ {x}}
  PROVE  OtherWants(x)
<1>1. ASSUME NEW n \in Node \ {x}
      PROVE  WantOf(n)' = WantOf(n)
  <2>1. SameRequest(take, old, put, new, n)
    BY DEF SameRequest
  <2> QED
    BY <2>1, WantStays DEF SameLists
<1> QED
  BY <1>1 DEF OtherWants

LEMMA OutIsNotNew ==
  ASSUME IInv, ~exited, Found, NEW id \in OneRoot, NEW st, Stands(id, st)
  PROVE  ~IsNew(id)
<1>1. TypeOK /\ FirstTask /\ OnePlace /\ Nodes
  BY DEF IInv
<1>2. Where(id) # 0 /\ Where(id) \in Nat /\ Waiting(id) \in Nat
  BY <1>1, Counts DEF Found, StateFound
<1>3. CASE id = 0
  BY <1>1, <1>2, <1>3 DEF FirstTask, IsNew
<1>4. CASE id \in SubTask
  <2>1. Waiting(id) # 0
    BY <1>1, <1>2, <1>4 DEF OnePlace
  <2>2. PICK x \in Node : \E t \in Range(sub[x]) : t \in SpawnedAs(id)
    <3>1. Family(Node, Spawned, sub)
      BY <1>1, TypeParts
    <3>2. ASSUME \A x \in Node : \A t \in Range(sub[x]) : t \notin SpawnedAs(id)
          PROVE  FALSE
      <4>1. Num(Node, sub, SpawnedAs(id)) = 0
        BY <3>2, NumNone
      <4> QED
        BY <2>1, <4>1 DEF Waiting
    <3> QED
      BY <3>2
  <2>3. id <= used /\ id # 0
    BY <1>1, <1>4, <2>2, Zero DEF Nodes, SpawnedAs
  <2>4. id \in Int /\ used \in Int
    BY <1>1, <1>4 DEF SubTask, TypeOK
  <2> QED
    BY <2>3, <2>4 DEF IsNew
<1> QED
  BY <1>3, <1>4 DEF OneRoot

LEMMA OneRootIs ==
  ASSUME AutoResend = 0, NEW id \in Task
  PROVE  id \in OneRoot
BY TaskIs DEF OneRoot

LEMMA NodeAskSeen ==
  ASSUME AutoResend = 0, IInv, IInv', ~exited, Once, Found, Found', NEW n \in Node, NodeAsk(n)
  PROVE  Simulated
<1>1. TypeOK /\ Nodes
  BY DEF IInv
<1>2. /\ UNCHANGED serverVars /\ UNCHANGED termVars /\ UNCHANGED <<stack, sub, wrack, up, used>>
      /\ ask[n] = NoTask /\ UNCHANGED stack /\ UNCHANGED used
  BY DEF NodeAsk
<1>3. SameLists /\ exited' = exited /\ respond' = respond
  BY <1>2, NodeFrame
<1>4. Family(Edge, Msg, chan) /\ Family(Node, Spawned, sub)
  BY <1>1, TypeParts
<1>5. PICK g \in Msg : chan' = NodeSends(n, chan, g) /\ g.kind = "treq" /\ g.by = n
  <2>1. <<>> \in Path /\ ANY \in Path
    BY WayHere DEF Path, ANY, Host
  <2>2. CASE stack[n] = <<>>
    <3>1. chan' = NodeSends(n, chan, treq(ANY, <<>>, n, AnyTask))
      BY <2>2 DEF NodeAsk
    <3>2. PICK g \in Msg : g = treq(ANY, <<>>, n, AnyTask) /\ g.kind = "treq" /\ g.by = n
      BY <2>1, MsgMade
    <3> QED
      BY <3>1, <3>2
  <2>3. CASE stack[n] # <<>>
    <3>1. PICK last : last = Last(sub[n])
      OBVIOUS
    <3>2. OwnSubs(n) # {} /\ chan' = NodeSends(n, chan, treq(last.thief, <<>>, n, last.id))
      BY <2>3, <3>1 DEF NodeAsk
    <3>3. sub[n] # <<>> /\ sub[n] \in Seq(Spawned)
      BY <1>4, <3>2, FamilyElement DEF OwnSubs
    <3>4. last \in Spawned
      BY <3>1, <3>3, FrontLacks DEF Range
    <3>5. last.id \in SubTask /\ last.thief \in Path
      BY <3>4 DEF Spawned
    <3>6. PICK g \in Msg : g = treq(last.thief, <<>>, n, last.id) /\ g.kind = "treq" /\ g.by = n
      BY <2>1, <3>5, MsgMade
    <3> QED
      BY <3>2, <3>6
  <2> QED
    BY <2>2, <2>3
<1>6. PICK take, e, put, f : take = FALSE /\ e = <<ServerOf(n), n>> /\ put = TRUE /\ f = <<n, ServerOf(n)>>
  OBVIOUS
<1>7. Moves(n, take, e, chan, put, f, g)
  <2>1. Gave(put, chan, f, g)
    BY <1>4, <1>5, <1>6, NodeSays
  <2> QED
    BY <1>5, <1>6, <2>1 DEF Moves, Took
<1>8. PICK old : old = Head(chan[e])
  OBVIOUS
<1>9. Flows(take, old, put, g)
  BY <1>1, <1>7, <1>8, MovesFlow
<1>10. OtherWants(n)
  <2>1. take => old \notin UNION {RequestsBy(x) : x \in Node \ {n}}
    BY <1>6
  <2>2. put => g \notin UNION {RequestsBy(x) : x \in Node \ {n}}
    BY <1>5 DEF RequestsBy
  <2> QED
    BY <1>3, <1>9, <2>1, <2>2, WantsOfOthers
<1>11. SameTasks
  <2>1. SameHolders /\ SameNew
    BY <1>2, <1>3, HoldersSame, NewSame
  <2>2. \A id \in OneRoot : SameTask(take, old, put, g, id)
    BY <1>5, <1>6 DEF SameTask, Carrying
  <2> QED
    BY <1>9, <2>1, <2>2, TasksStay
<1>12. WantOf(n) = -3
  BY <1>2 DEF Found, WantFound
<1>13. WantOf(n)' = -1
  <2>1. Shows(n, -1)'
    BY <1>5, <1>6, <1>9 DEF Flows, Shows, RequestsBy, Value
  <2> QED
    BY <2>1 DEF Found, WantFound
<1> QED
  BY <1>3, <1>10, <1>11, <1>12, <1>13, AskSeen

LEMMA NodeTreqSeen ==
  ASSUME AutoResend = 0, IInv, IInv', ~exited, Found, Found', NEW n \in Node, NodeTreq(n)
  PROVE  Simulated
<1>1. TypeOK /\ Routes
  BY DEF IInv
<1>2. /\ NodeReceives(n, "treq") /\ UNCHANGED serverVars /\ UNCHANGED termVars
      /\ UNCHANGED <<ask, stack, wrack, up>> /\ UNCHANGED stack
  BY DEF NodeTreq
<1>3. SameLists /\ exited' = exited /\ respond' = respond /\ SameHolders
  BY <1>2, NodeFrame, HoldersSame
<1>4. PICK m \in Msg : \E c :
           /\ m = Received(ServerOf(n), n) /\ c = NodeTaken(n) /\ m.kind = "treq" /\ Family(Edge, Msg, c)
           /\ Goes(ServerOf(n), n, m) /\ m \in Flying
           /\ \A put, f, g : Gave(put, c, f, g) => Flows(TRUE, m, put, g)
  BY <1>2, NodeHearsFlow
<1>5. PICK c :
           /\ m = Received(ServerOf(n), n) /\ c = NodeTaken(n) /\ m.kind = "treq" /\ Family(Edge, Msg, c)
           /\ m \in Flying /\ \A put, f, g : Gave(put, c, f, g) => Flows(TRUE, m, put, g)
  BY <1>4
<1>6. m.from \in Path /\ m.by \in Node
  BY <1>5, MsgParts
<1>7. PICK b \in Node : b = m.by
  BY <1>6
<1>8. WantOf(b) = -1
  <2>1. Shows(b, -1)
    BY <1>5, <1>7 DEF Shows, RequestsBy, Value
  <2> QED
    BY <2>1 DEF Found, WantFound
<1>9. ASSUME NEW g \in Msg, chan' = NodeSends(n, c, g)
      PROVE  Flows(TRUE, m, TRUE, g)
  <2>1. Gave(TRUE, c, <<n, ServerOf(n)>>, g)
    BY <1>5, <1>9, NodeSays
  <2> QED
    BY <1>5, <2>1
<1>10. ASSUME NEW g \in Msg, Flows(TRUE, m, TRUE, g), g.by = b, g.kind \in {"none", "task"}
       PROVE  OtherWants(b) /\ (\A w : Value(g) = w => WantOf(b)' = w)
  <2>1. /\ m \notin UNION {RequestsBy(x) : x \in Node \ {b}}
        /\ g \notin UNION {RequestsBy(x) : x \in Node \ {b}}
    BY <1>7, <1>10 DEF RequestsBy
  <2>2. OtherWants(b)
    BY <1>3, <1>10, <2>1, WantsOfOthers
  <2>3. ASSUME NEW w, Value(g) = w
        PROVE  WantOf(b)' = w
    <3>1. Shows(b, w)'
      BY <1>10, <2>3 DEF Flows, Shows, RequestsBy
    <3> QED
      BY <3>1 DEF Found, WantFound
  <2> QED
    BY <2>2, <2>3
<1>11. PICK id : id = used + 1
  OBVIOUS
<1>12. CASE used < MaxTask /\ used' = id /\ chan' = NodeSends(n, c, task(m.from, <<>>, m.by, id))
  <2>1. used \in 0..MaxTask /\ MaxTask \in Nat
    BY <1>1, TreeAssumption DEF TypeOK
  <2>2. id \in SubTask /\ id \in OneRoot /\ id \in Task /\ id # 0 /\ id \in Int
    <3>1. id \in SubTask
      BY <1>11, <1>12, <2>1 DEF SubTask
    <3> QED
      BY <1>11, <2>1, <3>1, Zero DEF OneRoot, Task
  <2>3. PICK g \in Msg : g = task(m.from, <<>>, m.by, id) /\ g.kind = "task" /\ g.by = b /\ g.id = id
    <3>1. <<>> \in Path
      BY WayHere
    <3> QED
      BY <1>6, <1>7, <2>2, <3>1, MsgMade
  <2>4. Flows(TRUE, m, TRUE, g)
    BY <1>9, <1>12, <2>3
  <2>5. Value(g) = id
    BY <2>3 DEF Value
  <2>6. OtherWants(b) /\ WantOf(b)' = id
    BY <1>10, <2>3, <2>4, <2>5
  <2>7. StateFound(id) /\ StateFound(id)'
    BY <2>2 DEF Found
  <2>8. StateOf(id) = "new"
    <3>1. IsNew(id)
      BY <1>11, <2>1, <2>2 DEF IsNew
    <3> QED
      BY <2>7, <3>1 DEF StateFound
  <2>9. StateOf(id)' = "given"
    <3>1. ~IsNew(id)'
      BY <1>12, <2>2 DEF IsNew
    <3>2. Stands(id, "given")'
      BY <2>3, <2>4 DEF Flows, Stands, Stage, Carrying
    <3> QED
      BY <2>7, <3>1, <3>2 DEF StateFound
  <2>10. OtherTasks(id)
    <3>1. ASSUME NEW j \in OneRoot \ {id}
          PROVE  StateOf(j)' = StateOf(j) /\ HolderOf(j)' = HolderOf(j)
      <4>1. SameTask(TRUE, m, TRUE, g, j)
        BY <1>5, <2>3 DEF SameTask, Carrying
      <4>2. IsNew(j)' <=> IsNew(j)
        <5>1. j = 0 \/ j \in Nat
          BY DEF OneRoot, SubTask
        <5>2. j > used' <=> j > used
          BY <1>11, <1>12, <2>1, <5>1
        <5> QED
          BY <1>3, <5>2 DEF IsNew
      <4> QED
        BY <1>3, <2>4, <4>1, <4>2, StateStays DEF SameHolders
    <3> QED
      BY <3>1 DEF OtherTasks
  <2>11. HolderOf(id)' = HolderOf(id)
    BY <1>3, <2>2 DEF SameHolders
  <2> QED
    BY <1>3, <1>8, <2>2, <2>6, <2>8, <2>9, <2>10, <2>11, GiveSeen
<1>13. CASE chan' = NodeSends(n, c, none(m.from, m.by)) /\ UNCHANGED <<sub, used>>
  <2>1. PICK g \in Msg : g = none(m.from, m.by) /\ g.kind = "none" /\ g.by = b
    BY <1>6, <1>7, MsgMade
  <2>2. Flows(TRUE, m, TRUE, g)
    BY <1>9, <1>13, <2>1
  <2>3. Value(g) = -2
    BY <2>1 DEF Value
  <2>4. OtherWants(b) /\ WantOf(b)' = -2
    BY <1>10, <2>1, <2>2, <2>3
  <2>5. SameTasks
    <3>1. SameNew
      BY <1>3, <1>13, NewSame
    <3>2. \A j \in OneRoot : SameTask(TRUE, m, TRUE, g, j)
      BY <1>5, <2>1 DEF SameTask, Carrying
    <3> QED
      BY <1>3, <2>2, <3>1, <3>2, TasksStay
  <2> QED
    BY <1>3, <1>8, <2>4, <2>5, RefuseSeen
<1> QED
  BY <1>5, <1>11, <1>12, <1>13 DEF NodeTreq

LEMMA NodeNoneSeen ==
  ASSUME AutoResend = 0, IInv, IInv', ~exited, Found, Found', NEW n \in Node, NodeNone(n)
  PROVE  Simulated
<1>1. TypeOK
  BY DEF IInv
<1>2. /\ NodeReceives(n, "none") /\ UNCHANGED serverVars /\ UNCHANGED termVars
      /\ ask' = [ask EXCEPT ![n] = NoTask] /\ chan' = NodeTaken(n) /\ UNCHANGED stack /\ UNCHANGED used
  BY DEF NodeNone
<1>3. SameLists /\ exited' = exited /\ respond' = respond /\ SameHolders /\ SameNew
  BY <1>2, NodeFrame, HoldersSame, NewSame
<1>4. PICK m \in Msg : \E c :
           /\ m = Received(ServerOf(n), n) /\ c = NodeTaken(n) /\ m.kind = "none" /\ Family(Edge, Msg, c)
           /\ Goes(ServerOf(n), n, m) /\ m \in Flying
           /\ \A put, f, g : Gave(put, c, f, g) => Flows(TRUE, m, put, g)
  BY <1>2, NodeHearsFlow
<1>5. m.by = n
  <2>1. Way(n, m.to, m.by)
    BY <1>4 DEF Goes
  <2> QED
    BY <2>1, Tree, WayEnds
<1>6. Flows(TRUE, m, FALSE, m)
  <2>1. PICK c : c = chan' /\ \A put, f, g : Gave(put, c, f, g) => Flows(TRUE, m, put, g)
    BY <1>2, <1>4
  <2>2. Gave(FALSE, c, m, m)
    BY <2>1 DEF Gave
  <2> QED
    BY <2>1, <2>2
<1>7. OtherWants(n)
  <2>1. m \notin UNION {RequestsBy(x) : x \in Node \ {n}}
    BY <1>5 DEF RequestsBy
  <2> QED
    BY <1>3, <1>6, <2>1, WantsOfOthers
<1>8. SameTasks
  <2>1. \A j \in OneRoot : SameTask(TRUE, m, FALSE, m, j)
    BY <1>4 DEF SameTask, Carrying
  <2> QED
    BY <1>3, <1>6, <2>1, TasksStay
<1>9. WantOf(n) = -2
  <2>1. Shows(n, -2)
    BY <1>4, <1>5 DEF Shows, RequestsBy, Value
  <2> QED
    BY <2>1 DEF Found, WantFound
<1>10. WantOf(n)' = -3
  <2>1. ask'[n] = NoTask
    BY <1>1, <1>2 DEF TypeOK
  <2> QED
    BY <2>1 DEF Found, WantFound
<1> QED
  BY <1>3, <1>7, <1>8, <1>9, <1>10, ResumeSeen

LEMMA NodeRackSeen ==
  ASSUME AutoResend = 0, IInv, IInv', ~exited, Found, Found', NEW n \in Node, NodeRack(n)
  PROVE  Simulated
<1>1. /\ NodeReceives(n, "rack") /\ UNCHANGED serverVars /\ UNCHANGED termVars
      /\ chan' = NodeTaken(n) /\ UNCHANGED stack /\ UNCHANGED used
  BY DEF NodeRack
<1>2. SameLists /\ exited' = exited /\ respond' = respond /\ SameHolders /\ SameNew
  BY <1>1, NodeFrame, HoldersSame, NewSame
<1>3. PICK m \in Msg : \E c :
           /\ m = Received(ServerOf(n), n) /\ c = NodeTaken(n) /\ m.kind = "rack" /\ Family(Edge, Msg, c)
           /\ Goes(ServerOf(n), n, m) /\ m \in Flying
           /\ \A put, f, g : Gave(put, c, f, g) => Flows(TRUE, m, put, g)
  BY <1>1, NodeHearsFlow
<1>4. Flows(TRUE, m, FALSE, m)
  <2>1. PICK c : c = chan' /\ \A put, f, g : Gave(put, c, f, g) => Flows(TRUE, m, put, g)
    BY <1>1, <1>3
  <2>2. Gave(FALSE, c, m, m)
    BY <2>1 DEF Gave
  <2> QED
    BY <2>1, <2>2
<1>5. /\ \A j \in OneRoot : SameTask(TRUE, m, FALSE, m, j)
      /\ \A x \in Node : SameRequest(TRUE, m, FALSE, m, x)
  BY <1>3 DEF SameTask, SameRequest, Carrying, RequestsBy
<1>6. SameTasks /\ SameWants
  BY <1>2, <1>4, <1>5, TasksStay, WantsStay
<1> QED
  BY <1>2, <1>6, NothingSeen

(* the stack of n has one task more or one less *)
LEMMA StackSeen ==
  ASSUME TypeOK, NEW n \in Node, NEW t, NEW c, NEW d, Adds(Node, Given, c, d, n, t)
  PROVE  /\ (c = stack /\ d = stack') \/ (c = stack' /\ d = stack) =>
              \A id : id # t.id => HolderOf(id)' = HolderOf(id)
         /\ d = stack => n \in HolderOf(t.id)
         /\ d = stack' => n \in HolderOf(t.id)'
<1>1. /\ \A y \in Node : \A q \in Range(c[y]) : q \in Range(d[y])
      /\ \A y \in Node : \A q \in Range(d[y]) : (y = n /\ q = t) \/ q \in Range(c[y])
      /\ t \in Range(d[n])
  BY DEF Adds
<1>2. /\ \A id : HolderOf(id) = {x \in Node : \E q \in Range(stack[x]) : q.id = id}
      /\ \A id : HolderOf(id)' = {x \in Node : \E q \in Range(stack'[x]) : q.id = id}
  BY DEF HolderOf, Range
<1>3. ASSUME NEW id, id # t.id
      PROVE  {x \in Node : \E q \in Range(c[x]) : q.id = id} = {x \in Node : \E q \in Range(d[x]) : q.id = id}
  BY <1>1, <1>3
<1> QED
  BY <1>1, <1>2, <1>3

LEMMA NodeTaskSeen ==
  ASSUME AutoResend = 0, IInv, IInv', ~exited, Found, Found', NEW n \in Node, NodeTask(n)
  PROVE  Simulated
<1>1. TypeOK
  BY DEF IInv
<1>2. PICK m : m = Received(ServerOf(n), n)
  OBVIOUS
<1>3. /\ NodeReceives(n, "task") /\ UNCHANGED serverVars /\ UNCHANGED termVars
      /\ ask' = [ask EXCEPT ![n] = NoTask] /\ chan' = NodeTaken(n) /\ UNCHANGED used
      /\ stack' = [stack EXCEPT ![n] = Append(@, [id |-> m.id, back |-> m.from])]
  BY <1>2 DEF NodeTask
<1>4. SameLists /\ exited' = exited /\ respond' = respond /\ SameNew
  BY <1>3, NodeFrame, NewSame
<1>5. /\ m \in Msg /\ m.kind = "task" /\ Goes(ServerOf(n), n, m) /\ m \in Flying
      /\ Flows(TRUE, m, FALSE, m)
  <2>1. PICK g \in Msg : \E c :
           /\ g = Received(ServerOf(n), n) /\ c = NodeTaken(n) /\ g.kind = "task" /\ Family(Edge, Msg, c)
           /\ Goes(ServerOf(n), n, g) /\ g \in Flying
           /\ \A put, f, h : Gave(put, c, f, h) => Flows(TRUE, g, put, h)
    BY <1>3, NodeHearsFlow
  <2>2. PICK c : c = chan' /\ \A put, f, h : Gave(put, c, f, h) => Flows(TRUE, m, put, h)
    BY <1>2, <1>3, <2>1
  <2>3. Gave(FALSE, c, m, m)
    BY <2>2 DEF Gave
  <2> QED
    BY <1>2, <2>1, <2>2, <2>3
<1>6. PICK t : t = [id |-> m.id, back |-> m.from]
  OBVIOUS
<1>7. t \in Given /\ t.id = m.id /\ m.id \in Task
  BY <1>5, <1>6, MsgParts DEF Given
<1>8. PICK id \in OneRoot : id = m.id
  BY <1>7, OneRootIs
<1>9. m.by = n
  <2>1. Way(n, m.to, m.by)
    BY <1>5 DEF Goes
  <2> QED
    BY <2>1, Tree, WayEnds
<1>10. /\ \A j : j # id => HolderOf(j)' = HolderOf(j)
       /\ n \in HolderOf(id)'
  <2>1. PICK d : d = stack' /\ d = [stack EXCEPT ![n] = Append(@, t)]
    BY <1>3, <1>6
  <2>2. Adds(Node, Given, stack, d, n, t)
    BY <1>1, <1>7, <2>1, TypeParts, Finite, AppendAdds
  <2>3. t.id = id /\ d = stack'
    BY <1>7, <1>8, <2>1
  <2>4. \A j : j # t.id => HolderOf(j)' = HolderOf(j)
    BY <1>1, <2>2, <2>3, StackSeen
  <2>5. n \in HolderOf(t.id)'
    BY <1>1, <2>2, <2>3, StackSeen
  <2> QED
    BY <2>3, <2>4, <2>5
<1>11. OtherWants(n)
  <2>1. m \notin UNION {RequestsBy(x) : x \in Node \ {n}}
    BY <1>9 DEF RequestsBy
  <2> QED
    BY <1>4, <1>5, <2>1, WantsOfOthers
<1>12. WantOf(n) = id
  <2>1. Shows(n, id)
    BY <1>5, <1>8, <1>9 DEF Shows, RequestsBy, Value
  <2> QED
    BY <2>1 DEF Found, WantFound
<1>13. WantOf(n)' = -3
  <2>1. ask'[n] = NoTask
    BY <1>1, <1>3 DEF TypeOK
  <2> QED
    BY <2>1 DEF Found, WantFound
<1>14. OtherTasks(id)
  <2>1. ASSUME NEW j \in OneRoot \ {id}
        PROVE  StateOf(j)' = StateOf(j) /\ HolderOf(j)' = HolderOf(j)
    <3>1. SameTask(TRUE, m, FALSE, m, j)
      BY <1>8 DEF SameTask, Carrying
    <3> QED
      BY <1>4, <1>5, <1>10, <3>1, StateStays DEF SameNew
  <2> QED
    BY <2>1 DEF OtherTasks
<1>15. StateFound(id)' /\ HolderOf(id)' = {n}
  BY <1>10 DEF Found, StateFound
<1>16. StateOf(id)' = "running"
  <2>1. Stands(id, "given")
    BY <1>5, <1>8 DEF Stands, Stage, Carrying
  <2>2. ~IsNew(id)'
    BY <1>4, <2>1, OutIsNotNew DEF SameNew
  <2>3. Stands(id, "running")'
    BY <1>15 DEF Stands
  <2> QED
    BY <1>15, <2>2, <2>3 DEF StateFound
<1> QED
  BY <1>4, <1>11, <1>12, <1>13, <1>14, <1>15, <1>16, StartSeen

LEMMA NodeFinishSeen ==
  ASSUME AutoResend = 0, IInv, IInv', ~exited, Found, Found', NEW n \in Node, NodeFinish(n)
  PROVE  Simulated
<1>1. TypeOK
  BY DEF IInv
<1>2. PICK t : t = Last(stack[n])
  OBVIOUS
<1>3. /\ UNCHANGED serverVars /\ UNCHANGED termVars /\ UNCHANGED used
      /\ stack[n] # <<>> /\ stack' = [stack EXCEPT ![n] = Front(@)]
      /\ chan' = NodeSends(n, chan, rslt(t.back, t.id))
  BY <1>2 DEF NodeFinish
<1>4. SameLists /\ exited' = exited /\ respond' = respond /\ SameNew
  BY <1>3, NodeFrame, NewSame
<1>5. Family(Edge, Msg, chan)
  BY <1>1, TypeParts
<1>6. PICK d : d = stack' /\ Adds(Node, Given, d, stack, n, t)
  <2>1. PICK d : d = stack' /\ d = [stack EXCEPT ![n] = Front(@)]
    BY <1>3
  <2>2. Adds(Node, Given, d, stack, n, Last(stack[n]))
    BY <1>1, <1>3, <2>1, TypeParts, Finite, FrontAdds
  <2> QED
    BY <1>2, <2>1, <2>2
<1>7. t.back \in Path /\ t.id \in Task
  BY <1>6 DEF Adds, Given
<1>8. PICK id \in OneRoot : id = t.id
  BY <1>7, OneRootIs
<1>9. /\ \A j : j # id => HolderOf(j)' = HolderOf(j)
      /\ n \in HolderOf(id)
  BY <1>1, <1>6, <1>8, StackSeen
<1>10. PICK g \in Msg : g = rslt(t.back, t.id) /\ g.kind = "rslt" /\ g.id = id
  BY <1>7, <1>8, MsgMade
<1>11. PICK take, e, put, f : take = FALSE /\ e = <<ServerOf(n), n>> /\ put = TRUE /\ f = <<n, ServerOf(n)>>
  OBVIOUS
<1>12. Moves(n, take, e, chan, put, f, g)
  <2>1. Gave(put, chan, f, g)
    BY <1>3, <1>5, <1>10, <1>11, NodeSays
  <2> QED
    BY <1>10, <1>11, <2>1 DEF Moves, Took
<1>13. PICK old : old = Head(chan[e])
  OBVIOUS
<1>14. Flows(take, old, put, g)
  BY <1>1, <1>12, <1>13, MovesFlow
<1>15. SameWants
  <2>1. \A x \in Node : SameRequest(take, old, put, g, x)
    BY <1>10, <1>11 DEF SameRequest, RequestsBy
  <2> QED
    BY <1>4, <1>14, <2>1, WantsStay
<1>16. OtherTasks(id)
  <2>1. ASSUME NEW j \in OneRoot \ {id}
        PROVE  StateOf(j)' = StateOf(j) /\ HolderOf(j)' = HolderOf(j)
    <3>1. SameTask(take, old, put, g, j)
      BY <1>10, <1>11 DEF SameTask, Carrying
    <3> QED
      BY <1>4, <1>9, <1>14, <3>1, StateStays DEF SameNew
  <2> QED
    BY <2>1 DEF OtherTasks
<1>17. StateFound(id) /\ StateFound(id)'
  BY DEF Found
<1>18. HolderOf(id) = {n}
  BY <1>9, <1>17 DEF StateFound
<1>19. Stands(id, "done")'
  BY <1>10, <1>11, <1>14 DEF Flows, Stands, Stage, Carrying
<1>20. HolderOf(id)' = {}
  <2>1. HolderOf(id)' # {} => Stands(id, "running")'
    BY DEF Stands
  <2> QED
    BY <1>17, <1>19, <2>1 DEF StateFound
<1>21. StateOf(id)' = "done"
  <2>1. Stands(id, "running")
    BY <1>18 DEF Stands
  <2>2. ~IsNew(id)'
    BY <1>4, <2>1, OutIsNotNew DEF SameNew
  <2> QED
    BY <1>17, <1>19, <2>2 DEF StateFound
<1> QED
  BY <1>4, <1>15, <1>16, <1>18, <1>20, <1>21, FinishSeen

LEMMA NodeRsltSeen ==
  ASSUME AutoResend = 0, IInv, IInv', ~exited, Once, Found, Found', NEW n \in Node, NodeRslt(n)
  PROVE  Simulated
<1>1. TypeOK /\ Routes
  BY DEF IInv
<1>2. /\ NodeReceives(n, "rslt") /\ UNCHANGED serverVars /\ UNCHANGED termVars
      /\ UNCHANGED stack /\ UNCHANGED used
  BY DEF NodeRslt
<1>3. SameLists /\ exited' = exited /\ respond' = respond /\ SameHolders /\ SameNew
  BY <1>2, NodeFrame, HoldersSame, NewSame
<1>4. PICK m \in Msg : \E c :
           /\ m = Received(ServerOf(n), n) /\ m = Head(chan[<<ServerOf(n), n>>]) /\ c = NodeTaken(n)
           /\ Took(TRUE, <<ServerOf(n), n>>, c) /\ Family(Edge, Msg, c) /\ Goes(ServerOf(n), n, m)
           /\ m.kind = "rslt" /\ up[n]
  BY <1>1, <1>2, NodeHears
<1>5. PICK c :
           /\ m = Received(ServerOf(n), n) /\ m = Head(chan[<<ServerOf(n), n>>]) /\ c = NodeTaken(n)
           /\ Took(TRUE, <<ServerOf(n), n>>, c) /\ Family(Edge, Msg, c) /\ Goes(ServerOf(n), n, m)
           /\ m.kind = "rslt"
  BY <1>4
<1>6. m \in Flying
  <2>1. PICK g : g = Received(ServerOf(n), n) /\ g \in Flying
    BY <1>2, NodeHearsFlow
  <2> QED
    BY <1>5, <2>1
<1>7. HasSub(n, m.id)
  <2>1. WayHome(n, m.to, m.id)
    BY <1>5 DEF Goes
  <2>2. m.id # 0
    <3>1. ~Way(n, m.to, Term)
      BY Tree, WayEnds
    <3> QED
      BY <2>1, <3>1 DEF WayHome
  <2>3. PICK x \in Node : Way(n, m.to, x) /\ HasSub(x, m.id)
    BY <2>1, <2>2 DEF WayHome
  <2> QED
    BY <2>3, Tree, WayEnds
<1>8. PICK i : i = CHOOSE j \in DOMAIN sub[n] : sub[n][j].id = m.id
  OBVIOUS
<1>9. i \in DOMAIN sub[n]
  BY <1>7, <1>8 DEF HasSub, Range
<1>10. PICK t : t = sub[n][i]
  OBVIOUS
<1>11. chan' = NodeSends(n, c, rack(t.thief, m.id))
  BY <1>5, <1>8, <1>10 DEF NodeRslt
<1>12. t.thief \in Path /\ m.id \in Task
  <2>1. sub[n] \in Seq(Spawned)
    BY <1>1, TypeParts, FamilyElement
  <2>2. t \in Spawned
    BY <1>9, <1>10, <2>1
  <2> QED
    BY <1>5, <2>2, MsgParts DEF Spawned
<1>13. PICK id \in OneRoot : id = m.id
  BY <1>12, OneRootIs
<1>14. PICK g \in Msg : g = rack(t.thief, m.id) /\ g.kind = "rack"
  BY <1>12, MsgMade
<1>15. PICK take, e, put, f : take = TRUE /\ e = <<ServerOf(n), n>> /\ put = TRUE /\ f = <<n, ServerOf(n)>>
  OBVIOUS
<1>16. Moves(n, take, e, c, put, f, g)
  <2>1. Gave(put, c, f, g)
    BY <1>5, <1>11, <1>14, <1>15, NodeSays
  <2> QED
    BY <1>5, <1>15, <2>1 DEF Moves
<1>17. Flows(take, m, put, g)
  <2>1. m = Head(chan[e])
    BY <1>5, <1>15
  <2> QED
    BY <1>1, <1>16, <2>1, MovesFlow
<1>18. SameWants
  <2>1. \A x \in Node : SameRequest(take, m, put, g, x)
    BY <1>5, <1>14 DEF SameRequest, RequestsBy
  <2> QED
    BY <1>3, <1>17, <2>1, WantsStay
<1>19. OtherTasks(id)
  <2>1. ASSUME NEW j \in OneRoot \ {id}
        PROVE  StateOf(j)' = StateOf(j) /\ HolderOf(j)' = HolderOf(j)
    <3>1. SameTask(take, m, put, g, j)
      BY <1>5, <1>13, <1>14 DEF SameTask, Carrying
    <3> QED
      BY <1>3, <1>17, <3>1, StateStays DEF SameNew, SameHolders
  <2> QED
    BY <2>1 DEF OtherTasks
<1>20. StateFound(id) /\ StateFound(id)' /\ HolderOf(id)' = HolderOf(id)
  BY <1>3 DEF Found, SameHolders
<1>21. Stands(id, "done") /\ ~IsNew(id) /\ ~IsNew(id)'
  <2>1. Stands(id, "done")
    BY <1>5, <1>6, <1>13 DEF Stands, Stage, Carrying
  <2> QED
    BY <1>3, <2>1, OutIsNotNew DEF SameNew
<1>22. StateOf(id) = "done"
  BY <1>20, <1>21 DEF StateFound
<1>23. Where(id)' = 0
  <2>1. PICK P, Q : P = Plus(put, Edge, Carrying(id), f, g) /\ Q = Minus(take, Edge, Carrying(id), e)
    OBVIOUS
  <2>2. P = 0
    BY <1>14, <2>1 DEF Plus, At, Carrying
  <2>3. Q = 1
    <3>1. e \in Edge
      BY <1>15, Edges
    <3>2. Head(chan[e]) = m /\ m \in Carrying(id)
      BY <1>5, <1>13, <1>15 DEF Carrying
    <3> QED
      BY <1>15, <2>1, <3>1, <3>2 DEF Minus, At
  <2>4. Running(id)' = Running(id) + 0
    <3>1. Running(id) \in Nat
      BY <1>1, Counts
    <3>2. Running(id)' = Running(id)
      BY <1>2 DEF Running
    <3> QED
      BY <3>1, <3>2
  <2>5. PICK K \in Int : K = 0
    OBVIOUS
  <2>6. Running(id)' = Running(id) + K
    BY <2>4, <2>5
  <2>7. Where(id)' = Where(id) + K + P - Q /\ Where(id) \in Nat
    BY <1>1, <1>16, <2>1, <2>6, WhereNext
  <2>8. Where(id) <= 1 /\ Where(id) # 0
    BY <1>20, <1>21 DEF Once, StateFound
  <2> QED
    BY <2>2, <2>3, <2>5, <2>7, <2>8
<1>24. StateOf(id)' = "back"
  BY <1>20, <1>21, <1>23 DEF StateFound
<1> QED
  BY <1>3, <1>18, <1>19, <1>20, <1>22, <1>24, ReturnSeen

LEMMA AllUpIs == Leaver = {} /\ IInv => AllUp
BY DEF IInv, Nodes, AllUp

(* the steps, one after the other *)
LEMMA ServerSeen ==
  ASSUME AutoResend = 0, IInv, IInv', Once, ~exited, Found, ~exited' => Found', AllUp,
         NEW s \in Server, NEW h \in Links(s), Proc(s, h)
  PROVE  Simulated
<1>1. CASE ProcTreq(s, h)
  BY <1>1, ProcTreqSeen
<1>2. CASE ProcTask(s, h)
  <2>1. exited' = exited
    BY <1>2 DEF ProcTask
  <2>2. Found'
    BY <2>1
  <2> QED
    BY <1>2, <2>2, ProcTaskSeen
<1>3. CASE ProcNone(s, h)
  <2>1. exited' = exited
    BY <1>3 DEF ProcNone, termVars
  <2>2. Found'
    BY <2>1
  <2> QED
    BY <1>3, <2>2, ProcNoneSeen
<1>4. CASE ProcRslt(s, h)
  <2>1. exited' = exited
    BY <1>4 DEF ProcRslt, termVars
  <2>2. Found'
    BY <2>1
  <2> QED
    BY <1>4, <2>2, ProcRsltSeen
<1>5. CASE ProcRack(s, h)
  <2>1. exited' = exited
    BY <1>5 DEF ProcRack, termVars
  <2>2. Found'
    BY <2>1
  <2> QED
    BY <1>5, <2>2, ProcRackSeen
<1>6. CASE h \in Node /\ ProcLeav(s, h)
  BY <1>6, ProcLeavSeen
<1> QED
  BY <1>1, <1>2, <1>3, <1>4, <1>5, <1>6 DEF Proc

LEMMA RetrySeen ==
  ASSUME AutoResend = 0, IInv, IInv', Once, ~exited, Found, ~exited' => Found', AllUp,
         NEW s \in Server, Retry(s)
  PROVE  Simulated
<1>1. CASE RetryOne(s)
  BY <1>1, RetryOneSeen
<1>2. CASE RetryEnd(s)
  <2>1. exited' = exited
    BY <1>2 DEF RetryEnd, termVars
  <2>2. Found'
    BY <2>1
  <2> QED
    BY <1>2, <2>2, RetryEndSeen
<1> QED
  BY <1>1, <1>2 DEF Retry

LEMMA NodeSeen ==
  ASSUME AutoResend = 0, IInv, IInv', Once, ~exited, Found, ~exited' => Found',
         NEW n \in Node, NodeStep(n)
  PROVE  Simulated
<1>1. exited' = exited
  BY DEF NodeStep, NodeRecv, NodeTreq, NodeTask, NodeNone, NodeRslt, NodeRack, NodeAsk, NodeFinish, termVars
<1>2. Found'
  BY <1>1
<1>3. CASE NodeTreq(n)
  BY <1>2, <1>3, NodeTreqSeen
<1>4. CASE NodeTask(n)
  BY <1>2, <1>4, NodeTaskSeen
<1>5. CASE NodeNone(n)
  BY <1>2, <1>5, NodeNoneSeen
<1>6. CASE NodeRslt(n)
  BY <1>2, <1>6, NodeRsltSeen
<1>7. CASE NodeRack(n)
  BY <1>2, <1>7, NodeRackSeen
<1>8. CASE NodeAsk(n)
  BY <1>2, <1>8, NodeAskSeen
<1>9. CASE NodeFinish(n)
  BY <1>2, <1>9, NodeFinishSeen
<1> QED
  BY <1>3, <1>4, <1>5, <1>6, <1>7, <1>8, <1>9 DEF NodeStep, NodeRecv

LEMMA StutterSeen ==
  ASSUME UNCHANGED vars
  PROVE  Simulated
<1>1. UNCHANGED <<chan, talist, failed, respond, exited, ask, stack, used>>
  BY DEF vars, serverVars, termVars, nodeVars
<1>2. SameTasks
  BY <1>1 DEF SameTasks, StateOf, HolderOf, IsNew, Messages
<1>3. \A n : Kept(n)' = Kept(n)
  BY <1>1 DEF Kept, Places
<1>4. \A n : GivenTo(n)' = GivenTo(n)
  BY <1>1 DEF GivenTo, Messages
<1>5. \A kind : Messages(kind)' = Messages(kind)
  BY <1>1 DEF Messages
<1>6. ASSUME NEW n \in Node PROVE WantOf(n)' = WantOf(n)
  <2>1. ask' = ask /\ GivenTo(n)' = GivenTo(n) /\ Kept(n)' = Kept(n)
    BY <1>1, <1>3, <1>4
  <2>2. Messages("none")' = Messages("none") /\ Messages("treq")' = Messages("treq")
    BY <1>5
  <2> QED
    BY <2>1, <2>2 DEF WantOf
<1>7. SameWants
  BY <1>6 DEF SameWants
<1> QED
  BY <1>1, <1>2, <1>7, NothingSeen

LEMMA StepSeen ==
  ASSUME AutoResend = 0, Leaver = {}, IInv, IInv', AllUp, AllUp',
         ~exited => Once, ~exited' => Once', [Next]_vars
  PROVE  Simulated
<1>1. CASE UNCHANGED vars
  BY <1>1, StutterSeen
<1>2. CASE Next
  <2>1. ~exited
    BY <1>2 DEF Next
  <2>2. TypeOK /\ TypeOK'
    BY DEF IInv
  <2>3. Once
    BY <2>1
  <2>4. Found
    BY <2>2, <2>3, FoundIs
  <2>5. ~exited' => Found'
    BY <2>2, FoundNext
  <2>6. ASSUME NEW s \in Server, Retry(s) PROVE Simulated
    BY <2>1, <2>3, <2>4, <2>5, <2>6, RetrySeen
  <2>7. ASSUME NEW s \in Server, NEW h \in Links(s), Proc(s, h) PROVE Simulated
    BY <2>1, <2>3, <2>4, <2>5, <2>7, ServerSeen
  <2>8. ASSUME NEW n \in Node, NodeStep(n) PROVE Simulated
    BY <2>1, <2>3, <2>4, <2>5, <2>8, NodeSeen
  <2>9. ASSUME NEW n \in Node PROVE ~Leave(n)
    BY DEF Leave
  <2> QED
    BY <1>2, <2>6, <2>7, <2>8, <2>9 DEF Next
<1> QED
  BY <1>1, <1>2

LEMMA InitSeen == Init => Sharing!Init
<1> SUFFICES ASSUME Init PROVE Sharing!Init
  OBVIOUS
<1>1. exited = FALSE /\ respond = "initial" /\ used = 0
  BY DEF Init
<1>2. \A n \in Node : WantOf(n) = -3
  BY DEF Init, WantOf
<1>3. ASSUME NEW id \in OneRoot
      PROVE  HolderOf(id) = {}
  <2>1. \A n \in Node : stack[n] = <<>>
    BY DEF Init
  <2>2. DOMAIN <<>> = {}
    OBVIOUS
  <2> QED
    BY <2>1, <2>2, Zenon DEF HolderOf
<1>4. ASSUME NEW id \in OneRoot
      PROVE  StateOf(id) = "new"
  <2>1. IsNew(id)
    <3>1. MaxTask \in Nat
      BY TreeAssumption
    <3> QED
      BY <1>1, <3>1 DEF IsNew, OneRoot, SubTask
  <2> QED
    BY <2>1 DEF StateOf
<1> QED
  BY <1>1, <1>2, <1>3, <1>4 DEF Sharing!Init

(* While no node leaves, the servers do what WorkSharing does, in any tree   *)
(* of servers: a node that asks is refused once or given a task that nobody  *)
(* else has, it alone executes the task, and the result goes back once       *)
(* (server.lsp: proc-treq, retry-treq, proc-task, proc-none, proc-rslt).     *)
THEOREM ServersShareWork ==
  ASSUME AutoResend = 0, Leaver = {}
  PROVE  Spec => Sharing!Safe
<1>1. Init => Sharing!Init
  BY InitSeen
<1>2. IInv => AllUp
  BY AllUpIs
<1>3. IInv /\ AllUp => (~exited => Once)
  BY OnceIs
<1>4. /\ IInv /\ AllUp /\ (~exited => Once)
      /\ IInv' /\ AllUp' /\ (~exited' => Once')
      /\ [Next]_vars
      => [Sharing!Next]_<<Wanted, Stood, Held, exited>>
  <2> SUFFICES ASSUME IInv, AllUp, ~exited => Once, IInv', AllUp', ~exited' => Once', [Next]_vars
               PROVE  Sharing!Next \/ (Wanted' = Wanted /\ Stood' = Stood /\ Held' = Held /\ exited' = exited)
    OBVIOUS
  <2> QED
    BY StepSeen DEF Simulated
<1>5. [Sharing!Next]_<<Wanted, Stood, Held, exited>> => [Sharing!Next]_(Sharing!vars)
  BY DEF Sharing!vars, Wanted, Stood, Held
<1> QED
  BY <1>1, <1>2, <1>3, <1>4, <1>5, Invariance, PTL DEF Spec, Sharing!Safe
=============================================================================
