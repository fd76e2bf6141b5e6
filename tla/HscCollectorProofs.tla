-------------------------- MODULE HscCollectorProofs --------------------------
(***************************************************************************)
(* Proofs about HscCollector, for every size of the heap, every set of     *)
(* variables and every kind of object.                                     *)
(*                                                                         *)
(* IInv is the invariant of the two fingers: what lies below the scan      *)
(* pointer refers to the new half only, what lies between the scan pointer *)
(* and the end of the copies may still refer to the old one, whose objects *)
(* refer to the old half and whose forwarding pointers lead to copies.     *)
(* LInv adds that copies have the names of their originals and refer to    *)
(* the same names, and that each copy can be reached.  From both follow    *)
(* what a collection keeps, when the program is stopped, and that the heap *)
(* is a graph of objects to the program (HeapGraph).                       *)
(***************************************************************************)
EXTENDS HscCollector, TLAPS, FiniteSetTheorems, WellFoundedInduction

Quiet == {"run", "retry", "nomem"}

\* p is NULL or refers to an object of half h in the memory m
HalfRef(m, h, p) == p = Null \/ (p[1] = h /\ p[2] \in DOMAIN m[h])

HasType(m) ==
  /\ m = [h \in {0, 1} |-> m[h]]
  /\ \A h \in {0, 1} : DOMAIN m[h] \subseteq 0..ToSize - 1 /\ m[h] \in [DOMAIN m[h] -> ObjectType]

\* the memory m, with copies up to e
HeapInv(m, e) ==
  /\ HasType(m)
  /\ Tiles(m[old], allocated)
  /\ Tiles(m[new], e)
  /\ \A o \in DOMAIN m[old] : \A k \in DOMAIN m[old][o].refs : HalfRef(m, old, m[old][o].refs[k])
  /\ \A o \in DOMAIN m[old] : HalfRef(m, new, m[old][o].fwd)
  /\ \A o \in DOMAIN m[new] : m[new][o].fwd = NoFwd

\* below the scan pointer ss, and below field ii of its object, all references are new
Scanned(m, ss, ii) ==
  \A o \in DOMAIN m[new] : \A k \in DOMAIN m[new][o].refs :
    \/ HalfRef(m, new, m[new][o].refs[k])
    \/ HalfRef(m, old, m[new][o].refs[k]) /\ (o > ss \/ (o = ss /\ k >= ii))

RootsMoved(m, rt, td) == \A r \in Root : HalfRef(m, IF r \in td THEN old ELSE new, rt[r])

IInv ==
  /\ TypeOK
  /\ HeapInv(mem, b)
  /\ pc \in Quiet => /\ DOMAIN mem[new] = {} /\ b = 0
                     /\ \A r \in Root : HalfRef(mem, old, root[r])
  /\ pc \notin Quiet => /\ RootsMoved(mem, root, todo) /\ Scanned(mem, s, i)
                        /\ s \in DOMAIN mem[new] \/ s = b
  /\ pc = "scan" => s = 0 /\ i = 1
  /\ pc = "trace" => todo = {}
  /\ pc \in {"scan", "trace", "retry"} => made < MaxNew

----------------------------------------------------------------------------
\* What one step of move does to the memory, seen place by place: Put adds one object.
LEMMA PutAt ==
  ASSUME NEW m, NEW o, NEW x
  PROVE  /\ DOMAIN Put(m, o, x) = DOMAIN m \cup {o}
         /\ Put(m, o, x)[o] = x
         /\ \A q \in DOMAIN m : q # o => Put(m, o, x)[q] = m[q]
BY DEF Put

\* An object at the end of a half that is tiled up to e leaves it tiled up to its own end.
LEMMA PutTiles ==
  ASSUME NEW m, NEW e \in Nat, DOMAIN m \subseteq Nat,
         \A o \in DOMAIN m : m[o].size \in Nat \ {0},
         Tiles(m, e), NEW x, x.size \in Nat \ {0}
  PROVE  /\ e \notin DOMAIN m
         /\ Tiles(Put(m, e, x), e + x.size)
<1>1. e \notin DOMAIN m
  BY DEF Tiles
<1> DEFINE n == Put(m, e, x)
<1>2. DOMAIN n = DOMAIN m \cup {e} /\ n[e] = x /\ \A q \in DOMAIN m : n[q] = m[q]
  BY <1>1 DEF Put
<1> HIDE DEF n
<1>3. \A o \in DOMAIN n : o + n[o].size \in DOMAIN n \cup {e + x.size}
  BY <1>2 DEF Tiles
<1>4. \A o, q \in DOMAIN n : o < q => o + n[o].size <= q
  <2> SUFFICES ASSUME NEW o \in DOMAIN n, NEW q \in DOMAIN n, o < q PROVE o + n[o].size <= q
    OBVIOUS
  <2>1. o # e
    BY <1>2 DEF Tiles
  <2>2. CASE q = e
    <3>1. o + m[o].size \in DOMAIN m \cup {e}
      BY <1>2, <2>1 DEF Tiles
    <3>2. o + m[o].size <= e
      BY <3>1 DEF Tiles
    <3> QED BY <3>2, <1>2, <2>1, <2>2
  <2>3. CASE q # e
    BY <1>2, <2>1, <2>3 DEF Tiles
  <2> QED BY <2>2, <2>3
<1>5. \A o \in DOMAIN n : o < e + x.size
  BY <1>2 DEF Tiles
<1>6. 0 \in DOMAIN n
  BY <1>2 DEF Tiles
<1> QED BY <1>1, <1>3, <1>4, <1>5, <1>6 DEF Tiles, n

\* A half whose objects keep their sizes stays tiled.
LEMMA SameTiles ==
  ASSUME NEW m, NEW n, NEW e, DOMAIN n = DOMAIN m,
         \A o \in DOMAIN m : n[o].size = m[o].size, Tiles(m, e)
  PROVE  Tiles(n, e)
BY DEF Tiles

LEMMA Halves ==
  ASSUME old \in {0, 1}
  PROVE  /\ new \in {0, 1} /\ new # old /\ 1 - new = old
         /\ \A h \in {0, 1} : h = old \/ h = new
BY DEF new

\* What move(p) guarantees of a memory m, an end e and a place q it answers: q is in the new
\* half, and the memory differs by at most one copy, at the former end, which is not scanned.
MoveOK(m, e, q) ==
  /\ HeapInv(m, e) /\ HalfRef(m, new, q) /\ q \in Ref
  /\ e \in 0..ToSize /\ b <= e
  /\ DOMAIN m[old] = DOMAIN mem[old]
  /\ DOMAIN mem[new] \subseteq DOMAIN m[new]
  /\ \A o \in DOMAIN mem[new] : m[new][o] = mem[new][o]
  /\ \A o \in DOMAIN m[new] \ DOMAIN mem[new] :
       o = b /\ \A k \in DOMAIN m[new][o].refs : HalfRef(m, old, m[new][o].refs[k])
  /\ b < e => b \in DOMAIN m[new]

LEMMA MoveStays ==
  ASSUME HeapAssumption, TypeOK, HeapInv(mem, b), NEW p \in Ref,
         HalfRef(mem, old, p) \/ HalfRef(mem, new, p),
         p[1] # old \/ Obj(p).fwd # NoFwd
  PROVE  MoveOK(Move(p).mem, Move(p).b, Move(p).to)
<1>0. old \in {0, 1} /\ new \in {0, 1} /\ new # old
  BY Halves DEF TypeOK
<1>1. Move(p).mem = mem /\ Move(p).b = b
  BY DEF Move
<1>2. HalfRef(mem, new, Move(p).to) /\ Move(p).to \in Ref
  <2>1. CASE p[1] # old
    <3>1. Move(p).to = p
      BY <2>1 DEF Move
    <3> QED BY <3>1, <2>1 DEF HalfRef
  <2>2. CASE p[1] = old
    <3>1. Obj(p).fwd # NoFwd
      BY <2>2
    <3>2. Move(p).to = Obj(p).fwd
      BY <2>2, <3>1 DEF Move
    <3>3. p[2] \in DOMAIN mem[old]
      BY <2>2, <1>0 DEF HalfRef, Null
    <3>4. Obj(p) = mem[old][p[2]]
      BY <2>2 DEF Obj
    <3>5. HalfRef(mem, new, mem[old][p[2]].fwd)
      BY <3>3 DEF HeapInv
    <3>6. mem[old][p[2]] \in ObjectType
      BY <3>3, <1>0 DEF HeapInv, HasType
    <3>7. mem[old][p[2]].fwd \in Ref
      BY <3>6 DEF ObjectType
    <3> QED BY <3>2, <3>4, <3>5, <3>7
  <2> QED BY <2>1, <2>2
<1>3. b \in 0..ToSize /\ b <= b
  BY DEF TypeOK, HeapAssumption
<1> QED BY <1>1, <1>2, <1>3 DEF MoveOK

LEMMA MoveCopies ==
  ASSUME HeapAssumption, TypeOK, HeapInv(mem, b), NEW p \in Ref,
         HalfRef(mem, old, p), p[1] = old, Obj(p).fwd = NoFwd, ~Overruns(p)
  PROVE  MoveOK(Move(p).mem, Move(p).b, Move(p).to)
<1>0. old \in {0, 1} /\ new \in {0, 1} /\ new # old
  BY Halves DEF TypeOK
<1> DEFINE m == Move(p).mem
           x == mem[old][p[2]]
           q == <<new, b>>
<1>1. p[2] \in DOMAIN mem[old]
  BY <1>0 DEF HalfRef, Null
<1>2. HasType(mem)
  BY DEF HeapInv
<1>3. /\ x \in ObjectType /\ x.size \in 1..ToSize /\ x.refs \in Seq(Ref)
      /\ Obj(p) = x /\ x.fwd = NoFwd
  <2>1. x \in ObjectType
    BY <1>0, <1>1, <1>2 DEF HasType
  <2>2. x.size \in 1..ToSize /\ x.refs \in Seq(Ref)
    BY <2>1 DEF ObjectType
  <2>3. Obj(p) = x
    BY DEF Obj
  <2> QED BY <2>1, <2>2, <2>3
<1>4. /\ Move(p).to = q /\ Move(p).b = b + x.size
      /\ m = [mem EXCEPT ![new] = Put(@, b, x), ![old][p[2]].fwd = q]
  BY <1>3 DEF Move
<1>5. /\ m[new] = Put(mem[new], b, x)
      /\ m[old] = [mem[old] EXCEPT ![p[2]].fwd = q]
      /\ m = [h \in {0, 1} |-> m[h]]
  <2>1. DOMAIN mem = {0, 1}
    BY <1>2 DEF HasType
  <2>2. m[new] = Put(mem[new], b, x)
    BY <1>4, <1>0, <2>1
  <2>3. m[old] = [mem[old] EXCEPT ![p[2]].fwd = q]
    BY <1>4, <1>0, <2>1
  <2>4. m = [h \in {0, 1} |-> m[h]]
    BY <1>4, <2>1
  <2> QED BY <2>2, <2>3, <2>4
<1>6. b \in Nat /\ b + x.size < ToSize /\ ToSize \in Nat
  <2>1. b \in Nat /\ ToSize \in Nat
    BY DEF TypeOK, HeapAssumption
  <2>2. Move(p).b # b
    BY <2>1, <1>3, <1>4
  <2>3. ~(Move(p).b >= ToSize)
    BY <2>2 DEF Overruns
  <2> QED BY <2>1, <2>3, <1>3, <1>4
<1>7. q \in Ref
  BY <1>0, <1>6, <1>3 DEF Ref
<1> HIDE DEF m, x
<1>8. /\ DOMAIN m[old] = DOMAIN mem[old]
      /\ \A o \in DOMAIN mem[old] :
           /\ m[old][o].size = mem[old][o].size /\ m[old][o].refs = mem[old][o].refs
           /\ m[old][o] \in ObjectType
           /\ m[old][o].fwd = IF o = p[2] THEN q ELSE mem[old][o].fwd
  <2>1. DOMAIN m[old] = DOMAIN mem[old]
    BY <1>5
  <2> SUFFICES ASSUME NEW o \in DOMAIN mem[old]
               PROVE  /\ m[old][o].size = mem[old][o].size /\ m[old][o].refs = mem[old][o].refs
                      /\ m[old][o] \in ObjectType
                      /\ m[old][o].fwd = IF o = p[2] THEN q ELSE mem[old][o].fwd
    BY <2>1
  <2>2. mem[old][o] \in ObjectType
    BY <1>0, <1>2 DEF HasType
  <2>3. CASE o # p[2]
    <3>1. m[old][o] = mem[old][o]
      BY <2>3, <1>5
    <3> QED BY <3>1, <2>2, <2>3
  <2>4. CASE o = p[2]
    <3>1. m[old][o] = [mem[old][o] EXCEPT !.fwd = q]
      BY <2>4, <1>5
    <3> HIDE DEF q
    <3> QED BY <3>1, <2>2, <2>4, <1>7 DEF ObjectType
  <2> QED BY <2>3, <2>4
<1>9. /\ DOMAIN m[new] = DOMAIN mem[new] \cup {b}
      /\ m[new][b] = x
      /\ \A o \in DOMAIN mem[new] : o # b => m[new][o] = mem[new][o]
  BY <1>5 DEF Put
<1>10. DOMAIN mem[new] \subseteq 0..ToSize - 1 /\ \A o \in DOMAIN mem[new] : mem[new][o] \in ObjectType
  BY <1>0, <1>2 DEF HasType
<1>11. b \notin DOMAIN mem[new] /\ Tiles(m[new], b + x.size)
  <2>1. DOMAIN mem[new] \subseteq Nat
    BY <1>10, <1>6
  <2>2. \A o \in DOMAIN mem[new] : mem[new][o].size \in Nat \ {0}
    BY <1>10, <1>6 DEF ObjectType
  <2>3. Tiles(mem[new], b)
    BY DEF HeapInv
  <2>4. x.size \in Nat \ {0}
    BY <1>3, <1>6
  <2> QED BY <2>1, <2>2, <2>3, <2>4, <1>5, <1>6, PutTiles
<1>12. HasType(m)
  <2>1. DOMAIN m[old] \subseteq 0..ToSize - 1 /\ m[old] \in [DOMAIN m[old] -> ObjectType]
    <3>1. DOMAIN mem[old] \subseteq 0..ToSize - 1 /\ mem[old] = [o \in DOMAIN mem[old] |-> mem[old][o]]
      BY <1>0, <1>2 DEF HasType
    <3>2. m[old] = [o \in DOMAIN m[old] |-> m[old][o]]
      BY <1>5, <3>1
    <3> QED BY <3>1, <3>2, <1>8
  <2>2. DOMAIN m[new] \subseteq 0..ToSize - 1
    BY <1>9, <1>10, <1>6, <1>3
  <2>3. m[new] \in [DOMAIN m[new] -> ObjectType]
    <3>1. m[new] = [o \in DOMAIN m[new] |-> m[new][o]]
      BY <1>5 DEF Put
    <3>2. \A o \in DOMAIN m[new] : m[new][o] \in ObjectType
      BY <1>3, <1>9, <1>10
    <3> QED BY <3>1, <3>2
  <2> QED BY <2>1, <2>2, <2>3, <1>0, <1>5 DEF HasType
<1>13. Tiles(m[old], allocated)
  <2>1. Tiles(mem[old], allocated)
    BY DEF HeapInv
  <2> QED BY <2>1, <1>8, SameTiles
<1>14. \A o \in DOMAIN m[old] : \A k \in DOMAIN m[old][o].refs : HalfRef(m, old, m[old][o].refs[k])
  <2>1. \A o \in DOMAIN mem[old] : \A k \in DOMAIN mem[old][o].refs : HalfRef(mem, old, mem[old][o].refs[k])
    BY DEF HeapInv
  <2> QED BY <2>1, <1>8 DEF HalfRef
<1>15. \A o \in DOMAIN m[old] : HalfRef(m, new, m[old][o].fwd)
  <2>1. \A o \in DOMAIN mem[old] : HalfRef(mem, new, mem[old][o].fwd)
    BY DEF HeapInv
  <2>2. HalfRef(m, new, q)
    BY <1>9 DEF HalfRef
  <2>3. \A r : HalfRef(mem, new, r) => HalfRef(m, new, r)
    BY <1>9 DEF HalfRef
  <2> HIDE DEF q
  <2> QED BY <2>1, <2>2, <2>3, <1>8
<1>16. \A o \in DOMAIN m[new] : m[new][o].fwd = NoFwd
  <2>1. \A o \in DOMAIN mem[new] : mem[new][o].fwd = NoFwd
    BY DEF HeapInv
  <2> QED BY <2>1, <1>3, <1>9
<1>17. HeapInv(m, b + x.size)
  BY <1>11, <1>12, <1>13, <1>14, <1>15, <1>16 DEF HeapInv
<1>18. \A k \in DOMAIN m[new][b].refs : HalfRef(m, old, m[new][b].refs[k])
  <2>1. \A k \in DOMAIN x.refs : HalfRef(mem, old, x.refs[k])
    BY <1>1 DEF HeapInv, x
  <2> QED BY <2>1, <1>8, <1>9 DEF HalfRef
<1>19. HalfRef(m, new, q)
  BY <1>9 DEF HalfRef
<1>20. b + x.size \in 0..ToSize /\ b <= b + x.size
  BY <1>3, <1>6
<1> HIDE DEF q
<1>21. MoveOK(m, b + x.size, q)
  BY <1>7, <1>8, <1>9, <1>11, <1>17, <1>18, <1>19, <1>20 DEF MoveOK
<1> QED BY <1>21, <1>4 DEF m

LEMMA MoveSpec ==
  ASSUME HeapAssumption, TypeOK, HeapInv(mem, b), NEW p \in Ref,
         HalfRef(mem, old, p) \/ HalfRef(mem, new, p), ~Overruns(p)
  PROVE  MoveOK(Move(p).mem, Move(p).b, Move(p).to)
<1>0. new # old /\ old \in {0, 1} /\ new \in {0, 1}
  BY Halves DEF TypeOK
<1>1. CASE p[1] # old \/ Obj(p).fwd # NoFwd
  BY <1>1, MoveStays
<1>2. CASE p[1] = old /\ Obj(p).fwd = NoFwd
  <2>1. HalfRef(mem, old, p)
    BY <1>0, <1>2 DEF HalfRef
  <2> QED BY <1>2, <2>1, MoveCopies
<1> QED BY <1>1, <1>2

----------------------------------------------------------------------------
\* The invariant holds initially.
LEMMA InitInv == ASSUME HeapAssumption, Init PROVE IInv
<1>1. \A h \in {0, 1} : mem[h] = Empty /\ DOMAIN mem[h] = {}
  BY DEF Init, Empty
<1>2. new \in {0, 1} /\ old \in {0, 1}
  BY DEF Init, new
<1>3. TypeOK
  <2>1. mem = [h \in {0, 1} |-> mem[h]]
    BY DEF Init
  <2>2. \A h \in {0, 1} : mem[h] \in [DOMAIN mem[h] -> ObjectType]
    BY <1>1 DEF Empty
  <2>3. root \in [Root -> Ref]
    BY DEF Init, Ref
  <2>4. allocated \in 0..ToSize /\ b \in 0..ToSize /\ s \in 0..b /\ i \in Nat \ {0} /\ made \in 0..MaxNew
    BY DEF Init, HeapAssumption
  <2>5. pc = "run" /\ want = <<>> /\ todo = {}
    BY DEF Init
  <2> QED BY <1>1, <1>2, <2>1, <2>2, <2>3, <2>4, <2>5 DEF TypeOK
<1>4. HeapInv(mem, b)
  <2>1. HasType(mem)
    BY <1>3 DEF TypeOK, HasType
  <2>2. Tiles(mem[old], allocated) /\ Tiles(mem[new], b)
    BY <1>1, <1>2 DEF Tiles, Init
  <2> QED BY <1>1, <1>2, <2>1, <2>2 DEF HeapInv
<1>5. \A r \in Root : HalfRef(mem, old, root[r])
  BY DEF Init, HalfRef
<1>6. pc = "run" /\ b = 0
  BY DEF Init
<1> QED BY <1>1, <1>2, <1>3, <1>4, <1>5, <1>6 DEF IInv, Quiet

\* An object made in a quiet heap that has room for it.
LEMMA MakeStep ==
  ASSUME HeapAssumption, IInv, pc \in Quiet, made < MaxNew,
         NEW r \in Root, NEW sh \in Shape, Fits(sh), Make(r, sh), UNCHANGED <<old, b>>
  PROVE  /\ HeapInv(mem, b)'
         /\ (DOMAIN mem[new] = {})'
         /\ (\A q \in Root : HalfRef(mem, old, root[q]))'
         /\ root' \in [Root -> Ref] /\ allocated' \in 0..ToSize /\ made' \in 0..MaxNew
<1>0. /\ old \in {0, 1} /\ new \in {0, 1} /\ new # old /\ new' = new /\ old' = old
      /\ b = 0 /\ b' = 0 /\ DOMAIN mem[new] = {}
  BY Halves DEF TypeOK, IInv, new
<1>1. sh.size \in Nat \ {0} /\ sh.refs \in Nat /\ ToSize \in Nat /\ MaxNew \in Nat
  BY DEF HeapAssumption
<1>2. allocated \in Nat /\ allocated + sh.size <= ToSize /\ made \in 0..MaxNew
  BY <1>1 DEF Fits, IInv, TypeOK
<1>3. HasType(mem) /\ HeapInv(mem, b)
  BY DEF IInv, HeapInv
<1>4. PICK v \in [1..sh.refs -> {Null} \cup {root[q] : q \in Root}] :
        /\ mem' = [mem EXCEPT ![old] = Put(@, allocated,
                     [id |-> made + 1, size |-> sh.size, refs |-> v, fwd |-> NoFwd])]
        /\ root' = [root EXCEPT ![r] = <<old, allocated>>]
        /\ allocated' = allocated + sh.size
        /\ made' = made + 1
  BY DEF Make
<1> DEFINE x == [id |-> made + 1, size |-> sh.size, refs |-> v, fwd |-> NoFwd]
<1>5. \A k \in DOMAIN v : HalfRef(mem, old, v[k]) /\ v[k] \in Ref
  <2>1. \A q \in Root : HalfRef(mem, old, root[q]) /\ root[q] \in Ref
    BY DEF IInv, TypeOK
  <2>2. \A k \in DOMAIN v : v[k] = Null \/ \E q \in Root : v[k] = root[q]
    OBVIOUS
  <2> QED BY <2>1, <2>2 DEF HalfRef, Ref
<1>6. x \in ObjectType /\ x.size = sh.size /\ x.refs = v /\ x.fwd = NoFwd
  <2>1. v \in [1..sh.refs -> Ref]
    BY <1>5
  <2>2. v \in Seq(Ref)
    BY <2>1, <1>1
  <2>3. NoFwd \in Ref
    BY DEF NoFwd, Ref
  <2>4. sh.size \in 1..ToSize /\ made + 1 \in Nat
    BY <1>1, <1>2
  <2> QED BY <2>2, <2>3, <2>4 DEF ObjectType
<1>7. /\ mem'[old] = Put(mem[old], allocated, x) /\ mem'[new] = mem[new]
      /\ mem' = [h \in {0, 1} |-> mem'[h]]
  <2>1. DOMAIN mem = {0, 1}
    BY <1>3 DEF HasType
  <2> QED BY <2>1, <1>0, <1>4
<1> HIDE DEF x
<1>8. DOMAIN mem[old] \subseteq 0..ToSize - 1 /\ \A o \in DOMAIN mem[old] : mem[old][o] \in ObjectType
  BY <1>0, <1>3 DEF HasType
<1>9. allocated \notin DOMAIN mem[old] /\ Tiles(mem'[old], allocated')
  <2>1. DOMAIN mem[old] \subseteq Nat
    BY <1>1, <1>8
  <2>2. \A o \in DOMAIN mem[old] : mem[old][o].size \in Nat \ {0}
    BY <1>8 DEF ObjectType
  <2>3. Tiles(mem[old], allocated)
    BY <1>3 DEF HeapInv
  <2>4. x.size \in Nat \ {0}
    BY <1>1, <1>6
  <2> QED BY <2>1, <2>2, <2>3, <2>4, <1>2, <1>4, <1>6, <1>7, PutTiles
<1>10. /\ DOMAIN mem'[old] = DOMAIN mem[old] \cup {allocated}
       /\ mem'[old][allocated] = x
       /\ \A o \in DOMAIN mem[old] : mem'[old][o] = mem[old][o]
  BY <1>7, <1>9 DEF Put
<1>11. HasType(mem)'
  <2>1. DOMAIN mem'[old] \subseteq 0..ToSize - 1
    BY <1>1, <1>2, <1>8, <1>10
  <2>2. mem'[old] = [o \in DOMAIN mem'[old] |-> mem'[old][o]]
    BY <1>7 DEF Put
  <2>3. mem'[old] \in [DOMAIN mem'[old] -> ObjectType]
    BY <2>2, <1>6, <1>8, <1>10
  <2>4. DOMAIN mem'[new] \subseteq 0..ToSize - 1 /\ mem'[new] \in [DOMAIN mem'[new] -> ObjectType]
    BY <1>0, <1>3, <1>7 DEF HasType
  <2> QED BY <2>1, <2>3, <2>4, <1>0, <1>7 DEF HasType
<1>12. \A p : HalfRef(mem, old, p) => HalfRef(mem', old, p)
  BY <1>10 DEF HalfRef
<1>13. \A o \in DOMAIN mem'[old] : \A k \in DOMAIN mem'[old][o].refs : HalfRef(mem', old, mem'[old][o].refs[k])
  <2>1. \A o \in DOMAIN mem[old] : \A k \in DOMAIN mem[old][o].refs : HalfRef(mem, old, mem[old][o].refs[k])
    BY <1>3 DEF HeapInv
  <2> QED BY <2>1, <1>5, <1>6, <1>10, <1>12
<1>14. \A o \in DOMAIN mem'[old] : HalfRef(mem', new, mem'[old][o].fwd)
  <2>1. \A o \in DOMAIN mem[old] : HalfRef(mem, new, mem[old][o].fwd)
    BY <1>3 DEF HeapInv
  <2>2. HalfRef(mem', new, x.fwd)
    BY <1>6 DEF HalfRef, NoFwd
  <2> QED BY <2>1, <2>2, <1>7, <1>10 DEF HalfRef
<1>15. HeapInv(mem, b)'
  <2>1. Tiles(mem'[new], b)
    BY <1>3, <1>7 DEF HeapInv
  <2> QED BY <2>1, <1>0, <1>7, <1>9, <1>11, <1>13, <1>14 DEF HeapInv
<1>16. \A q \in Root : HalfRef(mem', old, root'[q])
  <2> SUFFICES ASSUME NEW q \in Root PROVE HalfRef(mem', old, root'[q])
    OBVIOUS
  <2>1. HalfRef(mem, old, root[q]) /\ root \in [Root -> Ref]
    BY DEF IInv, TypeOK
  <2>2. CASE q = r
    BY <2>1, <2>2, <1>4, <1>10 DEF HalfRef
  <2>3. CASE q # r
    BY <2>1, <2>3, <1>4, <1>12
  <2> QED BY <2>2, <2>3
<1>17. root' \in [Root -> Ref]
  <2>1. <<old, allocated>> \in Ref
    BY <1>0, <1>1, <1>2 DEF Ref
  <2> QED BY <2>1, <1>4 DEF IInv, TypeOK
<1>18. allocated' \in 0..ToSize /\ made' \in 0..MaxNew
  BY <1>1, <1>2, <1>4
<1> QED BY <1>0, <1>7, <1>15, <1>16, <1>17, <1>18

\* TypeOK of a state from its parts: what a step does not touch keeps its type.
LEMMA TypeParts ==
  ASSUME TypeOK, HasType(mem)', old' \in {0, 1}, allocated' \in 0..ToSize, root' \in [Root -> Ref],
         pc' \in {"run", "scan", "trace", "retry", "overrun", "nomem"},
         b' \in 0..ToSize, s' \in 0..b', i' \in Nat \ {0}, todo' \subseteq Root, made' \in 0..MaxNew,
         IF pc' = "run" THEN want' = <<>> ELSE want' \in Root \X Shape
  PROVE  TypeOK'
BY DEF TypeOK, HasType

\* The memory's part of the invariant, across a step that leaves the memory alone.
LEMMA HeapSame ==
  ASSUME HeapInv(mem, b), mem' = mem, old' = old, allocated' = allocated, b' = b
  PROVE  HeapInv(mem, b)'
<1>1. new' = new
  BY DEF new
<1>2. HasType(mem)'
  BY DEF HeapInv, HasType
<1>3. Tiles(mem[old], allocated)' /\ Tiles(mem[new], b)'
  BY <1>1 DEF HeapInv, Tiles
<1>4. (\A o \in DOMAIN mem[old] : \A k \in DOMAIN mem[old][o].refs : HalfRef(mem, old, mem[old][o].refs[k]))'
  BY <1>1 DEF HeapInv, HalfRef
<1>5. (\A o \in DOMAIN mem[old] : HalfRef(mem, new, mem[old][o].fwd))'
  BY <1>1 DEF HeapInv, HalfRef
<1>6. (\A o \in DOMAIN mem[new] : mem[new][o].fwd = NoFwd)'
  BY <1>1 DEF HeapInv, NoFwd, Null
<1> QED BY <1>2, <1>3, <1>4, <1>5, <1>6 DEF HeapInv

LEMMA NewStep ==
  ASSUME HeapAssumption, IInv, NEW r \in Root, NEW sh \in Shape, New(r, sh)
  PROVE  IInv'
<1>1. pc = "run" /\ pc' = "run" /\ made < MaxNew /\ Fits(sh) /\ Make(r, sh)
  BY DEF New
<1>2. UNCHANGED <<old, b, s, i, todo, want>>
  BY <1>1 DEF New, collection
<1>3. /\ HeapInv(mem, b)' /\ (DOMAIN mem[new] = {})'
      /\ (\A q \in Root : HalfRef(mem, old, root[q]))'
      /\ root' \in [Root -> Ref] /\ allocated' \in 0..ToSize /\ made' \in 0..MaxNew
  BY <1>1, <1>2, MakeStep DEF Quiet
<1>4. HasType(mem)'
  BY <1>3 DEF HeapInv
<1>5. b' = 0 /\ b = 0
  BY <1>1, <1>2 DEF IInv, Quiet
<1>6. TypeOK'
  BY <1>1, <1>2, <1>3, <1>4, TypeParts DEF IInv, TypeOK
<1> QED BY <1>1, <1>3, <1>5, <1>6 DEF IInv, Quiet

LEMMA RetryStep ==
  ASSUME HeapAssumption, IInv, Retry
  PROVE  IInv'
<1>1. pc = "retry" /\ UNCHANGED <<old, b, s, i, todo>> /\ want \in Root \X Shape /\ made < MaxNew
  BY DEF Retry, collection, IInv, TypeOK
<1>2. CASE Fits(want[2])
  <2>1. PICK r \in Root, sh \in Shape : want = <<r, sh>>
    BY <1>1
  <2>2. Fits(sh) /\ Make(r, sh) /\ pc' = "run" /\ want' = <<>>
    BY <1>2, <2>1 DEF Retry
  <2>3. /\ HeapInv(mem, b)' /\ (DOMAIN mem[new] = {})'
        /\ (\A q \in Root : HalfRef(mem, old, root[q]))'
        /\ root' \in [Root -> Ref] /\ allocated' \in 0..ToSize /\ made' \in 0..MaxNew
    BY <1>1, <2>2, MakeStep DEF Quiet
  <2>4. HasType(mem)'
    BY <2>3 DEF HeapInv
  <2>5. b' = 0 /\ b = 0
    BY <1>1 DEF IInv, Quiet
  <2>6. TypeOK'
    BY <1>1, <2>2, <2>3, <2>4, TypeParts DEF IInv, TypeOK
  <2> QED BY <2>2, <2>3, <2>5, <2>6 DEF IInv, Quiet
<1>3. CASE ~Fits(want[2])
  <2>1. pc' = "nomem" /\ UNCHANGED <<mem, old, b, s, i, todo, root, allocated, want, made>>
    BY <1>1, <1>3 DEF Retry
  <2>2. TypeOK'
    BY <1>1, <2>1 DEF IInv, TypeOK
  <2>3. HeapInv(mem, b)'
    BY <2>1, HeapSame DEF IInv
  <2> QED BY <1>1, <2>1, <2>2, <2>3 DEF IInv, Quiet, new, HalfRef
<1> QED BY <1>2, <1>3

\* A step that leaves the memory alone and keeps every variable's reference in the old half.
LEMMA RootStep ==
  ASSUME HeapAssumption, IInv, pc = "run", UNCHANGED <<mem, old, allocated, pc, b, s, i, todo, want, made>>,
         NEW r \in Root, NEW p \in Ref, HalfRef(mem, old, p), root' = [root EXCEPT ![r] = p]
  PROVE  IInv'
<1>1. root' \in [Root -> Ref]
  BY DEF IInv, TypeOK
<1>2. TypeOK'
  BY <1>1 DEF IInv, TypeOK
<1>3. \A q \in Root : HalfRef(mem, old, root'[q])
  BY DEF IInv, TypeOK, Quiet
<1>4. HeapInv(mem, b)'
  BY HeapSame DEF IInv
<1> QED BY <1>2, <1>3, <1>4 DEF IInv, Quiet, new, HalfRef

LEMMA LoadStep ==
  ASSUME HeapAssumption, IInv, NEW r \in Root, NEW q \in Root, Load(r, q)
  PROVE  IInv'
<1>1. pc = "run" /\ Exists(root[q]) /\ UNCHANGED <<mem, old, allocated, pc, b, s, i, todo, want, made>>
  BY DEF Load, collection
<1>2. PICK k \in DOMAIN Obj(root[q]).refs : root' = [root EXCEPT ![r] = Obj(root[q]).refs[k]]
  BY DEF Load
<1> DEFINE p == Obj(root[q]).refs[k]
<1>3. root[q][1] = old /\ root[q][2] \in DOMAIN mem[old]
  <2>1. HalfRef(mem, old, root[q])
    BY <1>1 DEF IInv, Quiet
  <2> QED BY <1>1, <2>1 DEF HalfRef, Exists, Null
<1>4. Obj(root[q]) = mem[old][root[q][2]]
  BY <1>3 DEF Obj
<1>5. HalfRef(mem, old, p)
  BY <1>2, <1>3, <1>4 DEF IInv, HeapInv
<1>6. p \in Ref
  <2>1. mem[old][root[q][2]] \in ObjectType
    BY <1>3 DEF IInv, HeapInv, HasType, TypeOK
  <2>2. mem[old][root[q][2]].refs \in Seq(Ref)
    BY <2>1 DEF ObjectType
  <2> QED BY <2>2, <1>2, <1>4
<1> QED BY <1>1, <1>2, <1>5, <1>6, RootStep

LEMMA ForgetStep ==
  ASSUME HeapAssumption, IInv, NEW r \in Root, Forget(r)
  PROVE  IInv'
<1>1. Null \in Ref /\ HalfRef(mem, old, Null)
  BY DEF Ref, HalfRef
<1> QED BY <1>1, RootStep DEF Forget, collection

LEMMA StartGCStep ==
  ASSUME HeapAssumption, IInv, NEW r \in Root, NEW sh \in Shape, StartGC(r, sh)
  PROVE  IInv'
<1>1. /\ pc = "run" /\ pc' = "scan" /\ b' = 0 /\ s' = 0 /\ i' = 1 /\ todo' = Root /\ want' = <<r, sh>>
      /\ made < MaxNew /\ UNCHANGED <<mem, old, allocated, root, made>>
  BY DEF StartGC
<1>2. b = 0 /\ DOMAIN mem[new] = {} /\ \A q \in Root : HalfRef(mem, old, root[q])
  BY <1>1 DEF IInv, Quiet
<1>3. HeapInv(mem, b)'
  BY <1>1, <1>2, HeapSame DEF IInv
<1>4. TypeOK'
  <2>1. ToSize \in Nat
    BY DEF HeapAssumption
  <2> QED BY <1>1, <2>1 DEF IInv, TypeOK
<1>5. RootsMoved(mem, root, todo)' /\ Scanned(mem, s, i)'
  BY <1>1, <1>2 DEF RootsMoved, Scanned, HalfRef, new
<1> QED BY <1>1, <1>3, <1>4, <1>5 DEF IInv, Quiet

LEMMA StoreStep ==
  ASSUME HeapAssumption, IInv, NEW r \in Root, NEW q \in Root, Store(r, q)
  PROVE  IInv'
<1>0. /\ old \in {0, 1} /\ new \in {0, 1} /\ new # old /\ new' = new
      /\ pc = "run" /\ Exists(root[q])
      /\ UNCHANGED <<old, allocated, root, pc, b, s, i, todo, want, made>>
  BY Halves DEF Store, collection, IInv, TypeOK, new
<1>1. PICK k \in DOMAIN Obj(root[q]).refs : mem' = [mem EXCEPT ![root[q][1]][root[q][2]].refs[k] = root[r]]
  BY DEF Store
<1>2. root[q][1] = old /\ root[q][2] \in DOMAIN mem[old]
  <2>1. HalfRef(mem, old, root[q])
    BY <1>0 DEF IInv, Quiet
  <2> QED BY <1>0, <2>1 DEF HalfRef, Exists, Null
<1> DEFINE o0 == root[q][2]
           p == root[r]
<1>3. /\ HasType(mem) /\ HeapInv(mem, b) /\ DOMAIN mem[new] = {} /\ b = 0
      /\ p \in Ref /\ HalfRef(mem, old, p)
  BY <1>0 DEF IInv, HeapInv, Quiet, TypeOK
<1>4. \A o \in DOMAIN mem[old] : mem[old][o] \in ObjectType /\ mem[old][o].refs \in Seq(Ref)
  <2>1. \A o \in DOMAIN mem[old] : mem[old][o] \in ObjectType
    BY <1>0, <1>3 DEF HasType
  <2> QED BY <2>1 DEF ObjectType
<1>5. k \in DOMAIN mem[old][o0].refs
  BY <1>1, <1>2 DEF Obj
<1> DEFINE f == [mem[old][o0].refs EXCEPT ![k] = p]
<1>6. f \in Seq(Ref) /\ DOMAIN f = DOMAIN mem[old][o0].refs
  BY <1>2, <1>3, <1>4, <1>5
<1>7. /\ mem'[new] = mem[new]
      /\ mem'[old] = [mem[old] EXCEPT ![o0] = [@ EXCEPT !.refs = f]]
      /\ mem' = [h \in {0, 1} |-> mem'[h]]
  <2>1. DOMAIN mem = {0, 1}
    BY <1>3 DEF HasType
  <2>2. mem' = [mem EXCEPT ![old] = [mem[old] EXCEPT ![o0] = [mem[old][o0] EXCEPT !.refs = [mem[old][o0].refs EXCEPT ![k] = p]]]]
    BY <1>1, <1>2
  <2> HIDE DEF f
  <2>3. mem' = [mem EXCEPT ![old] = [mem[old] EXCEPT ![o0] = [mem[old][o0] EXCEPT !.refs = f]]]
    BY <2>2 DEF f
  <2> HIDE DEF o0
  <2> QED BY <2>1, <2>3, <1>0
<1> HIDE DEF f, o0, p
<1>8. /\ DOMAIN mem'[old] = DOMAIN mem[old]
      /\ \A o \in DOMAIN mem[old] : o # o0 => mem'[old][o] = mem[old][o]
      /\ mem'[old][o0] = [mem[old][o0] EXCEPT !.refs = f]
  BY <1>2, <1>7 DEF o0
<1>9. /\ mem'[old][o0] \in ObjectType /\ mem'[old][o0].refs = f
      /\ mem'[old][o0].size = mem[old][o0].size /\ mem'[old][o0].fwd = mem[old][o0].fwd
  <2>1. mem[old][o0] \in ObjectType
    BY <1>2, <1>4 DEF o0
  <2> QED BY <2>1, <1>6, <1>8 DEF ObjectType
<1>10. HasType(mem)'
  <2>1. DOMAIN mem'[old] \subseteq 0..ToSize - 1
    BY <1>0, <1>3, <1>8 DEF HasType
  <2>2. mem'[old] = [o \in DOMAIN mem'[old] |-> mem'[old][o]]
    <3>1. mem[old] = [o \in DOMAIN mem[old] |-> mem[old][o]]
      BY <1>0, <1>3 DEF HasType
    <3> QED BY <3>1, <1>7
  <2>3. mem'[old] \in [DOMAIN mem'[old] -> ObjectType]
    BY <2>2, <1>4, <1>8, <1>9
  <2>4. DOMAIN mem'[new] \subseteq 0..ToSize - 1 /\ mem'[new] \in [DOMAIN mem'[new] -> ObjectType]
    BY <1>0, <1>3, <1>7 DEF HasType
  <2> QED BY <2>1, <2>3, <2>4, <1>0, <1>7 DEF HasType
<1>11. Tiles(mem'[old], allocated) /\ Tiles(mem'[new], b)
  <2>1. Tiles(mem[old], allocated) /\ Tiles(mem[new], b)
    BY <1>3 DEF HeapInv
  <2>2. \A o \in DOMAIN mem[old] : mem'[old][o].size = mem[old][o].size
    BY <1>8, <1>9
  <2> QED BY <2>1, <2>2, <1>7, <1>8, SameTiles
<1>12. \A o \in DOMAIN mem'[old] : \A j \in DOMAIN mem'[old][o].refs : HalfRef(mem', old, mem'[old][o].refs[j])
  <2> SUFFICES ASSUME NEW o \in DOMAIN mem'[old], NEW j \in DOMAIN mem'[old][o].refs
               PROVE  HalfRef(mem', old, mem'[old][o].refs[j])
    OBVIOUS
  <2>0. \A x : HalfRef(mem, old, x) => HalfRef(mem', old, x)
    BY <1>8 DEF HalfRef
  <2>1. \A w \in DOMAIN mem[old] : \A z \in DOMAIN mem[old][w].refs : HalfRef(mem, old, mem[old][w].refs[z])
    BY <1>3 DEF HeapInv
  <2>2. CASE o # o0
    BY <2>0, <2>1, <2>2, <1>8
  <2>3. CASE o = o0 /\ j = k
    <3>1. mem'[old][o].refs[j] = p
      BY <2>3, <1>5, <1>9 DEF f
    <3> QED BY <3>1, <2>0, <1>3
  <2>4. CASE o = o0 /\ j # k
    <3>1. j \in DOMAIN mem[old][o0].refs /\ mem'[old][o].refs[j] = mem[old][o0].refs[j]
      BY <2>4, <1>6, <1>9 DEF f
    <3> QED BY <3>1, <2>0, <2>1, <2>4, <1>8
  <2> QED BY <2>2, <2>3, <2>4
<1>13. \A o \in DOMAIN mem'[old] : HalfRef(mem', new, mem'[old][o].fwd)
  <2>1. \A o \in DOMAIN mem[old] : HalfRef(mem, new, mem[old][o].fwd)
    BY <1>3 DEF HeapInv
  <2> QED BY <2>1, <1>7, <1>8, <1>9 DEF HalfRef
<1>14. HeapInv(mem, b)'
  BY <1>0, <1>3, <1>7, <1>10, <1>11, <1>12, <1>13 DEF HeapInv
<1>15. \A x \in Root : HalfRef(mem', old, root[x])
  BY <1>0, <1>8 DEF IInv, Quiet, HalfRef
<1>16. TypeOK'
  BY <1>0, <1>10, TypeParts DEF IInv, TypeOK
<1> QED BY <1>0, <1>3, <1>7, <1>14, <1>15, <1>16 DEF IInv, Quiet

LEMMA OverrunStep ==
  ASSUME HeapAssumption, IInv, pc \in {"scan", "trace"}, Overrun
  PROVE  IInv'
<1>1. pc' = "overrun" /\ UNCHANGED <<mem, old, allocated, root, b, s, i, todo, want, made>>
  BY DEF Overrun, collection
<1>2. HeapInv(mem, b)'
  BY <1>1, HeapSame DEF IInv
<1>3. TypeOK'
  BY <1>1 DEF IInv, TypeOK
<1>4. RootsMoved(mem, root, todo) /\ Scanned(mem, s, i) /\ (s \in DOMAIN mem[new] \/ s = b)
  BY DEF IInv, Quiet
<1>5. RootsMoved(mem, root, todo)' /\ Scanned(mem, s, i)' /\ (s \in DOMAIN mem[new] \/ s = b)'
  BY <1>1, <1>4 DEF RootsMoved, Scanned, HalfRef, new
<1> QED BY <1>1, <1>2, <1>3, <1>5 DEF IInv, Quiet

LEMMA NextObjectStep ==
  ASSUME HeapAssumption, IInv, NextObject
  PROVE  IInv'
<1>1. /\ pc = "trace" /\ s < b /\ i > Len(mem[new][s].refs)
      /\ s' = s + mem[new][s].size /\ i' = 1
      /\ UNCHANGED <<mem, old, allocated, root, pc, b, todo, want, made>>
  BY DEF NextObject
<1>2. HeapInv(mem, b)' /\ HeapInv(mem, b) /\ new' = new
  BY <1>1, HeapSame DEF IInv, new
<1>3. /\ new \in {0, 1} /\ old \in {0, 1} /\ s \in Nat /\ b \in Nat /\ i \in Nat /\ ToSize \in Nat
  BY Halves DEF IInv, TypeOK, HeapAssumption
<1>4. s \in DOMAIN mem[new]
  BY <1>1, <1>3 DEF IInv, Quiet
<1>5. /\ \A o \in DOMAIN mem[new] : mem[new][o] \in ObjectType /\ o \in Nat
      /\ mem[new][s].size \in Nat \ {0} /\ mem[new][s].refs \in Seq(Ref)
  <2>1. \A o \in DOMAIN mem[new] : mem[new][o] \in ObjectType /\ o \in Nat
    BY <1>2, <1>3 DEF HeapInv, HasType
  <2> QED BY <2>1, <1>3, <1>4 DEF ObjectType
<1>6. /\ s' \in DOMAIN mem[new] \/ s' = b
      /\ \A o \in DOMAIN mem[new] : o < b
      /\ \A o \in DOMAIN mem[new] : s < o => s' <= o
  BY <1>1, <1>2, <1>4 DEF HeapInv, Tiles
<1>7. s' \in 0..b'
  BY <1>1, <1>3, <1>5, <1>6
<1>8. TypeOK'
  BY <1>1, <1>7 DEF IInv, TypeOK
<1>9. Scanned(mem, s', 1)
  <2> SUFFICES ASSUME NEW o \in DOMAIN mem[new], NEW k \in DOMAIN mem[new][o].refs,
                      ~HalfRef(mem, new, mem[new][o].refs[k])
               PROVE  HalfRef(mem, old, mem[new][o].refs[k]) /\ (o > s' \/ (o = s' /\ k >= 1))
    BY DEF Scanned
  <2>1. HalfRef(mem, old, mem[new][o].refs[k]) /\ (o > s \/ (o = s /\ k >= i))
    BY <1>1 DEF IInv, Quiet, Scanned
  <2>2. mem[new][o].refs \in Seq(Ref)
    BY <1>5 DEF ObjectType
  <2>3. k \in 1..Len(mem[new][o].refs)
    BY <2>2
  <2>4. o # s
    BY <1>1, <1>3, <2>1, <2>3, <1>5
  <2>5. o >= s'
    BY <1>3, <1>5, <1>6, <2>1, <2>4
  <2> QED BY <2>1, <2>3, <2>5, <1>3, <1>5, <1>7
<1>10. RootsMoved(mem, root, todo)
  BY <1>1 DEF IInv, Quiet
<1>11. RootsMoved(mem, root, todo)' /\ Scanned(mem, s, i)' /\ (s \in DOMAIN mem[new] \/ s = b)'
  BY <1>1, <1>2, <1>6, <1>9, <1>10 DEF RootsMoved, Scanned, HalfRef
<1>12. todo' = {} /\ pc' = "trace" /\ made' < MaxNew
  BY <1>1 DEF IInv
<1> QED BY <1>2, <1>8, <1>11, <1>12 DEF IInv, Quiet

LEMMA FlipStep ==
  ASSUME HeapAssumption, IInv, Flip
  PROVE  IInv'
<1>1. /\ pc = "trace" /\ s = b /\ allocated' = b /\ old' = new /\ mem' = [mem EXCEPT ![old] = Empty]
      /\ pc' = "retry" /\ b' = 0 /\ s' = 0 /\ UNCHANGED <<root, i, todo, want, made>>
  BY DEF Flip
<1>2. new \in {0, 1} /\ old \in {0, 1} /\ new # old /\ new' = old
  BY <1>1, Halves DEF IInv, TypeOK, new
<1>3. HeapInv(mem, b) /\ HasType(mem) /\ todo = {} /\ s \in Nat /\ i \in Nat /\ b \in 0..ToSize /\ ToSize \in Nat
  <2>1. HeapInv(mem, b) /\ HasType(mem) /\ todo = {}
    BY <1>1 DEF IInv, HeapInv
  <2>2. s \in 0..b /\ i \in Nat /\ b \in 0..ToSize /\ ToSize \in Nat
    BY DEF IInv, TypeOK, HeapAssumption
  <2> QED BY <2>1, <2>2
<1>4. /\ mem'[new] = mem[new] /\ mem'[old] = Empty /\ DOMAIN mem'[old] = {}
      /\ mem' = [h \in {0, 1} |-> mem'[h]]
  <2>1. DOMAIN mem = {0, 1}
    BY <1>3 DEF HasType
  <2> QED BY <2>1, <1>1, <1>2 DEF Empty
<1>5. \A o \in DOMAIN mem[new] : o \in Nat /\ o < s
  BY <1>1, <1>2, <1>3 DEF HeapInv, Tiles, HasType
<1>6. \A o \in DOMAIN mem[new] : \A k \in DOMAIN mem[new][o].refs : HalfRef(mem, new, mem[new][o].refs[k])
  <2>1. Scanned(mem, s, i)
    BY <1>1 DEF IInv, Quiet
  <2> QED BY <2>1, <1>3, <1>5 DEF Scanned
<1>7. \A r \in Root : HalfRef(mem, new, root[r])
  BY <1>1, <1>3 DEF IInv, Quiet, RootsMoved
<1>8. HasType(mem)'
  <2>1. DOMAIN mem'[new] \subseteq 0..ToSize - 1 /\ mem'[new] \in [DOMAIN mem'[new] -> ObjectType]
    BY <1>2, <1>3, <1>4 DEF HasType
  <2>2. DOMAIN mem'[old] \subseteq 0..ToSize - 1 /\ mem'[old] \in [DOMAIN mem'[old] -> ObjectType]
    BY <1>4 DEF Empty
  <2> QED BY <2>1, <2>2, <1>2, <1>4 DEF HasType
<1>9. Tiles(mem'[new], b) /\ Tiles(mem'[old], 0)
  BY <1>3, <1>4 DEF HeapInv, Tiles
<1>10. \A o \in DOMAIN mem'[new] : \A k \in DOMAIN mem'[new][o].refs : HalfRef(mem', new, mem'[new][o].refs[k])
  BY <1>4, <1>6 DEF HalfRef
<1>11. \A o \in DOMAIN mem'[new] : HalfRef(mem', old, mem'[new][o].fwd)
  BY <1>3, <1>4 DEF HeapInv, HalfRef, NoFwd
<1>12. HeapInv(mem, b)'
  BY <1>1, <1>2, <1>4, <1>8, <1>9, <1>10, <1>11 DEF HeapInv
<1>13. \A r \in Root : HalfRef(mem', new, root'[r])
  BY <1>1, <1>4, <1>7 DEF HalfRef
<1>14. TypeOK'
  <2>1. allocated' \in 0..ToSize /\ b' \in 0..ToSize /\ s' \in 0..b'
    BY <1>1, <1>3
  <2> QED BY <1>1, <1>2, <1>8, <2>1, TypeParts DEF IInv, TypeOK
<1>15. made' < MaxNew
  BY <1>1 DEF IInv
<1> QED BY <1>1, <1>2, <1>4, <1>12, <1>13, <1>14, <1>15 DEF IInv, Quiet

\* scan moves one variable.
LEMMA ScanRootStep ==
  ASSUME HeapAssumption, IInv, NEW r \in Root, ScanRoot(r)
  PROVE  IInv'
<1>1. pc = "scan" /\ r \in todo
  BY DEF ScanRoot
<1>2. CASE Overruns(root[r])
  <2>1. Overrun
    BY <1>2 DEF ScanRoot
  <2> QED BY <1>1, <2>1, OverrunStep
<1>3. CASE ~Overruns(root[r])
  <2> DEFINE m == Move(root[r]).mem
             e == Move(root[r]).b
             q == Move(root[r]).to
  <2>1. /\ root' = [root EXCEPT ![r] = q] /\ mem' = m /\ b' = e /\ todo' = todo \ {r}
        /\ pc' = IF todo' = {} THEN "trace" ELSE pc
        /\ UNCHANGED <<old, allocated, s, i, want, made>>
    BY <1>3 DEF ScanRoot
  <2>2. /\ root \in [Root -> Ref] /\ s = 0 /\ i = 1 /\ made < MaxNew /\ TypeOK /\ HeapInv(mem, b)
        /\ RootsMoved(mem, root, todo) /\ Scanned(mem, s, i) /\ (s \in DOMAIN mem[new] \/ s = b)
    BY <1>1 DEF IInv, TypeOK, Quiet
  <2>3. HalfRef(mem, old, root[r])
    BY <1>1, <2>2 DEF RootsMoved
  <2>4. MoveOK(m, e, q)
    BY <1>3, <2>2, <2>3, MoveSpec
  <2> HIDE DEF m, e, q
  <2>5. new' = new
    BY <2>1 DEF new
  <2>6. HeapInv(mem, b)'
    <3>1. HeapInv(m, e)
      BY <2>4 DEF MoveOK
    <3> QED BY <3>1, <2>1, <2>5 DEF HeapInv, HasType, HalfRef
  <2>7. \A x : /\ HalfRef(mem, old, x) => HalfRef(m, old, x)
               /\ HalfRef(mem, new, x) => HalfRef(m, new, x)
    BY <2>4 DEF MoveOK, HalfRef
  <2>8. RootsMoved(m, root', todo')
    <3> SUFFICES ASSUME NEW x \in Root PROVE HalfRef(m, IF x \in todo' THEN old ELSE new, root'[x])
      BY DEF RootsMoved
    <3>1. CASE x = r
      BY <3>1, <2>1, <2>2, <2>4 DEF MoveOK
    <3>2. CASE x # r
      BY <3>2, <2>1, <2>2, <2>7 DEF RootsMoved
    <3> QED BY <3>1, <3>2
  <2>9. b \in Nat /\ s \in Nat /\ i \in Nat
    BY <2>2 DEF TypeOK, HeapAssumption
  <2>10. Scanned(m, s, i)
    <3> SUFFICES ASSUME NEW o \in DOMAIN m[new], NEW k \in DOMAIN m[new][o].refs
                 PROVE  \/ HalfRef(m, new, m[new][o].refs[k])
                        \/ HalfRef(m, old, m[new][o].refs[k]) /\ (o > s \/ (o = s /\ k >= i))
      BY DEF Scanned
    <3>1. CASE o \in DOMAIN mem[new]
      <4>1. m[new][o] = mem[new][o]
        BY <3>1, <2>4 DEF MoveOK
      <4> QED BY <3>1, <4>1, <2>2, <2>7 DEF Scanned
    <3>2. CASE o \notin DOMAIN mem[new]
      <4>1. o = b /\ HalfRef(m, old, m[new][o].refs[k])
        BY <3>2, <2>4 DEF MoveOK
      <4>2. k \in Nat \ {0}
        <5>1. m[new][o] \in ObjectType
          BY <2>2, <2>4, Halves DEF MoveOK, HeapInv, HasType, TypeOK
        <5>2. m[new][o].refs \in Seq(Ref)
          BY <5>1 DEF ObjectType
        <5> QED BY <5>2
      <4> QED BY <4>1, <4>2, <2>2, <2>9
    <3> QED BY <3>1, <3>2
  <2>11. s \in DOMAIN m[new] \/ s = e
    BY <2>2, <2>4, <2>9 DEF MoveOK
  <2>12. TypeOK'
    <3>1. HasType(mem)'
      BY <2>6 DEF HeapInv
    <3>2. root' \in [Root -> Ref] /\ b' \in 0..ToSize /\ s' \in 0..b'
      BY <2>1, <2>2, <2>4, <2>9 DEF MoveOK
    <3>3. todo' \subseteq Root
      BY <2>1 DEF IInv, TypeOK
    <3>4. pc' \in {"scan", "trace"} /\ pc # "run" /\ pc' # "run"
      BY <1>1, <2>1
    <3> QED BY <3>1, <3>2, <3>3, <3>4, <2>1, <2>2, TypeParts DEF TypeOK
  <2>13. RootsMoved(mem, root, todo)' /\ Scanned(mem, s, i)' /\ (s \in DOMAIN mem[new] \/ s = b)'
    BY <2>1, <2>5, <2>8, <2>10, <2>11 DEF RootsMoved, Scanned, HalfRef
  <2>14. pc' \notin Quiet /\ (pc' = "trace" => todo' = {}) /\ s' = 0 /\ i' = 1 /\ made' < MaxNew
    BY <1>1, <2>1, <2>2 DEF Quiet
  <2> QED BY <2>6, <2>12, <2>13, <2>14 DEF IInv
<1> QED BY <1>2, <1>3

\* One reference of a copied object is moved.
LEMMA ScanLinkStep ==
  ASSUME HeapAssumption, IInv, ScanLink
  PROVE  IInv'
<1> DEFINE p == mem[new][s].refs[i]
<1>1. pc = "trace" /\ s < b /\ i <= Len(mem[new][s].refs)
  BY DEF ScanLink
<1>2. CASE Overruns(p)
  <2>1. Overrun
    BY <1>2 DEF ScanLink
  <2> QED BY <1>1, <2>1, OverrunStep
<1>3. CASE ~Overruns(p)
  <2> DEFINE m == Move(p).mem
             e == Move(p).b
             q == Move(p).to
  <2>1. /\ mem' = [m EXCEPT ![new][s].refs[i] = q] /\ b' = e /\ i' = i + 1
        /\ UNCHANGED <<old, allocated, root, pc, s, todo, want, made>>
    BY <1>3 DEF ScanLink
  <2>2. /\ made < MaxNew /\ TypeOK /\ HeapInv(mem, b) /\ todo = {}
        /\ RootsMoved(mem, root, todo) /\ Scanned(mem, s, i) /\ (s \in DOMAIN mem[new] \/ s = b)
    BY <1>1 DEF IInv, Quiet
  <2>3. /\ old \in {0, 1} /\ new \in {0, 1} /\ new # old /\ new' = new
        /\ b \in Nat /\ s \in Nat /\ i \in Nat \ {0} /\ ToSize \in Nat
    <3>1. old \in {0, 1} /\ new \in {0, 1} /\ new # old /\ new' = new
      BY <2>1, <2>2, Halves DEF TypeOK, new
    <3>2. ToSize \in Nat /\ b \in 0..ToSize /\ s \in 0..b /\ i \in Nat \ {0}
      BY <2>2 DEF TypeOK, HeapAssumption
    <3> QED BY <3>1, <3>2
  <2>4. s \in DOMAIN mem[new]
    BY <1>1, <2>2, <2>3
  <2>5. /\ mem[new][s] \in ObjectType /\ mem[new][s].refs \in Seq(Ref)
        /\ i \in DOMAIN mem[new][s].refs /\ p \in Ref
    <3>1. mem[new][s] \in ObjectType
      BY <2>2, <2>3, <2>4 DEF HeapInv, HasType
    <3>2. mem[new][s].refs \in Seq(Ref)
      BY <3>1 DEF ObjectType
    <3> QED BY <3>1, <3>2, <1>1, <2>3
  <2>6. HalfRef(mem, old, p) \/ HalfRef(mem, new, p)
    BY <2>2, <2>4, <2>5 DEF Scanned
  <2>7. MoveOK(m, e, q)
    <3> HIDE DEF p
    <3> QED BY <1>3, <2>2, <2>5, <2>6, MoveSpec
  <2> HIDE DEF m, e, q
  <2>8. HeapInv(m, e) /\ HasType(m) /\ HalfRef(m, new, q) /\ q \in Ref /\ e \in 0..ToSize /\ b <= e
    BY <2>7 DEF MoveOK, HeapInv
  <2>9. s \in DOMAIN m[new] /\ m[new][s] = mem[new][s]
    BY <2>4, <2>7 DEF MoveOK
  <2> DEFINE f == [mem[new][s].refs EXCEPT ![i] = q]
  <2>10. f \in Seq(Ref) /\ DOMAIN f = DOMAIN mem[new][s].refs
    BY <2>5, <2>8
  <2>11. /\ mem'[old] = m[old] /\ mem' = [h \in {0, 1} |-> mem'[h]]
         /\ mem'[new] = [m[new] EXCEPT ![s] = [@ EXCEPT !.refs = f]]
    <3>1. DOMAIN m = {0, 1}
      BY <2>8 DEF HasType
    <3>2. mem' = [m EXCEPT ![new] = [m[new] EXCEPT ![s] = [m[new][s] EXCEPT !.refs = [m[new][s].refs EXCEPT ![i] = q]]]]
      BY <2>1
    <3> HIDE DEF f
    <3>3. mem' = [m EXCEPT ![new] = [m[new] EXCEPT ![s] = [m[new][s] EXCEPT !.refs = f]]]
      BY <3>2, <2>9 DEF f
    <3> QED BY <3>1, <3>3, <2>3
  <2> HIDE DEF f
  <2>12. /\ DOMAIN mem'[new] = DOMAIN m[new]
         /\ \A o \in DOMAIN m[new] : o # s => mem'[new][o] = m[new][o]
         /\ mem'[new][s] = [m[new][s] EXCEPT !.refs = f]
    BY <2>9, <2>11
  <2>13. /\ mem'[new][s] \in ObjectType /\ mem'[new][s].refs = f
         /\ mem'[new][s].size = m[new][s].size /\ mem'[new][s].fwd = m[new][s].fwd
    BY <2>5, <2>9, <2>10, <2>12 DEF ObjectType
  <2>14. HasType(mem)'
    <3>1. DOMAIN mem'[new] \subseteq 0..ToSize - 1
      BY <2>3, <2>8, <2>12 DEF HasType
    <3>2. mem'[new] = [o \in DOMAIN mem'[new] |-> mem'[new][o]]
      <4>1. m[new] = [o \in DOMAIN m[new] |-> m[new][o]]
        BY <2>3, <2>8 DEF HasType
      <4> QED BY <4>1, <2>11
    <3>3. \A o \in DOMAIN m[new] : m[new][o] \in ObjectType
      BY <2>3, <2>8 DEF HasType
    <3>4. mem'[new] \in [DOMAIN mem'[new] -> ObjectType]
      BY <3>2, <3>3, <2>12, <2>13
    <3>5. DOMAIN mem'[old] \subseteq 0..ToSize - 1 /\ mem'[old] \in [DOMAIN mem'[old] -> ObjectType]
      BY <2>3, <2>8, <2>11 DEF HasType
    <3> QED BY <3>1, <3>4, <3>5, <2>3, <2>11 DEF HasType
  <2>15. Tiles(mem'[old], allocated) /\ Tiles(mem'[new], e)
    <3>1. Tiles(m[old], allocated) /\ Tiles(m[new], e)
      BY <2>8 DEF HeapInv
    <3>2. \A o \in DOMAIN m[new] : mem'[new][o].size = m[new][o].size
      BY <2>12, <2>13
    <3> QED BY <3>1, <3>2, <2>11, <2>12, SameTiles
  <2>16. \A x : /\ HalfRef(m, old, x) => HalfRef(mem', old, x)
                /\ HalfRef(m, new, x) => HalfRef(mem', new, x)
                /\ HalfRef(mem, new, x) => HalfRef(mem', new, x)
                /\ HalfRef(mem, old, x) => HalfRef(mem', old, x)
    BY <2>7, <2>11, <2>12 DEF HalfRef, MoveOK
  <2>17. \A o \in DOMAIN mem'[old] : \A k \in DOMAIN mem'[old][o].refs : HalfRef(mem', old, mem'[old][o].refs[k])
    BY <2>8, <2>11, <2>16 DEF HeapInv
  <2>18. \A o \in DOMAIN mem'[old] : HalfRef(mem', new, mem'[old][o].fwd)
    BY <2>8, <2>11, <2>16 DEF HeapInv
  <2>19. \A o \in DOMAIN mem'[new] : mem'[new][o].fwd = NoFwd
    BY <2>8, <2>9, <2>12, <2>13 DEF HeapInv
  <2>20. HeapInv(mem, b)'
    BY <2>1, <2>3, <2>14, <2>15, <2>17, <2>18, <2>19 DEF HeapInv, NoFwd, Null
  <2>21. Scanned(mem', s, i + 1)
    <3> SUFFICES ASSUME NEW o \in DOMAIN mem'[new], NEW k \in DOMAIN mem'[new][o].refs
                 PROVE  \/ HalfRef(mem', new, mem'[new][o].refs[k])
                        \/ HalfRef(mem', old, mem'[new][o].refs[k]) /\ (o > s \/ (o = s /\ k >= i + 1))
      BY DEF Scanned
    <3>1. CASE o \notin DOMAIN mem[new]
      <4>1. o # s /\ o = b /\ HalfRef(m, old, m[new][o].refs[k])
        BY <3>1, <2>4, <2>7, <2>12 DEF MoveOK
      <4> QED BY <4>1, <1>1, <2>3, <2>12, <2>16
    <3>2. CASE o \in DOMAIN mem[new] /\ o # s
      <4>1. mem'[new][o] = mem[new][o]
        BY <3>2, <2>7, <2>12 DEF MoveOK
      <4>2. \/ HalfRef(mem, new, mem[new][o].refs[k])
            \/ HalfRef(mem, old, mem[new][o].refs[k]) /\ o > s
        BY <3>2, <4>1, <2>2 DEF Scanned
      <4> QED BY <4>1, <4>2, <2>16
    <3>3. CASE o = s /\ k = i
      <4>1. mem'[new][o].refs[k] = q
        BY <3>3, <2>5, <2>13 DEF f
      <4> QED BY <4>1, <2>8, <2>16
    <3>4. CASE o = s /\ k # i
      <4>1. k \in DOMAIN mem[new][s].refs /\ mem'[new][o].refs[k] = mem[new][s].refs[k]
        BY <3>4, <2>10, <2>13 DEF f
      <4>2. \/ HalfRef(mem, new, mem[new][s].refs[k])
            \/ HalfRef(mem, old, mem[new][s].refs[k]) /\ k >= i
        BY <4>1, <2>2, <2>3, <2>4 DEF Scanned
      <4>3. k \in Nat
        BY <4>1, <2>5
      <4> QED BY <3>4, <4>1, <4>2, <4>3, <2>3, <2>16
    <3> QED BY <3>1, <3>2, <3>3, <3>4
  <2>22. RootsMoved(mem', root, todo)
    BY <2>2, <2>16 DEF RootsMoved
  <2>23. RootsMoved(mem, root, todo)' /\ Scanned(mem, s, i)' /\ (s \in DOMAIN mem[new])'
    BY <2>1, <2>3, <2>9, <2>12, <2>21, <2>22 DEF RootsMoved, Scanned, HalfRef, Null
  <2>24. TypeOK'
    <3>1. b' \in 0..ToSize /\ s' \in 0..b' /\ i' \in Nat \ {0}
      BY <1>1, <2>1, <2>3, <2>8
    <3> QED BY <3>1, <1>1, <2>1, <2>2, <2>14, TypeParts DEF TypeOK
  <2>25. pc' \notin Quiet /\ todo' = {} /\ pc' = "trace" /\ made' < MaxNew
    BY <1>1, <2>1, <2>2 DEF Quiet
  <2> QED BY <2>20, <2>23, <2>24, <2>25 DEF IInv
<1> QED BY <1>2, <1>3

----------------------------------------------------------------------------
\* What the invariant is for.

\* The invariant of the two fingers holds in every state, for every heap and program.
THEOREM CollectorInvariant == Spec => []IInv
<1>1. Init => IInv
  BY HeapAssumption, InitInv
<1>2. IInv /\ [Next]_vars => IInv'
  <2> SUFFICES ASSUME IInv, [Next]_vars PROVE IInv'
    OBVIOUS
  <2> USE HeapAssumption
  <2>1. ASSUME NEW r \in Root, ScanRoot(r) PROVE IInv'
    BY <2>1, ScanRootStep
  <2>2. CASE ScanLink \/ NextObject \/ Flip \/ Retry
    BY <2>2, ScanLinkStep, NextObjectStep, FlipStep, RetryStep
  <2>3. ASSUME NEW r \in Root, NEW sh \in Shape, New(r, sh) \/ StartGC(r, sh) PROVE IInv'
    BY <2>3, NewStep, StartGCStep
  <2>4. ASSUME NEW r \in Root, NEW q \in Root, Load(r, q) \/ Store(r, q) PROVE IInv'
    BY <2>4, LoadStep, StoreStep
  <2>5. ASSUME NEW r \in Root, Forget(r) PROVE IInv'
    BY <2>5, ForgetStep
  <2>6. CASE UNCHANGED vars
    <3>1. UNCHANGED <<mem, old, allocated, root, pc, b, s, i, todo, want, made>>
      BY <2>6 DEF vars
    <3>2. HeapInv(mem, b)'
      BY <3>1, HeapSame DEF IInv
    <3>3. TypeOK'
      BY <3>1 DEF IInv, TypeOK
    <3>4. pc \in Quiet => (DOMAIN mem[new] = {} /\ \A r \in Root : HalfRef(mem, old, root[r]))'
      BY <3>1 DEF IInv, HalfRef, new
    <3>5. pc \notin Quiet => (RootsMoved(mem, root, todo) /\ Scanned(mem, s, i)
                              /\ (s \in DOMAIN mem[new] \/ s = b))'
      BY <3>1 DEF IInv, RootsMoved, Scanned, HalfRef, new
    <3> QED BY <3>1, <3>2, <3>3, <3>4, <3>5 DEF IInv, Quiet
  <2> QED BY <2>1, <2>2, <2>3, <2>4, <2>5, <2>6 DEF Next, Collect
<1> QED BY <1>1, <1>2, PTL DEF Spec

\* Every variable keeps its type: the copies never leave the half they are made in.
THEOREM CollectorTypes == Spec => []TypeOK
<1>1. IInv => TypeOK
  BY DEF IInv
<1> QED BY <1>1, CollectorInvariant, PTL

Room == b < ToSize

\* Objects never overlap, both halves are filled without gaps, and the copies end before
\* their half does.
THEOREM CollectorTiled == Spec => []Tiled
<1>1. Init => Room
  BY HeapAssumption DEF HeapAssumption, Init, Room
<1>2. IInv' /\ Room /\ [Next]_vars => Room'
  <2> SUFFICES ASSUME IInv', b < ToSize, [Next]_vars PROVE b' < ToSize
    BY DEF Room
  <2>1. b' \in Int /\ ToSize \in Int /\ 0 < ToSize
    BY HeapAssumption DEF IInv, TypeOK, HeapAssumption
  <2>2. ASSUME NEW p, ~Overruns(p), b' = Move(p).b PROVE b' < ToSize
    <3>1. Move(p).b = b \/ ~(Move(p).b >= ToSize)
      BY <2>2 DEF Overruns
    <3>2. b' = b \/ ~(b' >= ToSize)
      BY <2>2, <3>1
    <3> QED BY <2>1, <3>2
  <2>3. ASSUME NEW r \in Root, ScanRoot(r) PROVE b' < ToSize
    <3>1. b' = b \/ (~Overruns(root[r]) /\ b' = Move(root[r]).b)
      BY <2>3 DEF ScanRoot, Overrun, collection
    <3> QED BY <2>2, <3>1
  <2>4. CASE ScanLink
    <3>1. PICK p : p = mem[new][s].refs[i]
      OBVIOUS
    <3>2. b' = b \/ (~Overruns(p) /\ b' = Move(p).b)
      BY <2>4, <3>1 DEF ScanLink, Overrun, collection
    <3> QED BY <2>2, <3>2
  <2>5. CASE NextObject \/ Flip \/ Retry
    BY <2>1, <2>5 DEF NextObject, Flip, Retry, collection
  <2>6. ASSUME NEW r \in Root, NEW sh \in Shape, New(r, sh) \/ StartGC(r, sh) PROVE b' < ToSize
    BY <2>1, <2>6 DEF New, StartGC, collection
  <2>7. ASSUME NEW r \in Root, NEW q \in Root, Load(r, q) \/ Store(r, q) \/ Forget(r)
        PROVE  b' < ToSize
    BY <2>7 DEF Load, Store, Forget, collection
  <2>8. CASE UNCHANGED vars
    BY <2>8 DEF vars
  <2> QED BY <2>3, <2>4, <2>5, <2>6, <2>7, <2>8 DEF Next, Collect
<1>3. IInv /\ Room => Tiled
  BY DEF Room, IInv, HeapInv, TypeOK, Tiled
<1> QED BY <1>1, <1>2, <1>3, CollectorInvariant, PTL DEF Spec

\* No reference is ever left dangling by a collection.
THEOREM CollectorNoDangling == Spec => []NoDangling
<1>1. IInv => NoDangling
  <2> SUFFICES ASSUME IInv PROVE NoDangling
    OBVIOUS
  <2>0. old \in {0, 1} /\ new \in {0, 1} /\ new # old /\ \A h \in {0, 1} : h = old \/ h = new
    BY Halves DEF IInv, TypeOK
  <2>1. \A p, h : h \in {0, 1} /\ HalfRef(mem, h, p) => p = Null \/ (Exists(p) /\ p[1] = h)
    BY DEF HalfRef, Exists
  <2>2. \A p : HalfRef(mem, old, p) => Good(p)
    BY <2>0, <2>1 DEF Good
  <2>3. \A p : HalfRef(mem, new, p) /\ pc \notin Quiet => Good(p)
    BY <2>0, <2>1 DEF Good, Quiet
  <2>4. \A o \in DOMAIN mem[old] : \A k \in DOMAIN mem[old][o].refs : Good(mem[old][o].refs[k])
    BY <2>2 DEF IInv, HeapInv
  <2>5. CASE pc \in Quiet
    BY <2>0, <2>2, <2>4, <2>5 DEF IInv, NoDangling
  <2>6. CASE pc \notin Quiet
    <3>1. \A r \in Root : Good(root[r])
      BY <2>2, <2>3, <2>6 DEF IInv, RootsMoved
    <3>2. \A o \in DOMAIN mem[new] : \A k \in DOMAIN mem[new][o].refs : Good(mem[new][o].refs[k])
      BY <2>2, <2>3, <2>6 DEF IInv, Scanned
    <3> QED BY <3>1, <3>2, <2>0, <2>4 DEF NoDangling
  <2> QED BY <2>5, <2>6
<1> QED BY <1>1, CollectorInvariant, PTL

(***************************************************************************)
(* Names.  The collector makes no object and loses none that is in use:    *)
(* each copy has the name of its original, refers to the same names, and   *)
(* there is one copy of an object.                                         *)
(***************************************************************************)
NameIn(m, p) == IF p = Null THEN 0 ELSE m[p[1]][p[2]].id

\* y is a copy of x: of each field either may have been moved
Replica(m, x, y) ==
  /\ y.id = x.id /\ y.size = x.size /\ DOMAIN y.refs = DOMAIN x.refs
  /\ \A k \in DOMAIN x.refs : NameIn(m, y.refs[k]) = NameIn(m, x.refs[k])

NameInv(m) ==
  /\ \A h \in {0, 1} : \A o, q \in DOMAIN m[h] : m[h][o].id = m[h][q].id => o = q
  /\ \A h \in {0, 1} : \A o \in DOMAIN m[h] : m[h][o].id \in 1..made
  /\ \A c \in DOMAIN m[new] : \E o \in DOMAIN m[old] : m[old][o].fwd = <<new, c>>
  /\ \A o \in DOMAIN m[old] :
       m[old][o].fwd # NoFwd => Replica(m, m[old][o], m[new][m[old][o].fwd[2]])

\* All references of m are NULL or lead to an object.
Sound(m) ==
  /\ \A o \in DOMAIN m[old] : \A k \in DOMAIN m[old][o].refs : HalfRef(m, old, m[old][o].refs[k])
  /\ \A o \in DOMAIN m[new] : \A k \in DOMAIN m[new][o].refs :
       HalfRef(m, new, m[new][o].refs[k]) \/ HalfRef(m, old, m[new][o].refs[k])
  /\ \A o \in DOMAIN m[old] : HalfRef(m, new, m[old][o].fwd)

LEMMA SoundHeap ==
  ASSUME HeapAssumption, IInv
  PROVE  Sound(mem) /\ old \in {0, 1} /\ new \in {0, 1} /\ new # old
<1>1. old \in {0, 1} /\ new \in {0, 1} /\ new # old
  BY Halves DEF IInv, TypeOK
<1>2. \A o \in DOMAIN mem[new] : \A k \in DOMAIN mem[new][o].refs :
        HalfRef(mem, new, mem[new][o].refs[k]) \/ HalfRef(mem, old, mem[new][o].refs[k])
  BY DEF IInv, Scanned
<1> QED
  BY <1>1, <1>2 DEF IInv, HeapInv, Sound

\* What move(p) does: nothing, or one copy at the end of the others.
Stayed(m, e, q, p) ==
  /\ m = mem /\ e = b
  /\ \/ p[1] # old /\ q = p
     \/ p[1] = old /\ p[2] \in DOMAIN mem[old] /\ q = mem[old][p[2]].fwd /\ q # NoFwd
Copied(m, e, q, p) ==
  /\ p[1] = old /\ p[2] \in DOMAIN mem[old] /\ mem[old][p[2]].fwd = NoFwd
  /\ q = <<new, b>> /\ e = b + mem[old][p[2]].size
  /\ b \notin DOMAIN mem[new] /\ DOMAIN m[new] = DOMAIN mem[new] \cup {b}
  /\ m[new][b] = mem[old][p[2]] /\ \A o \in DOMAIN mem[new] : m[new][o] = mem[new][o]
  /\ DOMAIN m[old] = DOMAIN mem[old]
  /\ \A o \in DOMAIN mem[old] :
       /\ m[old][o].id = mem[old][o].id /\ m[old][o].size = mem[old][o].size
       /\ m[old][o].refs = mem[old][o].refs
       /\ m[old][o].fwd = IF o = p[2] THEN q ELSE mem[old][o].fwd

LEMMA MoveCases ==
  ASSUME HeapAssumption, TypeOK, HeapInv(mem, b), NEW p \in Ref,
         HalfRef(mem, old, p) \/ HalfRef(mem, new, p)
  PROVE  \/ Stayed(Move(p).mem, Move(p).b, Move(p).to, p)
         \/ Copied(Move(p).mem, Move(p).b, Move(p).to, p)
<1>0. old \in {0, 1} /\ new \in {0, 1} /\ new # old
  BY Halves DEF TypeOK
<1>1. CASE p[1] # old
  BY <1>1 DEF Move, Stayed
<1>2. CASE p[1] = old
  <2>1. p[2] \in DOMAIN mem[old] /\ Obj(p) = mem[old][p[2]]
    BY <1>0, <1>2 DEF HalfRef, Null, Obj
  <2>2. CASE Obj(p).fwd # NoFwd
    BY <1>2, <2>1, <2>2 DEF Move, Stayed
  <2>3. CASE Obj(p).fwd = NoFwd
    <3>1. PICK x : x = mem[old][p[2]]
      OBVIOUS
    <3>2. PICK q : q = <<new, b>>
      OBVIOUS
    <3>3. PICK m : m = Move(p).mem
      OBVIOUS
    <3>4. /\ Move(p).to = q /\ Move(p).b = b + x.size
          /\ m = [mem EXCEPT ![new] = Put(@, b, x), ![old][p[2]].fwd = q]
      BY <1>2, <2>1, <2>3, <3>1, <3>2, <3>3 DEF Move
    <3>5. HasType(mem)
      BY DEF HeapInv
    <3>6. m[new] = Put(mem[new], b, x) /\ m[old] = [mem[old] EXCEPT ![p[2]].fwd = q]
      <4>1. DOMAIN mem = {0, 1}
        BY <3>5 DEF HasType
      <4> QED
        BY <1>0, <3>4, <4>1
    <3>7. b \notin DOMAIN mem[new]
      <4>1. b \in Nat
        BY DEF TypeOK, HeapAssumption
      <4> QED
        BY <4>1 DEF HeapInv, Tiles
    <3>8. /\ DOMAIN m[new] = DOMAIN mem[new] \cup {b} /\ m[new][b] = x
          /\ \A o \in DOMAIN mem[new] : m[new][o] = mem[new][o]
      BY <3>6, <3>7 DEF Put
    <3>9. \A o \in DOMAIN mem[old] : mem[old][o] \in ObjectType
      BY <1>0, <3>5 DEF HasType
    <3>10. DOMAIN m[old] = DOMAIN mem[old]
      BY <3>6
    <3>11. ASSUME NEW o \in DOMAIN mem[old]
           PROVE  /\ m[old][o].id = mem[old][o].id /\ m[old][o].size = mem[old][o].size
                  /\ m[old][o].refs = mem[old][o].refs
                  /\ m[old][o].fwd = IF o = p[2] THEN q ELSE mem[old][o].fwd
      <4>1. CASE o # p[2]
        <5>1. m[old][o] = mem[old][o]
          BY <3>6, <4>1
        <5> QED
          BY <4>1, <5>1
      <4>2. CASE o = p[2]
        <5>1. PICK y \in ObjectType : y = mem[old][o]
          BY <3>9
        <5>2. m[old][o] = [y EXCEPT !.fwd = q]
          BY <3>6, <4>2, <5>1
        <5> QED
          BY <4>2, <5>1, <5>2 DEF ObjectType
      <4> QED
        BY <4>1, <4>2
    <3>12. Copied(m, Move(p).b, q, p)
      BY <1>2, <2>1, <2>3, <3>1, <3>2, <3>4, <3>7, <3>8, <3>10, <3>11 DEF Copied
    <3> QED
      BY <3>3, <3>4, <3>12
  <2> QED
    BY <2>2, <2>3
<1> QED
  BY <1>1, <1>2

\* A move leaves all names as they are.
LEMMA MoveNames ==
  ASSUME NEW m, NEW e, NEW q, NEW p, Stayed(m, e, q, p) \/ Copied(m, e, q, p),
         NameInv(mem), Sound(mem), HalfRef(mem, old, p) \/ HalfRef(mem, new, p),
         old \in {0, 1}, new \in {0, 1}, new # old,
         \A o \in DOMAIN mem[new] : mem[new][o].fwd = NoFwd
  PROVE  /\ NameInv(m)
         /\ NameIn(m, q) = NameIn(mem, p)
         /\ \A x : HalfRef(mem, old, x) \/ HalfRef(mem, new, x) =>
              /\ NameIn(m, x) = NameIn(mem, x)
              /\ HalfRef(mem, old, x) => HalfRef(m, old, x)
              /\ HalfRef(mem, new, x) => HalfRef(m, new, x)
<1>1. CASE Stayed(m, e, q, p)
  <2>1. m = mem
    BY <1>1 DEF Stayed
  <2>2. CASE p[1] # old /\ q = p
    BY <2>1, <2>2
  <2>3. CASE p[1] = old /\ p[2] \in DOMAIN mem[old] /\ q = mem[old][p[2]].fwd /\ q # NoFwd
    <3>1. HalfRef(mem, new, q)
      BY <2>3 DEF Sound
    <3>2. q[1] = new /\ q # Null /\ p # Null
      BY <2>3, <3>1 DEF HalfRef, NoFwd, Null
    <3>3. mem[new][q[2]].id = mem[old][p[2]].id
      BY <2>3 DEF NameInv, Replica
    <3>4. NameIn(mem, q) = NameIn(mem, p)
      BY <2>3, <3>2, <3>3 DEF NameIn
    <3> QED
      BY <2>1, <3>4
  <2> QED
    BY <1>1, <2>2, <2>3 DEF Stayed
<1>2. CASE Copied(m, e, q, p)
  <2>1. /\ p[1] = old /\ p[2] \in DOMAIN mem[old] /\ mem[old][p[2]].fwd = NoFwd
        /\ q = <<new, b>>
        /\ b \notin DOMAIN mem[new] /\ DOMAIN m[new] = DOMAIN mem[new] \cup {b}
        /\ m[new][b] = mem[old][p[2]] /\ \A o \in DOMAIN mem[new] : m[new][o] = mem[new][o]
        /\ DOMAIN m[old] = DOMAIN mem[old]
        /\ \A o \in DOMAIN mem[old] :
             /\ m[old][o].id = mem[old][o].id /\ m[old][o].size = mem[old][o].size
             /\ m[old][o].refs = mem[old][o].refs
             /\ m[old][o].fwd = IF o = p[2] THEN q ELSE mem[old][o].fwd
    BY <1>2 DEF Copied
  <2>2. PICK d : d = p[2]
    OBVIOUS
  <2>3. q # Null /\ q[1] = new /\ q[2] = b /\ p # Null /\ q # NoFwd
    BY <2>1 DEF Null, NoFwd
  <2>4. ASSUME NEW x, HalfRef(mem, old, x) \/ HalfRef(mem, new, x)
        PROVE  /\ NameIn(m, x) = NameIn(mem, x)
               /\ HalfRef(mem, old, x) => HalfRef(m, old, x)
               /\ HalfRef(mem, new, x) => HalfRef(m, new, x)
    <3>1. CASE x = Null
      BY <3>1 DEF NameIn, HalfRef
    <3>2. CASE x # Null /\ x[1] = old /\ x[2] \in DOMAIN mem[old]
      BY <2>1, <3>2 DEF NameIn, HalfRef
    <3>3. CASE x # Null /\ x[1] = new /\ x[2] \in DOMAIN mem[new]
      BY <2>1, <3>3 DEF NameIn, HalfRef
    <3> QED
      BY <2>4, <3>1, <3>2, <3>3 DEF HalfRef
  <2>5. NameIn(m, q) = NameIn(mem, p)
    BY <2>1, <2>3 DEF NameIn
  <2>6. \A o \in DOMAIN mem[new] : m[new][o].id # mem[old][d].id
    <3> SUFFICES ASSUME NEW o \in DOMAIN mem[new], mem[new][o].id = mem[old][d].id PROVE FALSE
      BY <2>1
    <3>1. PICK z \in DOMAIN mem[old] : mem[old][z].fwd = <<new, o>>
      BY DEF NameInv
    <3>2. mem[old][z].fwd # NoFwd /\ mem[old][z].fwd[2] = o
      BY <3>1 DEF NoFwd, Null
    <3>3. mem[new][o].id = mem[old][z].id
      BY <3>2 DEF NameInv, Replica
    <3>4. z = d
      BY <2>1, <2>2, <3>3 DEF NameInv
    <3> QED
      BY <2>1, <2>2, <3>2, <3>4
  <2>7. \A h \in {0, 1} : \A o, w \in DOMAIN m[h] : m[h][o].id = m[h][w].id => o = w
    <3>1. \A o, w \in DOMAIN m[old] : m[old][o].id = m[old][w].id => o = w
      BY <2>1 DEF NameInv
    <3>2. \A o, w \in DOMAIN mem[new] : m[new][o].id = m[new][w].id => o = w
      BY <2>1 DEF NameInv
    <3>3. \A o, w \in DOMAIN m[new] : m[new][o].id = m[new][w].id => o = w
      BY <2>1, <2>2, <2>6, <3>2
    <3>4. \A h \in {0, 1} : h = old \/ h = new
      OBVIOUS
    <3> QED
      BY <3>1, <3>3, <3>4
  <2>8. \A h \in {0, 1} : \A o \in DOMAIN m[h] : m[h][o].id \in 1..made
    <3>1. \A o \in DOMAIN m[old] : m[old][o].id \in 1..made
      BY <2>1 DEF NameInv
    <3>2. \A o \in DOMAIN m[new] : m[new][o].id \in 1..made
      BY <2>1 DEF NameInv
    <3>3. \A h \in {0, 1} : h = old \/ h = new
      OBVIOUS
    <3> QED
      BY <3>1, <3>2, <3>3
  <2>9. \A c \in DOMAIN m[new] : \E o \in DOMAIN m[old] : m[old][o].fwd = <<new, c>>
    <3> SUFFICES ASSUME NEW c \in DOMAIN m[new]
                 PROVE  \E o \in DOMAIN m[old] : m[old][o].fwd = <<new, c>>
      OBVIOUS
    <3>1. CASE c = b
      BY <2>1, <3>1
    <3>2. CASE c # b
      <4>1. PICK o \in DOMAIN mem[old] : mem[old][o].fwd = <<new, c>>
        BY <2>1, <3>2 DEF NameInv
      <4>2. o # p[2]
        BY <2>1, <4>1 DEF NoFwd, Null
      <4> QED
        BY <2>1, <4>1, <4>2
    <3> QED
      BY <3>1, <3>2
  <2>10. ASSUME NEW o \in DOMAIN m[old], m[old][o].fwd # NoFwd
         PROVE  Replica(m, m[old][o], m[new][m[old][o].fwd[2]])
    <3>1. PICK x : x = mem[old][o]
      OBVIOUS
    <3>2. PICK x2 : x2 = m[old][o]
      OBVIOUS
    <3>3. x2.id = x.id /\ x2.size = x.size /\ x2.refs = x.refs
          /\ \A k \in DOMAIN x.refs : HalfRef(mem, old, x.refs[k])
      BY <2>1, <3>1, <3>2 DEF Sound
    <3>4. CASE o = p[2]
      <4>1. m[old][o].fwd = q
        BY <2>1, <3>4
      <4>2. m[new][m[old][o].fwd[2]] = x
        BY <2>1, <2>3, <3>1, <3>4, <4>1
      <4>3. Replica(m, x2, x)
        BY <3>3 DEF Replica
      <4> QED
        BY <3>2, <4>2, <4>3
    <3>5. CASE o # p[2]
      <4>1. m[old][o].fwd = x.fwd /\ x.fwd # NoFwd
        BY <2>1, <2>10, <3>1, <3>5
      <4>2. PICK c : c = x.fwd[2]
        OBVIOUS
      <4>3. c \in DOMAIN mem[new]
        BY <2>1, <2>10, <3>1, <4>1, <4>2 DEF Sound, HalfRef, NoFwd
      <4>4. PICK y : y = mem[new][c]
        OBVIOUS
      <4>5. Replica(mem, x, y)
        BY <2>1, <2>10, <3>1, <4>1, <4>2, <4>4 DEF NameInv
      <4>6. m[new][c] = y
        BY <2>1, <4>3, <4>4
      <4>7. \A k \in DOMAIN y.refs : HalfRef(mem, new, y.refs[k]) \/ HalfRef(mem, old, y.refs[k])
        BY <4>3, <4>4 DEF Sound
      <4>8. Replica(m, x2, y)
        BY <2>4, <3>3, <4>5, <4>7 DEF Replica
      <4> QED
        BY <3>2, <4>1, <4>2, <4>6, <4>8
    <3> QED
      BY <3>4, <3>5
  <2>11. NameInv(m)
    BY <2>7, <2>8, <2>9, <2>10 DEF NameInv
  <2> QED
    BY <2>4, <2>5, <2>11
<1> QED
  BY <1>1, <1>2

(***************************************************************************)
(* What the steps of the program and of the collection do, place by place. *)
(***************************************************************************)
Cell(r, sh, v) == [id |-> made + 1, size |-> sh.size, refs |-> v, fwd |-> NoFwd]

LEMMA MakeEffect ==
  ASSUME HeapAssumption, IInv, pc \in Quiet, made < MaxNew,
         NEW r \in Root, NEW sh \in Shape, Fits(sh), Make(r, sh)
  PROVE  \E v \in [1..sh.refs -> {Null} \cup {root[q] : q \in Root}] :
           /\ mem'[new] = mem[new]
           /\ allocated \notin DOMAIN mem[old] /\ DOMAIN mem'[old] = DOMAIN mem[old] \cup {allocated}
           /\ mem'[old][allocated] = Cell(r, sh, v)
           /\ \A o \in DOMAIN mem[old] : mem'[old][o] = mem[old][o]
           /\ root' = [root EXCEPT ![r] = <<old, allocated>>] /\ made' = made + 1
<1>1. PICK v \in [1..sh.refs -> {Null} \cup {root[q] : q \in Root}] :
        /\ mem' = [mem EXCEPT ![old] = Put(@, allocated,
                     [id |-> made + 1, size |-> sh.size, refs |-> v, fwd |-> NoFwd])]
        /\ root' = [root EXCEPT ![r] = <<old, allocated>>]
        /\ made' = made + 1
  BY DEF Make
<1>2. PICK x : x = Cell(r, sh, v)
  OBVIOUS
<1>3. mem' = [mem EXCEPT ![old] = Put(@, allocated, x)]
  BY <1>1, <1>2 DEF Cell
<1>4. old \in {0, 1} /\ new \in {0, 1} /\ new # old /\ DOMAIN mem = {0, 1}
  BY Halves DEF IInv, TypeOK
<1>5. mem'[old] = Put(mem[old], allocated, x) /\ mem'[new] = mem[new]
  BY <1>3, <1>4
<1>6. allocated \notin DOMAIN mem[old]
  <2>1. Tiles(mem[old], allocated) /\ allocated \in Nat
    BY DEF IInv, HeapInv, TypeOK, HeapAssumption
  <2> QED
    BY <2>1 DEF Tiles
<1>7. /\ DOMAIN mem'[old] = DOMAIN mem[old] \cup {allocated} /\ mem'[old][allocated] = x
      /\ \A o \in DOMAIN mem[old] : mem'[old][o] = mem[old][o]
  BY <1>5, <1>6 DEF Put
<1> QED
  BY <1>1, <1>2, <1>5, <1>6, <1>7

\* f is the half g but for one field of one object
OneField(g, f, o, k, p) ==
  /\ DOMAIN f = DOMAIN g /\ o \in DOMAIN g /\ k \in DOMAIN g[o].refs
  /\ \A z \in DOMAIN g : z # o => f[z] = g[z]
  /\ f[o].id = g[o].id /\ f[o].size = g[o].size /\ f[o].fwd = g[o].fwd
  /\ DOMAIN f[o].refs = DOMAIN g[o].refs /\ f[o].refs[k] = p
  /\ \A j \in DOMAIN g[o].refs : j # k => f[o].refs[j] = g[o].refs[j]

SetField(m, h, o, k, p) == [m EXCEPT ![h][o].refs[k] = p]

LEMMA FieldSet ==
  ASSUME NEW m, HasType(m), NEW h \in {0, 1}, NEW o \in DOMAIN m[h], NEW k \in DOMAIN m[h][o].refs,
         NEW p, NEW n, n = SetField(m, h, o, k, p)
  PROVE  OneField(m[h], n[h], o, k, p) /\ \A g \in {0, 1} : g # h => n[g] = m[g]
<1>1. DOMAIN m = {0, 1}
  BY DEF HasType
<1>2. PICK x \in ObjectType : x = m[h][o]
  BY DEF HasType
<1>3. PICK f : f = [x.refs EXCEPT ![k] = p]
  OBVIOUS
<1>4. DOMAIN f = DOMAIN x.refs /\ f[k] = p /\ \A j \in DOMAIN x.refs : j # k => f[j] = x.refs[j]
  BY <1>2, <1>3
<1>5. n = [m EXCEPT ![h] = [m[h] EXCEPT ![o] = [x EXCEPT !.refs = f]]]
  BY <1>2, <1>3 DEF SetField
<1>6. n[h] = [m[h] EXCEPT ![o] = [x EXCEPT !.refs = f]] /\ \A g \in {0, 1} : g # h => n[g] = m[g]
  BY <1>1, <1>5
<1>7. DOMAIN n[h] = DOMAIN m[h] /\ n[h][o] = [x EXCEPT !.refs = f]
      /\ \A z \in DOMAIN m[h] : z # o => n[h][z] = m[h][z]
  BY <1>6
<1>8. n[h][o].id = x.id /\ n[h][o].size = x.size /\ n[h][o].fwd = x.fwd /\ n[h][o].refs = f
  BY <1>2, <1>7 DEF ObjectType
<1> QED
  BY <1>2, <1>4, <1>6, <1>7, <1>8 DEF OneField

LEMMA StoreEffect ==
  ASSUME HeapAssumption, IInv, NEW r \in Root, NEW q \in Root, Store(r, q)
  PROVE  /\ root[q][1] = old /\ root[q][2] \in DOMAIN mem[old]
         /\ \E k : OneField(mem[old], mem'[old], root[q][2], k, root[r])
         /\ mem'[new] = mem[new]
<1>1. old \in {0, 1} /\ new \in {0, 1} /\ new # old /\ HasType(mem)
  BY Halves DEF IInv, TypeOK, HeapInv
<1>2. root[q][1] = old /\ root[q][2] \in DOMAIN mem[old]
  <2>1. HalfRef(mem, old, root[q]) /\ Exists(root[q])
    BY DEF Store, IInv, Quiet
  <2> QED
    BY <2>1 DEF HalfRef, Exists, Null
<1>3. PICK o \in DOMAIN mem[old] : o = root[q][2]
  BY <1>2
<1>4. PICK k : /\ k \in DOMAIN mem[old][o].refs
               /\ mem' = [mem EXCEPT ![old][o].refs[k] = root[r]]
  BY <1>2, <1>3 DEF Store, Obj
<1>5. OneField(mem[old], mem'[old], o, k, root[r]) /\ mem'[new] = mem[new]
  <2>1. PICK m, n, p : m = mem /\ n = mem' /\ p = root[r]
    OBVIOUS
  <2>2. k \in DOMAIN m[old][o].refs /\ n = SetField(m, old, o, k, p) /\ o \in DOMAIN m[old]
    BY <1>4, <2>1 DEF SetField
  <2>3. HasType(m)
    BY <1>1, <2>1
  <2>4. OneField(m[old], n[old], o, k, p) /\ \A g \in {0, 1} : g # old => n[g] = m[g]
    BY <1>1, <2>2, <2>3, FieldSet
  <2> QED
    BY <1>1, <2>1, <2>4
<1> QED
  BY <1>2, <1>3, <1>5

Moves(m, e, q, p) == Stayed(m, e, q, p) \/ Copied(m, e, q, p)

\* what move is called with
Movable(p) == p \in Ref /\ (HalfRef(mem, old, p) \/ HalfRef(mem, new, p))

LEMMA ScanRootEffect ==
  ASSUME HeapAssumption, IInv, NEW r \in Root, ScanRoot(r), ~Overruns(root[r])
  PROVE  \E m, e, q :
           /\ Moves(m, e, q, root[r]) /\ Movable(root[r]) /\ root[r][1] # new
           /\ root' = [root EXCEPT ![r] = q] /\ mem' = m
<1>1. pc = "scan" /\ r \in todo /\ root' = [root EXCEPT ![r] = Move(root[r]).to] /\ mem' = Move(root[r]).mem
  BY DEF ScanRoot
<1>2. HalfRef(mem, old, root[r]) /\ root[r] \in Ref /\ TypeOK /\ HeapInv(mem, b)
  BY <1>1 DEF IInv, TypeOK, Quiet, RootsMoved
<1>3. Moves(mem', Move(root[r]).b, Move(root[r]).to, root[r])
  BY <1>1, <1>2, MoveCases DEF Moves
<1>4. root[r][1] # new
  BY <1>2, Halves DEF HalfRef, Null, TypeOK
<1> QED
  BY <1>1, <1>2, <1>3, <1>4 DEF Movable

LEMMA ScanLinkEffect ==
  ASSUME HeapAssumption, IInv, ScanLink, ~Overruns(mem[new][s].refs[i])
  PROVE  \E m, e, q, p :
           /\ s \in DOMAIN mem[new] /\ i \in DOMAIN mem[new][s].refs /\ p = mem[new][s].refs[i]
           /\ Moves(m, e, q, p) /\ Movable(p)
           /\ mem'[old] = m[old] /\ OneField(m[new], mem'[new], s, i, q)
           /\ UNCHANGED <<root, old, made>>
<1>1. pc = "trace" /\ s < b /\ i <= Len(mem[new][s].refs)
  BY DEF ScanLink
<1>2. /\ TypeOK /\ HeapInv(mem, b) /\ Scanned(mem, s, i) /\ (s \in DOMAIN mem[new] \/ s = b)
      /\ old \in {0, 1} /\ new \in {0, 1} /\ new # old
      /\ b \in Nat /\ s \in Nat /\ i \in Nat \ {0}
  <2>1. TypeOK /\ HeapInv(mem, b) /\ Scanned(mem, s, i) /\ (s \in DOMAIN mem[new] \/ s = b)
    BY <1>1 DEF IInv, Quiet
  <2>2. ToSize \in Nat /\ b \in 0..ToSize /\ s \in 0..b /\ i \in Nat \ {0}
    BY <2>1 DEF TypeOK, HeapAssumption
  <2> QED
    BY <2>1, <2>2, Halves DEF TypeOK
<1>3. s \in DOMAIN mem[new]
  BY <1>1, <1>2
<1>4. mem[new][s] \in ObjectType
  BY <1>2, <1>3 DEF HeapInv, HasType
<1>5. PICK p : p = mem[new][s].refs[i]
  OBVIOUS
<1>6. i \in DOMAIN mem[new][s].refs /\ p \in Ref
  <2>1. mem[new][s].refs \in Seq(Ref)
    BY <1>4 DEF ObjectType
  <2> QED
    BY <1>1, <1>2, <1>5, <2>1
<1>7. HalfRef(mem, old, p) \/ HalfRef(mem, new, p)
  BY <1>2, <1>3, <1>5, <1>6 DEF Scanned
<1>8. PICK m, e, q : m = Move(p).mem /\ e = Move(p).b /\ q = Move(p).to
  OBVIOUS
<1>9. /\ mem' = [m EXCEPT ![new][s].refs[i] = q]
      /\ UNCHANGED <<root, old, made>>
  BY <1>5, <1>8 DEF ScanLink
<1>10. Moves(m, e, q, p)
  BY <1>2, <1>6, <1>7, <1>8, MoveCases DEF Moves
<1>11. MoveOK(m, e, q)
  BY <1>2, <1>5, <1>6, <1>7, <1>8, MoveSpec
<1>12. HasType(m) /\ s \in DOMAIN m[new] /\ m[new][s] = mem[new][s]
  BY <1>3, <1>11 DEF MoveOK, HeapInv
<1>13. OneField(m[new], mem'[new], s, i, q) /\ mem'[old] = m[old]
  <2>1. PICK n, o, k : n = mem' /\ o = s /\ k = i
    OBVIOUS
  <2>2. o \in DOMAIN m[new] /\ k \in DOMAIN m[new][o].refs /\ n = SetField(m, new, o, k, q)
    BY <1>6, <1>9, <1>12, <2>1 DEF SetField
  <2>3. OneField(m[new], n[new], o, k, q) /\ \A g \in {0, 1} : g # new => n[g] = m[g]
    BY <1>2, <1>12, <2>2, FieldSet
  <2> QED
    BY <1>2, <2>1, <2>3
<1> QED
  BY <1>3, <1>5, <1>6, <1>7, <1>9, <1>10, <1>13 DEF Movable

(***************************************************************************)
(* The names are kept.                                                     *)
(***************************************************************************)
LEMMA SameNames ==
  ASSUME NameInv(mem'), old' = old, made' = made
  PROVE  NameInv(mem)'
<1>1. new' = new
  BY DEF new
<1>2. \A p : NameIn(mem, p)' = NameIn(mem', p)
  BY DEF NameIn, Null
<1>3. \A x, y : Replica(mem', x, y) => Replica(mem, x, y)'
  BY DEF Replica, NameIn, Null
<1> QED
  BY <1>1, <1>3 DEF NameInv, NoFwd, Null

\* Outside a collection there are no copies.
LEMMA NoCopies ==
  ASSUME HeapAssumption, IInv, pc \in Quiet
  PROVE  /\ DOMAIN mem[new] = {} /\ \A o \in DOMAIN mem[old] : mem[old][o].fwd = NoFwd
         /\ \A r \in Root : HalfRef(mem, old, root[r])
<1>1. DOMAIN mem[new] = {} /\ \A r \in Root : HalfRef(mem, old, root[r])
  BY DEF IInv
<1>2. \A o \in DOMAIN mem[old] : HalfRef(mem, new, mem[old][o].fwd)
  BY DEF IInv, HeapInv
<1> QED
  BY <1>1, <1>2 DEF HalfRef, NoFwd

LEMMA MakeNames ==
  ASSUME HeapAssumption, IInv, pc \in Quiet, made < MaxNew, NameInv(mem), old' = old,
         NEW r \in Root, NEW sh \in Shape, Fits(sh), Make(r, sh)
  PROVE  NameInv(mem)'
<1>1. PICK v \in [1..sh.refs -> {Null} \cup {root[q] : q \in Root}] :
           /\ mem'[new] = mem[new]
           /\ allocated \notin DOMAIN mem[old] /\ DOMAIN mem'[old] = DOMAIN mem[old] \cup {allocated}
           /\ mem'[old][allocated] = Cell(r, sh, v)
           /\ \A o \in DOMAIN mem[old] : mem'[old][o] = mem[old][o]
           /\ root' = [root EXCEPT ![r] = <<old, allocated>>] /\ made' = made + 1
  BY MakeEffect
<1>2. Cell(r, sh, v).id = made + 1 /\ Cell(r, sh, v).fwd = NoFwd
  BY DEF Cell
<1>3. made \in Nat /\ old \in {0, 1} /\ new \in {0, 1} /\ new # old /\ new' = new
  BY Halves DEF IInv, TypeOK, HeapAssumption, new
<1>4. DOMAIN mem[new] = {} /\ \A o \in DOMAIN mem[old] : mem[old][o].fwd = NoFwd
  BY NoCopies
<1>5. /\ \A o, q \in DOMAIN mem[old] : mem[old][o].id = mem[old][q].id => o = q
      /\ \A o \in DOMAIN mem[old] : mem[old][o].id \in 1..made
  BY <1>3 DEF NameInv
<1>6. /\ DOMAIN mem'[new] = {} /\ \A h \in {0, 1} : h = old \/ h = new
  BY <1>1, <1>3, <1>4
<1>7. \A h \in {0, 1} : \A o, q \in DOMAIN mem'[h] : mem'[h][o].id = mem'[h][q].id => o = q
  BY <1>1, <1>2, <1>3, <1>5, <1>6
<1>8. \A h \in {0, 1} : \A o \in DOMAIN mem'[h] : mem'[h][o].id \in 1..made'
  BY <1>1, <1>2, <1>3, <1>5, <1>6
<1>9. \A o \in DOMAIN mem'[old] : mem'[old][o].fwd = NoFwd
  BY <1>1, <1>2, <1>4
<1> QED
  BY <1>3, <1>6, <1>7, <1>8, <1>9 DEF NameInv, NoFwd, Null

LEMMA StoreNames ==
  ASSUME HeapAssumption, IInv, NameInv(mem), NEW r \in Root, NEW q \in Root, Store(r, q)
  PROVE  NameInv(mem)'
<1>1. pc \in Quiet /\ old' = old /\ made' = made
  BY DEF Store, Quiet
<1>2. DOMAIN mem[new] = {} /\ \A o \in DOMAIN mem[old] : mem[old][o].fwd = NoFwd
  BY <1>1, NoCopies
<1>3. PICK k : OneField(mem[old], mem'[old], root[q][2], k, root[r])
  BY StoreEffect
<1>4. mem'[new] = mem[new]
  BY StoreEffect
<1>5. old \in {0, 1} /\ new \in {0, 1} /\ new # old /\ \A h \in {0, 1} : h = old \/ h = new
  BY Halves DEF IInv, TypeOK
<1>6. DOMAIN mem'[old] = DOMAIN mem[old]
      /\ \A o \in DOMAIN mem[old] : mem'[old][o].id = mem[old][o].id /\ mem'[old][o].fwd = NoFwd
  BY <1>2, <1>3 DEF OneField
<1>7. \A h \in {0, 1} : \A o, w \in DOMAIN mem'[h] : mem'[h][o].id = mem'[h][w].id => o = w
  BY <1>2, <1>4, <1>5, <1>6 DEF NameInv
<1>8. \A h \in {0, 1} : \A o \in DOMAIN mem'[h] : mem'[h][o].id \in 1..made
  BY <1>2, <1>4, <1>5, <1>6 DEF NameInv
<1>9. NameInv(mem')
  BY <1>2, <1>4, <1>6, <1>7, <1>8 DEF NameInv
<1> QED
  BY <1>1, <1>9, SameNames

\* One field of a copy now has what it had, or the copy of that.
LEMMA FieldNames ==
  ASSUME NEW m, NameInv(m), Sound(m), NEW n, NEW o, NEW k, NEW q,
         old \in {0, 1}, new \in {0, 1}, new # old,
         n[old] = m[old], OneField(m[new], n[new], o, k, q),
         NameIn(m, q) = NameIn(m, m[new][o].refs[k]), HalfRef(m, new, q)
  PROVE  /\ NameInv(n)
         /\ \A x : HalfRef(m, old, x) \/ HalfRef(m, new, x) => NameIn(n, x) = NameIn(m, x)
<1>1. /\ DOMAIN n[new] = DOMAIN m[new] /\ o \in DOMAIN m[new] /\ k \in DOMAIN m[new][o].refs
      /\ \A z \in DOMAIN m[new] : n[new][z].id = m[new][z].id /\ n[new][z].size = m[new][z].size
      /\ \A z \in DOMAIN m[new] : DOMAIN n[new][z].refs = DOMAIN m[new][z].refs
  BY DEF OneField
<1>2. \A x : HalfRef(m, old, x) \/ HalfRef(m, new, x) => NameIn(n, x) = NameIn(m, x)
  BY <1>1 DEF HalfRef, NameIn
<1>3. ASSUME NEW z \in DOMAIN m[new], NEW j \in DOMAIN m[new][z].refs
      PROVE  NameIn(n, n[new][z].refs[j]) = NameIn(m, m[new][z].refs[j])
  <2>1. CASE z = o /\ j = k
    <3>1. n[new][z].refs[j] = q
      BY <2>1 DEF OneField
    <3> QED
      BY <1>2, <2>1, <3>1
  <2>2. CASE ~(z = o /\ j = k)
    <3>1. n[new][z].refs[j] = m[new][z].refs[j]
      BY <2>2 DEF OneField
    <3>2. HalfRef(m, old, m[new][z].refs[j]) \/ HalfRef(m, new, m[new][z].refs[j])
      BY DEF Sound
    <3> QED
      BY <1>2, <3>1, <3>2
  <2> QED
    BY <2>1, <2>2
<1>4. ASSUME NEW z \in DOMAIN m[old], m[old][z].fwd # NoFwd
      PROVE  Replica(n, m[old][z], n[new][m[old][z].fwd[2]])
  <2>1. PICK c \in DOMAIN m[new] : c = m[old][z].fwd[2]
    BY <1>4 DEF Sound, HalfRef, NoFwd
  <2>2. Replica(m, m[old][z], m[new][c])
    BY <1>4, <2>1 DEF NameInv
  <2>3. PICK x, y, w : x = m[old][z] /\ y = m[new][c] /\ w = n[new][c]
    OBVIOUS
  <2>4. w.id = y.id /\ w.size = y.size /\ DOMAIN w.refs = DOMAIN y.refs
    BY <1>1, <2>3
  <2>5. \A j \in DOMAIN y.refs : NameIn(n, w.refs[j]) = NameIn(m, y.refs[j])
    BY <1>3, <2>3
  <2>6. \A j \in DOMAIN x.refs : HalfRef(m, old, x.refs[j])
    BY <2>3 DEF Sound
  <2>7. \A j \in DOMAIN x.refs : NameIn(n, x.refs[j]) = NameIn(m, x.refs[j])
    BY <1>2, <2>6
  <2>8. Replica(n, x, w)
    BY <2>2, <2>3, <2>4, <2>5, <2>7 DEF Replica
  <2> QED
    BY <2>1, <2>3, <2>8
<1>5. \A h \in {0, 1} : h = old \/ h = new
  OBVIOUS
<1>6. \A h \in {0, 1} : \A z, w \in DOMAIN n[h] : n[h][z].id = n[h][w].id => z = w
  BY <1>1, <1>5 DEF NameInv
<1>7. \A h \in {0, 1} : \A z \in DOMAIN n[h] : n[h][z].id \in 1..made
  BY <1>1, <1>5 DEF NameInv
<1>8. \A c \in DOMAIN n[new] : \E z \in DOMAIN n[old] : n[old][z].fwd = <<new, c>>
  BY <1>1 DEF NameInv
<1> QED
  BY <1>2, <1>4, <1>6, <1>7, <1>8 DEF NameInv

LEMMA MoveSound ==
  ASSUME NEW m, NEW e, NEW q, NEW p, Moves(m, e, q, p), Movable(p), Sound(mem),
         old \in {0, 1}, new \in {0, 1}, new # old
  PROVE  Sound(m) /\ HalfRef(m, new, q)
<1>1. HalfRef(mem, old, p) \/ HalfRef(mem, new, p)
  BY DEF Movable
<1>2. CASE Stayed(m, e, q, p)
  <2>1. m = mem
    BY <1>2 DEF Stayed
  <2>2. CASE p[1] # old /\ q = p
    BY <1>1, <2>1, <2>2 DEF HalfRef
  <2>3. CASE p[1] = old /\ p[2] \in DOMAIN mem[old] /\ q = mem[old][p[2]].fwd
    BY <2>1, <2>3 DEF Sound
  <2> QED
    BY <1>2, <2>1, <2>2, <2>3 DEF Stayed
<1>3. CASE Copied(m, e, q, p)
  <2>1. /\ p[1] = old /\ p[2] \in DOMAIN mem[old] /\ q = <<new, b>>
        /\ DOMAIN m[new] = DOMAIN mem[new] \cup {b}
        /\ m[new][b] = mem[old][p[2]] /\ \A o \in DOMAIN mem[new] : m[new][o] = mem[new][o]
        /\ DOMAIN m[old] = DOMAIN mem[old]
        /\ \A o \in DOMAIN mem[old] :
             m[old][o].refs = mem[old][o].refs /\ m[old][o].fwd = IF o = p[2] THEN q ELSE mem[old][o].fwd
    BY <1>3 DEF Copied
  <2>2. \A x : /\ HalfRef(mem, old, x) => HalfRef(m, old, x)
               /\ HalfRef(mem, new, x) => HalfRef(m, new, x)
    BY <2>1 DEF HalfRef
  <2>3. q[1] = new /\ q[2] = b
    BY <2>1
  <2>4. HalfRef(m, new, q)
    BY <2>1, <2>3 DEF HalfRef
  <2>5. ASSUME NEW o \in DOMAIN m[old], NEW k \in DOMAIN m[old][o].refs
        PROVE  HalfRef(m, old, m[old][o].refs[k])
    <3>1. HalfRef(mem, old, mem[old][o].refs[k])
      BY <2>1 DEF Sound
    <3> QED
      BY <2>1, <2>2, <3>1
  <2>6. ASSUME NEW o \in DOMAIN m[new], NEW k \in DOMAIN m[new][o].refs
        PROVE  HalfRef(m, new, m[new][o].refs[k]) \/ HalfRef(m, old, m[new][o].refs[k])
    <3>1. CASE o = b
      <4>1. k \in DOMAIN mem[old][p[2]].refs /\ m[new][o].refs[k] = mem[old][p[2]].refs[k]
        BY <2>1, <3>1
      <4>2. HalfRef(mem, old, mem[old][p[2]].refs[k])
        BY <2>1, <4>1 DEF Sound
      <4> QED
        BY <2>2, <4>1, <4>2
    <3>2. CASE o # b
      <4>1. o \in DOMAIN mem[new] /\ m[new][o] = mem[new][o]
        BY <2>1, <3>2
      <4>2. HalfRef(mem, new, mem[new][o].refs[k]) \/ HalfRef(mem, old, mem[new][o].refs[k])
        BY <4>1 DEF Sound
      <4> QED
        BY <2>2, <4>1, <4>2
    <3> QED
      BY <3>1, <3>2
  <2>7. ASSUME NEW o \in DOMAIN m[old] PROVE HalfRef(m, new, m[old][o].fwd)
    <3>1. HalfRef(mem, new, mem[old][o].fwd)
      BY <2>1 DEF Sound
    <3> QED
      BY <2>1, <2>2, <2>4, <3>1
  <2> QED
    BY <2>4, <2>5, <2>6, <2>7 DEF Sound
<1> QED
  BY <1>2, <1>3 DEF Moves

LEMMA NoForward ==
  ASSUME IInv
  PROVE  \A o \in DOMAIN mem[new] : mem[new][o].fwd = NoFwd
  BY DEF IInv, HeapInv

LEMMA ScanRootNames ==
  ASSUME HeapAssumption, IInv, NameInv(mem), NEW r \in Root, ScanRoot(r), ~Overruns(root[r])
  PROVE  /\ NameInv(mem)'
         /\ \A x \in Root : NameIn(mem', root'[x]) = NameIn(mem, root[x])
<1>1. PICK m, e, q : /\ Moves(m, e, q, root[r]) /\ Movable(root[r])
                     /\ root' = [root EXCEPT ![r] = q] /\ mem' = m
  BY ScanRootEffect
<1>2. old' = old /\ made' = made /\ root \in [Root -> Ref]
  BY DEF ScanRoot, Overrun, IInv, TypeOK
<1>3. PICK p : p = root[r]
  OBVIOUS
<1>4. Sound(mem) /\ old \in {0, 1} /\ new \in {0, 1} /\ new # old
  BY SoundHeap
<1>5. Stayed(m, e, q, p) \/ Copied(m, e, q, p)
  BY <1>1, <1>3 DEF Moves
<1>6. HalfRef(mem, old, p) \/ HalfRef(mem, new, p)
  BY <1>1, <1>3 DEF Movable
<1>7. /\ NameInv(m) /\ NameIn(m, q) = NameIn(mem, p)
      /\ \A x : HalfRef(mem, old, x) \/ HalfRef(mem, new, x) => NameIn(m, x) = NameIn(mem, x)
  BY <1>4, <1>5, <1>6, NoForward, MoveNames
<1>8. NameInv(mem)'
  BY <1>1, <1>2, <1>7, SameNames
<1>9. ASSUME NEW x \in Root PROVE NameIn(mem', root'[x]) = NameIn(mem, root[x])
  <2>1. HalfRef(mem, old, root[x]) \/ HalfRef(mem, new, root[x])
    BY DEF IInv, RootsMoved
  <2>2. CASE x = r
    BY <1>1, <1>2, <1>3, <1>7, <2>2
  <2>3. CASE x # r
    BY <1>1, <1>2, <1>7, <2>1, <2>3
  <2> QED
    BY <2>2, <2>3
<1> QED
  BY <1>8, <1>9

LEMMA ScanLinkNames ==
  ASSUME HeapAssumption, IInv, NameInv(mem), ScanLink, ~Overruns(mem[new][s].refs[i])
  PROVE  /\ NameInv(mem)'
         /\ \A x : HalfRef(mem, old, x) \/ HalfRef(mem, new, x) => NameIn(mem', x) = NameIn(mem, x)
<1>1. PICK m, e, q, p :
           /\ s \in DOMAIN mem[new] /\ i \in DOMAIN mem[new][s].refs /\ p = mem[new][s].refs[i]
           /\ Moves(m, e, q, p) /\ Movable(p)
           /\ mem'[old] = m[old] /\ OneField(m[new], mem'[new], s, i, q)
           /\ UNCHANGED <<root, old, made>>
  BY ScanLinkEffect
<1>2. Sound(mem) /\ old \in {0, 1} /\ new \in {0, 1} /\ new # old
  BY SoundHeap
<1>3. Sound(m) /\ HalfRef(m, new, q)
  BY <1>1, <1>2, MoveSound
<1>4. Stayed(m, e, q, p) \/ Copied(m, e, q, p)
  BY <1>1 DEF Moves
<1>5. HalfRef(mem, old, p) \/ HalfRef(mem, new, p)
  BY <1>1 DEF Movable
<1>6. /\ NameInv(m) /\ NameIn(m, q) = NameIn(mem, p)
      /\ \A x : HalfRef(mem, old, x) \/ HalfRef(mem, new, x) =>
              /\ NameIn(m, x) = NameIn(mem, x)
              /\ HalfRef(mem, old, x) => HalfRef(m, old, x)
              /\ HalfRef(mem, new, x) => HalfRef(m, new, x)
  BY <1>2, <1>4, <1>5, NoForward, MoveNames
<1>7. m[new][s] = mem[new][s]
  BY <1>1, <1>4 DEF Stayed, Copied
<1>8. NameIn(m, q) = NameIn(m, m[new][s].refs[i])
  BY <1>1, <1>5, <1>6, <1>7
<1>9. PICK n, o, k : n = mem' /\ o = s /\ k = i
  OBVIOUS
<1>10. /\ n[old] = m[old] /\ OneField(m[new], n[new], o, k, q)
       /\ NameIn(m, q) = NameIn(m, m[new][o].refs[k])
  BY <1>1, <1>8, <1>9
<1>11. /\ NameInv(n)
       /\ \A x : HalfRef(m, old, x) \/ HalfRef(m, new, x) => NameIn(n, x) = NameIn(m, x)
  BY <1>2, <1>3, <1>6, <1>10, FieldNames
<1>12. NameInv(mem)'
  BY <1>1, <1>9, <1>11, SameNames
<1> QED
  BY <1>6, <1>9, <1>11, <1>12

LEMMA FlipEffect ==
  ASSUME HeapAssumption, IInv, Flip
  PROVE  /\ mem'[new] = mem[new] /\ DOMAIN mem'[old] = {} /\ old' = new /\ new' = old
         /\ UNCHANGED <<root, made, want>> /\ allocated' = b /\ b' = 0
         /\ \A o \in DOMAIN mem[new] : \A k \in DOMAIN mem[new][o].refs : HalfRef(mem, new, mem[new][o].refs[k])
         /\ \A r \in Root : HalfRef(mem, new, root[r])
<1>1. /\ pc = "trace" /\ s = b /\ old' = new /\ mem' = [mem EXCEPT ![old] = Empty]
      /\ UNCHANGED <<root, made, want>> /\ allocated' = b /\ b' = 0
  BY DEF Flip
<1>2. new \in {0, 1} /\ old \in {0, 1} /\ new # old /\ new' = old
  BY <1>1, Halves DEF IInv, TypeOK, new
<1>3. HeapInv(mem, b) /\ HasType(mem) /\ todo = {} /\ s \in Nat /\ i \in Nat
  <2>1. HeapInv(mem, b) /\ HasType(mem) /\ todo = {}
    BY <1>1 DEF IInv, HeapInv
  <2>2. s \in 0..b /\ i \in Nat /\ b \in 0..ToSize /\ ToSize \in Nat
    BY DEF IInv, TypeOK, HeapAssumption
  <2> QED
    BY <2>1, <2>2
<1>4. mem'[new] = mem[new] /\ DOMAIN mem'[old] = {}
  <2>1. DOMAIN mem = {0, 1}
    BY <1>3 DEF HasType
  <2> QED
    BY <1>1, <1>2, <2>1 DEF Empty
<1>5. \A o \in DOMAIN mem[new] : o \in Nat /\ o < s
  BY <1>1, <1>2, <1>3 DEF HeapInv, Tiles, HasType
<1>6. \A o \in DOMAIN mem[new] : \A k \in DOMAIN mem[new][o].refs : HalfRef(mem, new, mem[new][o].refs[k])
  <2>1. Scanned(mem, s, i)
    BY <1>1 DEF IInv, Quiet
  <2> QED
    BY <1>3, <1>5, <2>1 DEF Scanned
<1>7. \A r \in Root : HalfRef(mem, new, root[r])
  BY <1>1, <1>3 DEF IInv, Quiet, RootsMoved
<1> QED
  BY <1>1, <1>2, <1>4, <1>6, <1>7

LEMMA FlipNames ==
  ASSUME HeapAssumption, IInv, NameInv(mem), Flip
  PROVE  NameInv(mem)'
<1>1. mem'[new] = mem[new] /\ DOMAIN mem'[old] = {} /\ old' = new /\ new' = old /\ made' = made
  BY FlipEffect
<1>2. old \in {0, 1} /\ new \in {0, 1} /\ new # old /\ \A h \in {0, 1} : h = old \/ h = new
  BY SoundHeap
<1>3. \A h \in {0, 1} : \A o, q \in DOMAIN mem'[h] : mem'[h][o].id = mem'[h][q].id => o = q
  BY <1>1, <1>2 DEF NameInv
<1>4. \A h \in {0, 1} : \A o \in DOMAIN mem'[h] : mem'[h][o].id \in 1..made
  BY <1>1, <1>2 DEF NameInv
<1>5. \A o \in DOMAIN mem'[new] : mem'[new][o].fwd = NoFwd
  BY <1>1, NoForward
<1> QED
  BY <1>1, <1>3, <1>4, <1>5 DEF NameInv, NoFwd, Null

(***************************************************************************)
(* What is live                                                            *)
(***************************************************************************)
LEMMA ObjectParts ==
  ASSUME NEW p
  PROVE  p \in Object <=> \E h \in {0, 1} : \E o \in DOMAIN mem[h] : p = <<h, o>>
  BY DEF Object

LEMMA ObjectIs ==
  ASSUME NEW p \in Object
  PROVE  /\ p[1] \in {0, 1} /\ p[2] \in DOMAIN mem[p[1]] /\ p = <<p[1], p[2]>>
         /\ Exists(p) /\ Obj(p) = mem[p[1]][p[2]]
<1>0. PICK h \in {0, 1} : \E o \in DOMAIN mem[h] : p = <<h, o>>
  BY ObjectParts
<1>1. PICK o \in DOMAIN mem[h] : p = <<h, o>>
  BY <1>0
<1> QED
  BY <1>1 DEF Exists, Obj

LEMMA ExistsObject ==
  ASSUME NEW p \in Ref, Exists(p)
  PROVE  p \in Object
<1>1. p[1] \in {0, 1} /\ p[2] \in DOMAIN mem[p[1]] /\ p = <<p[1], p[2]>>
  BY DEF Exists, Ref, Null
<1> QED
  BY <1>1, ObjectParts

LEMMA RefTypes ==
  ASSUME TypeOK
  PROVE  /\ \A r \in Root : root[r] \in Ref
         /\ \A p \in Object : \A k \in DOMAIN Obj(p).refs : Obj(p).refs[k] \in Ref
<1>1. ASSUME NEW p \in Object, NEW k \in DOMAIN Obj(p).refs PROVE Obj(p).refs[k] \in Ref
  <2>1. Obj(p) \in ObjectType
    <3>1. p[1] \in {0, 1} /\ p[2] \in DOMAIN mem[p[1]] /\ Obj(p) = mem[p[1]][p[2]]
      BY ObjectIs
    <3> QED
      BY <3>1 DEF TypeOK
  <2>2. Obj(p).refs \in Seq(Ref)
    BY <2>1 DEF ObjectType
  <2> QED
    BY <1>1, <2>2
<1> QED
  BY <1>1 DEF TypeOK

LEMMA LiveIff ==
  ASSUME NEW p
  PROVE  p \in LiveObjects <=> p \in Object /\ \A T \in SUBSET Object : Linked(T) => p \in T
<1>1. LiveObjects = {x \in Object : \A T \in {U \in SUBSET Object : Linked(U)} : x \in T}
  BY DEF LiveObjects
<1> QED
  BY <1>1

LEMMA LiveLinked ==
  ASSUME TypeOK
  PROVE  Linked(LiveObjects) /\ LiveObjects \subseteq Object
<1>1. LiveObjects \subseteq Object
  BY LiveIff
<1>2. ASSUME NEW r \in Root, Exists(root[r]) PROVE root[r] \in LiveObjects
  <2>1. root[r] \in Object
    BY <1>2, RefTypes, ExistsObject
  <2>2. \A T \in SUBSET Object : Linked(T) => root[r] \in T
    BY <1>2 DEF Linked
  <2> QED
    BY <2>1, <2>2, LiveIff
<1>3. ASSUME NEW p \in LiveObjects, NEW k \in DOMAIN Obj(p).refs, Exists(Obj(p).refs[k])
      PROVE  Obj(p).refs[k] \in LiveObjects
  <2>1. PICK y : y = Obj(p).refs[k]
    OBVIOUS
  <2>2. y \in Object
    BY <1>1, <1>3, <2>1, RefTypes, ExistsObject
  <2>3. ASSUME NEW T \in SUBSET Object, Linked(T) PROVE y \in T
    <3>1. p \in T
      BY <2>3, LiveIff
    <3> QED
      BY <1>3, <2>1, <2>3, <3>1 DEF Linked
  <2> QED
    BY <2>1, <2>2, <2>3, LiveIff
<1> QED
  BY <1>1, <1>2, <1>3 DEF Linked

LEMMA LiveLeast ==
  ASSUME NEW T \in SUBSET Object, Linked(T)
  PROVE  LiveObjects \subseteq T
  BY LiveIff

\* T holds the objects of half h that variables refer to, and those its objects refer to.
HalfLinked(h, T) ==
  /\ \A r \in Root : root[r][1] = h => root[r][2] \in T
  /\ \A o \in T : \A k \in DOMAIN mem[h][o].refs :
       mem[h][o].refs[k][1] = h => mem[h][o].refs[k][2] \in T

\* Each object of half h can be reached, over objects of that half.
AllLive(h) == \A T \in SUBSET DOMAIN mem[h] : HalfLinked(h, T) => T = DOMAIN mem[h]

LEMMA HalfLive ==
  ASSUME HeapAssumption, IInv, NEW h \in {0, 1}, AllLive(h), NEW c \in DOMAIN mem[h]
  PROVE  <<h, c>> \in LiveObjects
<1>1. TypeOK /\ new \in {0, 1} /\ old \in {0, 1} /\ new # old
  BY SoundHeap DEF IInv
<1>2. Linked(LiveObjects)
  BY <1>1, LiveLinked
<1>3. PICK T : T = {o \in DOMAIN mem[h] : <<h, o>> \in LiveObjects}
  OBVIOUS
<1>4. ASSUME NEW y \in Ref, HalfRef(mem, new, y) \/ HalfRef(mem, old, y), y[1] = h
      PROVE  y = <<h, y[2]>> /\ y[2] \in DOMAIN mem[h] /\ Exists(y)
  BY <1>1, <1>4 DEF HalfRef, Ref, Null, Exists
<1>5. ASSUME NEW r \in Root, root[r][1] = h PROVE root[r][2] \in T
  <2>1. root[r] \in Ref /\ (HalfRef(mem, new, root[r]) \/ HalfRef(mem, old, root[r]))
    BY <1>1 DEF IInv, TypeOK, RootsMoved
  <2>2. root[r] = <<h, root[r][2]>> /\ root[r][2] \in DOMAIN mem[h] /\ Exists(root[r])
    BY <1>4, <1>5, <2>1
  <2>3. root[r] \in LiveObjects
    BY <1>2, <2>2 DEF Linked
  <2> QED
    BY <1>3, <2>2, <2>3
<1>6. ASSUME NEW o \in T, NEW k \in DOMAIN mem[h][o].refs, mem[h][o].refs[k][1] = h
      PROVE  mem[h][o].refs[k][2] \in T
  <2>1. PICK p, y : p = <<h, o>> /\ y = mem[h][o].refs[k]
    OBVIOUS
  <2>2. p \in LiveObjects /\ Obj(p) = mem[h][o] /\ o \in DOMAIN mem[h]
    BY <1>3, <2>1 DEF Obj
  <2>3. y \in Ref
    BY <1>1, <1>6, <2>1, <2>2, LiveLinked, RefTypes
  <2>4. HalfRef(mem, new, y) \/ HalfRef(mem, old, y)
    BY <1>1, <1>6, <2>1, <2>2, SoundHeap DEF Sound
  <2>5. y = <<h, y[2]>> /\ y[2] \in DOMAIN mem[h] /\ Exists(y)
    BY <1>4, <1>6, <2>1, <2>3, <2>4
  <2>6. y \in LiveObjects
    BY <1>2, <1>6, <2>1, <2>2, <2>5 DEF Linked
  <2> QED
    BY <1>3, <2>1, <2>5, <2>6
<1>7. HalfLinked(h, T) /\ T \in SUBSET DOMAIN mem[h]
  BY <1>3, <1>5, <1>6 DEF HalfLinked
<1>8. T = DOMAIN mem[h]
  BY <1>7 DEF AllLive
<1> QED
  BY <1>3, <1>8

\* One copy more, to which a variable or a copy refers; what was new stays so.
Grown(D, E) ==
  /\ D \subseteq E
  /\ \A r \in Root : root[r][1] = new => root[r][2] \in D /\ root'[r] = root[r]
  /\ \A o \in D : \A k \in DOMAIN mem[new][o].refs : mem[new][o].refs[k][1] = new =>
       /\ mem[new][o].refs[k][2] \in D
       /\ k \in DOMAIN mem'[new][o].refs /\ mem'[new][o].refs[k] = mem[new][o].refs[k]
  /\ \A c \in E \ D : \/ \E r \in Root : root'[r] = <<new, c>>
                      \/ \E o \in D : \E k \in DOMAIN mem'[new][o].refs : mem'[new][o].refs[k] = <<new, c>>

LEMMA AllLiveGrow ==
  ASSUME AllLive(new), new' = new, NEW D, D = DOMAIN mem[new], NEW E, E = DOMAIN mem'[new], Grown(D, E)
  PROVE  AllLive(new)'
<1> SUFFICES ASSUME NEW T \in SUBSET E, HalfLinked(new, T)' PROVE T = E
  BY DEF AllLive
<1> USE DEF Grown
<1>1. /\ \A r \in Root : root'[r][1] = new => root'[r][2] \in T
      /\ \A o \in T : \A k \in DOMAIN mem'[new][o].refs :
           mem'[new][o].refs[k][1] = new => mem'[new][o].refs[k][2] \in T
  BY DEF HalfLinked
<1>2. PICK U : U = T \cap D
  OBVIOUS
<1>3. ASSUME NEW r \in Root, root[r][1] = new PROVE root[r][2] \in U
  BY <1>1, <1>2, <1>3
<1>4. ASSUME NEW o \in U, NEW k \in DOMAIN mem[new][o].refs, mem[new][o].refs[k][1] = new
      PROVE  mem[new][o].refs[k][2] \in U
  <2>1. o \in T /\ o \in D
    BY <1>2
  <2>2. /\ mem[new][o].refs[k][2] \in D
        /\ k \in DOMAIN mem'[new][o].refs /\ mem'[new][o].refs[k] = mem[new][o].refs[k]
    BY <1>4, <2>1
  <2> QED
    BY <1>1, <1>2, <1>4, <2>1, <2>2
<1>5. HalfLinked(new, U) /\ U \in SUBSET DOMAIN mem[new]
  BY <1>2, <1>3, <1>4 DEF HalfLinked
<1>6. D \subseteq T
  BY <1>2, <1>5 DEF AllLive
<1>7. ASSUME NEW c \in E \ D PROVE c \in T
  <2>1. PICK x : x = <<new, c>>
    OBVIOUS
  <2>2. x[1] = new /\ x[2] = c
    BY <2>1
  <2>3. CASE \E r \in Root : root'[r] = x
    BY <1>1, <2>2, <2>3
  <2>4. CASE \E o \in D : \E k \in DOMAIN mem'[new][o].refs : mem'[new][o].refs[k] = x
    BY <1>1, <1>6, <2>2, <2>4
  <2> QED
    BY <2>1, <2>3, <2>4
<1> QED
  BY <1>6, <1>7

LEMMA SameLive ==
  ASSUME UNCHANGED <<mem, root>>
  PROVE  LiveObjects' = LiveObjects
<1>1. mem' = mem /\ root' = root
  OBVIOUS
<1>2. Object' = Object
  <2>1. PICK m : m = mem
    OBVIOUS
  <2>2. Object' = UNION {{<<h, o>> : o \in DOMAIN m[h]} : h \in {0, 1}}
    BY <1>1, <2>1 DEF Object
  <2> QED
    BY <2>1, <2>2 DEF Object
<1>3. \A T : Linked(T)' <=> Linked(T)
  BY <1>1 DEF Linked, Exists, Obj
<1>4. ASSUME NEW p PROVE p \in LiveObjects' <=> p \in LiveObjects
  <2>1. p \in LiveObjects <=> p \in Object /\ \A T \in SUBSET Object : Linked(T) => p \in T
    BY LiveIff
  <2>2. LiveObjects' = {x \in Object' : \A T \in {U \in SUBSET Object' : Linked(U)'} : x \in T}
    BY DEF LiveObjects
  <2>3. p \in LiveObjects' <=> p \in Object /\ \A T \in SUBSET Object : Linked(T) => p \in T
    BY <1>2, <1>3, <2>2
  <2> QED
    BY <2>1, <2>3
<1> QED
  BY <1>4

\* The object that does not fit into the new half.
Blocked ==
  \E o \in DOMAIN mem[old] :
    <<old, o>> \in LiveObjects /\ mem[old][o].fwd = NoFwd /\ b + mem[old][o].size >= ToSize

LInv ==
  /\ NameInv(mem)
  /\ AllLive(new)
  /\ pc \in {"retry", "nomem"} => AllLive(old)
  /\ pc = "nomem" => allocated + want[2].size > ToSize
  /\ pc = "overrun" => Blocked

LEMMA NoneLive ==
  ASSUME DOMAIN mem'[new'] = {}
  PROVE  AllLive(new)'
  BY DEF AllLive

LEMMA KeptLive ==
  ASSUME UNCHANGED <<mem, root, old>>
  PROVE  /\ new' = new /\ (AllLive(new) => AllLive(new)') /\ (AllLive(old) => AllLive(old)')
<1>1. mem' = mem /\ root' = root /\ old' = old /\ new' = new
  BY DEF new
<1>2. \A h, T : HalfLinked(h, T)' <=> HalfLinked(h, T)
  BY <1>1 DEF HalfLinked
<1> QED
  BY <1>1, <1>2 DEF AllLive

\* What moves is what a live object or a variable refers to.
LEMMA OverrunBlocks ==
  ASSUME HeapAssumption, IInv, NEW p, Movable(p), Exists(p) => p \in LiveObjects, Overruns(p)
  PROVE  Blocked
<1>1. Stayed(Move(p).mem, Move(p).b, Move(p).to, p) \/ Copied(Move(p).mem, Move(p).b, Move(p).to, p)
  BY MoveCases DEF Movable, IInv
<1>2. Move(p).b # b /\ Move(p).b >= ToSize
  BY DEF Overruns
<1>3. /\ p[1] = old /\ p[2] \in DOMAIN mem[old] /\ mem[old][p[2]].fwd = NoFwd
      /\ b + mem[old][p[2]].size >= ToSize
  BY <1>1, <1>2 DEF Stayed, Copied
<1>4. p = <<old, p[2]>> /\ Exists(p)
  BY <1>3, SoundHeap DEF Movable, Ref, Null, Exists
<1> QED
  BY <1>3, <1>4 DEF Blocked

\* A move adds at most one copy, and then that is where it leads.
LEMMA MoveNew ==
  ASSUME NEW m, NEW e, NEW q, NEW p, Moves(m, e, q, p), old # new
  PROVE  /\ DOMAIN mem[new] \subseteq DOMAIN m[new]
         /\ \A o \in DOMAIN mem[new] : m[new][o] = mem[new][o]
         /\ \A c \in DOMAIN m[new] \ DOMAIN mem[new] : q = <<new, c>>
         /\ p[1] = new => q = p
  BY DEF Moves, Stayed, Copied

LEMMA HalfOf ==
  ASSUME NEW m, NEW h, NEW g, h \in {0, 1}, h # g,
         NEW y, HalfRef(m, g, y) \/ HalfRef(m, h, y), y[1] = h
  PROVE  y[2] \in DOMAIN m[h]
  BY DEF HalfRef, Null

LEMMA ScanRootLive ==
  ASSUME HeapAssumption, IInv, AllLive(new), NEW r \in Root, ScanRoot(r), ~Overruns(root[r])
  PROVE  AllLive(new)'
<1>1. PICK m, e, q :
           /\ Moves(m, e, q, root[r]) /\ Movable(root[r]) /\ root[r][1] # new
           /\ root' = [root EXCEPT ![r] = q] /\ mem' = m
  BY ScanRootEffect
<1>2. /\ TypeOK /\ old' = old /\ new' = new /\ root \in [Root -> Ref]
      /\ \A x \in Root : HalfRef(mem, old, root[x]) \/ HalfRef(mem, new, root[x])
  BY DEF ScanRoot, Overrun, IInv, TypeOK, RootsMoved, new
<1>3. Sound(mem) /\ old \in {0, 1} /\ new \in {0, 1} /\ new # old
  BY SoundHeap
<1>4. PICK D, E, p : D = DOMAIN mem[new] /\ E = DOMAIN mem'[new] /\ p = root[r]
  OBVIOUS
<1>5. Moves(m, e, q, p)
  BY <1>1, <1>4
<1>6. D \subseteq E /\ (\A o \in D : mem'[new][o] = mem[new][o]) /\ \A c \in E \ D : q = <<new, c>>
  BY <1>1, <1>3, <1>4, <1>5, MoveNew
<1>7. ASSUME NEW x \in Root, root[x][1] = new PROVE root[x][2] \in D /\ root'[x] = root[x]
  <2>1. x # r
    BY <1>1, <1>7
  <2>2. root[x][2] \in D
    BY <1>2, <1>3, <1>4, <1>7, HalfOf
  <2> QED
    BY <1>1, <1>2, <2>1, <2>2
<1>8. ASSUME NEW o \in D, NEW k \in DOMAIN mem[new][o].refs, mem[new][o].refs[k][1] = new
      PROVE  /\ mem[new][o].refs[k][2] \in D
             /\ k \in DOMAIN mem'[new][o].refs /\ mem'[new][o].refs[k] = mem[new][o].refs[k]
  <2>1. HalfRef(mem, new, mem[new][o].refs[k]) \/ HalfRef(mem, old, mem[new][o].refs[k])
    BY <1>3, <1>4 DEF Sound
  <2>2. mem[new][o].refs[k][2] \in D
    BY <1>3, <1>4, <1>8, <2>1, HalfOf
  <2> QED
    BY <1>6, <2>2
<1>9. root'[r] = q
  BY <1>1, <1>2
<1>10. \A c \in E \ D : \E x \in Root : root'[x] = <<new, c>>
  BY <1>6, <1>9
<1>11. Grown(D, E)
  BY <1>6, <1>7, <1>8, <1>10 DEF Grown
<1> QED
  BY <1>2, <1>4, <1>11, AllLiveGrow

LEMMA ScanLinkLive ==
  ASSUME HeapAssumption, IInv, AllLive(new), ScanLink, ~Overruns(mem[new][s].refs[i])
  PROVE  AllLive(new)'
<1>1. PICK m, e, q, p :
           /\ s \in DOMAIN mem[new] /\ i \in DOMAIN mem[new][s].refs /\ p = mem[new][s].refs[i]
           /\ Moves(m, e, q, p) /\ Movable(p)
           /\ mem'[old] = m[old] /\ OneField(m[new], mem'[new], s, i, q)
           /\ UNCHANGED <<root, old, made>>
  BY ScanLinkEffect
<1>2. /\ TypeOK /\ new' = new /\ root' = root
      /\ \A x \in Root : HalfRef(mem, old, root[x]) \/ HalfRef(mem, new, root[x])
  BY <1>1 DEF ScanLink, Overrun, IInv, TypeOK, RootsMoved, new, Quiet
<1>3. Sound(mem) /\ old \in {0, 1} /\ new \in {0, 1} /\ new # old
  BY SoundHeap
<1>4. PICK D, E : D = DOMAIN mem[new] /\ E = DOMAIN mem'[new]
  OBVIOUS
<1>5. E = DOMAIN m[new]
  BY <1>1, <1>4 DEF OneField
<1>6. D \subseteq E /\ (\A o \in D : m[new][o] = mem[new][o]) /\ (\A c \in E \ D : q = <<new, c>>)
      /\ (p[1] = new => q = p)
  BY <1>1, <1>3, <1>4, <1>5, MoveNew
<1>7. ASSUME NEW x \in Root, root[x][1] = new PROVE root[x][2] \in D /\ root'[x] = root[x]
  BY <1>2, <1>3, <1>4, <1>7, HalfOf
<1>8. ASSUME NEW o \in D, NEW k \in DOMAIN mem[new][o].refs, mem[new][o].refs[k][1] = new
      PROVE  /\ mem[new][o].refs[k][2] \in D
             /\ k \in DOMAIN mem'[new][o].refs /\ mem'[new][o].refs[k] = mem[new][o].refs[k]
  <2>1. HalfRef(mem, new, mem[new][o].refs[k]) \/ HalfRef(mem, old, mem[new][o].refs[k])
    BY <1>3, <1>4 DEF Sound
  <2>2. mem[new][o].refs[k][2] \in D
    BY <1>3, <1>4, <1>8, <2>1, HalfOf
  <2>3. m[new][o] = mem[new][o] /\ o \in DOMAIN m[new]
    BY <1>5, <1>6
  <2>4. CASE o = s /\ k = i
    BY <1>1, <1>6, <1>8, <2>2, <2>3, <2>4 DEF OneField
  <2>5. CASE o = s /\ k # i
    BY <1>1, <2>2, <2>3, <2>5 DEF OneField
  <2>6. CASE o # s
    BY <1>1, <2>2, <2>3, <2>6 DEF OneField
  <2> QED
    BY <2>4, <2>5, <2>6
<1>9. s \in D /\ i \in DOMAIN mem'[new][s].refs /\ mem'[new][s].refs[i] = q
  BY <1>1, <1>4 DEF OneField
<1>10. ASSUME NEW c \in E \ D
       PROVE  \/ \E r \in Root : root'[r] = <<new, c>>
              \/ \E o \in D : \E k \in DOMAIN mem'[new][o].refs : mem'[new][o].refs[k] = <<new, c>>
  <2>1. q = <<new, c>>
    BY <1>6, <1>10
  <2>2. mem'[new][s].refs[i] = <<new, c>>
    BY <1>9, <2>1
  <2> QED
    BY <1>9, <2>2
<1>11. new' = new
  BY <1>2
<1>12. Grown(D, E)
  BY <1>6, <1>7, <1>8, <1>10 DEF Grown
<1> QED
  BY <1>4, <1>11, <1>12, AllLiveGrow

LEMMA InitLive == ASSUME HeapAssumption, Init PROVE LInv
<1>1. /\ \A h \in {0, 1} : DOMAIN mem[h] = {}
      /\ old \in {0, 1} /\ new \in {0, 1} /\ pc = "run"
  BY DEF Init, Empty, new
<1>2. NameInv(mem)
  BY <1>1 DEF NameInv
<1>3. AllLive(new)
  BY <1>1 DEF AllLive
<1> QED
  BY <1>1, <1>2, <1>3 DEF LInv

\* Outside a collection the new half is empty.
LEMMA QuietLive ==
  ASSUME IInv', pc' = "run", NameInv(mem)'
  PROVE  LInv'
<1>1. DOMAIN mem'[new'] = {}
  BY DEF IInv, Quiet
<1>2. AllLive(new)'
  BY <1>1, NoneLive
<1> QED
  BY <1>2 DEF LInv

LEMMA MakeLive ==
  ASSUME HeapAssumption, IInv, IInv', NameInv(mem), NEW r \in Root, NEW sh \in Shape,
         Fits(sh), Make(r, sh), pc \in Quiet, made < MaxNew, old' = old, pc' = "run"
  PROVE  LInv'
<1>1. NameInv(mem)'
  BY MakeNames
<1> QED
  BY <1>1, QuietLive

LEMMA SameHeapLive ==
  ASSUME IInv, LInv, UNCHANGED <<mem, root, old, made>>
  PROVE  NameInv(mem)' /\ AllLive(new)' /\ (AllLive(old) => AllLive(old)')
<1>1. AllLive(new)' /\ (AllLive(old) => AllLive(old)')
  BY KeptLive DEF LInv
<1>2. NameInv(mem')
  BY DEF LInv
<1> QED
  BY <1>1, <1>2, SameNames

LEMMA RetryLive ==
  ASSUME HeapAssumption, IInv, IInv', LInv, Retry
  PROVE  LInv'
<1>1. /\ pc = "retry" /\ old' = old /\ want[1] \in Root /\ want[2] \in Shape
      /\ made < MaxNew /\ pc \in Quiet /\ NameInv(mem) /\ AllLive(old)
  BY DEF Retry, IInv, TypeOK, LInv, Quiet
<1>2. CASE Fits(want[2])
  <2>1. Make(want[1], want[2]) /\ pc' = "run"
    BY <1>2 DEF Retry
  <2> QED
    BY <1>1, <1>2, <2>1, MakeLive
<1>3. CASE ~Fits(want[2])
  <2>1. pc' = "nomem" /\ UNCHANGED <<mem, root, old, made, allocated, want>>
    BY <1>3 DEF Retry
  <2>2. NameInv(mem)' /\ AllLive(new)' /\ AllLive(old)'
    BY <1>1, <2>1, SameHeapLive
  <2>3. allocated \in Nat /\ ToSize \in Nat /\ want[2].size \in Nat
    BY <1>1 DEF IInv, TypeOK, HeapAssumption
  <2>4. allocated' + want'[2].size > ToSize
    BY <1>3, <2>1, <2>3 DEF Fits
  <2> QED
    BY <2>1, <2>2, <2>4 DEF LInv
<1> QED
  BY <1>2, <1>3

\* An overrun, with a reference that a variable or a live object holds.
LEMMA OverrunLive ==
  ASSUME HeapAssumption, IInv, LInv, Overrun, Blocked
  PROVE  LInv'
<1>1. pc' = "overrun" /\ UNCHANGED <<mem, old, allocated, root, b, want, made>>
  BY DEF Overrun, collection
<1>2. NameInv(mem)' /\ AllLive(new)'
  BY <1>1, SameHeapLive
<1>3. Blocked'
  BY <1>1, SameLive DEF Blocked, NoFwd, Null
<1> QED
  BY <1>1, <1>2, <1>3 DEF LInv

LEMMA ScanRootKeeps ==
  ASSUME HeapAssumption, IInv, LInv, NEW r \in Root, ScanRoot(r)
  PROVE  LInv'
<1>1. TypeOK /\ Linked(LiveObjects)
  BY LiveLinked DEF IInv
<1>2. CASE Overruns(root[r])
  <2>1. Overrun /\ pc = "scan" /\ r \in todo
    BY <1>2 DEF ScanRoot
  <2>2. Movable(root[r])
    BY <1>1, <2>1 DEF IInv, TypeOK, RootsMoved, Quiet, Movable
  <2>3. Exists(root[r]) => root[r] \in LiveObjects
    BY <1>1 DEF Linked
  <2>4. Blocked
    BY <1>2, <2>2, <2>3, OverrunBlocks
  <2> QED
    BY <2>1, <2>4, OverrunLive
<1>3. CASE ~Overruns(root[r])
  <2>1. NameInv(mem)' /\ AllLive(new)'
    BY <1>3, ScanRootNames, ScanRootLive DEF LInv
  <2>2. pc' \in {"scan", "trace"}
    BY <1>3 DEF ScanRoot
  <2> QED
    BY <2>1, <2>2 DEF LInv
<1> QED
  BY <1>2, <1>3

LEMMA ScanLinkKeeps ==
  ASSUME HeapAssumption, IInv, LInv, ScanLink
  PROVE  LInv'
<1>1. TypeOK /\ Linked(LiveObjects)
  BY LiveLinked DEF IInv
<1>2. PICK p : p = mem[new][s].refs[i]
  OBVIOUS
<1>3. CASE Overruns(p)
  <2>1. Overrun /\ pc = "trace" /\ s < b /\ i <= Len(mem[new][s].refs)
    BY <1>2, <1>3 DEF ScanLink
  <2>2. /\ s \in DOMAIN mem[new] /\ b \in Nat /\ s \in Nat /\ i \in Nat \ {0}
        /\ Sound(mem) /\ new \in {0, 1} /\ HasType(mem)
    <3>1. s \in DOMAIN mem[new] \/ s = b
      BY <2>1 DEF IInv, Quiet
    <3>2. b \in Nat /\ s \in Nat /\ i \in Nat \ {0}
      BY <1>1 DEF TypeOK, HeapAssumption
    <3> QED
      BY <2>1, <3>1, <3>2, SoundHeap DEF IInv, HeapInv
  <2>3. mem[new][s] \in ObjectType
    BY <2>2 DEF HasType
  <2>4. mem[new][s].refs \in Seq(Ref)
    BY <2>3 DEF ObjectType
  <2>5. i \in DOMAIN mem[new][s].refs /\ p \in Ref
    BY <1>2, <2>1, <2>2, <2>4
  <2>6. Movable(p)
    BY <1>2, <2>2, <2>5 DEF Sound, Movable
  <2>7. <<new, s>> \in LiveObjects
    BY <2>2, HalfLive DEF LInv
  <2>8. PICK z : z = <<new, s>>
    OBVIOUS
  <2>9. z \in LiveObjects /\ Obj(z) = mem[new][s]
    BY <2>7, <2>8 DEF Obj
  <2>10. Exists(p) => p \in LiveObjects
    BY <1>1, <1>2, <2>5, <2>9 DEF Linked
  <2>11. Blocked
    BY <1>3, <2>6, <2>10, OverrunBlocks
  <2> QED
    BY <2>1, <2>11, OverrunLive
<1>4. CASE ~Overruns(p)
  <2>1. NameInv(mem)' /\ AllLive(new)'
    BY <1>2, <1>4, ScanLinkNames, ScanLinkLive DEF LInv
  <2>2. pc' = "trace"
    BY <1>2, <1>4 DEF ScanLink
  <2> QED
    BY <2>1, <2>2 DEF LInv
<1> QED
  BY <1>3, <1>4

LEMMA FlipKeeps ==
  ASSUME HeapAssumption, IInv, LInv, Flip
  PROVE  LInv'
<1>1. mem'[new] = mem[new] /\ DOMAIN mem'[old] = {} /\ old' = new /\ new' = old /\ root' = root
      /\ pc' = "retry"
  BY FlipEffect DEF Flip
<1>2. NameInv(mem)'
  BY FlipNames DEF LInv
<1>3. AllLive(new)'
  BY <1>1, NoneLive
<1>4. AllLive(old)'
  <2> SUFFICES ASSUME NEW T \in SUBSET DOMAIN mem[new], HalfLinked(old, T)' PROVE T = DOMAIN mem[new]
    BY <1>1 DEF AllLive
  <2>1. HalfLinked(new, T)
    BY <1>1 DEF HalfLinked
  <2> QED
    BY <2>1 DEF LInv, AllLive
<1> QED
  BY <1>1, <1>2, <1>3, <1>4 DEF LInv

\* The collector copies what can be reached and nothing else.
THEOREM CollectorLive == Spec => []LInv
<1>1. Init => LInv
  BY HeapAssumption, InitLive
<1>2. IInv /\ IInv' /\ LInv /\ [Next]_vars => LInv'
  <2> SUFFICES ASSUME IInv, IInv', LInv, [Next]_vars PROVE LInv'
    OBVIOUS
  <2> USE HeapAssumption
  <2>1. ASSUME NEW r \in Root, ScanRoot(r) PROVE LInv'
    BY <2>1, ScanRootKeeps
  <2>2. CASE ScanLink
    BY <2>2, ScanLinkKeeps
  <2>3. CASE NextObject
    <3>1. UNCHANGED <<mem, root, old, made>> /\ pc = "trace" /\ pc' = "trace"
      BY <2>3 DEF NextObject
    <3> QED
      BY <3>1, SameHeapLive DEF LInv
  <2>4. CASE Flip
    BY <2>4, FlipKeeps
  <2>5. CASE Retry
    BY <2>5, RetryLive
  <2>6. ASSUME NEW r \in Root, NEW sh \in Shape, New(r, sh) PROVE LInv'
    <3>1. pc = "run" /\ made < MaxNew /\ Fits(sh) /\ Make(r, sh) /\ old' = old /\ pc' = "run"
      BY <2>6 DEF New
    <3> QED
      BY <3>1, MakeLive DEF LInv, Quiet
  <2>7. ASSUME NEW r \in Root, NEW sh \in Shape, StartGC(r, sh) PROVE LInv'
    <3>1. UNCHANGED <<mem, root, old, made>> /\ pc' = "scan"
      BY <2>7 DEF StartGC
    <3> QED
      BY <3>1, SameHeapLive DEF LInv
  <2>8. ASSUME NEW r \in Root, NEW q \in Root, Load(r, q) PROVE LInv'
    <3>1. mem' = mem /\ old' = old /\ made' = made /\ pc' = "run"
      BY <2>8 DEF Load
    <3>2. NameInv(mem)'
      BY <3>1, SameNames DEF LInv
    <3> QED
      BY <3>1, <3>2, QuietLive
  <2>9. ASSUME NEW r \in Root, NEW q \in Root, Store(r, q) PROVE LInv'
    <3>1. pc' = "run" /\ NameInv(mem)'
      BY <2>9, StoreNames DEF Store, LInv
    <3> QED
      BY <3>1, QuietLive
  <2>10. ASSUME NEW r \in Root, Forget(r) PROVE LInv'
    <3>1. mem' = mem /\ old' = old /\ made' = made /\ pc' = "run"
      BY <2>10 DEF Forget
    <3>2. NameInv(mem)'
      BY <3>1, SameNames DEF LInv
    <3> QED
      BY <3>1, <3>2, QuietLive
  <2>11. CASE UNCHANGED vars
    <3>1. UNCHANGED <<mem, old, allocated, root, pc, b, want, made>>
      BY <2>11 DEF vars
    <3>2. NameInv(mem)' /\ AllLive(new)' /\ (AllLive(old) => AllLive(old)')
      BY <3>1, SameHeapLive
    <3>3. Blocked => Blocked'
      BY <3>1, SameLive DEF Blocked, NoFwd, Null
    <3> QED
      BY <3>1, <3>2, <3>3 DEF LInv
  <2> QED
    BY <2>1, <2>2, <2>3, <2>4, <2>5, <2>6, <2>7, <2>8, <2>9, <2>10, <2>11 DEF Next, Collect
<1> QED
  BY <1>1, <1>2, CollectorInvariant, PTL DEF Spec

(***************************************************************************)
(* Counting.  A nonempty set of natural numbers has a smallest element,    *)
(* and a largest one if it is bounded: a word of a half lies in the last   *)
(* object that starts no later.                                            *)
(***************************************************************************)
Less == OpToRel(<, Nat)

LEMMA Smallest ==
  ASSUME NEW T \in SUBSET Nat, T # {}
  PROVE  \E x \in T : \A y \in T : x <= y
<1>1. Less = {e \in Nat \X Nat : e[1] < e[2]}
  BY DEF Less, OpToRel
<1>2. IsWellFoundedOn(Less, Nat)
  BY NatLessThanWellFounded, Zenon DEF Less
<1>3. PICK x \in T : \A y \in T : ~(<<y, x>> \in Less)
  BY <1>2, WFMin
<1>4. ASSUME NEW y \in T PROVE x <= y
  <2>1. ~(<<y, x>> \in Less)
    BY <1>3
  <2> QED
    BY <1>1, <2>1
<1> QED
  BY <1>4

LEMMA Largest ==
  ASSUME NEW T \in SUBSET Nat, T # {}, NEW m \in Nat, \A x \in T : x <= m
  PROVE  \E x \in T : \A y \in T : y <= x
<1>1. PICK D \in SUBSET Nat : D = {d \in Nat : m - d \in T}
  OBVIOUS
<1>2. D # {}
  <2>1. PICK x \in T : TRUE
    OBVIOUS
  <2>2. m - x \in Nat /\ m - (m - x) = x
    BY <2>1
  <2> QED
    BY <1>1, <2>1, <2>2
<1>3. PICK d \in D : \A e \in D : d <= e
  BY <1>2, Smallest
<1>4. m - d \in T /\ d \in Nat
  BY <1>1, <1>3
<1>5. ASSUME NEW y \in T PROVE y <= m - d
  <2>1. m - y \in Nat /\ m - (m - y) = y
    BY <1>5
  <2>2. m - y \in D
    BY <1>1, <2>1
  <2>3. d <= m - y
    BY <1>3, <2>2
  <2> QED
    BY <1>4, <2>1, <2>3
<1> QED
  BY <1>4, <1>5

At(h, x) == CHOOSE o \in DOMAIN mem[h] : o <= x /\ x < o + mem[h][o].size
WordAt(h, x) == <<mem[h][At(h, x)].id, x - At(h, x) + 1>>

LEMMA Covered ==
  ASSUME NEW h \in {0, 1}, NEW e \in Nat, HasType(mem), ToSize \in Nat, Tiles(mem[h], e),
         NEW x \in 0..e - 1
  PROVE  /\ At(h, x) \in DOMAIN mem[h] /\ At(h, x) \in Nat
         /\ x - At(h, x) + 1 \in 1..mem[h][At(h, x)].size
         /\ At(h, x) <= x /\ x < At(h, x) + mem[h][At(h, x)].size
<1>1. \A o \in DOMAIN mem[h] : o \in Nat /\ mem[h][o].size \in Nat \ {0}
  <2> SUFFICES ASSUME NEW o \in DOMAIN mem[h] PROVE o \in Nat /\ mem[h][o].size \in Nat \ {0}
    OBVIOUS
  <2>1. mem[h][o] \in ObjectType /\ o \in 0..ToSize - 1
    BY DEF HasType
  <2>2. mem[h][o].size \in 1..ToSize
    BY <2>1 DEF ObjectType
  <2> QED
    BY <2>1, <2>2
<1>2. PICK T \in SUBSET Nat : T = {o \in DOMAIN mem[h] : o <= x}
  BY <1>1
<1>3. 0 \in T
  BY <1>2 DEF Tiles
<1>4. PICK o \in T : \A y \in T : y <= o
  <2>1. T # {} /\ x \in Nat /\ \A y \in T : y <= x
    BY <1>2, <1>3
  <2> QED
    BY <2>1, Largest
<1>5. o \in DOMAIN mem[h] /\ o <= x /\ o \in Nat /\ mem[h][o].size \in Nat \ {0}
  BY <1>1, <1>2
<1>6. x < o + mem[h][o].size
  <2>1. CASE o + mem[h][o].size = e
    BY <2>1
  <2>2. CASE o + mem[h][o].size # e
    <3>1. o + mem[h][o].size \in DOMAIN mem[h]
      BY <1>5, <2>2 DEF Tiles
    <3>2. ~(o + mem[h][o].size <= o)
      BY <1>5
    <3>3. o + mem[h][o].size \notin T
      BY <1>4, <3>2
    <3>4. ~(o + mem[h][o].size <= x)
      BY <1>2, <3>1, <3>3
    <3> QED
      BY <1>5, <3>4
  <2> QED
    BY <2>1, <2>2
<1>7. At(h, x) \in DOMAIN mem[h] /\ At(h, x) <= x /\ x < At(h, x) + mem[h][At(h, x)].size
  BY <1>5, <1>6 DEF At
<1>8. At(h, x) \in Nat /\ mem[h][At(h, x)].size \in Nat
  BY <1>1, <1>7
<1> QED
  BY <1>7, <1>8

LEMMA WordsDiffer ==
  ASSUME NEW h \in {0, 1}, NEW e \in Nat, HasType(mem), ToSize \in Nat, Tiles(mem[h], e), NameInv(mem),
         NEW x \in 0..e - 1, NEW y \in 0..e - 1, WordAt(h, x) = WordAt(h, y)
  PROVE  x = y
<1>1. At(h, x) \in DOMAIN mem[h] /\ At(h, x) \in Nat /\ At(h, y) \in DOMAIN mem[h] /\ At(h, y) \in Nat
  BY Covered
<1>2. mem[h][At(h, x)].id = mem[h][At(h, y)].id /\ x - At(h, x) + 1 = y - At(h, y) + 1
  BY DEF WordAt
<1>3. At(h, x) = At(h, y)
  BY <1>1, <1>2 DEF NameInv
<1> QED
  BY <1>1, <1>2, <1>3

Words == UNION {{Obj(p).id} \X (1..Obj(p).size) : p \in LiveObjects}

LEMMA InWords ==
  ASSUME NEW w
  PROVE  w \in Words <=> \E p \in LiveObjects : \E k \in 1..Obj(p).size : w = <<Obj(p).id, k>>
<1>1. w \in Words <=> \E p \in LiveObjects : w \in {Obj(p).id} \X (1..Obj(p).size)
  BY DEF Words
<1>2. \A p : w \in {Obj(p).id} \X (1..Obj(p).size) <=> \E k \in 1..Obj(p).size : w = <<Obj(p).id, k>>
  OBVIOUS
<1> QED
  BY <1>1, <1>2

LEMMA Interval ==
  ASSUME NEW n \in Nat
  PROVE  IsFiniteSet(0..n - 1) /\ Cardinality(0..n - 1) = n
<1>1. PICK m \in Int : m = n - 1
  OBVIOUS
<1>2. IsFiniteSet(0..m) /\ Cardinality(0..m) = IF 0 > m THEN 0 ELSE m - 0 + 1
  BY FS_Interval
<1> QED
  BY <1>1, <1>2

LEMMA AtLeast ==
  ASSUME NEW n \in Nat, NEW W, IsFiniteSet(W), NEW f \in [0..n - 1 -> W],
         \A x, y \in 0..n - 1 : f[x] = f[y] => x = y
  PROVE  n <= Cardinality(W)
<1>1. f \in Injection(0..n - 1, W)
  BY DEF Injection, IsInjective
<1>2. Cardinality(0..n - 1) <= Cardinality(W)
  BY <1>1, FS_Injection
<1>3. Cardinality(0..n - 1) = n
  BY Interval
<1> QED
  BY <1>2, <1>3

\* where the original of the object named n is
OriginalOf(n) == CHOOSE o \in DOMAIN mem[old] : mem[old][o].id = n

\* Each object in use, a copy too, has its original in the old half: names and sizes agree.
LEMMA Original ==
  ASSUME HeapAssumption, IInv, NameInv(mem), NEW p \in LiveObjects
  PROVE  /\ OriginalOf(Obj(p).id) \in DOMAIN mem[old]
         /\ mem[old][OriginalOf(Obj(p).id)].id = Obj(p).id
         /\ mem[old][OriginalOf(Obj(p).id)].size = Obj(p).size
<1>1. TypeOK /\ Sound(mem) /\ old \in {0, 1} /\ new \in {0, 1} /\ new # old
      /\ \A h \in {0, 1} : h = old \/ h = new
  BY SoundHeap DEF IInv
<1>2. p \in Object
  BY LiveIff
<1>3. p[1] \in {0, 1} /\ p[2] \in DOMAIN mem[p[1]] /\ Obj(p) = mem[p[1]][p[2]]
  BY <1>2, ObjectIs
<1>4. \E o \in DOMAIN mem[old] : mem[old][o].id = Obj(p).id /\ mem[old][o].size = Obj(p).size
  <2>1. CASE p[1] = old
    BY <1>3, <2>1
  <2>2. CASE p[1] = new
    <3>1. PICK o \in DOMAIN mem[old] : mem[old][o].fwd = <<new, p[2]>>
      BY <1>3, <2>2 DEF NameInv
    <3>2. mem[old][o].fwd # NoFwd /\ mem[old][o].fwd[2] = p[2]
      BY <1>1, <3>1 DEF NoFwd, Null
    <3>3. Replica(mem, mem[old][o], mem[new][p[2]])
      BY <3>2 DEF NameInv
    <3> QED
      BY <1>3, <2>2, <3>3 DEF Replica
  <2> QED
    BY <1>1, <1>3, <2>1, <2>2
<1>5. PICK o \in DOMAIN mem[old] : mem[old][o].id = Obj(p).id /\ mem[old][o].size = Obj(p).size
  BY <1>4
<1>6. /\ OriginalOf(Obj(p).id) \in DOMAIN mem[old]
      /\ mem[old][OriginalOf(Obj(p).id)].id = Obj(p).id
  BY <1>5 DEF OriginalOf
<1>7. OriginalOf(Obj(p).id) = o
  BY <1>1, <1>5, <1>6 DEF NameInv
<1> QED
  BY <1>5, <1>6, <1>7

\* The words of the objects in use are words of the old half.
LEMMA WordsFit ==
  ASSUME HeapAssumption, IInv, NameInv(mem)
  PROVE  IsFiniteSet(Words) /\ Cardinality(Words) <= ToSize
<1>1. TypeOK /\ HasType(mem) /\ Tiles(mem[old], allocated) /\ old \in {0, 1}
      /\ allocated \in Nat /\ allocated <= ToSize /\ ToSize \in Nat
  BY DEF IInv, HeapInv, TypeOK, HeapAssumption
<1>2. PICK f : f = [w \in Words |-> OriginalOf(w[1]) + w[2] - 1]
  OBVIOUS
<1>3. ASSUME NEW w \in Words
      PROVE  /\ OriginalOf(w[1]) \in DOMAIN mem[old] /\ OriginalOf(w[1]) \in Nat
             /\ mem[old][OriginalOf(w[1])].id = w[1]
             /\ w[2] \in 1..mem[old][OriginalOf(w[1])].size
             /\ OriginalOf(w[1]) + mem[old][OriginalOf(w[1])].size <= ToSize
             /\ mem[old][OriginalOf(w[1])].size \in Nat
             /\ w = <<w[1], w[2]>>
  <2>1. PICK p \in LiveObjects : \E k \in 1..Obj(p).size : w = <<Obj(p).id, k>>
    BY InWords
  <2>2. w[1] = Obj(p).id /\ w[2] \in 1..Obj(p).size /\ w = <<w[1], w[2]>>
    BY <2>1
  <2>3. PICK o : o = OriginalOf(w[1])
    OBVIOUS
  <2>4. o \in DOMAIN mem[old] /\ mem[old][o].id = w[1] /\ mem[old][o].size = Obj(p).size
    BY <2>2, <2>3, Original
  <2>5. o \in 0..ToSize - 1 /\ mem[old][o] \in ObjectType
    BY <1>1, <2>4 DEF HasType
  <2>6. mem[old][o].size \in 1..ToSize
    BY <2>5 DEF ObjectType
  <2>7. o + mem[old][o].size <= ToSize
    <3>1. o + mem[old][o].size \in DOMAIN mem[old] \/ o + mem[old][o].size = allocated
      BY <1>1, <2>4 DEF Tiles
    <3>2. \A z \in DOMAIN mem[old] : z \in 0..ToSize - 1
      BY <1>1 DEF HasType
    <3> QED
      BY <1>1, <3>1, <3>2
  <2> QED
    BY <1>1, <2>2, <2>3, <2>4, <2>5, <2>6, <2>7
<1>4. ASSUME NEW w \in Words PROVE f[w] \in 0..ToSize - 1
  <2>1. PICK o, k, z : o = OriginalOf(w[1]) /\ k = w[2] /\ z = mem[old][o].size
    OBVIOUS
  <2>2. o \in Nat /\ z \in Nat /\ k \in 1..z /\ o + z <= ToSize
    BY <1>3, <2>1
  <2>3. f[w] = o + k - 1
    BY <1>2, <2>1
  <2> QED
    BY <1>1, <2>2, <2>3
<1>5. ASSUME NEW v \in Words, NEW w \in Words, f[v] = f[w] PROVE v = w
  <2>1. PICK o, k, z : o = OriginalOf(v[1]) /\ k = v[2] /\ z = mem[old][o].size
    OBVIOUS
  <2>2. PICK o2, k2, z2 : o2 = OriginalOf(w[1]) /\ k2 = w[2] /\ z2 = mem[old][o2].size
    OBVIOUS
  <2>3. /\ o \in Nat /\ z \in Nat /\ k \in 1..z /\ o \in DOMAIN mem[old] /\ mem[old][o].id = v[1]
        /\ v = <<v[1], k>>
    BY <1>3, <2>1
  <2>4. /\ o2 \in Nat /\ z2 \in Nat /\ k2 \in 1..z2 /\ o2 \in DOMAIN mem[old] /\ mem[old][o2].id = w[1]
        /\ w = <<w[1], k2>>
    BY <1>3, <2>2
  <2>5. o + k - 1 = o2 + k2 - 1
    BY <1>2, <1>5, <2>1, <2>2
  <2>6. (o < o2 => o + z <= o2) /\ (o2 < o => o2 + z2 <= o)
    BY <1>1, <2>1, <2>2, <2>3, <2>4 DEF Tiles
  <2>7. o = o2 /\ k = k2
    BY <2>3, <2>4, <2>5, <2>6
  <2> QED
    BY <2>3, <2>4, <2>7
<1>6. f \in [Words -> 0..ToSize - 1]
  BY <1>2, <1>4
<1>7. f \in Injection(Words, 0..ToSize - 1)
  BY <1>5, <1>6 DEF Injection, IsInjective
<1>8. IsFiniteSet(0..ToSize - 1) /\ Cardinality(0..ToSize - 1) = ToSize
  BY <1>1, Interval
<1>9. PICK T : T = 0..ToSize - 1
  OBVIOUS
<1>10. f \in Injection(Words, T) /\ IsFiniteSet(T) /\ Cardinality(T) = ToSize
  BY <1>7, <1>8, <1>9
<1>11. IsFiniteSet(Words) /\ Cardinality(Words) <= Cardinality(T)
  BY <1>10, FS_Injection
<1> QED
  BY <1>10, <1>11

\* "buffer overrun": the copies and the object that does not fit beside them fill a half.
LEMMA OverrunFull ==
  ASSUME HeapAssumption, IInv, LInv, Blocked
  PROVE  LiveWords = ToSize
<1>1. /\ TypeOK /\ HasType(mem) /\ Tiles(mem[new], b) /\ ToSize \in Nat /\ b \in 0..ToSize
      /\ NameInv(mem) /\ AllLive(new)
  BY DEF IInv, HeapInv, TypeOK, HeapAssumption, LInv
<1>2. Sound(mem) /\ old \in {0, 1} /\ new \in {0, 1} /\ new # old
  BY SoundHeap
<1>3. PICK o \in DOMAIN mem[old] :
        <<old, o>> \in LiveObjects /\ mem[old][o].fwd = NoFwd /\ b + mem[old][o].size >= ToSize
  BY DEF Blocked
<1>4. PICK n, z : n = mem[old][o].id /\ z = mem[old][o].size
  OBVIOUS
<1>5. z \in Nat
  <2>1. mem[old][o] \in ObjectType
    BY <1>1, <1>2 DEF HasType
  <2> QED
    BY <1>1, <1>4, <2>1 DEF ObjectType
\* no copy has its name
<1>6. ASSUME NEW c \in DOMAIN mem[new] PROVE mem[new][c].id # n
  <2>1. PICK q \in DOMAIN mem[old] : mem[old][q].fwd = <<new, c>>
    BY <1>1 DEF NameInv
  <2>2. mem[old][q].fwd # NoFwd /\ mem[old][q].fwd[2] = c
    BY <1>2, <2>1 DEF NoFwd, Null
  <2>3. mem[new][c].id = mem[old][q].id
    BY <1>1, <2>2 DEF NameInv, Replica
  <2>4. q # o
    BY <1>3, <2>2
  <2> QED
    BY <1>1, <1>2, <1>4, <2>3, <2>4 DEF NameInv
<1>7. PICK f : f = [x \in 0..ToSize - 1 |-> IF x < b THEN WordAt(new, x) ELSE <<n, x - b + 1>>]
  OBVIOUS
<1>8. ASSUME NEW x \in 0..b - 1
      PROVE  WordAt(new, x) \in Words /\ WordAt(new, x)[1] # n
  <2>1. PICK c, k : c = At(new, x) /\ k = x - c + 1
    OBVIOUS
  <2>2. c \in DOMAIN mem[new] /\ k \in 1..mem[new][c].size
    BY <1>1, <1>2, <2>1, Covered
  <2>3. PICK p : p = <<new, c>>
    OBVIOUS
  <2>4. p \in LiveObjects /\ Obj(p) = mem[new][c]
    BY <1>1, <1>2, <2>2, <2>3, HalfLive DEF Obj
  <2>5. WordAt(new, x) = <<Obj(p).id, k>>
    BY <2>1, <2>4 DEF WordAt
  <2>6. WordAt(new, x)[1] # n
    BY <1>6, <2>2, <2>4, <2>5
  <2> QED
    BY <2>2, <2>4, <2>5, <2>6, InWords
<1>9. ASSUME NEW x \in 0..ToSize - 1, ~(x < b)
      PROVE  <<n, x - b + 1>> \in Words
  <2>1. PICK p : p = <<old, o>>
    OBVIOUS
  <2>2. p \in LiveObjects /\ Obj(p).id = n /\ Obj(p).size = z
    BY <1>3, <1>4, <2>1 DEF Obj
  <2>3. x - b + 1 \in 1..z
    BY <1>1, <1>3, <1>4, <1>5, <1>9
  <2> QED
    BY <2>2, <2>3, InWords
<1>10. f \in [0..ToSize - 1 -> Words]
  <2>1. ASSUME NEW x \in 0..ToSize - 1 PROVE f[x] \in Words
    <3>1. CASE x < b
      <4>1. x \in 0..b - 1 /\ f[x] = WordAt(new, x)
        BY <1>1, <1>7, <3>1
      <4> QED
        BY <1>8, <4>1
    <3>2. CASE ~(x < b)
      <4>1. f[x] = <<n, x - b + 1>>
        BY <1>7, <3>2
      <4> QED
        BY <1>9, <3>2, <4>1
    <3> QED
      BY <3>1, <3>2
  <2> QED
    BY <1>7, <2>1
<1>11. ASSUME NEW x \in 0..ToSize - 1, NEW y \in 0..ToSize - 1, f[x] = f[y] PROVE x = y
  <2>1. \A v \in 0..ToSize - 1 : v < b => v \in 0..b - 1 /\ f[v] = WordAt(new, v) /\ f[v][1] # n
    BY <1>1, <1>7, <1>8
  <2>2. \A v \in 0..ToSize - 1 : ~(v < b) => f[v] = <<n, v - b + 1>> /\ f[v][1] = n
    BY <1>7
  <2>3. CASE x < b /\ y < b
    <3>1. x \in 0..b - 1 /\ y \in 0..b - 1 /\ WordAt(new, x) = WordAt(new, y) /\ b \in Nat
      BY <1>1, <1>11, <2>1, <2>3
    <3> QED
      BY <1>1, <1>2, <3>1, WordsDiffer
  <2>4. CASE ~(x < b) /\ ~(y < b)
    <3>1. <<n, x - b + 1>> = <<n, y - b + 1>>
      BY <1>11, <2>2, <2>4
    <3>2. x - b + 1 = y - b + 1
      BY <3>1
    <3> QED
      BY <1>1, <3>2
  <2> QED
    BY <1>11, <2>1, <2>2, <2>3, <2>4
<1>12. IsFiniteSet(Words) /\ Cardinality(Words) <= ToSize
  BY <1>1, WordsFit
<1>13. ToSize <= Cardinality(Words)
  BY <1>1, <1>10, <1>11, <1>12, AtLeast
<1>14. Cardinality(Words) \in Nat /\ LiveWords = Cardinality(Words)
  BY <1>12, FS_CardinalityType DEF LiveWords, Words
<1> QED
  BY <1>1, <1>12, <1>13, <1>14

\* "No enough memory": after a collection the half is filled with live objects.
LEMMA FullHalf ==
  ASSUME HeapAssumption, IInv, LInv, AllLive(old)
  PROVE  LiveWords >= allocated /\ LiveWords \in Nat
<1>1. /\ TypeOK /\ HasType(mem) /\ Tiles(mem[old], allocated) /\ ToSize \in Nat /\ allocated \in Nat
      /\ NameInv(mem) /\ old \in {0, 1}
  BY DEF IInv, HeapInv, TypeOK, HeapAssumption, LInv
<1>2. PICK f : f = [x \in 0..allocated - 1 |-> WordAt(old, x)]
  OBVIOUS
<1>3. ASSUME NEW x \in 0..allocated - 1 PROVE WordAt(old, x) \in Words
  <2>1. PICK c, k : c = At(old, x) /\ k = x - c + 1
    OBVIOUS
  <2>2. c \in DOMAIN mem[old] /\ k \in 1..mem[old][c].size
    BY <1>1, <2>1, Covered
  <2>3. PICK p : p = <<old, c>>
    OBVIOUS
  <2>4. p \in LiveObjects /\ Obj(p) = mem[old][c]
    BY <1>1, <2>2, <2>3, HalfLive DEF Obj
  <2>5. WordAt(old, x) = <<Obj(p).id, k>>
    BY <2>1, <2>4 DEF WordAt
  <2> QED
    BY <2>2, <2>4, <2>5, InWords
<1>4. f \in [0..allocated - 1 -> Words]
  BY <1>2, <1>3
<1>5. \A x, y \in 0..allocated - 1 : f[x] = f[y] => x = y
  BY <1>1, <1>2, WordsDiffer
<1>6. IsFiniteSet(Words)
  BY <1>1, WordsFit
<1>7. allocated <= Cardinality(Words)
  BY <1>1, <1>4, <1>5, <1>6, AtLeast
<1>8. Cardinality(Words) \in Nat /\ LiveWords = Cardinality(Words)
  BY <1>6, FS_CardinalityType DEF LiveWords, Words
<1> QED
  BY <1>1, <1>7, <1>8

\* The program is stopped only when live objects fill a half to the last word, or when the
\* new object does not fit beside them (getmem, and the two messages of hsc.sc).
THEOREM CollectorFailsOnlyIfFull == Spec => []FailsOnlyIfFull
<1>1. IInv /\ LInv => FailsOnlyIfFull
  <2> SUFFICES ASSUME IInv, LInv PROVE FailsOnlyIfFull
    OBVIOUS
  <2> USE HeapAssumption
  <2>1. CASE pc = "overrun"
    <3>1. LiveWords = ToSize
      BY <2>1, OverrunFull DEF LInv
    <3> QED
      BY <2>1, <3>1 DEF FailsOnlyIfFull
  <2>2. CASE pc = "nomem"
    <3>1. LiveWords >= allocated /\ LiveWords \in Nat
      BY <2>2, FullHalf DEF LInv
    <3>2. allocated + want[2].size > ToSize
      BY <2>2 DEF LInv
    <3>3. want[2].size \in Nat /\ allocated \in Nat /\ ToSize \in Nat
      BY <2>2 DEF IInv, TypeOK, HeapAssumption
    <3>4. LiveWords + want[2].size > ToSize
      BY <3>1, <3>2, <3>3
    <3> QED
      BY <2>2, <3>4 DEF FailsOnlyIfFull
  <2> QED
    BY <2>1, <2>2 DEF FailsOnlyIfFull
<1> QED
  BY <1>1, CollectorInvariant, CollectorLive, PTL

\* After a collection the heap holds what can be reached, each object once.
THEOREM CollectorExactlyLive == Spec => []ExactlyLive
<1>1. IInv /\ LInv => ExactlyLive
  <2> SUFFICES ASSUME IInv, LInv, pc = "retry"
               PROVE  LiveObjects = Object /\ Cardinality(LiveNames) = Cardinality(Object)
    BY DEF ExactlyLive
  <2> USE HeapAssumption
  <2>1. /\ TypeOK /\ HasType(mem) /\ ToSize \in Nat /\ NameInv(mem) /\ old \in {0, 1} /\ new \in {0, 1}
        /\ AllLive(old) /\ DOMAIN mem[new] = {} /\ \A h \in {0, 1} : h = old \/ h = new
    BY SoundHeap DEF IInv, HeapInv, HeapAssumption, LInv, Quiet
  <2>2. ASSUME NEW p \in Object
        PROVE  p[1] = old /\ p = <<old, p[2]>> /\ p[2] \in DOMAIN mem[old] /\ Obj(p) = mem[old][p[2]]
               /\ p \in LiveObjects
    <3>1. p[1] = old /\ p = <<old, p[2]>> /\ p[2] \in DOMAIN mem[old] /\ Obj(p) = mem[old][p[2]]
      BY <2>1, ObjectIs
    <3>2. <<old, p[2]>> \in LiveObjects
      BY <2>1, <3>1, HalfLive
    <3> QED
      BY <3>1, <3>2
  <2>3. LiveObjects = Object
    BY <2>2, LiveIff
  <2>4. PICK f : f = [p \in Object |-> Obj(p).id]
    OBVIOUS
  <2>5. \A p, q \in Object : f[p] = f[q] => p = q
    BY <2>1, <2>2, <2>4 DEF NameInv
  <2>6. f \in [Object -> LiveNames] /\ \A n \in LiveNames : \E p \in Object : f[p] = n
    BY <2>3, <2>4 DEF LiveNames
  <2>7. f \in Bijection(Object, LiveNames)
    BY <2>5, <2>6 DEF Bijection, Injection, Surjection, IsInjective
  <2>8. IsFiniteSet(Object)
    <3>1. Object \subseteq {0, 1} \X (0..ToSize - 1)
      <4>1. ASSUME NEW p \in Object PROVE p \in {0, 1} \X (0..ToSize - 1)
        <5>1. p[2] \in 0..ToSize - 1
          BY <2>1, <2>2 DEF HasType
        <5> QED
          BY <2>1, <2>2, <5>1
      <4> QED
        BY <4>1
    <3>2. IsFiniteSet(0..ToSize - 1) /\ IsFiniteSet({0, 1})
      <4>1. IsFiniteSet(0..ToSize - 1)
        BY <2>1, Interval
      <4>2. IsFiniteSet({0}) /\ {0} \cup {1} = {0, 1}
        BY FS_Singleton
      <4>3. IsFiniteSet({0} \cup {1})
        BY <4>2, FS_AddElement
      <4> QED
        BY <4>1, <4>2, <4>3
    <3>3. IsFiniteSet({0, 1} \X (0..ToSize - 1))
      BY <3>2, FS_Product
    <3> QED
      BY <3>1, <3>3, FS_Subset
  <2> QED
    BY <2>3, <2>7, <2>8, FS_Bijection DEF ExistsBijection
<1> QED
  BY <1>1, CollectorInvariant, CollectorLive, PTL

(***************************************************************************)
(* Graphs of names                                                         *)
(***************************************************************************)
LEMMA ReachIff ==
  ASSUME NEW f, NEW S, NEW n
  PROVE  n \in Graph!Reach(f, S)
         <=> n \in DOMAIN f /\ \A T \in SUBSET DOMAIN f : Graph!Linked(f, S, T) => n \in T
  BY DEF Graph!Reach

LEMMA ReachLinked ==
  ASSUME NEW f, NEW S
  PROVE  Graph!Linked(f, S, Graph!Reach(f, S)) /\ Graph!Reach(f, S) \subseteq DOMAIN f
<1>1. PICK R : R = Graph!Reach(f, S)
  OBVIOUS
<1>2. \A n : n \in R <=> n \in DOMAIN f /\ \A T \in SUBSET DOMAIN f : Graph!Linked(f, S, T) => n \in T
  BY <1>1, ReachIff
<1>3. ASSUME NEW n \in S \cap DOMAIN f PROVE n \in R
  BY <1>2 DEF Graph!Linked
<1>4. ASSUME NEW n \in R, NEW k \in DOMAIN f[n], f[n][k] \in DOMAIN f PROVE f[n][k] \in R
  <2>1. PICK y : y = f[n][k]
    OBVIOUS
  <2>2. ASSUME NEW T \in SUBSET DOMAIN f, Graph!Linked(f, S, T) PROVE y \in T
    <3>1. n \in T
      BY <1>2, <2>2
    <3> QED
      BY <1>4, <2>1, <2>2, <3>1 DEF Graph!Linked
  <2> QED
    BY <1>2, <1>4, <2>1, <2>2
<1>5. Graph!Linked(f, S, R)
  BY <1>3, <1>4 DEF Graph!Linked
<1> QED
  BY <1>1, <1>2, <1>5

\* f is a part of g that holds all that can be reached from S.
Part(f, g, S) ==
  /\ DOMAIN f \subseteq DOMAIN g /\ \A n \in DOMAIN f : f[n] = g[n]
  /\ Graph!Linked(g, S, DOMAIN f)

LEMMA ReachPart ==
  ASSUME NEW f, NEW g, NEW S, Part(f, g, S)
  PROVE  Graph!Reach(f, S) = Graph!Reach(g, S) /\ Graph!Seen(f, S) = Graph!Seen(g, S)
<1>1. /\ DOMAIN f \subseteq DOMAIN g /\ \A n \in DOMAIN f : f[n] = g[n]
      /\ S \cap DOMAIN g \subseteq DOMAIN f
      /\ \A n \in DOMAIN f : \A k \in DOMAIN g[n] : g[n][k] \in DOMAIN g => g[n][k] \in DOMAIN f
  BY DEF Part, Graph!Linked
<1>2. PICK F, G : F = Graph!Reach(f, S) /\ G = Graph!Reach(g, S)
  OBVIOUS
<1>3. F \subseteq G
  <2>1. F \subseteq DOMAIN f
    BY <1>2, ReachLinked
  <2>2. ASSUME NEW T \in SUBSET DOMAIN g, Graph!Linked(g, S, T) PROVE F \subseteq T
    <3>1. PICK U \in SUBSET DOMAIN f : U = T \cap DOMAIN f
      OBVIOUS
    <3>2. S \cap DOMAIN f \subseteq U
      BY <1>1, <2>2, <3>1 DEF Graph!Linked
    <3>3. ASSUME NEW n \in U, NEW k \in DOMAIN f[n], f[n][k] \in DOMAIN f PROVE f[n][k] \in U
      BY <1>1, <2>2, <3>1, <3>3 DEF Graph!Linked
    <3>4. Graph!Linked(f, S, U)
      BY <3>2, <3>3 DEF Graph!Linked
    <3>5. F \subseteq U
      BY <1>2, <3>4, ReachIff
    <3> QED
      BY <3>1, <3>5
  <2>3. \A n \in F : n \in DOMAIN g
    BY <1>1, <2>1
  <2> QED
    BY <1>2, <2>2, <2>3, ReachIff
<1>4. G \subseteq F
  <2>1. Graph!Linked(f, S, F) /\ F \subseteq DOMAIN f
    BY <1>2, ReachLinked
  <2>2. S \cap DOMAIN g \subseteq F
    BY <1>1, <2>1 DEF Graph!Linked
  <2>3. ASSUME NEW n \in F, NEW k \in DOMAIN g[n], g[n][k] \in DOMAIN g PROVE g[n][k] \in F
    BY <1>1, <2>1, <2>3 DEF Graph!Linked
  <2>4. Graph!Linked(g, S, F) /\ F \in SUBSET DOMAIN g
    BY <1>1, <2>1, <2>2, <2>3 DEF Graph!Linked
  <2> QED
    BY <1>2, <2>4, ReachIff
<1>5. F = G /\ F \subseteq DOMAIN f
  BY <1>2, <1>3, <1>4, ReachLinked
<1>6. [n \in F |-> f[n]] = [n \in G |-> g[n]]
  BY <1>1, <1>5
<1> QED
  BY <1>2, <1>5, <1>6 DEF Graph!Seen

\* What can be reached is such a part, and is so for fewer names.
LEMMA SeenPart ==
  ASSUME NEW g, NEW S
  PROVE  /\ Part(Graph!Seen(g, S), g, S)
         /\ DOMAIN Graph!Seen(g, S) = Graph!Reach(g, S)
         /\ \A n \in Graph!Reach(g, S) : Graph!Seen(g, S)[n] = g[n]
<1>1. PICK R, f : R = Graph!Reach(g, S) /\ f = Graph!Seen(g, S)
  OBVIOUS
<1>2. f = [n \in R |-> g[n]]
  BY <1>1 DEF Graph!Seen
<1>3. Graph!Linked(g, S, R) /\ R \subseteq DOMAIN g
  BY <1>1, ReachLinked
<1>4. DOMAIN f = R /\ \A n \in R : f[n] = g[n]
  BY <1>2
<1>5. Part(f, g, S)
  BY <1>3, <1>4 DEF Part
<1> QED
  BY <1>1, <1>4, <1>5

\* The graph of names that half h of the memory m holds.
Place(m, h, n) == CHOOSE o \in DOMAIN m[h] : m[h][o].id = n
GraphOf(m, h) ==
  [n \in {m[h][o].id : o \in DOMAIN m[h]} |->
     [k \in DOMAIN m[h][Place(m, h, n)].refs |-> NameIn(m, m[h][Place(m, h, n)].refs[k])]]

Unique(m, h) == \A o, q \in DOMAIN m[h] : m[h][o].id = m[h][q].id => o = q

\* fs are the names of the fields of x
FieldNamesOf(m, x, fs) ==
  /\ fs = [k \in DOMAIN x.refs |-> NameIn(m, x.refs[k])]
  /\ DOMAIN fs = DOMAIN x.refs /\ \A k \in DOMAIN x.refs : fs[k] = NameIn(m, x.refs[k])

LEMMA GraphIs ==
  ASSUME NEW m, NEW h, Unique(m, h)
  PROVE  /\ \A o \in DOMAIN m[h] : /\ m[h][o].id \in DOMAIN GraphOf(m, h)
                                   /\ FieldNamesOf(m, m[h][o], GraphOf(m, h)[m[h][o].id])
         /\ \A n \in DOMAIN GraphOf(m, h) : \E o \in DOMAIN m[h] : m[h][o].id = n
         /\ GraphOf(m, h) = [n \in DOMAIN GraphOf(m, h) |-> GraphOf(m, h)[n]]
<1>1. DOMAIN GraphOf(m, h) = {m[h][o].id : o \in DOMAIN m[h]}
  BY DEF GraphOf
<1>2. GraphOf(m, h) = [n \in DOMAIN GraphOf(m, h) |-> GraphOf(m, h)[n]]
  BY DEF GraphOf
<1>3. ASSUME NEW o \in DOMAIN m[h]
      PROVE  FieldNamesOf(m, m[h][o], GraphOf(m, h)[m[h][o].id])
  <2>1. PICK n : n = m[h][o].id
    OBVIOUS
  <2>2. Place(m, h, n) \in DOMAIN m[h] /\ m[h][Place(m, h, n)].id = n
    BY <2>1 DEF Place
  <2>3. Place(m, h, n) = o
    BY <2>1, <2>2 DEF Unique
  <2>4. GraphOf(m, h)[n] = [k \in DOMAIN m[h][o].refs |-> NameIn(m, m[h][o].refs[k])]
    BY <2>1, <2>3 DEF GraphOf
  <2> QED
    BY <2>1, <2>4 DEF FieldNamesOf
<1> QED
  BY <1>1, <1>2, <1>3

\* If each object of a half is one of another, with the same names in its fields, its graph
\* is contained in the graph of the other.
SameNode(m, x, n, y) ==
  /\ y.id = x.id /\ DOMAIN y.refs = DOMAIN x.refs
  /\ \A k \in DOMAIN x.refs : NameIn(n, y.refs[k]) = NameIn(m, x.refs[k])

LEMMA SubGraph ==
  ASSUME NEW m, NEW h, NEW n, NEW g, Unique(m, h), Unique(n, g),
         \A y \in DOMAIN n[g] : \E x \in DOMAIN m[h] : SameNode(m, m[h][x], n, n[g][y])
  PROVE  /\ DOMAIN GraphOf(n, g) \subseteq DOMAIN GraphOf(m, h)
         /\ \A a \in DOMAIN GraphOf(n, g) : GraphOf(n, g)[a] = GraphOf(m, h)[a]
<1>1. ASSUME NEW a \in DOMAIN GraphOf(n, g)
      PROVE  a \in DOMAIN GraphOf(m, h) /\ GraphOf(n, g)[a] = GraphOf(m, h)[a]
  <2>1. PICK y \in DOMAIN n[g] : n[g][y].id = a
    BY GraphIs
  <2>2. PICK x \in DOMAIN m[h] : SameNode(m, m[h][x], n, n[g][y])
    OBVIOUS
  <2>3. PICK X, Y : X = m[h][x] /\ Y = n[g][y]
    OBVIOUS
  <2>4. X.id = a /\ Y.id = a /\ a \in DOMAIN GraphOf(m, h)
    BY <2>1, <2>2, <2>3, GraphIs DEF SameNode
  <2>5. PICK F, G : F = GraphOf(m, h)[a] /\ G = GraphOf(n, g)[a]
    OBVIOUS
  <2>6. FieldNamesOf(m, X, F) /\ FieldNamesOf(n, Y, G)
    BY <2>3, <2>4, <2>5, GraphIs
  <2>7. /\ F = [k \in DOMAIN X.refs |-> NameIn(m, X.refs[k])]
        /\ G = [k \in DOMAIN Y.refs |-> NameIn(n, Y.refs[k])]
    BY <2>6 DEF FieldNamesOf
  <2>8. DOMAIN Y.refs = DOMAIN X.refs /\ \A k \in DOMAIN X.refs : NameIn(n, Y.refs[k]) = NameIn(m, X.refs[k])
    BY <2>2, <2>3 DEF SameNode
  <2>9. F = G
    BY <2>7, <2>8
  <2> QED
    BY <2>4, <2>5, <2>9
<1> QED
  BY <1>1

LEMMA SameGraph ==
  ASSUME NEW m, NEW h, NEW n, NEW g, Unique(m, h), Unique(n, g),
         \A y \in DOMAIN n[g] : \E x \in DOMAIN m[h] : SameNode(m, m[h][x], n, n[g][y]),
         \A x \in DOMAIN m[h] : \E y \in DOMAIN n[g] : SameNode(n, n[g][y], m, m[h][x])
  PROVE  GraphOf(n, g) = GraphOf(m, h)
<1>1. PICK F, G : F = GraphOf(m, h) /\ G = GraphOf(n, g)
  OBVIOUS
<1>2. DOMAIN G \subseteq DOMAIN F /\ \A a \in DOMAIN G : G[a] = F[a]
  BY <1>1, SubGraph
<1>3. DOMAIN F \subseteq DOMAIN G
  BY <1>1, SubGraph
<1>4. F = [a \in DOMAIN F |-> F[a]] /\ G = [a \in DOMAIN G |-> G[a]]
  BY <1>1, GraphIs
<1> QED
  BY <1>1, <1>2, <1>3, <1>4

\* The graph that the program sees is what it can reach of the graph of the half in use.
RootNames == {NameIn(mem, root[r]) : r \in Root}

BarRoot == [r \in Root |-> Name(root[r])]
BarNames == {BarRoot[x] : x \in Root}

Abs ==
  /\ BarRoot = [r \in Root |-> NameIn(mem, root[r])]
  /\ Kids = Graph!Seen(GraphOf(mem, old), RootNames)

LEMMA NameIs ==
  ASSUME HeapAssumption, IInv, NameInv(mem), NEW y \in Ref, HalfRef(mem, old, y) \/ HalfRef(mem, new, y)
  PROVE  /\ Name(y) = NameIn(mem, y) /\ (y = Null \/ Exists(y)) /\ (y = Null <=> NameIn(mem, y) = 0)
         /\ (Exists(y) => y # Null /\ y \in Object /\ Obj(y).id = NameIn(mem, y))
<1>1. old \in {0, 1} /\ new \in {0, 1} /\ made \in Nat
  BY SoundHeap DEF IInv, TypeOK, HeapAssumption
<1>2. CASE y = Null
  BY <1>2 DEF Name, NameIn, Exists, Null
<1>3. CASE y # Null
  <2>1. Exists(y) /\ y[1] \in {0, 1} /\ y[2] \in DOMAIN mem[y[1]]
    BY <1>1, <1>3 DEF HalfRef, Exists
  <2>2. y \in Object
    BY <2>1, ExistsObject
  <2>3. Obj(y).id = NameIn(mem, y) /\ Name(y) = Obj(y).id
    BY <1>3, <2>1 DEF Name, NameIn, Obj
  <2>4. Obj(y).id \in 1..made
    BY <2>1 DEF NameInv, Obj
  <2> QED
    BY <1>1, <1>3, <2>1, <2>2, <2>3, <2>4
<1> QED
  BY <1>2, <1>3

LEMMA RootName ==
  ASSUME HeapAssumption, IInv, NEW r \in Root
  PROVE  root[r] \in Ref /\ (HalfRef(mem, old, root[r]) \/ HalfRef(mem, new, root[r]))
  BY DEF IInv, TypeOK, RootsMoved

LEMMA ObjectGraph ==
  ASSUME HeapAssumption, IInv, NameInv(mem), NEW p \in Object, NEW G, G = GraphOf(mem, old)
  PROVE  /\ Obj(p).id \in DOMAIN G
         /\ G[Obj(p).id] = [k \in DOMAIN Obj(p).refs |-> NameIn(mem, Obj(p).refs[k])]
         /\ \A k \in DOMAIN Obj(p).refs :
              /\ Obj(p).refs[k] \in Ref
              /\ HalfRef(mem, old, Obj(p).refs[k]) \/ HalfRef(mem, new, Obj(p).refs[k])
<1>1. /\ TypeOK /\ Sound(mem) /\ old \in {0, 1} /\ new \in {0, 1} /\ new # old
      /\ \A h \in {0, 1} : h = old \/ h = new
  BY SoundHeap DEF IInv
<1>2. p[1] \in {0, 1} /\ p[2] \in DOMAIN mem[p[1]] /\ Obj(p) = mem[p[1]][p[2]]
  BY ObjectIs
<1>3. Unique(mem, old)
  BY <1>1 DEF NameInv, Unique
<1>4. \A k \in DOMAIN Obj(p).refs : Obj(p).refs[k] \in Ref
  BY <1>1, RefTypes
<1>5. CASE p[1] = old
  <2>1. p[2] \in DOMAIN mem[old] /\ Obj(p) = mem[old][p[2]]
    BY <1>2, <1>5
  <2>2. Obj(p).id \in DOMAIN G /\ FieldNamesOf(mem, Obj(p), G[Obj(p).id])
    BY <1>3, <2>1, GraphIs
  <2>3. \A k \in DOMAIN Obj(p).refs : HalfRef(mem, old, Obj(p).refs[k])
    BY <1>1, <2>1 DEF Sound
  <2> QED
    BY <1>4, <2>2, <2>3 DEF FieldNamesOf
<1>6. CASE p[1] = new
  <2>1. p[2] \in DOMAIN mem[new] /\ Obj(p) = mem[new][p[2]]
    BY <1>2, <1>6
  <2>2. PICK o \in DOMAIN mem[old] : mem[old][o].fwd = <<new, p[2]>>
    BY <2>1 DEF NameInv
  <2>3. PICK X, Y : X = mem[old][o] /\ Y = Obj(p)
    OBVIOUS
  <2>4. X.fwd # NoFwd /\ X.fwd[2] = p[2]
    BY <1>1, <2>2, <2>3 DEF NoFwd, Null
  <2>5. Replica(mem, X, Y)
    BY <2>1, <2>3, <2>4 DEF NameInv
  <2>6. X.id \in DOMAIN G /\ FieldNamesOf(mem, X, G[X.id])
    BY <1>3, <2>3, GraphIs
  <2>7. G[X.id] = [k \in DOMAIN X.refs |-> NameIn(mem, X.refs[k])]
    BY <2>6 DEF FieldNamesOf
  <2>8. /\ Y.id = X.id /\ DOMAIN Y.refs = DOMAIN X.refs
        /\ \A k \in DOMAIN X.refs : NameIn(mem, Y.refs[k]) = NameIn(mem, X.refs[k])
    BY <2>5 DEF Replica
  <2>9. G[Y.id] = [k \in DOMAIN Y.refs |-> NameIn(mem, Y.refs[k])]
    BY <2>7, <2>8
  <2>10. \A k \in DOMAIN Obj(p).refs :
           HalfRef(mem, old, Obj(p).refs[k]) \/ HalfRef(mem, new, Obj(p).refs[k])
    BY <1>1, <2>1 DEF Sound
  <2> QED
    BY <1>4, <2>3, <2>6, <2>8, <2>9, <2>10
<1> QED
  BY <1>1, <1>2, <1>5, <1>6

LEMMA NoZero ==
  ASSUME HeapAssumption, IInv, NameInv(mem)
  PROVE  0 \notin DOMAIN GraphOf(mem, old)
<1>1. old \in {0, 1} /\ made \in Nat
  BY SoundHeap DEF IInv, TypeOK, HeapAssumption
<1>2. \A o \in DOMAIN mem[old] : mem[old][o].id # 0
  BY <1>1 DEF NameInv
<1>3. Unique(mem, old)
  BY <1>1 DEF NameInv, Unique
<1> QED
  BY <1>2, <1>3, GraphIs

LEMMA LiveReach ==
  ASSUME HeapAssumption, IInv, NameInv(mem), NEW G, G = GraphOf(mem, old)
  PROVE  LiveNames = Graph!Reach(G, RootNames)
<1>1. TypeOK
  BY DEF IInv
<1>2. PICK L, R, N : L = LiveObjects /\ R = RootNames /\ N = LiveNames
  OBVIOUS
<1>3. \A n : n \in N <=> \E p \in L : Obj(p).id = n
  BY <1>2 DEF LiveNames
<1>4. \A n : n \in R <=> \E r \in Root : NameIn(mem, root[r]) = n
  BY <1>2 DEF RootNames
<1>5. Linked(L) /\ L \subseteq Object
  BY <1>1, <1>2, LiveLinked
<1>6. 0 \notin DOMAIN G
  BY NoZero
<1>7. N \subseteq DOMAIN G
  <2>1. ASSUME NEW n \in N PROVE n \in DOMAIN G
    <3>1. PICK p \in L : Obj(p).id = n
      BY <1>3
    <3>2. p \in Object
      BY <1>5
    <3>3. Obj(p).id \in DOMAIN G
      BY <3>2, ObjectGraph
    <3> QED
      BY <3>1, <3>3
  <2> QED
    BY <2>1
<1>8. Graph!Linked(G, R, N)
  <2>1. ASSUME NEW n \in R \cap DOMAIN G PROVE n \in N
    <3>1. PICK r \in Root : NameIn(mem, root[r]) = n
      BY <1>4, <2>1
    <3>2. Exists(root[r]) /\ Obj(root[r]).id = n
      BY <1>6, <2>1, <3>1, RootName, NameIs
    <3>3. root[r] \in L
      BY <1>5, <3>2 DEF Linked
    <3> QED
      BY <1>3, <3>2, <3>3
  <2>2. ASSUME NEW n \in N, NEW k \in DOMAIN G[n], G[n][k] \in DOMAIN G PROVE G[n][k] \in N
    <3>1. PICK p \in L : Obj(p).id = n
      BY <1>3
    <3>2. p \in Object
      BY <1>5
    <3>3. /\ G[n] = [j \in DOMAIN Obj(p).refs |-> NameIn(mem, Obj(p).refs[j])]
          /\ \A j \in DOMAIN Obj(p).refs :
               /\ Obj(p).refs[j] \in Ref
               /\ HalfRef(mem, old, Obj(p).refs[j]) \/ HalfRef(mem, new, Obj(p).refs[j])
      BY <3>1, <3>2, ObjectGraph
    <3>4. PICK y : y = Obj(p).refs[k]
      OBVIOUS
    <3>5. /\ k \in DOMAIN Obj(p).refs /\ G[n][k] = NameIn(mem, y) /\ y \in Ref
          /\ HalfRef(mem, old, y) \/ HalfRef(mem, new, y)
      BY <2>2, <3>3, <3>4
    <3>6. Exists(y) /\ Obj(y).id = NameIn(mem, y)
      BY <1>6, <2>2, <3>5, NameIs
    <3>7. y \in L
      BY <1>5, <3>4, <3>5, <3>6 DEF Linked
    <3> QED
      BY <1>3, <3>5, <3>6, <3>7
  <2> QED
    BY <2>1, <2>2 DEF Graph!Linked
<1>9. Graph!Reach(G, R) \subseteq N
  BY <1>7, <1>8, ReachIff
<1>10. N \subseteq Graph!Reach(G, R)
  <2>1. ASSUME NEW T \in SUBSET DOMAIN G, Graph!Linked(G, R, T) PROVE N \subseteq T
    <3>1. PICK U \in SUBSET Object : U = {p \in Object : Obj(p).id \in T}
      OBVIOUS
    <3>2. ASSUME NEW r \in Root, Exists(root[r]) PROVE root[r] \in U
      <4>1. root[r] \in Object /\ Obj(root[r]).id = NameIn(mem, root[r])
        BY <3>2, RootName, NameIs
      <4>2. Obj(root[r]).id \in DOMAIN G
        BY <4>1, ObjectGraph
      <4>3. Obj(root[r]).id \in R
        BY <1>4, <4>1
      <4>4. Obj(root[r]).id \in T
        BY <2>1, <4>2, <4>3 DEF Graph!Linked
      <4> QED
        BY <3>1, <4>1, <4>4
    <3>3. ASSUME NEW p \in U, NEW k \in DOMAIN Obj(p).refs, Exists(Obj(p).refs[k])
          PROVE  Obj(p).refs[k] \in U
      <4>1. p \in Object /\ Obj(p).id \in T
        BY <3>1
      <4>2. PICK n, y : n = Obj(p).id /\ y = Obj(p).refs[k]
        OBVIOUS
      <4>3. /\ G[n] = [j \in DOMAIN Obj(p).refs |-> NameIn(mem, Obj(p).refs[j])]
            /\ y \in Ref /\ (HalfRef(mem, old, y) \/ HalfRef(mem, new, y))
        BY <3>3, <4>1, <4>2, ObjectGraph
      <4>4. y \in Object /\ Obj(y).id = NameIn(mem, y)
        BY <3>3, <4>2, <4>3, NameIs
      <4>5. Obj(y).id \in DOMAIN G
        BY <4>4, ObjectGraph
      <4>6. k \in DOMAIN G[n] /\ G[n][k] = Obj(y).id
        BY <3>3, <4>2, <4>3, <4>4
      <4>7. Obj(y).id \in T
        BY <2>1, <4>1, <4>2, <4>5, <4>6 DEF Graph!Linked
      <4> QED
        BY <3>1, <4>2, <4>4, <4>7
    <3>4. Linked(U)
      BY <3>2, <3>3 DEF Linked
    <3>5. L \subseteq U
      BY <1>2, <3>4, LiveLeast
    <3> QED
      BY <1>3, <3>1, <3>5
  <2> QED
    BY <1>7, <2>1, ReachIff
<1> QED
  BY <1>2, <1>9, <1>10

LEMMA KidsAre ==
  Kids = [n \in LiveNames |-> Fields(LiveObjects, n)]
<1>1. PICK f : f = [n \in {Obj(p).id : p \in LiveObjects} |-> Fields(LiveObjects, n)]
  OBVIOUS
<1>2. {[n \in {Obj(p).id : p \in L} |-> Fields(L, n)] : L \in {LiveObjects}} = {f}
  BY <1>1
<1>3. Kids = CHOOSE x \in {f} : TRUE
  BY <1>2 DEF Kids
<1> QED
  BY <1>1, <1>3 DEF LiveNames

LEMMA AbsInv ==
  ASSUME HeapAssumption, IInv, NameInv(mem)
  PROVE  Abs
<1>1. PICK G, L, N : G = GraphOf(mem, old) /\ L = LiveObjects /\ N = LiveNames
  OBVIOUS
<1>2. \A n : n \in N <=> \E p \in L : Obj(p).id = n
  BY <1>1 DEF LiveNames
<1>3. L \subseteq Object
  BY <1>1, LiveIff
<1>4. ASSUME NEW n \in N PROVE Fields(L, n) = G[n]
  <2>1. PICK p : p = CHOOSE q \in L : Obj(q).id = n
    OBVIOUS
  <2>2. p \in L /\ Obj(p).id = n
    BY <1>2, <2>1
  <2>3. /\ G[n] = [k \in DOMAIN Obj(p).refs |-> NameIn(mem, Obj(p).refs[k])]
        /\ \A k \in DOMAIN Obj(p).refs :
              /\ Obj(p).refs[k] \in Ref
              /\ HalfRef(mem, old, Obj(p).refs[k]) \/ HalfRef(mem, new, Obj(p).refs[k])
    BY <1>1, <1>3, <2>2, ObjectGraph
  <2>4. \A k \in DOMAIN Obj(p).refs : Name(Obj(p).refs[k]) = NameIn(mem, Obj(p).refs[k])
    BY <2>3, NameIs
  <2>5. Fields(L, n) = [k \in DOMAIN Obj(p).refs |-> Name(Obj(p).refs[k])]
    BY <2>1 DEF Fields
  <2> QED
    BY <2>3, <2>4, <2>5
<1>5. Kids = [n \in N |-> Fields(L, n)]
  BY <1>1, KidsAre
<1>6. N = Graph!Reach(G, RootNames)
  BY <1>1, LiveReach
<1>7. Kids = [n \in Graph!Reach(G, RootNames) |-> G[n]]
  BY <1>4, <1>5, <1>6
<1>8. Kids = Graph!Seen(G, RootNames)
  BY <1>7 DEF Graph!Seen
<1>9. \A r \in Root : Name(root[r]) = NameIn(mem, root[r])
  BY RootName, NameIs
<1> QED
  BY <1>1, <1>8, <1>9 DEF Abs, BarRoot

LEMMA AbsNext ==
  ASSUME Abs'
  PROVE  /\ BarRoot' = [r \in Root |-> NameIn(mem', root'[r])]
         /\ RootNames' = {NameIn(mem', root'[r]) : r \in Root}
         /\ Kids' = Graph!Seen(GraphOf(mem', old'), RootNames')
         /\ BarNames' = RootNames'
<1>1. GraphOf(mem', old') = GraphOf(mem, old)'
  BY DEF GraphOf, Place, NameIn, Null
<1>2. Kids' = Graph!Seen(GraphOf(mem', old'), RootNames')
  BY <1>1 DEF Abs, Graph!Seen, Graph!Reach, Graph!Linked
<1>3. BarRoot' = [r \in Root |-> NameIn(mem', root'[r])]
  BY DEF Abs, NameIn, Null
<1>4. RootNames' = {NameIn(mem', root'[r]) : r \in Root}
  BY DEF RootNames, NameIn, Null
<1>5. BarNames' = {BarRoot'[x] : x \in Root}
  BY DEF BarNames
<1>6. BarNames' = {NameIn(mem', root'[r]) : r \in Root}
  BY <1>3, <1>5
<1> QED
  BY <1>2, <1>3, <1>4, <1>6

\* A step that leaves the graph and the names of the variables as they are is not seen.
LEMMA Unseen ==
  ASSUME Abs, Abs', GraphOf(mem', old') = GraphOf(mem, old),
         \A r \in Root : NameIn(mem', root'[r]) = NameIn(mem, root[r])
  PROVE  BarRoot' = BarRoot /\ Kids' = Kids
<1>1. RootNames' = RootNames
  BY AbsNext DEF RootNames
<1> QED
  BY <1>1, AbsNext DEF Abs

LEMMA HeapSameUnseen ==
  ASSUME Abs, Abs', UNCHANGED <<mem, root, old>>
  PROVE  BarRoot' = BarRoot /\ Kids' = Kids
  BY Unseen

LEMMA UniqueHalves ==
  ASSUME NameInv(mem), NameInv(mem)', old \in {0, 1}, new \in {0, 1}
  PROVE  /\ Unique(mem, old) /\ Unique(mem', old) /\ Unique(mem', new)
  BY DEF NameInv, Unique

LEMMA KeptGraph ==
  ASSUME HeapAssumption, IInv, NameInv(mem), NameInv(mem)',
         DOMAIN mem'[old] = DOMAIN mem[old],
         \A o \in DOMAIN mem[old] :
           mem'[old][o].id = mem[old][o].id /\ mem'[old][o].refs = mem[old][o].refs,
         \A x : HalfRef(mem, old, x) => NameIn(mem', x) = NameIn(mem, x)
  PROVE  GraphOf(mem', old) = GraphOf(mem, old)
<1>1. Sound(mem) /\ Unique(mem, old) /\ Unique(mem', old)
  BY SoundHeap, UniqueHalves
<1>2. PICK n : n = mem'
  OBVIOUS
<1>3. ASSUME NEW o \in DOMAIN mem[old]
      PROVE  SameNode(mem, mem[old][o], n, n[old][o]) /\ SameNode(n, n[old][o], mem, mem[old][o])
  <2>1. PICK x, y : x = mem[old][o] /\ y = n[old][o]
    OBVIOUS
  <2>2. y.id = x.id /\ y.refs = x.refs
    BY <1>2, <2>1
  <2>3. \A k \in DOMAIN x.refs : HalfRef(mem, old, x.refs[k])
    BY <1>1, <2>1 DEF Sound
  <2>4. \A k \in DOMAIN x.refs : NameIn(n, x.refs[k]) = NameIn(mem, x.refs[k])
    BY <1>2, <2>3
  <2> QED
    BY <2>1, <2>2, <2>4 DEF SameNode
<1>4. \A y \in DOMAIN n[old] : \E x \in DOMAIN mem[old] : SameNode(mem, mem[old][x], n, n[old][y])
  BY <1>2, <1>3
<1>5. \A x \in DOMAIN mem[old] : \E y \in DOMAIN n[old] : SameNode(n, n[old][y], mem, mem[old][x])
  BY <1>2, <1>3
<1>6. Unique(n, old)
  BY <1>1, <1>2
<1> QED
  BY <1>1, <1>2, <1>4, <1>5, <1>6, SameGraph

LEMMA MoveOld ==
  ASSUME NEW m, NEW e, NEW q, NEW p, Moves(m, e, q, p)
  PROVE  /\ DOMAIN m[old] = DOMAIN mem[old]
         /\ \A o \in DOMAIN mem[old] : m[old][o].id = mem[old][o].id /\ m[old][o].refs = mem[old][o].refs
  BY DEF Moves, Stayed, Copied

LEMMA ScanRootUnseen ==
  ASSUME HeapAssumption, IInv, NameInv(mem), NameInv(mem)', Abs, Abs',
         NEW r \in Root, ScanRoot(r), ~Overruns(root[r])
  PROVE  BarRoot' = BarRoot /\ Kids' = Kids /\ made' = made
<1>1. PICK m, e, q : /\ Moves(m, e, q, root[r]) /\ Movable(root[r])
                     /\ root' = [root EXCEPT ![r] = q] /\ mem' = m
  BY ScanRootEffect
<1>2. old' = old /\ made' = made
  BY DEF ScanRoot, Overrun
<1>3. PICK p : p = root[r]
  OBVIOUS
<1>4. Sound(mem) /\ old \in {0, 1} /\ new \in {0, 1} /\ new # old
  BY SoundHeap
<1>5. Stayed(m, e, q, p) \/ Copied(m, e, q, p)
  BY <1>1, <1>3 DEF Moves
<1>6. HalfRef(mem, old, p) \/ HalfRef(mem, new, p)
  BY <1>1, <1>3 DEF Movable
<1>7. \A x : HalfRef(mem, old, x) => NameIn(m, x) = NameIn(mem, x)
  BY <1>4, <1>5, <1>6, NoForward, MoveNames
<1>8. /\ DOMAIN m[old] = DOMAIN mem[old]
      /\ \A o \in DOMAIN mem[old] : m[old][o].id = mem[old][o].id /\ m[old][o].refs = mem[old][o].refs
  BY <1>1, MoveOld
<1>9. GraphOf(mem', old) = GraphOf(mem, old)
  BY <1>1, <1>7, <1>8, KeptGraph
<1>10. \A x \in Root : NameIn(mem', root'[x]) = NameIn(mem, root[x])
  BY ScanRootNames
<1> QED
  BY <1>2, <1>9, <1>10, Unseen

LEMMA ScanLinkUnseen ==
  ASSUME HeapAssumption, IInv, NameInv(mem), NameInv(mem)', Abs, Abs',
         ScanLink, ~Overruns(mem[new][s].refs[i])
  PROVE  BarRoot' = BarRoot /\ Kids' = Kids /\ made' = made
<1>1. PICK m, e, q, p :
           /\ Moves(m, e, q, p) /\ mem'[old] = m[old]
           /\ UNCHANGED <<root, old, made>>
  BY ScanLinkEffect
<1>2. \A x : HalfRef(mem, old, x) \/ HalfRef(mem, new, x) => NameIn(mem', x) = NameIn(mem, x)
  BY ScanLinkNames
<1>3. /\ DOMAIN m[old] = DOMAIN mem[old]
      /\ \A o \in DOMAIN mem[old] : m[old][o].id = mem[old][o].id /\ m[old][o].refs = mem[old][o].refs
  BY <1>1, MoveOld
<1>4. GraphOf(mem', old) = GraphOf(mem, old)
  BY <1>1, <1>2, <1>3, KeptGraph
<1>5. \A x \in Root : NameIn(mem', root'[x]) = NameIn(mem, root[x])
  BY <1>1, <1>2, RootName
<1> QED
  BY <1>1, <1>4, <1>5, Unseen

\* The old half is given up: what could not be reached leaves the graph, and nothing else.
LEMMA FlipUnseen ==
  ASSUME HeapAssumption, IInv, NameInv(mem), NameInv(mem)', Abs, Abs', Flip
  PROVE  BarRoot' = BarRoot /\ Kids' = Kids /\ made' = made
<1>1. /\ mem'[new] = mem[new] /\ old' = new /\ root' = root /\ made' = made
      /\ \A o \in DOMAIN mem[new] : \A k \in DOMAIN mem[new][o].refs : HalfRef(mem, new, mem[new][o].refs[k])
      /\ \A r \in Root : HalfRef(mem, new, root[r])
  BY FlipEffect
<1>2. /\ Sound(mem) /\ old \in {0, 1} /\ new \in {0, 1} /\ new # old
      /\ Unique(mem, old) /\ Unique(mem', old) /\ Unique(mem', new)
  BY SoundHeap, UniqueHalves
<1>3. PICK n, f, g : n = mem' /\ f = GraphOf(n, new) /\ g = GraphOf(mem, old)
  OBVIOUS
<1>4. \A x : HalfRef(mem, new, x) => NameIn(n, x) = NameIn(mem, x)
  BY <1>1, <1>2, <1>3 DEF HalfRef, NameIn
<1>5. ASSUME NEW c \in DOMAIN n[new] PROVE \E o \in DOMAIN mem[old] : SameNode(mem, mem[old][o], n, n[new][c])
  <2>1. c \in DOMAIN mem[new]
    BY <1>1, <1>3, <1>5
  <2>2. PICK o \in DOMAIN mem[old] : mem[old][o].fwd = <<new, c>>
    BY <2>1 DEF NameInv
  <2>3. PICK X, Y : X = mem[old][o] /\ Y = mem[new][c]
    OBVIOUS
  <2>4. X.fwd # NoFwd /\ X.fwd[2] = c
    BY <1>2, <2>2, <2>3 DEF NoFwd, Null
  <2>5. Replica(mem, X, Y)
    BY <2>3, <2>4 DEF NameInv
  <2>6. \A k \in DOMAIN Y.refs : NameIn(n, Y.refs[k]) = NameIn(mem, Y.refs[k])
    BY <1>1, <1>4, <2>1, <2>3
  <2>7. SameNode(mem, X, n, Y)
    BY <2>5, <2>6 DEF Replica, SameNode
  <2> QED
    BY <1>1, <1>3, <2>3, <2>7
<1>6. DOMAIN f \subseteq DOMAIN g /\ \A a \in DOMAIN f : f[a] = g[a]
  <2>1. Unique(n, new)
    BY <1>2, <1>3
  <2> QED
    BY <1>2, <1>3, <1>5, <2>1, SubGraph
<1>7. 0 \notin DOMAIN g
  BY <1>3, NoZero
<1>8. ASSUME NEW x, HalfRef(mem, new, x), NameIn(mem, x) \in DOMAIN g PROVE NameIn(mem, x) \in DOMAIN f
  <2>1. x # Null
    BY <1>7, <1>8 DEF NameIn
  <2>2. x[1] = new /\ x[2] \in DOMAIN n[new] /\ NameIn(mem, x) = n[new][x[2]].id
    BY <1>1, <1>2, <1>3, <1>8, <2>1 DEF HalfRef, NameIn
  <2>3. Unique(n, new)
    BY <1>2, <1>3
  <2> QED
    BY <1>3, <2>2, <2>3, GraphIs
<1>9. RootNames \cap DOMAIN g \subseteq DOMAIN f
  BY <1>1, <1>8 DEF RootNames
<1>10. ASSUME NEW a \in DOMAIN f, NEW k \in DOMAIN g[a], g[a][k] \in DOMAIN g PROVE g[a][k] \in DOMAIN f
  <2>1. Unique(n, new)
    BY <1>2, <1>3
  <2>2. PICK c \in DOMAIN n[new] : n[new][c].id = a
    BY <1>3, <2>1, GraphIs
  <2>3. PICK p : p = <<new, c>>
    OBVIOUS
  <2>4. c \in DOMAIN mem[new] /\ Obj(p) = mem[new][c] /\ Obj(p).id = a
    BY <1>1, <1>3, <2>2, <2>3 DEF Obj
  <2>5. p \in Object
    BY <1>2, <2>3, <2>4, ObjectParts
  <2>6. g[a] = [j \in DOMAIN Obj(p).refs |-> NameIn(mem, Obj(p).refs[j])]
    BY <1>3, <2>4, <2>5, ObjectGraph
  <2>7. k \in DOMAIN mem[new][c].refs /\ g[a][k] = NameIn(mem, mem[new][c].refs[k])
    BY <1>10, <2>4, <2>6
  <2>8. HalfRef(mem, new, mem[new][c].refs[k])
    BY <1>1, <2>4, <2>7
  <2> QED
    BY <1>8, <1>10, <2>7, <2>8
<1>11. Part(f, g, RootNames)
  BY <1>6, <1>9, <1>10 DEF Part, Graph!Linked
<1>12. Graph!Seen(f, RootNames) = Graph!Seen(g, RootNames)
  BY <1>11, ReachPart
<1>13. \A r \in Root : NameIn(mem', root'[r]) = NameIn(mem, root[r])
  BY <1>1, <1>3, <1>4
<1>14. RootNames' = RootNames
  BY <1>13, AbsNext DEF RootNames
<1>15. Kids' = Graph!Seen(f, RootNames)
  BY <1>1, <1>3, <1>14, AbsNext
<1>16. BarRoot' = BarRoot
  BY <1>13, AbsNext DEF Abs
<1> QED
  BY <1>1, <1>3, <1>12, <1>15, <1>16 DEF Abs

(***************************************************************************)
(* The steps of the program are steps of the graph.                        *)
(***************************************************************************)
LEMMA GraphForget ==
  ASSUME NEW r \in Root, made' = made, BarRoot' = [BarRoot EXCEPT ![r] = 0],
         Kids' = Graph!Seen(Kids, BarNames')
  PROVE  Graph!Forget(r)
<1>1. PICK rt : rt = [BarRoot EXCEPT ![r] = 0]
  OBVIOUS
<1>2. BarRoot' = rt /\ Kids' = Graph!Seen(Kids, {rt[x] : x \in Root})
  BY <1>1 DEF BarNames
<1>3. Graph!Becomes(Kids, rt)
  BY <1>2 DEF Graph!Becomes, BarRoot
<1> QED
  BY <1>1, <1>3 DEF Graph!Forget, BarRoot

LEMMA GraphLoad ==
  ASSUME NEW r \in Root, NEW q \in Root, made' = made, BarRoot[q] # 0,
         NEW k \in DOMAIN Kids[BarRoot[q]], BarRoot' = [BarRoot EXCEPT ![r] = Kids[BarRoot[q]][k]],
         Kids' = Graph!Seen(Kids, BarNames')
  PROVE  Graph!Load(r, q)
<1>1. PICK rt : rt = [BarRoot EXCEPT ![r] = Kids[BarRoot[q]][k]]
  OBVIOUS
<1>2. BarRoot' = rt /\ Kids' = Graph!Seen(Kids, {rt[x] : x \in Root})
  BY <1>1 DEF BarNames
<1>3. Graph!Becomes(Kids, rt)
  BY <1>2 DEF Graph!Becomes, BarRoot
<1> QED
  BY <1>1, <1>3 DEF Graph!Load, BarRoot

LEMMA GraphStore ==
  ASSUME NEW r \in Root, NEW q \in Root, made' = made, BarRoot[q] # 0,
         NEW k \in DOMAIN Kids[BarRoot[q]], BarRoot' = BarRoot,
         Kids' = Graph!Seen([Kids EXCEPT ![BarRoot[q]][k] = BarRoot[r]], BarNames')
  PROVE  Graph!Store(r, q)
<1>1. PICK f : f = [Kids EXCEPT ![BarRoot[q]][k] = BarRoot[r]]
  OBVIOUS
<1>2. BarRoot' = BarRoot /\ Kids' = Graph!Seen(f, {BarRoot[x] : x \in Root})
  BY <1>1 DEF BarNames
<1>3. Graph!Becomes(f, BarRoot)
  BY <1>2 DEF Graph!Becomes, BarRoot
<1> QED
  BY <1>1, <1>3 DEF Graph!Store, BarRoot

LEMMA GraphNew ==
  ASSUME NEW r \in Root, NEW sh \in Shape, made < MaxNew, made' = made + 1,
         NEW v \in [1..sh.refs -> {0} \cup BarNames],
         BarRoot' = [BarRoot EXCEPT ![r] = made'],
         Kids' = Graph!Seen(Graph!With(Kids, made', v), BarNames')
  PROVE  Graph!New(r, sh)
<1>1. PICK rt, f : rt = [BarRoot EXCEPT ![r] = made'] /\ f = Graph!With(Kids, made', v)
  OBVIOUS
<1>2. BarRoot' = rt /\ Kids' = Graph!Seen(f, {rt[x] : x \in Root})
  BY <1>1 DEF BarNames
<1>3. Graph!Becomes(f, rt)
  BY <1>2 DEF Graph!Becomes, BarRoot
<1> QED
  BY <1>1, <1>3 DEF Graph!New, BarRoot, BarNames

\* What the program sees of its variables and of the objects they refer to.
LEMMA BarIs ==
  ASSUME HeapAssumption, IInv, NameInv(mem), Abs, NEW G, G = GraphOf(mem, old)
  PROVE  /\ \A r \in Root : BarRoot[r] = NameIn(mem, root[r])
         /\ BarRoot \in [Root -> BarNames] /\ BarNames = RootNames
         /\ Kids = Graph!Seen(G, BarNames) /\ Part(Kids, G, BarNames)
         /\ 0 \notin DOMAIN G
         /\ \A r \in Root : Exists(root[r]) =>
              /\ BarRoot[r] # 0 /\ BarRoot[r] = Obj(root[r]).id
              /\ BarRoot[r] \in DOMAIN Kids /\ BarRoot[r] \in DOMAIN G
              /\ Kids[BarRoot[r]] = [k \in DOMAIN Obj(root[r]).refs |-> NameIn(mem, Obj(root[r]).refs[k])]
<1>1. \A r \in Root : BarRoot[r] = NameIn(mem, root[r])
  BY DEF Abs
<1>2. BarRoot \in [Root -> BarNames] /\ BarNames = RootNames
  BY <1>1 DEF Abs, BarNames, RootNames
<1>3. Kids = Graph!Seen(G, BarNames)
  BY <1>2 DEF Abs
<1>4. Part(Kids, G, BarNames)
  BY <1>3, SeenPart
<1>5. 0 \notin DOMAIN G
  BY NoZero
<1>6. ASSUME NEW r \in Root, Exists(root[r])
      PROVE  /\ BarRoot[r] # 0 /\ BarRoot[r] = Obj(root[r]).id
             /\ BarRoot[r] \in DOMAIN Kids /\ BarRoot[r] \in DOMAIN G
             /\ Kids[BarRoot[r]] = [k \in DOMAIN Obj(root[r]).refs |-> NameIn(mem, Obj(root[r]).refs[k])]
  <2>1. PICK p : p = root[r]
    OBVIOUS
  <2>2. p \in Object /\ Obj(p).id = NameIn(mem, p)
    BY <1>6, <2>1, RootName, NameIs
  <2>3. /\ Obj(p).id \in DOMAIN G
        /\ G[Obj(p).id] = [k \in DOMAIN Obj(p).refs |-> NameIn(mem, Obj(p).refs[k])]
    BY <2>2, ObjectGraph
  <2>4. BarRoot[r] = Obj(p).id /\ BarRoot[r] \in BarNames
    BY <1>1, <1>2, <2>1, <2>2
  <2>5. BarRoot[r] \in DOMAIN Kids /\ Kids[BarRoot[r]] = G[BarRoot[r]]
    BY <1>4, <2>3, <2>4 DEF Part, Graph!Linked
  <2> QED
    BY <1>5, <2>1, <2>3, <2>4, <2>5
<1> QED
  BY <1>1, <1>2, <1>3, <1>4, <1>5, <1>6

LEMMA PartOf ==
  ASSUME NEW f, NEW g, NEW S, Part(f, g, S), NEW S2, S2 \cap DOMAIN g \subseteq DOMAIN f
  PROVE  Part(f, g, S2)
  BY DEF Part, Graph!Linked

LEMMA ForgetSeen ==
  ASSUME HeapAssumption, IInv, NameInv(mem), Abs, Abs', NEW r \in Root, Forget(r)
  PROVE  Graph!Forget(r)
<1>1. root' = [root EXCEPT ![r] = Null] /\ mem' = mem /\ old' = old /\ made' = made /\ root \in [Root -> Ref]
  BY DEF Forget, IInv, TypeOK
<1>2. PICK G : G = GraphOf(mem, old)
  OBVIOUS
<1>3. /\ \A x \in Root : BarRoot[x] = NameIn(mem, root[x])
      /\ BarRoot \in [Root -> BarNames]
      /\ Kids = Graph!Seen(G, BarNames) /\ Part(Kids, G, BarNames) /\ 0 \notin DOMAIN G
  BY <1>2, BarIs
<1>4. /\ BarRoot' = [x \in Root |-> NameIn(mem', root'[x])] /\ RootNames' = BarNames'
      /\ Kids' = Graph!Seen(G, BarNames')
  BY <1>1, <1>2, AbsNext
<1>5. NameIn(mem, Null) = 0
  BY DEF NameIn
<1>6. BarRoot' = [BarRoot EXCEPT ![r] = 0]
  BY <1>1, <1>3, <1>4, <1>5
<1>7. \A n \in BarNames' : n = 0 \/ n \in BarNames
  <2>1. \A x \in Root : BarRoot'[x] = 0 \/ BarRoot'[x] \in BarNames
    BY <1>3, <1>6
  <2>2. \A n \in BarNames' : \E x \in Root : n = BarRoot'[x]
    BY DEF BarNames
  <2> QED
    BY <2>1, <2>2
<1>8. BarNames' \cap DOMAIN G \subseteq DOMAIN Kids
  BY <1>3, <1>7 DEF Part, Graph!Linked
<1>9. Part(Kids, G, BarNames')
  BY <1>3, <1>8, PartOf
<1>10. Kids' = Graph!Seen(Kids, BarNames')
  BY <1>4, <1>9, ReachPart
<1> QED
  BY <1>1, <1>6, <1>10, GraphForget

LEMMA LoadSeen ==
  ASSUME HeapAssumption, IInv, NameInv(mem), Abs, Abs', NEW r \in Root, NEW q \in Root, Load(r, q)
  PROVE  Graph!Load(r, q)
<1>1. /\ Exists(root[q]) /\ mem' = mem /\ old' = old /\ made' = made /\ root \in [Root -> Ref]
      /\ \E k \in DOMAIN Obj(root[q]).refs : root' = [root EXCEPT ![r] = Obj(root[q]).refs[k]]
  BY DEF Load, IInv, TypeOK
<1>2. PICK p : p = root[q]
  OBVIOUS
<1>3. PICK k \in DOMAIN Obj(p).refs : root' = [root EXCEPT ![r] = Obj(p).refs[k]]
  BY <1>1, <1>2
<1>4. PICK G : G = GraphOf(mem, old)
  OBVIOUS
<1>5. /\ \A x \in Root : BarRoot[x] = NameIn(mem, root[x])
      /\ BarRoot \in [Root -> BarNames]
      /\ Kids = Graph!Seen(G, BarNames) /\ Part(Kids, G, BarNames) /\ 0 \notin DOMAIN G
  BY <1>4, BarIs
<1>6. /\ BarRoot[q] # 0 /\ BarRoot[q] \in DOMAIN Kids
      /\ Kids[BarRoot[q]] = [j \in DOMAIN Obj(p).refs |-> NameIn(mem, Obj(p).refs[j])]
  BY <1>1, <1>2, BarIs
<1>7. PICK n, y : n = BarRoot[q] /\ y = NameIn(mem, Obj(p).refs[k])
  OBVIOUS
<1>8. n \in DOMAIN Kids /\ k \in DOMAIN Kids[n] /\ Kids[n][k] = y
  BY <1>6, <1>7
<1>9. /\ BarRoot' = [x \in Root |-> NameIn(mem', root'[x])] /\ RootNames' = BarNames'
      /\ Kids' = Graph!Seen(G, BarNames')
  BY <1>1, <1>4, AbsNext
<1>10. BarRoot' = [BarRoot EXCEPT ![r] = y]
  BY <1>1, <1>3, <1>5, <1>7, <1>9
<1>11. \A z \in BarNames' : z = y \/ z \in BarNames
  <2>1. \A x \in Root : BarRoot'[x] = y \/ BarRoot'[x] \in BarNames
    BY <1>5, <1>10
  <2>2. \A z \in BarNames' : \E x \in Root : z = BarRoot'[x]
    BY DEF BarNames
  <2> QED
    BY <2>1, <2>2
<1>12. y \in DOMAIN G => y \in DOMAIN Kids
  BY <1>5, <1>8 DEF Part, Graph!Linked
<1>13. BarNames' \cap DOMAIN G \subseteq DOMAIN Kids
  BY <1>5, <1>11, <1>12 DEF Part, Graph!Linked
<1>14. Part(Kids, G, BarNames')
  BY <1>5, <1>13, PartOf
<1>15. Kids' = Graph!Seen(Kids, BarNames')
  BY <1>9, <1>14, ReachPart
<1>16. k \in DOMAIN Kids[BarRoot[q]] /\ BarRoot' = [BarRoot EXCEPT ![r] = Kids[BarRoot[q]][k]]
  BY <1>7, <1>8, <1>10
<1> QED
  BY <1>1, <1>6, <1>15, <1>16, GraphLoad

SetKid(f, n, k, y) == [f EXCEPT ![n][k] = y]
PutKid(x, k, y) == [x EXCEPT ![k] = y]

\* One field of a part, and of the whole, now holds the name of a variable.
LEMMA PartStore ==
  ASSUME NEW f, NEW g, NEW S, Part(f, g, S), NEW n \in DOMAIN f, NEW k \in DOMAIN f[n], NEW y \in S,
         NEW g2, DOMAIN g2 = DOMAIN g, \A a \in DOMAIN g : a # n => g2[a] = g[a],
         g2[n] = PutKid(g[n], k, y), NEW f2, f2 = SetKid(f, n, k, y)
  PROVE  Part(f2, g2, S)
<1>1. /\ DOMAIN f \subseteq DOMAIN g /\ \A a \in DOMAIN f : f[a] = g[a]
      /\ S \cap DOMAIN g \subseteq DOMAIN f
      /\ \A a \in DOMAIN f : \A j \in DOMAIN g[a] : g[a][j] \in DOMAIN g => g[a][j] \in DOMAIN f
  BY DEF Part, Graph!Linked
<1>2. PICK x : x = f[n]
  OBVIOUS
<1>3. f2 = [f EXCEPT ![n] = PutKid(x, k, y)]
  BY <1>2 DEF SetKid, PutKid
<1>4. DOMAIN f2 = DOMAIN f /\ f2[n] = PutKid(x, k, y) /\ \A a \in DOMAIN f : a # n => f2[a] = f[a]
  BY <1>3
<1>5. /\ DOMAIN PutKid(x, k, y) = DOMAIN x /\ PutKid(x, k, y)[k] = y
      /\ \A j \in DOMAIN x : j # k => PutKid(x, k, y)[j] = x[j]
  BY <1>2 DEF PutKid
<1>6. g[n] = x /\ g2[n] = PutKid(x, k, y)
  BY <1>1, <1>2
<1>7. \A a \in DOMAIN f2 : f2[a] = g2[a]
  BY <1>1, <1>4, <1>6
<1>8. ASSUME NEW a \in DOMAIN f2, NEW j \in DOMAIN g2[a], g2[a][j] \in DOMAIN g2 PROVE g2[a][j] \in DOMAIN f2
  <2>1. CASE a # n
    BY <1>1, <1>4, <1>8, <2>1
  <2>2. CASE a = n /\ j = k
    BY <1>1, <1>4, <1>5, <1>6, <1>8, <2>2
  <2>3. CASE a = n /\ j # k
    BY <1>1, <1>4, <1>5, <1>6, <1>8, <2>3
  <2> QED
    BY <2>1, <2>2, <2>3
<1> QED
  BY <1>1, <1>4, <1>7, <1>8 DEF Part, Graph!Linked

\* A part, and the whole, with one object more, whose fields hold names of variables.
LEMMA PartNew ==
  ASSUME NEW f, NEW g, NEW S, Part(f, g, S), NEW n, n \notin DOMAIN g, n # 0, 0 \notin DOMAIN g,
         NEW v, \A j \in DOMAIN v : v[j] \in S \/ v[j] = 0,
         NEW S2, \A z \in S2 : z \in S \/ z = n
  PROVE  Part(Graph!With(f, n, v), Graph!With(g, n, v), S2)
<1>1. /\ DOMAIN f \subseteq DOMAIN g /\ \A a \in DOMAIN f : f[a] = g[a]
      /\ S \cap DOMAIN g \subseteq DOMAIN f
      /\ \A a \in DOMAIN f : \A j \in DOMAIN g[a] : g[a][j] \in DOMAIN g => g[a][j] \in DOMAIN f
  BY DEF Part, Graph!Linked
<1>2. PICK f2, g2 : f2 = Graph!With(f, n, v) /\ g2 = Graph!With(g, n, v)
  OBVIOUS
<1>3. /\ DOMAIN f2 = DOMAIN f \cup {n} /\ f2[n] = v /\ \A a \in DOMAIN f : a # n => f2[a] = f[a]
      /\ DOMAIN g2 = DOMAIN g \cup {n} /\ g2[n] = v /\ \A a \in DOMAIN g : a # n => g2[a] = g[a]
  BY <1>2 DEF Graph!With
<1>4. n \notin DOMAIN f
  BY <1>1
<1>5. DOMAIN f2 \subseteq DOMAIN g2 /\ \A a \in DOMAIN f2 : f2[a] = g2[a]
  BY <1>1, <1>3, <1>4
<1>6. S2 \cap DOMAIN g2 \subseteq DOMAIN f2
  BY <1>1, <1>3
<1>7. ASSUME NEW a \in DOMAIN f2, NEW j \in DOMAIN g2[a], g2[a][j] \in DOMAIN g2 PROVE g2[a][j] \in DOMAIN f2
  <2>1. CASE a = n
    BY <1>1, <1>3, <1>7, <2>1
  <2>2. CASE a # n
    <3>1. a \in DOMAIN f /\ a \in DOMAIN g /\ g2[a] = g[a]
      BY <1>1, <1>3, <2>2
    <3> QED
      BY <1>1, <1>3, <1>7, <3>1
  <2> QED
    BY <2>1, <2>2
<1> QED
  BY <1>2, <1>5, <1>6, <1>7 DEF Part, Graph!Linked

\* What the program refers to keeps its name when objects keep theirs.
LEMMA NamesKept ==
  ASSUME NEW m, NEW h, DOMAIN mem[h] \subseteq DOMAIN m[h], \A o \in DOMAIN mem[h] : m[h][o].id = mem[h][o].id
  PROVE  \A x : HalfRef(mem, h, x) => NameIn(m, x) = NameIn(mem, x)
  BY DEF HalfRef, NameIn

LEMMA StoreSeen ==
  ASSUME HeapAssumption, IInv, NameInv(mem), NameInv(mem)', Abs, Abs', NEW r \in Root, NEW q \in Root, Store(r, q)
  PROVE  Graph!Store(r, q)
<1>1. /\ Exists(root[q]) /\ old' = old /\ made' = made /\ root' = root /\ pc \in Quiet
  BY DEF Store, Quiet
<1>2. PICK n, o, p, y : n = mem' /\ p = root[q] /\ o = p[2] /\ y = BarRoot[r]
  OBVIOUS
<1>3. p[1] = old /\ o \in DOMAIN mem[old] /\ \E k : OneField(mem[old], n[old], o, k, root[r])
  BY <1>2, StoreEffect
<1>4. PICK k : OneField(mem[old], n[old], o, k, root[r])
  BY <1>3
<1>5. /\ Sound(mem) /\ old \in {0, 1} /\ Unique(mem, old) /\ Unique(n, old)
      /\ \A x \in Root : HalfRef(mem, old, root[x])
  BY <1>1, <1>2, SoundHeap, UniqueHalves, NoCopies
<1>6. PICK F, G : F = GraphOf(n, old) /\ G = GraphOf(mem, old)
  OBVIOUS
<1>7. /\ \A x \in Root : BarRoot[x] = NameIn(mem, root[x])
      /\ BarRoot \in [Root -> BarNames]
      /\ Part(Kids, G, BarNames)
  BY <1>6, BarIs
<1>8. /\ BarRoot[q] # 0 /\ BarRoot[q] = Obj(p).id /\ BarRoot[q] \in DOMAIN Kids /\ BarRoot[q] \in DOMAIN G
      /\ Kids[BarRoot[q]] = [j \in DOMAIN Obj(p).refs |-> NameIn(mem, Obj(p).refs[j])]
  BY <1>1, <1>2, <1>6, BarIs
<1>9. PICK a : a = BarRoot[q]
  OBVIOUS
<1>10. /\ DOMAIN n[old] = DOMAIN mem[old] /\ \A z \in DOMAIN mem[old] : n[old][z].id = mem[old][z].id
       /\ k \in DOMAIN mem[old][o].refs
  BY <1>4 DEF OneField
<1>11. \A x : HalfRef(mem, old, x) => NameIn(n, x) = NameIn(mem, x)
  BY <1>10, NamesKept
<1>12. a = mem[old][o].id /\ a \in DOMAIN Kids /\ k \in DOMAIN Kids[a]
  BY <1>2, <1>3, <1>8, <1>9, <1>10 DEF Obj
<1>13. DOMAIN F = DOMAIN G
  <2>1. DOMAIN F \subseteq DOMAIN G
    <3>1. ASSUME NEW c \in DOMAIN F PROVE c \in DOMAIN G
      <4>1. PICK z \in DOMAIN n[old] : n[old][z].id = c
        BY <1>5, <1>6, GraphIs
      <4> QED
        BY <1>5, <1>6, <1>10, <4>1, GraphIs
    <3> QED
      BY <3>1
  <2>2. DOMAIN G \subseteq DOMAIN F
    <3>1. ASSUME NEW c \in DOMAIN G PROVE c \in DOMAIN F
      <4>1. PICK z \in DOMAIN mem[old] : mem[old][z].id = c
        BY <1>5, <1>6, GraphIs
      <4> QED
        BY <1>5, <1>6, <1>10, <4>1, GraphIs
    <3> QED
      BY <3>1
  <2> QED
    BY <2>1, <2>2
<1>14. ASSUME NEW z \in DOMAIN mem[old]
       PROVE  /\ F[mem[old][z].id] = [j \in DOMAIN n[old][z].refs |-> NameIn(n, n[old][z].refs[j])]
              /\ G[mem[old][z].id] = [j \in DOMAIN mem[old][z].refs |-> NameIn(mem, mem[old][z].refs[j])]
              /\ \A j \in DOMAIN mem[old][z].refs : HalfRef(mem, old, mem[old][z].refs[j])
  <2>1. FieldNamesOf(n, n[old][z], F[n[old][z].id]) /\ FieldNamesOf(mem, mem[old][z], G[mem[old][z].id])
    BY <1>5, <1>6, <1>10, GraphIs
  <2> QED
    BY <1>5, <1>10, <2>1 DEF FieldNamesOf, Sound
<1>15. ASSUME NEW c \in DOMAIN G, c # a PROVE F[c] = G[c]
  <2>1. PICK z \in DOMAIN mem[old] : mem[old][z].id = c
    BY <1>5, <1>6, GraphIs
  <2>2. z # o
    BY <1>12, <1>15, <2>1
  <2>3. PICK fs : fs = mem[old][z].refs
    OBVIOUS
  <2>4. n[old][z].refs = fs
    BY <1>4, <2>1, <2>2, <2>3 DEF OneField
  <2>5. \A j \in DOMAIN fs : NameIn(n, fs[j]) = NameIn(mem, fs[j])
    BY <1>11, <1>14, <2>3
  <2>6. F[c] = [j \in DOMAIN fs |-> NameIn(n, fs[j])] /\ G[c] = [j \in DOMAIN fs |-> NameIn(mem, fs[j])]
    BY <1>14, <2>1, <2>3, <2>4
  <2> QED
    BY <2>5, <2>6
<1>16. F[a] = PutKid(G[a], k, y)
  <2>1. PICK fs, gs : fs = mem[old][o].refs /\ gs = n[old][o].refs
    OBVIOUS
  <2>2. DOMAIN gs = DOMAIN fs /\ gs[k] = root[r] /\ \A j \in DOMAIN fs : j # k => gs[j] = fs[j]
    BY <1>4, <2>1 DEF OneField
  <2>3. F[a] = [j \in DOMAIN gs |-> NameIn(n, gs[j])] /\ G[a] = [j \in DOMAIN fs |-> NameIn(mem, fs[j])]
    BY <1>3, <1>12, <1>14, <2>1
  <2>4. \A j \in DOMAIN fs : NameIn(n, fs[j]) = NameIn(mem, fs[j])
    BY <1>3, <1>11, <1>14, <2>1
  <2>5. NameIn(n, gs[k]) = y
    BY <1>2, <1>5, <1>7, <1>11, <2>2
  <2>6. \A j \in DOMAIN fs : NameIn(n, gs[j]) = IF j = k THEN y ELSE NameIn(mem, fs[j])
    BY <2>2, <2>4, <2>5
  <2>7. F[a] = [j \in DOMAIN fs |-> IF j = k THEN y ELSE NameIn(mem, fs[j])]
    BY <2>2, <2>3, <2>6
  <2>8. PutKid(G[a], k, y) = [j \in DOMAIN fs |-> IF j = k THEN y ELSE NameIn(mem, fs[j])]
    BY <2>3 DEF PutKid
  <2> QED
    BY <2>7, <2>8
<1>17. PICK f : f = SetKid(Kids, a, k, y)
  OBVIOUS
<1>18. y \in BarNames
  BY <1>2, <1>7
<1>19. Part(f, F, BarNames)
  BY <1>7, <1>12, <1>13, <1>15, <1>16, <1>17, <1>18, PartStore
<1>20. \A x \in Root : NameIn(mem', root'[x]) = NameIn(mem, root[x])
  BY <1>1, <1>2, <1>5, <1>11
<1>21. BarRoot' = BarRoot
  BY <1>20, AbsNext DEF Abs
<1>22. BarNames' = BarNames
  BY <1>21 DEF BarNames
<1>23. Kids' = Graph!Seen(F, BarNames)
  BY <1>1, <1>2, <1>6, <1>22, AbsNext
<1>24. Kids' = Graph!Seen(f, BarNames)
  BY <1>19, <1>23, ReachPart
<1>25. Kids' = Graph!Seen([Kids EXCEPT ![BarRoot[q]][k] = BarRoot[r]], BarNames')
  BY <1>2, <1>9, <1>17, <1>22, <1>24 DEF SetKid
<1> QED
  BY <1>1, <1>8, <1>9, <1>12, <1>21, <1>25, GraphStore

LEMMA MakeSeen ==
  ASSUME HeapAssumption, IInv, NameInv(mem), NameInv(mem)', Abs, Abs', pc \in Quiet, made < MaxNew, old' = old,
         NEW r \in Root, NEW sh \in Shape, Fits(sh), Make(r, sh)
  PROVE  Graph!New(r, sh)
<1>1. PICK v \in [1..sh.refs -> {Null} \cup {root[q] : q \in Root}] :
           /\ allocated \notin DOMAIN mem[old] /\ DOMAIN mem'[old] = DOMAIN mem[old] \cup {allocated}
           /\ mem'[old][allocated] = Cell(r, sh, v)
           /\ \A o \in DOMAIN mem[old] : mem'[old][o] = mem[old][o]
           /\ root' = [root EXCEPT ![r] = <<old, allocated>>] /\ made' = made + 1
  BY MakeEffect
<1>2. PICK n, x, c : n = mem' /\ x = Cell(r, sh, v) /\ c = made + 1
  OBVIOUS
<1>3. x.id = c /\ x.refs = v
  BY <1>2 DEF Cell
<1>4. /\ Sound(mem) /\ old \in {0, 1} /\ Unique(mem, old) /\ Unique(n, old) /\ made \in Nat
      /\ \A y \in Root : HalfRef(mem, old, root[y])
      /\ root \in [Root -> Ref]
  BY <1>2, SoundHeap, UniqueHalves, NoCopies DEF IInv, TypeOK, HeapAssumption
<1>5. PICK F, G : F = GraphOf(n, old) /\ G = GraphOf(mem, old)
  OBVIOUS
<1>6. /\ \A y \in Root : BarRoot[y] = NameIn(mem, root[y])
      /\ BarRoot \in [Root -> BarNames]
      /\ Part(Kids, G, BarNames) /\ 0 \notin DOMAIN G
  BY <1>5, BarIs
<1>7. DOMAIN mem[old] \subseteq DOMAIN n[old] /\ \A o \in DOMAIN mem[old] : n[old][o].id = mem[old][o].id
  BY <1>1, <1>2
<1>8. \A y : HalfRef(mem, old, y) => NameIn(n, y) = NameIn(mem, y)
  BY <1>7, NamesKept
<1>9. PICK w : w = [j \in 1..sh.refs |-> NameIn(n, v[j])]
  OBVIOUS
<1>10. ASSUME NEW j \in 1..sh.refs PROVE w[j] \in {0} \cup BarNames
  <2>1. v[j] = Null \/ \E q \in Root : v[j] = root[q]
    OBVIOUS
  <2>2. CASE v[j] = Null
    BY <1>9, <2>2 DEF NameIn
  <2>3. CASE \E q \in Root : v[j] = root[q]
    <3>1. PICK q \in Root : v[j] = root[q]
      BY <2>3
    <3>2. w[j] = BarRoot[q]
      BY <1>4, <1>6, <1>8, <1>9, <3>1
    <3> QED
      BY <1>6, <3>2
  <2> QED
    BY <2>1, <2>2, <2>3
<1>11. w \in [1..sh.refs -> {0} \cup BarNames] /\ DOMAIN w = 1..sh.refs
  BY <1>9, <1>10
<1>12. c \notin DOMAIN G /\ c # 0
  <2>1. \A o \in DOMAIN mem[old] : mem[old][o].id # c
    BY <1>2, <1>4 DEF NameInv
  <2> QED
    BY <1>2, <1>4, <1>5, <2>1, GraphIs
<1>13. F = Graph!With(G, c, w)
  <2>1. DOMAIN F = DOMAIN G \cup {c}
    <3>1. ASSUME NEW a \in DOMAIN F PROVE a \in DOMAIN G \cup {c}
      <4>1. PICK z \in DOMAIN n[old] : n[old][z].id = a
        BY <1>4, <1>5, GraphIs
      <4>2. CASE z = allocated
        BY <1>1, <1>2, <1>3, <4>1, <4>2
      <4>3. CASE z # allocated
        <5>1. z \in DOMAIN mem[old] /\ mem[old][z].id = a
          BY <1>1, <1>2, <4>1, <4>3
        <5> QED
          BY <1>4, <1>5, <5>1, GraphIs
      <4> QED
        BY <4>2, <4>3
    <3>2. ASSUME NEW a \in DOMAIN G PROVE a \in DOMAIN F
      <4>1. PICK z \in DOMAIN mem[old] : mem[old][z].id = a
        BY <1>4, <1>5, GraphIs
      <4>2. z \in DOMAIN n[old] /\ n[old][z].id = a
        BY <1>7, <4>1
      <4> QED
        BY <1>4, <1>5, <4>2, GraphIs
    <3>3. c \in DOMAIN F
      <4>1. allocated \in DOMAIN n[old] /\ n[old][allocated].id = c
        BY <1>1, <1>2, <1>3
      <4> QED
        BY <1>4, <1>5, <4>1, GraphIs
    <3> QED
      BY <3>1, <3>2, <3>3
  <2>2. F[c] = w
    <3>1. allocated \in DOMAIN n[old] /\ n[old][allocated] = x
      BY <1>1, <1>2
    <3>2. FieldNamesOf(n, x, F[x.id])
      BY <1>4, <1>5, <3>1, GraphIs
    <3>3. F[c] = [j \in DOMAIN v |-> NameIn(n, v[j])] /\ DOMAIN v = 1..sh.refs
      BY <1>3, <3>2 DEF FieldNamesOf
    <3> QED
      BY <1>9, <3>3
  <2>3. ASSUME NEW a \in DOMAIN G PROVE F[a] = G[a]
    <3>1. PICK z \in DOMAIN mem[old] : mem[old][z].id = a
      BY <1>4, <1>5, GraphIs
    <3>2. PICK e : e = mem[old][z]
      OBVIOUS
    <3>3. z \in DOMAIN n[old] /\ n[old][z] = e /\ e.id = a
      BY <1>1, <1>2, <3>1, <3>2
    <3>4. FieldNamesOf(n, e, F[a]) /\ FieldNamesOf(mem, e, G[a])
      BY <1>4, <1>5, <3>1, <3>2, <3>3, GraphIs
    <3>5. \A j \in DOMAIN e.refs : NameIn(n, e.refs[j]) = NameIn(mem, e.refs[j])
      BY <1>4, <1>8, <3>1, <3>2 DEF Sound
    <3>6. F[a] = [j \in DOMAIN e.refs |-> NameIn(n, e.refs[j])] /\ G[a] = [j \in DOMAIN e.refs |-> NameIn(mem, e.refs[j])]
      BY <3>4 DEF FieldNamesOf
    <3> QED
      BY <3>5, <3>6
  <2>4. F = [a \in DOMAIN F |-> F[a]]
    BY <1>4, <1>5, GraphIs
  <2>5. F = [a \in DOMAIN G \cup {c} |-> IF a = c THEN w ELSE G[a]]
    BY <2>1, <2>2, <2>3, <2>4
  <2> QED
    BY <2>5 DEF Graph!With
<1>14. BarRoot' = [BarRoot EXCEPT ![r] = c]
  <2>1. BarRoot' = [y \in Root |-> NameIn(n, root'[y])]
    BY <1>2, AbsNext
  <2>2. NameIn(n, root'[r]) = c
    <3>1. root'[r] = <<old, allocated>>
      BY <1>1, <1>4
    <3>2. PICK a : a = <<old, allocated>>
      OBVIOUS
    <3>3. a[1] = old /\ a[2] = allocated /\ a # Null
      BY <1>4, <3>2 DEF Null
    <3>4. NameIn(n, a) = n[old][allocated].id
      BY <3>3 DEF NameIn
    <3> QED
      BY <1>1, <1>2, <1>3, <3>1, <3>2, <3>4
  <2>3. \A y \in Root : y # r => NameIn(n, root'[y]) = BarRoot[y]
    BY <1>1, <1>4, <1>6, <1>8
  <2> QED
    BY <1>6, <2>1, <2>2, <2>3
<1>15. \A z \in BarNames' : z \in BarNames \/ z = c
  <2>1. \A y \in Root : BarRoot'[y] \in BarNames \/ BarRoot'[y] = c
    BY <1>6, <1>14
  <2>2. \A z \in BarNames' : \E y \in Root : z = BarRoot'[y]
    BY DEF BarNames
  <2> QED
    BY <2>1, <2>2
<1>16. PICK f : f = Graph!With(Kids, c, w)
  OBVIOUS
<1>17. \A j \in DOMAIN w : w[j] \in BarNames \/ w[j] = 0
  BY <1>10, <1>11
<1>18. Part(f, F, BarNames')
  BY <1>6, <1>12, <1>13, <1>15, <1>16, <1>17, PartNew
<1>19. Kids' = Graph!Seen(F, BarNames')
  BY <1>2, <1>5, AbsNext
<1>20. Kids' = Graph!Seen(f, BarNames')
  BY <1>18, <1>19, ReachPart
<1> QED
  BY <1>1, <1>2, <1>11, <1>14, <1>16, <1>20, GraphNew

LEMMA InitSeen ==
  ASSUME HeapAssumption, Init
  PROVE  Graph!Init
<1>1. /\ \A h \in {0, 1} : DOMAIN mem[h] = {}
      /\ root = [r \in Root |-> Null] /\ made = 0
  BY DEF Init, Empty
<1>2. Object = {}
  BY <1>1, ObjectParts
<1>3. LiveNames = {}
  BY <1>2, LiveIff DEF LiveNames
<1>4. Kids = [n \in {} |-> <<>>]
  <2>1. Kids = [n \in {} |-> Fields(LiveObjects, n)]
    BY <1>3, KidsAre
  <2> QED
    BY <2>1
<1>5. \A r \in Root : Name(root[r]) = 0
  BY <1>1 DEF Name, Exists, Null
<1> QED
  BY <1>1, <1>4, <1>5 DEF Graph!Init

LEMMA ProgramSeen ==
  ASSUME HeapAssumption, IInv, IInv', LInv, LInv', Abs, Abs', Next
  PROVE  Graph!Next \/ (BarRoot' = BarRoot /\ Kids' = Kids /\ made' = made)
<1>1. NameInv(mem) /\ NameInv(mem)'
  BY DEF LInv
<1>2. ASSUME NEW r \in Root, ScanRoot(r) PROVE BarRoot' = BarRoot /\ Kids' = Kids /\ made' = made
  <2>1. CASE Overruns(root[r])
    <3>1. UNCHANGED <<mem, root, old, made>>
      BY <1>2, <2>1 DEF ScanRoot, Overrun
    <3> QED
      BY <3>1, HeapSameUnseen
  <2>2. CASE ~Overruns(root[r])
    BY <1>1, <1>2, <2>2, ScanRootUnseen
  <2> QED
    BY <2>1, <2>2
<1>3. CASE ScanLink
  <2>1. CASE Overruns(mem[new][s].refs[i])
    <3>1. UNCHANGED <<mem, root, old, made>>
      BY <1>3, <2>1 DEF ScanLink, Overrun
    <3> QED
      BY <3>1, HeapSameUnseen
  <2>2. CASE ~Overruns(mem[new][s].refs[i])
    BY <1>1, <1>3, <2>2, ScanLinkUnseen
  <2> QED
    BY <2>1, <2>2
<1>4. CASE NextObject
  <2>1. UNCHANGED <<mem, root, old, made>>
    BY <1>4 DEF NextObject
  <2> QED
    BY <2>1, HeapSameUnseen
<1>5. CASE Flip
  BY <1>1, <1>5, FlipUnseen
<1>6. CASE Retry
  <2>1. /\ pc = "retry" /\ old' = old /\ want[1] \in Root /\ want[2] \in Shape
        /\ made < MaxNew /\ pc \in Quiet
    BY <1>6 DEF Retry, IInv, TypeOK, Quiet
  <2>2. CASE Fits(want[2])
    <3>1. Make(want[1], want[2])
      BY <1>6, <2>2 DEF Retry
    <3>2. Graph!New(want[1], want[2])
      BY <1>1, <2>1, <2>2, <3>1, MakeSeen
    <3> QED
      BY <2>1, <3>2 DEF Graph!Next
  <2>3. CASE ~Fits(want[2])
    <3>1. UNCHANGED <<mem, root, old, made>>
      BY <1>6, <2>3 DEF Retry
    <3> QED
      BY <3>1, HeapSameUnseen
  <2> QED
    BY <2>2, <2>3
<1>7. ASSUME NEW r \in Root, NEW sh \in Shape, New(r, sh) PROVE Graph!Next
  <2>1. pc \in Quiet /\ made < MaxNew /\ Fits(sh) /\ Make(r, sh) /\ old' = old
    BY <1>7 DEF New, Quiet
  <2>2. Graph!New(r, sh)
    BY <1>1, <2>1, MakeSeen
  <2> QED
    BY <2>2 DEF Graph!Next
<1>8. ASSUME NEW r \in Root, NEW sh \in Shape, StartGC(r, sh)
      PROVE  BarRoot' = BarRoot /\ Kids' = Kids /\ made' = made
  <2>1. UNCHANGED <<mem, root, old, made>>
    BY <1>8 DEF StartGC
  <2> QED
    BY <2>1, HeapSameUnseen
<1>9. ASSUME NEW r \in Root, NEW q \in Root, Load(r, q) \/ Store(r, q) PROVE Graph!Next
  <2>1. Graph!Load(r, q) \/ Graph!Store(r, q)
    BY <1>1, <1>9, LoadSeen, StoreSeen
  <2> QED
    BY <2>1 DEF Graph!Next
<1>10. ASSUME NEW r \in Root, Forget(r) PROVE Graph!Next
  <2>1. Graph!Forget(r)
    BY <1>1, <1>10, ForgetSeen
  <2> QED
    BY <2>1 DEF Graph!Next
<1> QED
  BY <1>2, <1>3, <1>4, <1>5, <1>6, <1>7, <1>8, <1>9, <1>10 DEF Next, Collect

\* To the program the heap is a graph of objects: a collection is never seen (hsc.sc).
THEOREM CollectorImplementsGraph == Spec => ImplementsGraph
<1>1. Init => Graph!Init
  BY HeapAssumption, InitSeen
<1>2. IInv /\ LInv => Abs
  BY HeapAssumption, AbsInv DEF LInv
<1>3. IInv /\ IInv' /\ LInv /\ LInv' /\ Abs /\ Abs' /\ [Next]_vars
        => [Graph!Next]_<<[r \in Root |-> Name(root[r])], Kids, made>>
  <2> SUFFICES ASSUME IInv, IInv', LInv, LInv', Abs, Abs', [Next]_vars
               PROVE  Graph!Next \/ (BarRoot' = BarRoot /\ Kids' = Kids /\ made' = made)
    BY DEF BarRoot
  <2>1. CASE Next
    BY <2>1, HeapAssumption, ProgramSeen
  <2>2. CASE UNCHANGED vars
    <3>1. UNCHANGED <<mem, root, old, made>>
      BY <2>2 DEF vars
    <3> QED
      BY <3>1, HeapSameUnseen
  <2> QED
    BY <2>1, <2>2
<1> QED
  BY <1>1, <1>2, <1>3, CollectorInvariant, CollectorLive, PTL DEF Spec, ImplementsGraph, Graph!Spec

=============================================================================
