---------------------------- MODULE HscCollector ----------------------------
(***************************************************************************)
(* The copying collector of HSC (rule/hsc.sc): a heap of two halves, an    *)
(* allocation that bumps a pointer, and a breadth-first copy of what the   *)
(* program's variables reach.  A program is any sequence of allocations,   *)
(* field reads and writes by the code that hsc.rule generates; its         *)
(* variables are those a chain of scan1 functions moves.                   *)
(*                                                                         *)
(* A reference is a pair of a half and an offset in words of align-t.  An  *)
(* object is one record at its offset, with a ghost name; when a half is   *)
(* given up its objects are gone, whatever bytes remain there.             *)
(***************************************************************************)
EXTENDS Integers, Sequences, FiniteSets

CONSTANTS Root, Shape, MaxNew,   \* as in HeapGraph
          ToSize                 \* words of one half: params.tosize

ASSUME HeapAssumption ==
  /\ ToSize \in Nat \ {0} /\ MaxNew \in Nat
  /\ \A sh \in Shape : sh.size \in Nat \ {0} /\ sh.refs \in Nat

VARIABLES
  mem,        \* mem[h]: offset -> object, for the halves 0 and 1
  old,        \* the half that old-memory points to: the one in use
  allocated,  \* allocated-size
  root,       \* the references the program's variables hold
  pc,         \* "run", "scan", "trace", "retry", or how exit(1) was reached
  b, s, i,    \* locals of the collection: end of the copies, object and field scanned
  todo,       \* variables that scan has not moved yet
  want,       \* the allocation that waits for the collection
  made        \* ghost: objects made

vars == <<mem, old, allocated, root, pc, b, s, i, todo, want, made>>
collection == <<b, s, i, todo>>

Null == <<2, 0>>                 \* NULL, or any pointer to something outside the heap
NoFwd == Null
Ref == {Null} \cup ({0, 1} \X (0..ToSize - 1))
Empty == [o \in {} |-> {}]
Put(m, o, x) == [q \in DOMAIN m \cup {o} |-> IF q = o THEN x ELSE m[q]]
new == 1 - old                   \* the half that new-memory points to

Exists(p) == p[1] # 2 /\ p[2] \in DOMAIN mem[p[1]]
Obj(p) == mem[p[1]][p[2]]

Init ==
  /\ mem = [h \in {0, 1} |-> Empty] /\ old = 0 /\ allocated = 0
  /\ root = [r \in Root |-> Null]
  /\ pc = "run" /\ b = 0 /\ s = 0 /\ i = 1 /\ todo = {} /\ want = <<>> /\ made = 0

----------------------------------------------------------------------------
\* The program

\* mutant: a full half is refused
FitsLess(sh) == allocated + sh.size < ToSize

\* try-getmem
Fits(sh) == allocated + sh.size <= ToSize

\* getmem has found room, and the expression of `new' fills the object
Make(r, sh) ==
  \E v \in [1..sh.refs -> {Null} \cup {root[q] : q \in Root}] :
    /\ mem' = [mem EXCEPT ![old] = Put(@, allocated,
                 [id |-> made + 1, size |-> sh.size, refs |-> v, fwd |-> NoFwd])]
    /\ root' = [root EXCEPT ![r] = <<old, allocated>>]
    /\ allocated' = allocated + sh.size
    /\ made' = made + 1

New(r, sh) ==
  /\ pc = "run" /\ made < MaxNew /\ Fits(sh)
  /\ Make(r, sh)
  /\ UNCHANGED <<old, pc, collection, want>>

\* no room: getmem calls gc, which calls scan
StartGC(r, sh) ==
  /\ pc = "run" /\ made < MaxNew /\ ~Fits(sh)
  /\ pc' = "scan" /\ b' = 0 /\ s' = 0 /\ i' = 1 /\ todo' = Root /\ want' = <<r, sh>>
  /\ UNCHANGED <<mem, old, allocated, root, made>>

\* mutant: getmem collects until there is room
RetryLoop ==
  /\ pc = "retry"
  /\ IF Fits(want[2])
     THEN Make(want[1], want[2]) /\ pc' = "run" /\ want' = <<>> /\ UNCHANGED todo
     ELSE pc' = "scan" /\ todo' = Root /\ UNCHANGED <<mem, root, allocated, want, made>>
  /\ UNCHANGED <<old, b, s, i>>

\* after the collection getmem tries once more
Retry ==
  /\ pc = "retry"
  /\ IF Fits(want[2])
     THEN Make(want[1], want[2]) /\ pc' = "run" /\ want' = <<>>
     ELSE pc' = "nomem" /\ UNCHANGED <<mem, root, allocated, want, made>>
  /\ UNCHANGED <<old, collection>>

Load(r, q) ==
  /\ pc = "run" /\ Exists(root[q])
  /\ \E k \in DOMAIN Obj(root[q]).refs : root' = [root EXCEPT ![r] = Obj(root[q]).refs[k]]
  /\ UNCHANGED <<mem, old, allocated, pc, collection, want, made>>

Store(r, q) ==
  /\ pc = "run" /\ Exists(root[q])
  /\ \E k \in DOMAIN Obj(root[q]).refs :
       mem' = [mem EXCEPT ![root[q][1]][root[q][2]].refs[k] = root[r]]
  /\ UNCHANGED <<old, allocated, root, pc, collection, want, made>>

Forget(r) ==
  /\ pc = "run" /\ root' = [root EXCEPT ![r] = Null]
  /\ UNCHANGED <<mem, old, allocated, pc, collection, want, made>>

----------------------------------------------------------------------------
\* The collection

\* mutants of move: a moved object's old place is kept; forwarding pointers are not tested;
\* they all name the first copy
MoveStale(p) ==
  IF p[1] # old \/ Obj(p).fwd # NoFwd THEN [to |-> p, mem |-> mem, b |-> b]
  ELSE [to |-> <<new, b>>,
        mem |-> [mem EXCEPT ![new] = Put(@, b, Obj(p)), ![old][p[2]].fwd = <<new, b>>],
        b |-> b + Obj(p).size]
MoveTwice(p) ==
  IF p[1] # old THEN [to |-> p, mem |-> mem, b |-> b]
  ELSE [to |-> <<new, b>>,
        mem |-> [mem EXCEPT ![new] = Put(@, b, Obj(p))],
        b |-> b + Obj(p).size]
MoveToFirst(p) ==
  IF p[1] # old THEN [to |-> p, mem |-> mem, b |-> b]
  ELSE IF Obj(p).fwd # NoFwd THEN [to |-> Obj(p).fwd, mem |-> mem, b |-> b]
  ELSE [to |-> <<new, b>>,
        mem |-> [mem EXCEPT ![new] = Put(@, b, Obj(p)), ![old][p[2]].fwd = <<new, 0>>],
        b |-> b + Obj(p).size]

\* move(p): the place p is to refer to, the memory and the end of the copies after it
Move(p) ==
  IF p[1] # old THEN [to |-> p, mem |-> mem, b |-> b]
  ELSE IF Obj(p).fwd # NoFwd THEN [to |-> Obj(p).fwd, mem |-> mem, b |-> b]
  ELSE [to |-> <<new, b>>,
        mem |-> [mem EXCEPT ![new] = Put(@, b, Obj(p)), ![old][p[2]].fwd = <<new, b>>],
        b |-> b + Obj(p).size]

\* mutant: a copy may end at new-memory-end
OverrunsAfter(p) == Move(p).b # b /\ Move(p).b > ToSize

\* the copy would end at new-memory-end or after it
Overruns(p) == Move(p).b # b /\ Move(p).b >= ToSize

Overrun == pc' = "overrun" /\ UNCHANGED <<mem, old, allocated, root, collection, want, made>>

\* scan: each variable in turn is moved
ScanRoot(r) ==
  /\ pc = "scan" /\ r \in todo
  /\ IF Overruns(root[r]) THEN Overrun
     ELSE /\ root' = [root EXCEPT ![r] = Move(root[r]).to]
          /\ mem' = Move(root[r]).mem /\ b' = Move(root[r]).b
          /\ todo' = todo \ {r}
          /\ pc' = IF todo' = {} THEN "trace" ELSE pc
          /\ UNCHANGED <<old, allocated, s, i, want, made>>

\* one reference of the copied object at s is moved
ScanLink ==
  /\ pc = "trace" /\ s < b /\ i <= Len(mem[new][s].refs)
  /\ LET p == mem[new][s].refs[i] IN
     IF Overruns(p) THEN Overrun
     ELSE /\ mem' = [Move(p).mem EXCEPT ![new][s].refs[i] = Move(p).to]
          /\ b' = Move(p).b /\ i' = i + 1
          /\ UNCHANGED <<old, allocated, root, pc, s, todo, want, made>>

NextObject ==
  /\ pc = "trace" /\ s < b /\ i > Len(mem[new][s].refs)
  /\ s' = s + mem[new][s].size /\ i' = 1
  /\ UNCHANGED <<mem, old, allocated, root, pc, b, todo, want, made>>

\* everything copied has been scanned: the halves change places
Flip ==
  /\ pc = "trace" /\ s = b
  /\ allocated' = b /\ old' = new /\ mem' = [mem EXCEPT ![old] = Empty]
  /\ pc' = "retry" /\ b' = 0 /\ s' = 0
  /\ UNCHANGED <<root, i, todo, want, made>>

Collect == (\E r \in Root : ScanRoot(r)) \/ ScanLink \/ NextObject \/ Flip \/ Retry

Next ==
  \/ Collect
  \/ \E r \in Root, sh \in Shape : New(r, sh) \/ StartGC(r, sh)
  \/ \E r, q \in Root : Load(r, q) \/ Store(r, q)
  \/ \E r \in Root : Forget(r)

Spec == Init /\ [][Next]_vars
FairSpec == Spec /\ WF_vars(Collect)

----------------------------------------------------------------------------
\* Properties

Object == UNION {{<<h, o>> : o \in DOMAIN mem[h]} : h \in {0, 1}}

\* T holds what the variables refer to, and whatever an object of T refers to.
Linked(T) ==
  /\ \A r \in Root : Exists(root[r]) => root[r] \in T
  /\ \A p \in T : \A k \in DOMAIN Obj(p).refs : Exists(Obj(p).refs[k]) => Obj(p).refs[k] \in T

\* the objects the program can reach
LiveObjects ==
  LET linked == {T \in SUBSET Object : Linked(T)}
  IN  {p \in Object : \A T \in linked : p \in T}

LiveNames == {Obj(p).id : p \in LiveObjects}
\* their words; during a collection an object may be reached through both of its copies
LiveWords ==
  Cardinality(UNION {{Obj(p).id} \X (1..Obj(p).size) : p \in LiveObjects})

\* Every variable of the collector has the type its declaration in hsc.sc gives it.
ObjectType == [id : Nat, size : 1..ToSize, refs : Seq(Ref), fwd : Ref]
TypeOK ==
  /\ mem = [h \in {0, 1} |-> mem[h]]
  /\ \A h \in {0, 1} : /\ DOMAIN mem[h] \subseteq 0..ToSize - 1
                       /\ mem[h] \in [DOMAIN mem[h] -> ObjectType]
  /\ old \in {0, 1} /\ allocated \in 0..ToSize /\ root \in [Root -> Ref]
  /\ pc \in {"run", "scan", "trace", "retry", "overrun", "nomem"}
  /\ b \in 0..ToSize /\ s \in 0..b /\ i \in Nat \ {0} /\ todo \subseteq Root
  /\ made \in 0..MaxNew
  /\ IF pc = "run" THEN want = <<>> ELSE want \in Root \X Shape

\* No variable, and no field of an object in use, points to a place without an object; and
\* outside a collection none points into the half that was given up (move and the scan of
\* hsc.sc l.184 miss no link).
Good(p) == p = Null \/ (Exists(p) /\ (pc \in {"run", "retry", "nomem"} => p[1] = old))
NoDangling ==
  /\ \A r \in Root : Good(root[r])
  /\ \A h \in {0, 1} : \A o \in DOMAIN mem[h] :
       \A k \in DOMAIN mem[h][o].refs : Good(mem[h][o].refs[k])

\* The objects of the half in use lie one after the other up to allocated-size, and the
\* copies up to b: none overlaps another, and the scan pointer always meets an object.  The
\* copies end before new-memory-end, as move makes sure before each of them (hsc.sc l.158).
Tiles(m, end) ==
  /\ \A o \in DOMAIN m : o + m[o].size \in DOMAIN m \cup {end}
  /\ \A o, q \in DOMAIN m : o < q => o + m[o].size <= q
  /\ \A o \in DOMAIN m : o < end
  /\ end > 0 => 0 \in DOMAIN m
Tiled == Tiles(mem[old], allocated) /\ Tiles(mem[new], b) /\ allocated <= ToSize /\ b < ToSize

\* When a collection is over, the heap holds every object that can be reached exactly once,
\* and no other: shared objects and cycles are copied once (the forwarding pointers).
ExactlyLive ==
  pc = "retry" => /\ LiveObjects = Object
                  /\ Cardinality(LiveNames) = Cardinality(Object)

\* The program is stopped with "buffer overrun" only when live objects fill a half to the
\* last word, and with "No enough memory" only when the new object does not fit beside them.
FailsOnlyIfFull ==
  /\ pc = "overrun" => LiveWords = ToSize
  /\ pc = "nomem" => LiveWords + want[2].size > ToSize

\* Every collection ends: the program gets its object or is stopped.
CollectionEnds == pc = "scan" ~> pc \in {"run", "overrun", "nomem"}

\* What the program sees is a graph of objects that no collection changes.
Name(p) == CASE p = Null -> 0 [] Exists(p) -> Obj(p).id [] OTHER -> -1
Fields(L, n) ==
  LET p == CHOOSE q \in L : Obj(q).id = n IN
  [k \in DOMAIN Obj(p).refs |-> Name(Obj(p).refs[k])]
Kids == CHOOSE f \in {[n \in {Obj(p).id : p \in L} |-> Fields(L, n)] : L \in {LiveObjects}} : TRUE
Graph == INSTANCE HeapGraph WITH root <- [r \in Root |-> Name(root[r])], kids <- Kids
ImplementsGraph == Graph!Spec
=============================================================================
