------------------------------ MODULE HeapGraph ------------------------------
(***************************************************************************)
(* What an HSC program sees of its heap: variables that refer to objects,  *)
(* and objects that refer to objects.  There is no memory, nothing moves   *)
(* and nothing is collected; what cannot be reached has no effect.         *)
(***************************************************************************)
EXTENDS Integers, Sequences

CONSTANTS
  Root,      \* the program's variables
  Shape,     \* kinds of objects: [size |-> words, refs |-> reference fields]
  MaxNew     \* bound: objects made in a run

VARIABLES
  root,      \* what each variable refers to: an object, or 0 (NULL)
  kids,      \* the reference fields of the objects that can be reached
  made       \* number of objects made: their names are 1..made

\* T holds the objects of f among the names S, and whatever an object of T refers to.
Linked(f, S, T) ==
  /\ S \cap DOMAIN f \subseteq T
  /\ \A n \in T : \A k \in DOMAIN f[n] : f[n][k] \in DOMAIN f => f[n][k] \in T

\* the objects of f that can be reached from the names S
Reach(f, S) == {n \in DOMAIN f : \A T \in SUBSET DOMAIN f : Linked(f, S, T) => n \in T}

\* what is left of f for a program whose variables hold the names S
Seen(f, S) == [n \in Reach(f, S) |-> f[n]]

\* the program now has variables rt and objects f
Becomes(f, rt) ==
  /\ root' = rt
  /\ kids' = Seen(f, {rt[r] : r \in Root})

\* f with an object n that has the fields v
With(f, n, v) == [x \in DOMAIN f \cup {n} |-> IF x = n THEN v ELSE f[x]]

Init ==
  /\ root = [r \in Root |-> 0]
  /\ kids = [i \in {} |-> <<>>]
  /\ made = 0

\* a new object, whose fields are values of variables or NULL
New(r, sh) ==
  LET values == {0} \cup {root[q] : q \in Root}
      f == kids
  IN  /\ made < MaxNew /\ made' = made + 1
      /\ \E v \in [1..sh.refs -> values] :
           Becomes(With(f, made', v), [root EXCEPT ![r] = made'])

\* a field of the object that q refers to is read into variable r, or written from it
Load(r, q) ==
  /\ UNCHANGED made
  /\ root[q] # 0
  /\ LET f == kids IN
     \E k \in DOMAIN f[root[q]] : Becomes(f, [root EXCEPT ![r] = f[root[q]][k]])
Store(r, q) ==
  /\ UNCHANGED <<made, root>>
  /\ root[q] # 0
  /\ LET f == kids IN
     \E k \in DOMAIN f[root[q]] : Becomes([f EXCEPT ![root[q]][k] = root[r]], root)

Forget(r) == UNCHANGED made /\ Becomes(kids, [root EXCEPT ![r] = 0])

Next ==
  \E r \in Root :
    \/ \E sh \in Shape : New(r, sh)
    \/ \E q \in Root : Load(r, q) \/ Store(r, q)
    \/ Forget(r)

Spec == Init /\ [][Next]_<<root, kids, made>>
=============================================================================
