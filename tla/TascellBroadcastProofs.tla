----------------------- MODULE TascellBroadcastProofs -----------------------
(***************************************************************************)
(* Proofs about TascellBroadcast, for any tree of servers and nodes and    *)
(* any number of broadcasts and of nodes that leave.                       *)
(*                                                                         *)
(* A broadcast is a wave that runs from its worker's node to the leaves of *)
(* the tree and back.  Seen from one link, between a host and the one next *)
(* to it on the way to the worker's node, it is in one of four places: not *)
(* there, on its way down, behind the link, on its way up.  The invariant  *)
(* Wave says which, link by link: no reachability is needed, and that the  *)
(* links have a direction is all that the tree is needed for.  The second  *)
(* part, about who has received the data, needs that it is connected.      *)
(***************************************************************************)
EXTENDS TascellBroadcast, TLAPS, SequenceTheorems, FiniteSetTheorems

Up(w) == CHOOSE p \in [Host -> Host] : Towards(p, HomeOf[w])

(* p is next to c on the way from c to the node of w. *)
Branch(w, p, c) == <<p, c>> \in Edge /\ Up(w)[c] = p

Absent(q, m) == \A i \in DOMAIN q : q[i] # m
Single(q, m) == \E i \in DOMAIN q : q[i] = m /\ \A k \in DOMAIN q : q[k] = m => k = i

Behind(p, c, w) == c \in Server /\ entry[<<c, w>>].back = {p}

Quiet(p, c, w) ==
  Absent(chan[<<p, c>>], bcst(w)) /\ ~Behind(p, c, w) /\ Absent(chan[<<c, p>>], bcak(w))

Once(p, c, w) ==
  \/ Single(chan[<<p, c>>], bcst(w)) /\ ~Behind(p, c, w) /\ Absent(chan[<<c, p>>], bcak(w))
  \/ Absent(chan[<<p, c>>], bcst(w)) /\ Behind(p, c, w) /\ Absent(chan[<<c, p>>], bcak(w))
  \/ Absent(chan[<<p, c>>], bcst(w)) /\ ~Behind(p, c, w) /\ Single(chan[<<c, p>>], bcak(w))

OneWay(p, c, w) ==
  Absent(chan[<<c, p>>], bcst(w)) /\ Absent(chan[<<p, c>>], bcak(w))

(* p waits for an answer from c. *)
Pending(p, c, w) == IF p \in Server THEN c \in entry[<<p, w>>].owing ELSE pc[w] # "run"

(* It may have been lost: c has left, or a worker that came late waits for *)
(* an answer that has been there already.                                   *)
Lossy(p, c) == p \in Node \/ (c \in Node /\ ~valid[c])

Link(p, c, w) ==
  /\ OneWay(p, c, w)
  /\ Pending(p, c, w) => Once(p, c, w) \/ (Lossy(p, c) /\ Quiet(p, c, w))
  /\ ~Pending(p, c, w) => Quiet(p, c, w)

Remembered(s, w) ==
  \/ entry[<<s, w>>] = NoEntry
  \/ /\ entry[<<s, w>>].back = {Up(w)[s]}
     /\ entry[<<s, w>>].owing \subseteq Links[s] \ {Up(w)[s]}
     /\ entry[<<s, w>>].owing # {}

Wave ==
  \A w \in Worker :
    /\ \A p, c \in Host : Branch(w, p, c) => Link(p, c, w)
    /\ \A s \in Server : Remembered(s, w)

(***************************************************************************)
(* The tree                                                                *)
(***************************************************************************)
LEMMA UpTowards ==
  ASSUME NEW w \in Worker
  PROVE  Up(w) \in [Host -> Host] /\ Towards(Up(w), HomeOf[w])
  BY TreeAssumption DEF TreeAssumption, Up

LEMMA LinkEdges ==
  ASSUME NEW s \in Server, NEW h \in Links[s]
  PROVE  s \in Host /\ h \in Host /\ <<s, h>> \in Edge /\ <<h, s>> \in Edge
<1>1. s \in Host /\ h \in Host
  BY TopologyAssumption DEF TopologyAssumption, Host
<1> QED
  BY <1>1 DEF Edge

LEMMA EdgeEnds ==
  ASSUME NEW a, NEW b, <<a, b>> \in Edge
  PROVE  /\ a \in Host /\ b \in Host /\ <<b, a>> \in Edge
         /\ (a \in Server /\ b \in Links[a]) \/ (b \in Server /\ a \in Links[b])
  BY DEF Edge

LEMMA OneBranch ==
  ASSUME NEW w \in Worker, NEW a, NEW b, <<a, b>> \in Edge
  PROVE  /\ Up(w)[a] = b <=> Up(w)[b] # a
         /\ a # b
<1>1. Up(w)[<<a, b>>[1]] = <<a, b>>[2] <=> Up(w)[<<a, b>>[2]] # <<a, b>>[1]
  BY UpTowards DEF Towards
<1> QED
  BY <1>1

LEMMA ServerOfNode ==
  ASSUME NEW n \in Node
  PROVE  /\ ServerOf(n) \in Server /\ n \in Links[ServerOf(n)]
         /\ \A s \in Server : n \in Links[s] => s = ServerOf(n)
         /\ n \notin Server
         /\ <<n, ServerOf(n)>> \in Edge /\ <<ServerOf(n), n>> \in Edge
<1>1. PICK s \in Server : {t \in Server : n \in Links[t]} = {s}
  BY TopologyAssumption DEF TopologyAssumption
<1>2. s \in Server /\ n \in Links[s] /\ \A t \in Server : n \in Links[t] => t = s
  BY <1>1
<1>3. ServerOf(n) = s
  BY <1>2 DEF ServerOf
<1>4. n \notin Server
  BY TopologyAssumption DEF TopologyAssumption
<1> QED
  BY <1>2, <1>3, <1>4, LinkEdges

(* Only the worker's own node is next to anyone on the way to it. *)
LEMMA NodeBranch ==
  ASSUME NEW w \in Worker, NEW p \in Node, NEW c, Branch(w, p, c)
  PROVE  p = HomeOf[w] /\ c = ServerOf(p)
<1>1. <<p, c>> \in Edge /\ Up(w)[c] = p /\ p \notin Server
  BY ServerOfNode DEF Branch
<1>2. c \in Server /\ p \in Links[c]
  BY <1>1, EdgeEnds
<1>3. c = ServerOf(p)
  BY <1>2, ServerOfNode
<1>4. Up(w)[p] # c
  BY <1>1, OneBranch
<1>5. p # HomeOf[w] => p \in Host /\ <<p, Up(w)[p]>> \in Edge
  BY UpTowards DEF Towards, Host
<1>6. p # HomeOf[w] => Up(w)[p] = ServerOf(p)
  BY <1>1, <1>5, EdgeEnds, ServerOfNode
<1> QED
  BY <1>3, <1>4, <1>6

LEMMA HomeBranch ==
  ASSUME NEW w \in Worker
  PROVE  HomeOf[w] \in Node /\ Branch(w, HomeOf[w], ServerOf(HomeOf[w]))
<1>1. HomeOf[w] \in Node
  BY TopologyAssumption DEF TopologyAssumption
<1>2. <<HomeOf[w], ServerOf(HomeOf[w])>> \in Edge /\ ServerOf(HomeOf[w]) # HomeOf[w]
  BY <1>1, ServerOfNode
<1>3. Up(w)[HomeOf[w]] = HomeOf[w]
  BY UpTowards DEF Towards
<1> QED
  BY <1>1, <1>2, <1>3, OneBranch DEF Branch

(***************************************************************************)
(* Messages in a channel                                                   *)
(***************************************************************************)
LEMMA TailOf ==
  ASSUME NEW q \in Seq(Msg), q # <<>>
  PROVE  /\ DOMAIN q = 1..Len(q) /\ Len(q) \in Nat \ {0} /\ Head(q) = q[1]
         /\ Tail(q) \in Seq(Msg) /\ DOMAIN Tail(q) = 1..(Len(q) - 1)
         /\ \A i \in 1..(Len(q) - 1) : Tail(q)[i] = q[i + 1]
<1>1. DOMAIN q = 1..Len(q) /\ Len(q) \in Nat \ {0} /\ Head(q) = q[1]
  BY LenProperties, EmptySeq, HeadTailProperties
<1>2. Tail(q) \in Seq(Msg) /\ Len(Tail(q)) = Len(q) - 1
      /\ \A i \in 1..Len(Tail(q)) : Tail(q)[i] = q[i + 1]
  BY HeadTailProperties
<1> QED
  BY <1>1, <1>2, LenProperties

LEMMA TailKeeps ==
  ASSUME NEW q \in Seq(Msg), q # <<>>, NEW m, Head(q) # m
  PROVE  /\ Absent(q, m) => Absent(Tail(q), m)
         /\ Single(q, m) => Single(Tail(q), m)
<1>1. Absent(q, m) => Absent(Tail(q), m)
  BY TailOf DEF Absent
<1>2. ASSUME Single(q, m) PROVE Single(Tail(q), m)
  <2>1. PICK i \in DOMAIN q : q[i] = m /\ \A k \in DOMAIN q : q[k] = m => k = i
    BY <1>2 DEF Single
  <2>2. i - 1 \in DOMAIN Tail(q) /\ Tail(q)[i - 1] = m
    BY <2>1, TailOf
  <2>3. ASSUME NEW k \in DOMAIN Tail(q), Tail(q)[k] = m PROVE k = i - 1
    <3>1. k + 1 \in DOMAIN q /\ q[k + 1] = m
      BY <2>3, TailOf
    <3> QED
      BY <2>1, <3>1, TailOf
  <2> QED
    BY <2>2, <2>3 DEF Single
<1> QED
  BY <1>1, <1>2

LEMMA TailTakes ==
  ASSUME NEW q \in Seq(Msg), q # <<>>, NEW m, Head(q) = m, Single(q, m)
  PROVE  Absent(Tail(q), m)
<1>1. PICK i \in DOMAIN q : q[i] = m /\ \A k \in DOMAIN q : q[k] = m => k = i
  BY DEF Single
<1>2. i = 1
  BY <1>1, TailOf
<1> QED
  BY <1>1, <1>2, TailOf DEF Absent

LEMMA AppendKeeps ==
  ASSUME NEW q \in Seq(Msg), NEW x \in Msg, NEW m, x # m
  PROVE  /\ Absent(q, m) => Absent(Append(q, x), m)
         /\ Single(q, m) => Single(Append(q, x), m)
<1>1. /\ DOMAIN q = 1..Len(q) /\ Len(q) \in Nat
      /\ DOMAIN Append(q, x) = 1..(Len(q) + 1)
      /\ Append(q, x)[Len(q) + 1] = x /\ \A i \in 1..Len(q) : Append(q, x)[i] = q[i]
  BY LenProperties, AppendProperties
<1> QED
  BY <1>1 DEF Absent, Single

LEMMA AppendAdds ==
  ASSUME NEW q \in Seq(Msg), NEW m \in Msg, Absent(q, m)
  PROVE  Single(Append(q, m), m)
<1>1. /\ DOMAIN q = 1..Len(q) /\ Len(q) \in Nat
      /\ DOMAIN Append(q, m) = 1..(Len(q) + 1)
      /\ Append(q, m)[Len(q) + 1] = m /\ \A i \in 1..Len(q) : Append(q, m)[i] = q[i]
  BY LenProperties, AppendProperties
<1> QED
  BY <1>1 DEF Absent, Single

LEMMA Messages ==
  /\ leav \in Msg
  /\ \A w \in Worker : bcst(w) \in Msg /\ bcak(w) \in Msg /\ bcst(w) # leav /\ bcak(w) # leav
  /\ \A v, w \in Worker : bcst(v) # bcak(w)
  /\ \A v, w \in Worker : v # w => bcst(v) # bcst(w) /\ bcak(v) # bcak(w)
<1>1. leav \in Msg
  BY DEF leav, Msg
<1>2. ASSUME NEW w \in Worker PROVE bcst(w) \in Msg /\ bcak(w) \in Msg
  BY DEF bcst, bcak, Msg
<1>3. \A w \in Worker : bcst(w).kind = "bcst" /\ bcst(w).by = w
                        /\ bcak(w).kind = "bcak" /\ bcak(w).by = w
  BY DEF bcst, bcak
<1>4. leav.kind = "leav"
  BY DEF leav
<1> QED
  BY <1>1, <1>2, <1>3, <1>4

(***************************************************************************)
(* What a step does to a channel and to a link                             *)
(***************************************************************************)

(* As far as the message m goes, the channel from a to b is as before. *)
Keeps(a, b, m) ==
  /\ Absent(chan[<<a, b>>], m) => Absent(chan'[<<a, b>>], m)
  /\ Single(chan[<<a, b>>], m) => Single(chan'[<<a, b>>], m)

LEMMA Handled ==
  ASSUME TypeOK, NEW a, NEW b, <<a, b>> \in Edge, a # b, NEW g, Receives(a, b, g),
         NEW hosts, NEW m \in Msg, HandleAndSend(a, b, hosts, m),
         NEW x, NEW y, <<x, y>> \in Edge
  PROVE  /\ chan'[<<x, y>>] \in Seq(Msg)
         /\ x = a /\ y = b /\ Single(chan[<<x, y>>], g) => Absent(chan'[<<x, y>>], g)
         /\ x = b /\ y \in Reached(hosts) /\ Absent(chan[<<x, y>>], m) =>
              Single(chan'[<<x, y>>], m)
         /\ \A k : /\ k = g => ~(x = a /\ y = b)
                   /\ k = m => ~(x = b /\ y \in Reached(hosts))
                   => Keeps(x, y, k)
<1>1. PICK q : q = chan[<<x, y>>]
  OBVIOUS
<1>2. PICK r : r = chan'[<<x, y>>]
  OBVIOUS
<1>3. q \in Seq(Msg)
  BY <1>1 DEF TypeOK
<1>4. CASE x = a /\ y = b
  <2>1. r = Tail(q) /\ q # <<>> /\ Head(q) = g
    BY <1>2, <1>1, <1>4 DEF HandleAndSend, Receives
  <2>2. r \in Seq(Msg)
    BY <1>3, <2>1, TailOf
  <2>3. Single(q, g) => Absent(Tail(q), g)
    BY <1>3, <2>1, TailTakes
  <2>4. \A k : k # g => /\ Absent(q, k) => Absent(Tail(q), k)
                        /\ Single(q, k) => Single(Tail(q), k)
    BY <1>3, <2>1, TailKeeps
  <2> QED
    BY <1>2, <1>1, <1>4, <2>2, <2>3, <2>4, <2>1 DEF Keeps
<1>5. CASE ~(x = a /\ y = b) /\ x = b /\ y \in Reached(hosts)
  <2>1. r = Append(q, m)
    BY <1>2, <1>1, <1>5 DEF HandleAndSend
  <2>2. r \in Seq(Msg)
    BY <1>3, <2>1, AppendProperties
  <2>3. Absent(q, m) => Single(Append(q, m), m)
    BY <1>3, AppendAdds
  <2>4. \A k : k # m => /\ Absent(q, k) => Absent(Append(q, m), k)
                        /\ Single(q, k) => Single(Append(q, m), k)
    BY <1>3, AppendKeeps
  <2> QED
    BY <1>2, <1>1, <1>5, <2>2, <2>3, <2>4, <2>1 DEF Keeps
<1>6. CASE ~(x = a /\ y = b) /\ ~(x = b /\ y \in Reached(hosts))
  <2>1. r = q
    BY <1>2, <1>1, <1>6 DEF HandleAndSend
  <2> QED
    BY <1>2, <1>1, <1>3, <1>6, <2>1 DEF Keeps
<1> QED
  BY <1>4, <1>5, <1>6

(* Nothing that Link(p, c, w) speaks of is changed, but c may have left. *)
LEMMA LinkKept ==
  ASSUME NEW w \in Worker, NEW p, NEW c, Link(p, c, w),
         \A m \in {bcst(w), bcak(w)} : Keeps(p, c, m) /\ Keeps(c, p, m),
         Behind(p, c, w)' <=> Behind(p, c, w),
         Pending(p, c, w)' <=> Pending(p, c, w),
         Lossy(p, c) => Lossy(p, c)'
  PROVE  Link(p, c, w)'
<1>1. OneWay(p, c, w)'
  BY DEF Link, OneWay, Keeps
<1>2. Quiet(p, c, w) => Quiet(p, c, w)'
  BY DEF Quiet, Keeps
<1>3. Once(p, c, w) => Once(p, c, w)'
  BY DEF Once, Keeps
<1> QED
  BY <1>1, <1>2, <1>3 DEF Link

(* The parent p of c on the way to the node of w *)
LEMMA BranchEnds ==
  ASSUME NEW w \in Worker, NEW p \in Host, NEW c \in Host, Branch(w, p, c)
  PROVE  /\ <<p, c>> \in Edge /\ <<c, p>> \in Edge /\ p # c
         /\ Up(w)[c] = p /\ Up(w)[p] # c
         /\ (p \in Server /\ c \in Links[p]) \/ (c \in Server /\ p \in Links[c])
  BY EdgeEnds, OneBranch DEF Branch

(* A bcst of w goes away from its node, a bcak towards it. *)
LEMMA BcstGoesDown ==
  ASSUME Wave, NEW w \in Worker, NEW a \in Host, NEW b \in Host, <<a, b>> \in Edge,
         ~Absent(chan[<<a, b>>], bcst(w))
  PROVE  /\ Branch(w, a, b) /\ Pending(a, b, w) /\ ~Behind(a, b, w)
         /\ Single(chan[<<a, b>>], bcst(w)) /\ Absent(chan[<<b, a>>], bcak(w))
         /\ Link(a, b, w)
<1>1. ~Branch(w, b, a)
  BY DEF Wave, Link, OneWay
<1>2. Branch(w, a, b)
  BY <1>1, OneBranch, EdgeEnds DEF Branch
<1>3. Link(a, b, w)
  BY <1>2 DEF Wave
<1> QED
  BY <1>2, <1>3 DEF Link, Quiet, Once

LEMMA BcakGoesUp ==
  ASSUME Wave, NEW w \in Worker, NEW a \in Host, NEW b \in Host, <<a, b>> \in Edge,
         ~Absent(chan[<<a, b>>], bcak(w))
  PROVE  /\ Branch(w, b, a) /\ Pending(b, a, w) /\ ~Behind(b, a, w)
         /\ Single(chan[<<a, b>>], bcak(w)) /\ Absent(chan[<<b, a>>], bcst(w))
         /\ Link(b, a, w) /\ <<b, a>> \in Edge
<1>1. ~Branch(w, a, b)
  BY DEF Wave, Link, OneWay
<1>2. Branch(w, b, a) /\ <<b, a>> \in Edge
  BY <1>1, OneBranch, EdgeEnds DEF Branch
<1>3. Link(b, a, w)
  BY <1>2 DEF Wave
<1> QED
  BY <1>2, <1>3 DEF Link, Quiet, Once

LEMMA Present ==
  ASSUME TypeOK, NEW a, NEW b, <<a, b>> \in Edge, NEW m, Receives(a, b, m)
  PROVE  ~Absent(chan[<<a, b>>], m)
<1>1. chan[<<a, b>>] \in Seq(Msg)
  BY DEF TypeOK
<1> QED
  BY <1>1, TailOf DEF Receives, Absent

(***************************************************************************)
(* The worker                                                              *)
(***************************************************************************)

(* One message is put into a channel. *)
Put(a, b, m) == chan' = [chan EXCEPT ![<<a, b>>] = Append(@, m)]

LEMMA Sent ==
  ASSUME TypeOK, NEW a, NEW b, <<a, b>> \in Edge, NEW m \in Msg,
         Put(a, b, m),
         NEW x, NEW y, <<x, y>> \in Edge
  PROVE  /\ chan'[<<x, y>>] \in Seq(Msg)
         /\ x = a /\ y = b /\ Absent(chan[<<x, y>>], m) => Single(chan'[<<x, y>>], m)
         /\ \A k : (k = m => ~(x = a /\ y = b)) => Keeps(x, y, k)
<1>1. PICK q : q = chan[<<x, y>>]
  OBVIOUS
<1>2. PICK r : r = chan'[<<x, y>>]
  OBVIOUS
<1>3. q \in Seq(Msg)
  BY <1>1 DEF TypeOK
<1>4. CASE x = a /\ y = b
  <2>1. r = Append(q, m)
    BY <1>1, <1>2, <1>4 DEF Put, TypeOK
  <2>2. r \in Seq(Msg)
    BY <1>3, <2>1, AppendProperties
  <2>3. Absent(q, m) => Single(Append(q, m), m)
    BY <1>3, AppendAdds
  <2>4. \A k : k # m => /\ Absent(q, k) => Absent(Append(q, m), k)
                        /\ Single(q, k) => Single(Append(q, m), k)
    BY <1>3, AppendKeeps
  <2> QED
    BY <1>1, <1>2, <1>4, <2>2, <2>3, <2>4, <2>1 DEF Keeps
<1>5. CASE ~(x = a /\ y = b)
  <2>1. r = q
    BY <1>1, <1>2, <1>5 DEF Put, TypeOK
  <2> QED
    BY <1>1, <1>2, <1>3, <1>5, <2>1 DEF Keeps
<1> QED
  BY <1>4, <1>5

LEMMA SentKeeps ==
  ASSUME TypeOK, NEW a, NEW b, <<a, b>> \in Edge, NEW m \in Msg,
         Put(a, b, m),
         NEW x, NEW y, <<x, y>> \in Edge, NEW k, k = m => ~(x = a /\ y = b)
  PROVE  Keeps(x, y, k)
<1>1. \A l : (l = m => ~(x = a /\ y = b)) => Keeps(x, y, l)
  BY Sent
<1> QED
  BY <1>1

LEMMA SendBcstWave ==
  ASSUME TypeOK, Wave, NEW w \in Worker, SendBcst(w)
  PROVE  Wave'
<1>1. PICK n \in Node, s \in Server :
        n = HomeOf[w] /\ s = ServerOf(n) /\ <<n, s>> \in Edge /\ Branch(w, n, s)
  BY HomeBranch, ServerOfNode DEF Branch
<1>2. /\ Put(n, s, bcst(w)) /\ bcst(w) \in Msg
      /\ entry' = entry /\ valid' = valid /\ pc[w] = "run" /\ pc' = [pc EXCEPT ![w] = "sent"]
  BY <1>1, Messages DEF SendBcst, Put
<1>3. n \in Host /\ s \in Host /\ n \notin Server /\ Link(n, s, w)
  BY <1>1, ServerOfNode DEF Host, Wave
<1>4. ASSUME NEW x, NEW y, <<x, y>> \in Edge, NEW k, k = bcst(w) => ~(x = n /\ y = s)
      PROVE  Keeps(x, y, k)
  <2>1. PICK m \in Msg : m = bcst(w)
    BY <1>2
  <2>2. Put(n, s, m) /\ <<n, s>> \in Edge /\ <<x, y>> \in Edge /\ (k = m => ~(x = n /\ y = s))
    BY <1>1, <1>2, <1>4, <2>1
  <2>3. TypeOK
    OBVIOUS
  <2> HIDE DEF TypeOK, Put
  <2> QED
    BY <2>2, <2>3, SentKeeps
<1>5. ASSUME NEW v \in Worker, NEW p \in Host, NEW c \in Host, Branch(v, p, c)
      PROVE  Link(p, c, v)'
  <2>1. Link(p, c, v) /\ <<p, c>> \in Edge /\ <<c, p>> \in Edge
    BY <1>5, BranchEnds DEF Wave
  <2>2. Behind(p, c, v)' <=> Behind(p, c, v)
    BY <1>2 DEF Behind
  <2>3. Lossy(p, c)' <=> Lossy(p, c)
    BY <1>2 DEF Lossy
  <2>4. CASE v = w /\ p = n /\ c = s
    <3>1. Quiet(p, c, w)
      BY <1>2, <1>3, <2>1, <2>4 DEF Link, Pending
    <3>2. Single(chan'[<<p, c>>], bcst(w))
      BY <1>1, <1>2, <2>1, <2>4, <3>1, Sent DEF Quiet
    <3>3. Keeps(c, p, bcst(w)) /\ Keeps(c, p, bcak(w)) /\ Keeps(p, c, bcak(w))
      <4>1. bcak(w) # bcst(w) /\ c # p
        BY <1>5, Messages, BranchEnds
      <4> QED
        BY <1>4, <2>1, <2>4, <4>1
    <3>4. Once(p, c, w)' /\ OneWay(p, c, w)'
      BY <2>1, <2>2, <2>4, <3>1, <3>2, <3>3 DEF Quiet, Once, OneWay, Link, Keeps
    <3>5. Pending(p, c, w)'
      BY <1>2, <1>3, <2>4 DEF Pending, TypeOK
    <3> QED
      BY <2>4, <3>4, <3>5 DEF Link
  <2>5. CASE ~(v = w /\ p = n /\ c = s)
    <3>1. ASSUME NEW m \in {bcst(v), bcak(v)} PROVE Keeps(p, c, m)
      <4>1. m = bcst(w) => ~(p = n /\ c = s)
        BY <2>5, Messages
      <4> QED
        BY <1>4, <2>1, <4>1
    <3>2. ASSUME NEW m \in {bcst(v), bcak(v)} PROVE Keeps(c, p, m)
      <4>1. m = bcst(w) => ~(c = n /\ p = s)
        <5>1. CASE v = w
          BY <1>1, <1>5, <5>1, BranchEnds, OneBranch DEF Branch
        <5>2. CASE v # w
          BY <5>2, Messages
        <5> QED
          BY <5>1, <5>2
      <4> QED
        BY <1>4, <2>1, <4>1
    <3>3. Pending(p, c, v)' <=> Pending(p, c, v)
      <4>1. CASE p \in Server
        BY <1>2, <4>1 DEF Pending
      <4>2. CASE p \notin Server
        <5>1. p = HomeOf[v] /\ c = ServerOf(p)
          BY <1>5, <4>2, NodeBranch DEF Host
        <5>2. v # w
          BY <1>1, <2>5, <5>1
        <5> QED
          BY <1>2, <4>2, <5>2 DEF Pending, TypeOK
      <4> QED
        BY <4>1, <4>2
    <3> QED
      BY <2>1, <2>2, <2>3, <3>1, <3>2, <3>3, LinkKept
  <2> QED
    BY <2>4, <2>5
<1>6. ASSUME NEW v \in Worker, NEW t \in Server PROVE Remembered(t, v)'
  BY <1>2 DEF Wave, Remembered
<1> QED
  BY <1>5, <1>6 DEF Wave, Branch

LEMMA StartWaitWave ==
  ASSUME TypeOK, Wave, NEW w \in Worker, StartWait(w)
  PROVE  Wave'
<1>1. /\ chan' = chan /\ entry' = entry /\ valid' = valid
      /\ pc[w] = "sent" /\ pc' = [pc EXCEPT ![w] = "wait"]
  BY DEF StartWait
<1>2. \A v \in Worker : pc'[v] # "run" <=> pc[v] # "run"
  BY <1>1 DEF TypeOK
<1>3. ASSUME NEW v \in Worker, NEW p \in Host, NEW c \in Host, Branch(v, p, c)
      PROVE  Link(p, c, v)'
  <2>1. Link(p, c, v) /\ \A m \in {bcst(v), bcak(v)} : Keeps(p, c, m) /\ Keeps(c, p, m)
    BY <1>1, <1>3 DEF Wave, Keeps
  <2>2. /\ Behind(p, c, v)' <=> Behind(p, c, v)
        /\ Pending(p, c, v)' <=> Pending(p, c, v)
        /\ Lossy(p, c)' <=> Lossy(p, c)
    BY <1>1, <1>2 DEF Behind, Pending, Lossy
  <2> QED
    BY <2>1, <2>2, LinkKept
<1>4. ASSUME NEW v \in Worker, NEW t \in Server PROVE Remembered(t, v)'
  BY <1>1 DEF Wave, Remembered
<1> QED
  BY <1>3, <1>4 DEF Wave, Branch

(***************************************************************************)
(* Steps that handle a message                                             *)
(***************************************************************************)

(* b handles the message g from a and sends m. *)
Handles(a, b, g, hosts, m) ==
  /\ <<a, b>> \in Edge /\ a # b /\ m \in Msg
  /\ Receives(a, b, g) /\ HandleAndSend(a, b, hosts, m)

LEMMA HandledKeeps ==
  ASSUME TypeOK, NEW a, NEW b, NEW g, NEW hosts, NEW m, Handles(a, b, g, hosts, m),
         NEW x, NEW y, <<x, y>> \in Edge,
         NEW k, k = g => ~(x = a /\ y = b), k = m => ~(x = b /\ y \in Reached(hosts))
  PROVE  Keeps(x, y, k)
<1>1. \A l : (l = g => ~(x = a /\ y = b)) /\ (l = m => ~(x = b /\ y \in Reached(hosts)))
             => Keeps(x, y, l)
  BY Handled DEF Handles
<1> QED
  BY <1>1

LEMMA HandledTakes ==
  ASSUME TypeOK, NEW a, NEW b, NEW g, NEW hosts, NEW m, Handles(a, b, g, hosts, m),
         Single(chan[<<a, b>>], g)
  PROVE  Absent(chan'[<<a, b>>], g)
  BY Handled DEF Handles

LEMMA HandledAdds ==
  ASSUME TypeOK, NEW a, NEW b, NEW g, NEW hosts, NEW m, Handles(a, b, g, hosts, m),
         NEW y \in Reached(hosts), <<b, y>> \in Edge, Absent(chan[<<b, y>>], m)
  PROVE  Single(chan'[<<b, y>>], m)
  BY Handled DEF Handles

LEMMA HandledTypes ==
  ASSUME TypeOK, NEW a, NEW b, NEW g, NEW hosts, NEW m, Handles(a, b, g, hosts, m)
  PROVE  chan' \in [Edge -> Seq(Msg)]
<1>1. ASSUME NEW e \in Edge PROVE chan'[e] \in Seq(Msg)
  <2>1. PICK x \in Host, y \in Host : e = <<x, y>>
    BY DEF Edge
  <2> QED
    BY <2>1, Handled DEF Handles
<1>2. chan' = [e \in Edge |-> chan'[e]]
  BY DEF Handles, HandleAndSend
<1> QED
  BY <1>1, <1>2

(* A link that does not end in b, and all links for another worker *)
LEMMA LinkAside ==
  ASSUME TypeOK, Wave, NEW a, NEW b, NEW g, NEW hosts, NEW m, Handles(a, b, g, hosts, m),
         NEW v \in Worker, NEW p \in Host, NEW c \in Host, Branch(v, p, c),
         (p # b /\ c # b) \/ \A k \in {bcst(v), bcak(v)} : k # g /\ k # m,
         c \in Server => entry'[<<c, v>>].back = entry[<<c, v>>].back,
         p \in Server => entry'[<<p, v>>].owing = entry[<<p, v>>].owing,
         p \notin Server => (pc'[v] = "run" <=> pc[v] = "run"),
         Lossy(p, c) => Lossy(p, c)'
  PROVE  Link(p, c, v)'
<1>1. Link(p, c, v) /\ <<p, c>> \in Edge /\ <<c, p>> \in Edge
  BY BranchEnds DEF Wave
<1>2. ASSUME NEW k \in {bcst(v), bcak(v)} PROVE Keeps(p, c, k) /\ Keeps(c, p, k)
  <2>1. /\ k = g => ~(p = a /\ c = b) /\ ~(c = a /\ p = b)
        /\ k = m => p # b /\ c # b
    OBVIOUS
  <2>2. Keeps(p, c, k)
    BY <1>1, <2>1, HandledKeeps
  <2>3. Keeps(c, p, k)
    BY <1>1, <2>1, HandledKeeps
  <2> QED
    BY <2>2, <2>3
<1>3. /\ Behind(p, c, v)' <=> Behind(p, c, v)
      /\ Pending(p, c, v)' <=> Pending(p, c, v)
  BY DEF Behind, Pending
<1> QED
  BY <1>1, <1>2, <1>3, LinkKept

LEMMA ProcLeavWave ==
  ASSUME TypeOK, Wave, NEW s \in Server, NEW n \in Links[s] \cap Node, ProcLeav(s, n)
  PROVE  Wave'
<1>1. <<n, s>> \in Edge /\ n # s
  BY LinkEdges, ServerOfNode
<1>2. Handles(n, s, leav, {}, leav)
  BY <1>1, Messages DEF ProcLeav, Handles
<1>3. entry' = entry /\ pc' = pc /\ valid' = [valid EXCEPT ![n] = FALSE]
  BY DEF ProcLeav
<1>4. ASSUME NEW v \in Worker, NEW p \in Host, NEW c \in Host, Branch(v, p, c)
      PROVE  Link(p, c, v)'
  <2>1. \A k \in {bcst(v), bcak(v)} : k # leav
    BY Messages
  <2>2. Lossy(p, c) => Lossy(p, c)'
    BY <1>3 DEF Lossy, TypeOK
  <2> QED
    BY <1>2, <1>3, <1>4, <2>1, <2>2, LinkAside
<1>5. ASSUME NEW v \in Worker, NEW t \in Server PROVE Remembered(t, v)'
  BY <1>3 DEF Wave, Remembered
<1> QED
  BY <1>4, <1>5 DEF Wave, Branch

LEMMA LeaveWave ==
  ASSUME TypeOK, Wave, NEW n \in Node, Leave(n)
  PROVE  Wave'
<1>1. /\ Put(n, ServerOf(n), leav) /\ leav \in Msg /\ <<n, ServerOf(n)>> \in Edge
      /\ entry' = entry /\ valid' = valid /\ pc' = pc
  BY Messages, ServerOfNode DEF Leave, Put
<1>2. ASSUME NEW v \in Worker, NEW p \in Host, NEW c \in Host, Branch(v, p, c)
      PROVE  Link(p, c, v)'
  <2>1. Link(p, c, v) /\ <<p, c>> \in Edge /\ <<c, p>> \in Edge
    BY <1>2, BranchEnds DEF Wave
  <2>2. ASSUME NEW k \in {bcst(v), bcak(v)} PROVE Keeps(p, c, k) /\ Keeps(c, p, k)
    <3>1. k # leav
      BY Messages
    <3>2. Keeps(p, c, k)
      BY <1>1, <2>1, <3>1, SentKeeps
    <3>3. Keeps(c, p, k)
      BY <1>1, <2>1, <3>1, SentKeeps
    <3> QED
      BY <3>2, <3>3
  <2>3. /\ Behind(p, c, v)' <=> Behind(p, c, v)
        /\ Pending(p, c, v)' <=> Pending(p, c, v)
        /\ Lossy(p, c)' <=> Lossy(p, c)
    BY <1>1 DEF Behind, Pending, Lossy
  <2> QED
    BY <2>1, <2>2, <2>3, LinkKept
<1>3. ASSUME NEW v \in Worker, NEW t \in Server PROVE Remembered(t, v)'
  BY <1>1 DEF Wave, Remembered
<1> QED
  BY <1>2, <1>3 DEF Wave, Branch

(* recv-bcst: the wave turns. *)
LEMMA RecvBcstWave ==
  ASSUME TypeOK, Wave, NEW n \in Node, NEW w \in Worker, RecvBcst(n, w)
  PROVE  Wave'
<1>1. PICK s \in Server : s = ServerOf(n) /\ <<s, n>> \in Edge /\ <<n, s>> \in Edge
  BY ServerOfNode
<1>2. s # n /\ s \in Host /\ n \in Host /\ n \notin Server
  BY ServerOfNode DEF Host
<1>3. /\ Handles(s, n, bcst(w), {s}, bcak(w))
      /\ entry' = entry /\ valid' = valid /\ pc' = pc
  BY <1>1, <1>2, Messages DEF RecvBcst, Handles
<1>4. ~Absent(chan[<<s, n>>], bcst(w))
  BY <1>1, <1>3, Present DEF Handles
<1>5. /\ Branch(w, s, n) /\ Pending(s, n, w)
      /\ Single(chan[<<s, n>>], bcst(w)) /\ Absent(chan[<<n, s>>], bcak(w))
      /\ Link(s, n, w)
  BY <1>1, <1>2, <1>4, BcstGoesDown
<1>6. ASSUME NEW v \in Worker, NEW p \in Host, NEW c \in Host, Branch(v, p, c)
      PROVE  Link(p, c, v)'
  <2>1. CASE v = w /\ p = s /\ c = n
    <3>1. Absent(chan'[<<s, n>>], bcst(w))
      BY <1>3, <1>5, HandledTakes
    <3>2. Single(chan'[<<n, s>>], bcak(w))
      <4>1. s \in Reached({s})
        BY <1>1, ServerOfNode DEF Reached
      <4> QED
        BY <1>1, <1>3, <1>5, <4>1, HandledAdds
    <3>3. bcst(w) # bcak(w)
      BY Messages
    <3>4. Keeps(n, s, bcst(w))
      BY <1>1, <1>2, <1>3, <3>3, HandledKeeps
    <3>5. Keeps(s, n, bcak(w))
      BY <1>1, <1>2, <1>3, <3>3, HandledKeeps
    <3>6. OneWay(s, n, w)'
      BY <1>5, <3>4, <3>5 DEF Link, OneWay, Keeps
    <3>7. Once(s, n, w)'
      BY <1>2, <3>1, <3>2 DEF Once, Behind
    <3>8. Pending(s, n, w)'
      BY <1>3, <1>5 DEF Pending
    <3> QED
      BY <2>1, <3>6, <3>7, <3>8 DEF Link
  <2>2. CASE v = w /\ ~(p = s /\ c = n)
    <3>1. p # n /\ c # n
      <4>1. Up(w)[n] = s
        BY <1>5 DEF Branch
      <4>2. c # n
        BY <1>6, <2>2, <4>1 DEF Branch
      <4>3. p # n
        <5>1. ASSUME p = n PROVE FALSE
          <6>1. n = HomeOf[w] /\ c = ServerOf(n)
            BY <1>6, <2>2, <5>1, NodeBranch
          <6>2. Up(w)[s] = n
            BY <1>1, <1>6, <2>2, <5>1, <6>1 DEF Branch
          <6> QED
            BY <1>1, <4>1, <6>2, OneBranch
        <5> QED
          BY <5>1
      <4> QED
        BY <4>2, <4>3
    <3>2. Lossy(p, c) => Lossy(p, c)'
      BY <1>3 DEF Lossy
    <3> QED
      BY <1>3, <1>6, <3>1, <3>2, LinkAside
  <2>3. CASE v # w
    <3>1. \A k \in {bcst(v), bcak(v)} : k # bcst(w) /\ k # bcak(w)
      BY <2>3, Messages
    <3>2. Lossy(p, c) => Lossy(p, c)'
      BY <1>3 DEF Lossy
    <3> QED
      BY <1>3, <1>6, <3>1, <3>2, LinkAside
  <2> QED
    BY <2>1, <2>2, <2>3
<1>7. ASSUME NEW v \in Worker, NEW t \in Server PROVE Remembered(t, v)'
  BY <1>3 DEF Wave, Remembered
<1> QED
  BY <1>6, <1>7 DEF Wave, Branch

(* recv-bcak: the wave is back, and its worker, if it waits, goes on. *)
LEMMA RecvBcakWave ==
  ASSUME TypeOK, Wave, NEW n \in Node, NEW w \in Worker, RecvBcak(n, w)
  PROVE  Wave'
<1>1. PICK s \in Server : s = ServerOf(n) /\ <<s, n>> \in Edge /\ <<n, s>> \in Edge
  BY ServerOfNode
<1>2. s # n /\ s \in Host /\ n \in Host /\ n \notin Server
  BY ServerOfNode DEF Host
<1>3. /\ Handles(s, n, bcak(w), {}, leav)
      /\ entry' = entry /\ valid' = valid
      /\ pc' = [pc EXCEPT ![w] = IF pc[w] = "wait" THEN "run" ELSE pc[w]]
  BY <1>1, <1>2, Messages DEF RecvBcak, Handles
<1>4. ~Absent(chan[<<s, n>>], bcak(w))
  BY <1>1, <1>3, Present DEF Handles
<1>5. /\ Branch(w, n, s) /\ ~Behind(n, s, w)
      /\ Single(chan[<<s, n>>], bcak(w)) /\ Absent(chan[<<n, s>>], bcst(w))
      /\ Link(n, s, w)
  BY <1>1, <1>2, <1>4, BcakGoesUp
<1>6. n = HomeOf[w]
  BY <1>5, NodeBranch
<1>7. \A v \in Worker : v # w => pc'[v] = pc[v]
  BY <1>3 DEF TypeOK
<1>8. ASSUME NEW v \in Worker, NEW p \in Host, NEW c \in Host, Branch(v, p, c)
      PROVE  Link(p, c, v)'
  <2>0. Lossy(p, c) => Lossy(p, c)'
    BY <1>3 DEF Lossy
  <2>1. CASE v = w /\ p = n
    <3>1. c = s
      BY <1>1, <1>8, <2>1, NodeBranch
    <3>2. Absent(chan'[<<s, n>>], bcak(w))
      BY <1>3, <1>5, HandledTakes
    <3>3. /\ bcst(w) # bcak(w) /\ bcst(w) # leav /\ bcak(w) # leav
      BY Messages
    <3>4. Keeps(n, s, bcst(w))
      BY <1>1, <1>2, <1>3, <3>3, HandledKeeps
    <3>5. Keeps(s, n, bcst(w))
      BY <1>1, <1>2, <1>3, <3>3, HandledKeeps
    <3>6. Keeps(n, s, bcak(w))
      BY <1>1, <1>2, <1>3, <3>3, HandledKeeps
    <3>7. OneWay(n, s, w)'
      BY <1>5, <3>5, <3>6 DEF Link, OneWay, Keeps
    <3>8. Quiet(n, s, w)'
      BY <1>3, <1>5, <3>2, <3>4 DEF Quiet, Behind, Keeps
    <3>9. Lossy(n, s)'
      BY DEF Lossy
    <3> QED
      BY <2>1, <3>1, <3>7, <3>8, <3>9 DEF Link
  <2>2. CASE v = w /\ p # n
    <3>1. c # n
      <4>1. Up(w)[n] = n
        BY <1>6, UpTowards DEF Towards
      <4> QED
        BY <1>8, <2>2, <4>1 DEF Branch
    <3>2. p \in Server
      BY <1>6, <1>8, <2>2, NodeBranch DEF Host
    <3> QED
      BY <1>3, <1>8, <2>0, <2>2, <3>1, <3>2, LinkAside
  <2>3. CASE v # w
    <3>1. \A k \in {bcst(v), bcak(v)} : k # bcak(w) /\ k # leav
      BY <2>3, Messages
    <3> QED
      BY <1>3, <1>7, <1>8, <2>0, <2>3, <3>1, LinkAside
  <2> QED
    BY <2>1, <2>2, <2>3
<1>9. ASSUME NEW v \in Worker, NEW t \in Server PROVE Remembered(t, v)'
  BY <1>3 DEF Wave, Remembered
<1> QED
  BY <1>8, <1>9 DEF Wave, Branch

(* What a server remembers of a broadcast changes only for that broadcast. *)
LEMMA EntryAside ==
  ASSUME TypeOK, NEW s \in Server, NEW w \in Worker, NEW x,
         entry' = [entry EXCEPT ![<<s, w>>] = x],
         NEW t \in Server, NEW v \in Worker
  PROVE  /\ t = s /\ v = w => entry'[<<t, v>>] = x
         /\ ~(t = s /\ v = w) => entry'[<<t, v>>] = entry[<<t, v>>]
  BY DEF TypeOK

LEMMA ChildLink ==
  ASSUME NEW w \in Worker, NEW s \in Server, NEW c \in Host, s \in Host, Branch(w, s, c)
  PROVE  /\ <<s, c>> \in Edge /\ <<c, s>> \in Edge /\ c # s
         /\ Up(w)[s] # c /\ Up(w)[c] = s /\ c \in Links[s]
<1>1. /\ <<s, c>> \in Edge /\ <<c, s>> \in Edge /\ c # s
      /\ Up(w)[s] # c /\ Up(w)[c] = s
      /\ c \in Links[s] \/ (c \in Server /\ s \in Links[c])
  BY BranchEnds
<1>2. c \in Server /\ s \in Links[c] => c \in Links[s]
  BY TopologyAssumption DEF TopologyAssumption
<1> QED
  BY <1>1, <1>2

(* proc-bcst: the wave goes on below s, or turns at it. *)
LEMMA ProcBcstWave ==
  ASSUME TypeOK, Wave, NEW s \in Server, NEW from \in Links[s], NEW w \in Worker,
         ProcBcst(s, from, w)
  PROVE  Wave'
<1>1. /\ s \in Host /\ from \in Host /\ <<s, from>> \in Edge /\ <<from, s>> \in Edge
      /\ s # from
  BY LinkEdges, OneBranch
<1>2. PICK below : below = Links[s] \ {from}
  OBVIOUS
<1>3. PICK hosts, m :
        /\ Handles(from, s, bcst(w), hosts, m)
        /\ below = {} => hosts = {from} /\ m = bcak(w) /\ entry' = entry
        /\ below # {} =>
             /\ hosts = below /\ m = bcst(w)
             /\ entry' = [entry EXCEPT ![<<s, w>>] = [back |-> {from}, owing |-> below]]
  <2>1. CASE below = {}
    <3>1. Handles(from, s, bcst(w), {from}, bcak(w)) /\ entry' = entry
      BY <1>1, <1>2, <2>1, Messages DEF ProcBcst, Handles
    <3> QED
      BY <2>1, <3>1
  <2>2. CASE below # {}
    <3>1. /\ Handles(from, s, bcst(w), below, bcst(w))
          /\ entry' = [entry EXCEPT ![<<s, w>>] = [back |-> {from}, owing |-> below]]
      BY <1>1, <1>2, <2>2, Messages DEF ProcBcst, Handles
    <3> QED
      BY <2>2, <3>1
  <2> QED
    BY <2>1, <2>2
<1>4. valid' = valid /\ pc' = pc /\ bcst(w) # bcak(w) /\ m \in {bcst(w), bcak(w)}
  BY <1>3, Messages DEF ProcBcst
<1>5. ~Absent(chan[<<from, s>>], bcst(w))
  BY <1>1, <1>3, Present DEF Handles
<1>6. /\ Branch(w, from, s) /\ Pending(from, s, w) /\ ~Behind(from, s, w)
      /\ Single(chan[<<from, s>>], bcst(w)) /\ Absent(chan[<<s, from>>], bcak(w))
      /\ Link(from, s, w)
  BY <1>1, <1>5, BcstGoesDown
<1>7. Up(w)[s] = from /\ entry[<<s, w>>] = NoEntry
  BY <1>6 DEF Branch, Behind, Wave, Remembered
<1>8. ASSUME NEW t \in Server, NEW v \in Worker, ~(t = s /\ v = w)
      PROVE  entry'[<<t, v>>] = entry[<<t, v>>]
  BY <1>3, <1>8, EntryAside
<1>9. entry'[<<s, w>>] = IF below = {} THEN NoEntry ELSE [back |-> {from}, owing |-> below]
  BY <1>3, <1>7, EntryAside
<1>10. Link(from, s, w)'
  <2>1. Absent(chan'[<<from, s>>], bcst(w))
    BY <1>3, <1>6, HandledTakes
  <2>2. Keeps(s, from, bcst(w))
    <3>1. m = bcst(w) => from \notin Reached(hosts)
      BY <1>2, <1>3, <1>4 DEF Reached
    <3> QED
      BY <1>1, <1>3, <3>1, HandledKeeps
  <2>3. Keeps(from, s, bcak(w))
    BY <1>1, <1>3, <1>4, HandledKeeps
  <2>4. OneWay(from, s, w)'
    BY <1>6, <2>2, <2>3 DEF Link, OneWay, Keeps
  <2>5. Pending(from, s, w)'
    BY <1>1, <1>4, <1>6, <1>8 DEF Pending
  <2>6. CASE below # {}
    <3>1. Behind(from, s, w)'
      BY <1>9, <2>6 DEF Behind
    <3>2. Absent(chan'[<<s, from>>], bcak(w))
      BY <1>1, <1>3, <1>4, <1>6, <2>6, HandledKeeps DEF Keeps
    <3> QED
      BY <2>1, <2>4, <2>5, <3>1, <3>2 DEF Link, Once
  <2>7. CASE below = {}
    <3>1. ~Behind(from, s, w)'
      BY <1>9, <2>7 DEF Behind, NoEntry
    <3>2. CASE from \in Reached(hosts)
      <4>1. Single(chan'[<<s, from>>], bcak(w))
        BY <1>1, <1>3, <1>6, <2>7, <3>2, HandledAdds
      <4> QED
        BY <2>1, <2>4, <2>5, <3>1, <4>1 DEF Link, Once
    <3>3. CASE from \notin Reached(hosts)
      <4>1. Absent(chan'[<<s, from>>], bcak(w))
        BY <1>1, <1>3, <1>4, <1>6, <2>7, <3>3, HandledKeeps DEF Keeps
      <4>2. Lossy(from, s)'
        BY <1>3, <2>7, <3>3 DEF Lossy, Reached
      <4> QED
        BY <2>1, <2>4, <2>5, <3>1, <4>1, <4>2 DEF Link, Quiet
    <3> QED
      BY <3>2, <3>3
  <2> QED
    BY <2>6, <2>7
<1>11. ASSUME NEW c \in Host, Branch(w, s, c) PROVE Link(s, c, w)'
  <2>1. /\ <<s, c>> \in Edge /\ <<c, s>> \in Edge /\ c # s /\ c # from /\ c \in below
    <3>1. <<s, c>> \in Edge /\ <<c, s>> \in Edge /\ c # s /\ Up(w)[s] # c /\ c \in Links[s]
      BY <1>1, <1>11, ChildLink
    <3> QED
      BY <1>2, <1>7, <3>1
  <2>2. Link(s, c, w) /\ Quiet(s, c, w)
    BY <1>1, <1>7, <1>11 DEF Wave, Link, Pending, NoEntry
  <2>3. below # {} /\ hosts = below /\ m = bcst(w)
    BY <1>3, <2>1
  <2>4. Keeps(s, c, bcak(w))
    BY <1>3, <1>4, <2>1, <2>3, HandledKeeps
  <2>5. Keeps(c, s, bcst(w))
    BY <1>1, <1>3, <2>1, HandledKeeps
  <2>6. Keeps(c, s, bcak(w))
    BY <1>3, <1>4, <2>1, <2>3, HandledKeeps
  <2>7. OneWay(s, c, w)'
    BY <2>2, <2>4, <2>5 DEF Link, OneWay, Keeps
  <2>8. ~Behind(s, c, w)'
    BY <1>8, <2>1, <2>2 DEF Behind, Quiet
  <2>9. Absent(chan'[<<c, s>>], bcak(w))
    BY <2>2, <2>6 DEF Quiet, Keeps
  <2>10. Pending(s, c, w)'
    BY <1>9, <2>1, <2>3 DEF Pending
  <2>11. CASE c \in Reached(hosts)
    <3>1. Single(chan'[<<s, c>>], bcst(w))
      BY <1>3, <2>1, <2>2, <2>3, <2>11, HandledAdds DEF Quiet
    <3> QED
      BY <2>7, <2>8, <2>9, <2>10, <3>1 DEF Link, Once
  <2>12. CASE c \notin Reached(hosts)
    <3>1. Absent(chan'[<<s, c>>], bcst(w))
      <4>1. Keeps(s, c, bcst(w))
        BY <1>1, <1>3, <2>1, <2>12, HandledKeeps
      <4> QED
        BY <2>2, <4>1 DEF Quiet, Keeps
    <3>2. Lossy(s, c)'
      BY <1>4, <2>1, <2>3, <2>12 DEF Lossy, Reached
    <3> QED
      BY <2>7, <2>8, <2>9, <2>10, <3>1, <3>2 DEF Link, Quiet
  <2> QED
    BY <2>11, <2>12
<1>12. ASSUME NEW v \in Worker, NEW p \in Host, NEW c \in Host, Branch(v, p, c)
       PROVE  Link(p, c, v)'
  <2>1. CASE v = w /\ c = s
    BY <1>7, <1>10, <1>12, <2>1 DEF Branch
  <2>2. CASE v = w /\ p = s
    BY <1>11, <1>12, <2>2
  <2>3. Lossy(p, c) => Lossy(p, c)'
    BY <1>4 DEF Lossy
  <2>4. CASE v = w /\ p # s /\ c # s
    <3>1. /\ c \in Server => entry'[<<c, v>>] = entry[<<c, v>>]
          /\ p \in Server => entry'[<<p, v>>] = entry[<<p, v>>]
      BY <1>8, <2>4
    <3> QED
      BY <1>3, <1>4, <1>12, <2>3, <2>4, <3>1, LinkAside
  <2>5. CASE v # w
    <3>1. \A k \in {bcst(v), bcak(v)} : k # bcst(w) /\ k # m
      BY <1>4, <2>5, Messages
    <3>2. /\ c \in Server => entry'[<<c, v>>] = entry[<<c, v>>]
          /\ p \in Server => entry'[<<p, v>>] = entry[<<p, v>>]
      BY <1>8, <2>5
    <3> QED
      BY <1>3, <1>4, <1>12, <2>3, <3>1, <3>2, LinkAside
  <2> QED
    BY <2>1, <2>2, <2>4, <2>5
<1>13. ASSUME NEW v \in Worker, NEW t \in Server PROVE Remembered(t, v)'
  <2>1. CASE t = s /\ v = w
    BY <1>2, <1>7, <1>9, <2>1 DEF Remembered
  <2>2. CASE ~(t = s /\ v = w)
    BY <1>8, <2>2 DEF Wave, Remembered
  <2> QED
    BY <2>1, <2>2
<1> QED
  BY <1>12, <1>13 DEF Wave, Branch

(* proc-bcak: one answer less is owed, and with the last one the wave goes  *)
(* on from s.                                                               *)
LEMMA ProcBcakWave ==
  ASSUME TypeOK, Wave, NEW s \in Server, NEW from \in Links[s], NEW w \in Worker,
         ProcBcak(s, from, w)
  PROVE  Wave'
<1>1. /\ s \in Host /\ from \in Host /\ <<s, from>> \in Edge /\ <<from, s>> \in Edge
      /\ s # from
  BY LinkEdges, OneBranch
<1>2. PICK owing, back : owing = entry[<<s, w>>].owing /\ back = entry[<<s, w>>].back
  OBVIOUS
<1>3. PICK hosts, m, x :
        /\ Handles(from, s, bcak(w), hosts, m)
        /\ entry' = [entry EXCEPT ![<<s, w>>] = x]
        /\ owing = {from} => hosts = back /\ m = bcak(w) /\ x = NoEntry
        /\ owing # {from} =>
             hosts = {} /\ m = leav /\ x = [back |-> back, owing |-> owing \ {from}]
  <2>1. CASE owing = {from}
    <3>1. Handles(from, s, bcak(w), back, bcak(w))
          /\ entry' = [entry EXCEPT ![<<s, w>>] = NoEntry]
      BY <1>1, <1>2, <2>1, Messages DEF ProcBcak, Handles
    <3> QED
      BY <2>1, <3>1
  <2>2. CASE owing # {from}
    <3>1. PICK x : x = [entry[<<s, w>>] EXCEPT !.owing = owing \ {from}]
      OBVIOUS
    <3>2. entry[<<s, w>>] \in [back : SUBSET Host, owing : SUBSET Host]
      BY DEF TypeOK
    <3>3. x = [back |-> back, owing |-> owing \ {from}]
      BY <1>2, <3>1, <3>2
    <3>4. Handles(from, s, bcak(w), {}, leav)
      BY <1>1, <1>2, <2>2, Messages DEF ProcBcak, Handles
    <3>5. entry' = [entry EXCEPT ![<<s, w>>] = x]
      BY <1>2, <2>2, <3>1 DEF ProcBcak
    <3> QED
      BY <2>2, <3>3, <3>4, <3>5
  <2> QED
    BY <2>1, <2>2
<1>4. /\ valid' = valid /\ pc' = pc /\ m \in {bcak(w), leav}
      /\ bcst(w) # bcak(w) /\ bcst(w) # leav /\ bcak(w) # leav
  BY <1>3, Messages DEF ProcBcak
<1>5. ~Absent(chan[<<from, s>>], bcak(w))
  BY <1>1, <1>3, Present DEF Handles
<1>6. /\ Branch(w, s, from) /\ Pending(s, from, w) /\ ~Behind(s, from, w)
      /\ Single(chan[<<from, s>>], bcak(w)) /\ Absent(chan[<<s, from>>], bcst(w))
      /\ Link(s, from, w)
  BY <1>1, <1>5, BcakGoesUp
<1>7. /\ from \in owing /\ owing \subseteq Links[s] \ {Up(w)[s]}
      /\ back = {Up(w)[s]} /\ from # Up(w)[s]
  <2>1. from \in entry[<<s, w>>].owing
    BY <1>6 DEF Pending
  <2>2. entry[<<s, w>>] # NoEntry
    BY <2>1 DEF NoEntry
  <2>3. Remembered(s, w)
    BY DEF Wave
  <2> QED
    BY <1>2, <2>1, <2>2, <2>3 DEF Remembered
<1>8. ASSUME NEW t \in Server, NEW v \in Worker, ~(t = s /\ v = w)
      PROVE  entry'[<<t, v>>] = entry[<<t, v>>]
  BY <1>3, <1>8, EntryAside
<1>9. entry'[<<s, w>>] = IF owing = {from} THEN NoEntry
                         ELSE [back |-> back, owing |-> owing \ {from}]
  <2>1. entry'[<<s, w>>] = x
    BY <1>3 DEF TypeOK
  <2> QED
    BY <1>3, <2>1
<1>10. entry'[<<s, w>>].owing = owing \ {from}
  BY <1>9 DEF NoEntry
<1>11. \A y : y \in Reached(hosts) => y = Up(w)[s] /\ owing = {from}
  BY <1>3, <1>7 DEF Reached
<1>12. Link(s, from, w)'
  <2>1. Absent(chan'[<<from, s>>], bcak(w))
    BY <1>3, <1>6, HandledTakes
  <2>2. from \notin Reached(hosts)
    BY <1>7, <1>11
  <2>3. Keeps(s, from, bcst(w))
    BY <1>1, <1>3, <1>4, <2>2, HandledKeeps
  <2>4. Keeps(s, from, bcak(w))
    BY <1>1, <1>3, <1>4, <2>2, HandledKeeps
  <2>5. Keeps(from, s, bcst(w))
    BY <1>1, <1>3, <1>4, HandledKeeps
  <2>6. OneWay(s, from, w)'
    BY <1>6, <2>4, <2>5 DEF Link, OneWay, Keeps
  <2>7. ~Behind(s, from, w)'
    BY <1>1, <1>6, <1>8 DEF Behind
  <2>8. Quiet(s, from, w)'
    BY <1>6, <2>1, <2>3, <2>7 DEF Quiet, Keeps
  <2>9. ~Pending(s, from, w)'
    BY <1>10 DEF Pending
  <2> QED
    BY <2>6, <2>8, <2>9 DEF Link
<1>13. ASSUME NEW c \in Host, Branch(w, s, c), c # from PROVE Link(s, c, w)'
  <2>1. /\ <<s, c>> \in Edge /\ <<c, s>> \in Edge /\ c # s /\ c # Up(w)[s]
    BY <1>1, <1>13, ChildLink
  <2>2. c \notin Reached(hosts)
    BY <1>11, <2>1
  <2>3. ASSUME NEW k \in {bcst(w), bcak(w)} PROVE Keeps(s, c, k) /\ Keeps(c, s, k)
    <3>1. Keeps(s, c, k)
      BY <1>3, <2>1, <2>2, HandledKeeps
    <3>2. Keeps(c, s, k)
      BY <1>3, <1>13, <2>1, HandledKeeps
    <3> QED
      BY <3>1, <3>2
  <2>4. Behind(s, c, w)' <=> Behind(s, c, w)
    BY <1>8, <2>1 DEF Behind
  <2>5. Pending(s, c, w)' <=> Pending(s, c, w)
    BY <1>2, <1>10, <1>13 DEF Pending
  <2>6. Lossy(s, c)' <=> Lossy(s, c)
    BY <1>4 DEF Lossy
  <2>7. Link(s, c, w)
    BY <1>1, <1>13 DEF Wave
  <2> QED
    BY <2>3, <2>4, <2>5, <2>6, <2>7, LinkKept
<1>14. ASSUME NEW p \in Host, Branch(w, p, s) PROVE Link(p, s, w)'
  <2>1. /\ <<p, s>> \in Edge /\ <<s, p>> \in Edge /\ p # s /\ p = Up(w)[s] /\ p # from
    BY <1>1, <1>7, <1>14, BranchEnds
  <2>2. Link(p, s, w) /\ Behind(p, s, w)
    BY <1>1, <1>2, <1>7, <1>14, <2>1 DEF Wave, Behind
  <2>3. /\ Pending(p, s, w) /\ Absent(chan[<<p, s>>], bcst(w))
        /\ Absent(chan[<<s, p>>], bcak(w)) /\ OneWay(p, s, w)
    BY <2>2 DEF Link, Quiet, Once
  <2>4. Pending(p, s, w)'
    BY <1>4, <1>8, <2>1, <2>3 DEF Pending
  <2>5. Keeps(p, s, bcst(w))
    BY <1>3, <1>4, <2>1, HandledKeeps
  <2>6. Keeps(p, s, bcak(w))
    BY <1>3, <1>4, <2>1, HandledKeeps
  <2>7. Keeps(s, p, bcst(w))
    BY <1>3, <1>4, <2>1, HandledKeeps
  <2>8. OneWay(p, s, w)' /\ Absent(chan'[<<p, s>>], bcst(w))
    BY <2>3, <2>5, <2>6, <2>7 DEF OneWay, Keeps
  <2>9. CASE owing # {from}
    <3>1. Behind(p, s, w)'
      BY <1>7, <1>9, <2>1, <2>9 DEF Behind
    <3>2. Absent(chan'[<<s, p>>], bcak(w))
      <4>1. Keeps(s, p, bcak(w))
        BY <1>3, <1>4, <2>1, <2>9, HandledKeeps
      <4> QED
        BY <2>3, <4>1 DEF Keeps
    <3> QED
      BY <2>4, <2>8, <3>1, <3>2 DEF Link, Once
  <2>10. CASE owing = {from}
    <3>1. ~Behind(p, s, w)'
      BY <1>9, <2>10 DEF Behind, NoEntry
    <3>2. CASE p \in Reached(hosts)
      <4>1. Single(chan'[<<s, p>>], bcak(w))
        BY <1>3, <2>1, <2>3, <2>10, <3>2, HandledAdds
      <4> QED
        BY <2>4, <2>8, <3>1, <4>1 DEF Link, Once
    <3>3. CASE p \notin Reached(hosts)
      <4>1. Absent(chan'[<<s, p>>], bcak(w))
        <5>1. Keeps(s, p, bcak(w))
          BY <1>3, <2>1, <3>3, HandledKeeps
        <5> QED
          BY <2>3, <5>1 DEF Keeps
      <4>2. Lossy(p, s)'
        BY <1>3, <1>7, <2>1, <2>10, <3>3 DEF Lossy, Reached
      <4> QED
        BY <2>4, <2>8, <3>1, <4>1, <4>2 DEF Link, Quiet
    <3> QED
      BY <3>2, <3>3
  <2> QED
    BY <2>9, <2>10
<1>15. ASSUME NEW v \in Worker, NEW p \in Host, NEW c \in Host, Branch(v, p, c)
       PROVE  Link(p, c, v)'
  <2>1. CASE v = w /\ c = s
    BY <1>14, <1>15, <2>1
  <2>2. CASE v = w /\ p = s
    BY <1>12, <1>13, <1>15, <2>2
  <2>3. Lossy(p, c) => Lossy(p, c)'
    BY <1>4 DEF Lossy
  <2>4. CASE v = w /\ p # s /\ c # s
    <3>1. /\ c \in Server => entry'[<<c, v>>] = entry[<<c, v>>]
          /\ p \in Server => entry'[<<p, v>>] = entry[<<p, v>>]
      BY <1>8, <2>4
    <3> QED
      BY <1>3, <1>4, <1>15, <2>3, <2>4, <3>1, LinkAside
  <2>5. CASE v # w
    <3>1. \A k \in {bcst(v), bcak(v)} : k # bcak(w) /\ k # m
      BY <1>4, <2>5, Messages
    <3>2. /\ c \in Server => entry'[<<c, v>>] = entry[<<c, v>>]
          /\ p \in Server => entry'[<<p, v>>] = entry[<<p, v>>]
      BY <1>8, <2>5
    <3> QED
      BY <1>3, <1>4, <1>15, <2>3, <3>1, <3>2, LinkAside
  <2> QED
    BY <2>1, <2>2, <2>4, <2>5
<1>16. ASSUME NEW v \in Worker, NEW t \in Server PROVE Remembered(t, v)'
  <2>1. CASE t = s /\ v = w
    <3>1. owing # {from} => owing \ {from} # {}
      BY <1>7
    <3> QED
      BY <1>7, <1>9, <2>1, <3>1 DEF Remembered
  <2>2. CASE ~(t = s /\ v = w)
    BY <1>8, <2>2 DEF Wave, Remembered
  <2> QED
    BY <2>1, <2>2
<1> QED
  BY <1>15, <1>16 DEF Wave, Branch

(***************************************************************************)
(* The invariant, and what follows from it                                 *)
(***************************************************************************)
LEMMA InitWave == Init => TypeOK /\ Wave
<1> SUFFICES ASSUME Init PROVE TypeOK /\ Wave
  OBVIOUS
<1>1. TypeOK
  <2>1. [w \in Worker |-> MaxBcst] \in [Worker -> 0..MaxBcst]
    BY TopologyAssumption DEF TopologyAssumption
  <2>2. NoEntry \in [back : SUBSET Host, owing : SUBSET Host]
    BY DEF NoEntry
  <2>3. <<>> \in Seq(Msg)
    BY EmptySeq
  <2> QED
    BY <2>1, <2>2, <2>3 DEF Init, TypeOK
<1>2. ASSUME NEW w \in Worker, NEW p \in Host, NEW c \in Host, Branch(w, p, c)
      PROVE  Link(p, c, w)
  <2>1. <<p, c>> \in Edge /\ <<c, p>> \in Edge
    BY <1>2, EdgeEnds DEF Branch
  <2>2. chan[<<p, c>>] = <<>> /\ chan[<<c, p>>] = <<>>
    BY <2>1 DEF Init
  <2>3. \A m : Absent(chan[<<p, c>>], m) /\ Absent(chan[<<c, p>>], m)
    BY <2>2 DEF Absent
  <2>4. \A s \in Server : entry[<<s, w>>].back = {} /\ entry[<<s, w>>].owing = {}
    BY DEF Init, NoEntry
  <2>5. Quiet(p, c, w) /\ ~Pending(p, c, w)
    BY <2>3, <2>4 DEF Init, Quiet, Behind, Pending
  <2> QED
    BY <2>3, <2>5 DEF Link, OneWay
<1>3. \A w \in Worker, s \in Server : Remembered(s, w)
  BY DEF Init, Remembered
<1> QED
  BY <1>1, <1>2, <1>3 DEF Wave

LEMMA StepTypes ==
  ASSUME TypeOK, [Next]_vars
  PROVE  TypeOK'
<1> USE DEF TypeOK
<1>1. ASSUME NEW w \in Worker, SendBcst(w) PROVE TypeOK'
  <2>1. PICK n \in Node : n = HomeOf[w] /\ <<n, ServerOf(n)>> \in Edge /\ bcst(w) \in Msg
    BY HomeBranch, ServerOfNode, Messages
  <2>2. todo' \in [Worker -> 0..MaxBcst]
    BY <1>1, TopologyAssumption DEF TopologyAssumption, SendBcst
  <2>3. chan' \in [Edge -> Seq(Msg)]
    BY <1>1, <2>1, AppendProperties DEF SendBcst
  <2> QED
    BY <1>1, <2>2, <2>3 DEF SendBcst
<1>2. ASSUME NEW w \in Worker, StartWait(w) PROVE TypeOK'
  BY <1>2 DEF StartWait
<1>3. ASSUME NEW n \in Node, Leave(n) PROVE TypeOK'
  <2>1. <<n, ServerOf(n)>> \in Edge /\ leav \in Msg
    BY ServerOfNode, Messages
  <2>2. chan' \in [Edge -> Seq(Msg)]
    BY <1>3, <2>1, AppendProperties DEF Leave
  <2> QED
    BY <1>3, <2>2 DEF Leave
<1>4. ASSUME NEW n \in Node, NEW w \in Worker, RecvBcst(n, w) \/ RecvBcak(n, w)
      PROVE  TypeOK'
  <2>1. <<ServerOf(n), n>> \in Edge /\ ServerOf(n) # n
    BY ServerOfNode
  <2>2. \E g, hosts, m : Handles(ServerOf(n), n, g, hosts, m)
    BY <1>4, <2>1, Messages DEF RecvBcst, RecvBcak, Handles
  <2>3. chan' \in [Edge -> Seq(Msg)]
    BY <2>2, HandledTypes
  <2>4. CASE RecvBcst(n, w)
    BY <2>3, <2>4 DEF RecvBcst
  <2>5. CASE RecvBcak(n, w)
    BY <2>3, <2>5 DEF RecvBcak
  <2> QED
    BY <1>4, <2>4, <2>5
<1>5. ASSUME NEW s \in Server, NEW from \in Links[s], NEW w \in Worker,
             ProcBcst(s, from, w) \/ ProcBcak(s, from, w)
      PROVE  TypeOK'
  <2>1. from \in Host /\ <<from, s>> \in Edge /\ from # s
    BY LinkEdges, OneBranch
  <2>2. \E g, hosts, m : Handles(from, s, g, hosts, m)
    BY <1>5, <2>1, Messages DEF ProcBcst, ProcBcak, Handles
  <2>3. chan' \in [Edge -> Seq(Msg)]
    BY <2>2, HandledTypes
  <2>4. entry' \in [Server \X Worker -> [back : SUBSET Host, owing : SUBSET Host]]
    <3>1. NoEntry \in [back : SUBSET Host, owing : SUBSET Host]
      BY DEF NoEntry
    <3>2. Links[s] \subseteq Host
      BY TopologyAssumption DEF TopologyAssumption
    <3>3. CASE ProcBcst(s, from, w)
      <4>1. PICK x : x = [back |-> {from}, owing |-> Links[s] \ {from}]
        OBVIOUS
      <4>2. x \in [back : SUBSET Host, owing : SUBSET Host]
        BY <2>1, <3>2, <4>1
      <4>3. entry' = entry \/ entry' = [entry EXCEPT ![<<s, w>>] = x]
        BY <3>3, <4>1 DEF ProcBcst
      <4> QED
        BY <4>2, <4>3
    <3>4. CASE ProcBcak(s, from, w)
      <4>1. PICK x : x = entry[<<s, w>>]
        OBVIOUS
      <4>2. x \in [back : SUBSET Host, owing : SUBSET Host]
        BY <4>1
      <4>3. [x EXCEPT !.owing = x.owing \ {from}] \in [back : SUBSET Host, owing : SUBSET Host]
        BY <4>2
      <4>4. \/ entry' = [entry EXCEPT ![<<s, w>>] = NoEntry]
            \/ entry' = [entry EXCEPT ![<<s, w>>] = [x EXCEPT !.owing = x.owing \ {from}]]
        BY <3>4, <4>1 DEF ProcBcak
      <4> QED
        BY <3>1, <4>3, <4>4
    <3> QED
      BY <1>5, <3>3, <3>4
  <2> QED
    BY <1>5, <2>3, <2>4 DEF ProcBcst, ProcBcak
<1>6. ASSUME NEW s \in Server, NEW n \in Links[s] \cap Node, ProcLeav(s, n)
      PROVE  TypeOK'
  <2>1. <<n, s>> \in Edge /\ n # s
    BY LinkEdges, ServerOfNode
  <2>2. Handles(n, s, leav, {}, leav)
    BY <1>6, <2>1, Messages DEF ProcLeav, Handles
  <2>3. chan' \in [Edge -> Seq(Msg)]
    BY <2>2, HandledTypes
  <2> QED
    BY <1>6, <2>3 DEF ProcLeav
<1>7. CASE UNCHANGED vars
  BY <1>7 DEF vars
<1> HIDE DEF TypeOK
<1> QED
  BY <1>1, <1>2, <1>3, <1>4, <1>5, <1>6, <1>7 DEF Next, Progress, NodeStep, ServerStep

LEMMA StepWave ==
  ASSUME TypeOK, Wave, [Next]_vars
  PROVE  Wave'
<1>1. ASSUME UNCHANGED vars PROVE Wave'
  <2>1. chan' = chan /\ entry' = entry /\ valid' = valid /\ pc' = pc
    BY <1>1 DEF vars
  <2>2. ASSUME NEW v \in Worker, NEW p \in Host, NEW c \in Host, Branch(v, p, c)
        PROVE  Link(p, c, v)'
    <3>1. Link(p, c, v) /\ \A m \in {bcst(v), bcak(v)} : Keeps(p, c, m) /\ Keeps(c, p, m)
      BY <2>1, <2>2 DEF Wave, Keeps
    <3>2. /\ Behind(p, c, v)' <=> Behind(p, c, v)
          /\ Pending(p, c, v)' <=> Pending(p, c, v)
          /\ Lossy(p, c)' <=> Lossy(p, c)
      BY <2>1 DEF Behind, Pending, Lossy
    <3> QED
      BY <3>1, <3>2, LinkKept
  <2>3. ASSUME NEW v \in Worker, NEW t \in Server PROVE Remembered(t, v)'
    BY <2>1 DEF Wave, Remembered
  <2> QED
    BY <2>2, <2>3 DEF Wave, Branch
<1> QED
  BY <1>1, SendBcstWave, StartWaitWave, RecvBcstWave, RecvBcakWave, LeaveWave,
     ProcBcstWave, ProcBcakWave, ProcLeavWave
    DEF Next, Progress, NodeStep, ServerStep

(* Every variable keeps its type, and every broadcast is in one place at    *)
(* each link of the tree, if it is there at all.                            *)
THEOREM BroadcastInvariant == Spec => [](TypeOK /\ Wave)
<1>1. TypeOK /\ Wave /\ [Next]_vars => TypeOK' /\ Wave'
  BY StepTypes, StepWave
<1> QED
  BY <1>1, InitWave, PTL DEF Spec

LEMMA NoneInTransit ==
  ASSUME TypeOK, NEW a, NEW b, <<a, b>> \in Edge, NEW m
  PROVE  /\ Absent(chan[<<a, b>>], m) => InTransit(a, b, m) = 0
         /\ Single(chan[<<a, b>>], m) => InTransit(a, b, m) = 1
<1>1. PICK q : q = chan[<<a, b>>]
  OBVIOUS
<1>2. InTransit(a, b, m) = Cardinality({i \in DOMAIN q : q[i] = m})
  BY <1>1 DEF InTransit
<1>3. ASSUME Absent(q, m) PROVE Cardinality({i \in DOMAIN q : q[i] = m}) = 0
  <2>1. {i \in DOMAIN q : q[i] = m} = {}
    BY <1>3 DEF Absent
  <2> QED
    BY <2>1, FS_EmptySet
<1>4. ASSUME Single(q, m) PROVE Cardinality({i \in DOMAIN q : q[i] = m}) = 1
  <2>1. PICK i \in DOMAIN q : q[i] = m /\ \A k \in DOMAIN q : q[k] = m => k = i
    BY <1>4 DEF Single
  <2>2. {k \in DOMAIN q : q[k] = m} = {i}
    BY <2>1
  <2> QED
    BY <2>2, FS_Singleton
<1> QED
  BY <1>1, <1>2, <1>3, <1>4

LEMMA WaveCounts ==
  ASSUME TypeOK, Wave
  PROVE  AckAccounting
<1> SUFFICES ASSUME NEW s \in Server, NEW w \in Worker, NEW h \in Links[s]
             PROVE  /\ h \in entry[<<s, w>>].owing /\ (h \in Node => valid[h]) =>
                         InTransit(s, h, bcst(w))
                           + (IF h \in Server /\ entry[<<h, w>>].back = {s} THEN 1 ELSE 0)
                           + InTransit(h, s, bcak(w)) = 1
                    /\ InTransit(h, s, bcak(w)) > 0 => h \in entry[<<s, w>>].owing
                    /\ InTransit(h, s, bcst(w)) > 0 => entry[<<s, w>>] = NoEntry
  BY DEF AckAccounting
<1>1. /\ s \in Host /\ h \in Host /\ <<s, h>> \in Edge /\ <<h, s>> \in Edge /\ s # h
      /\ s \notin Node
  BY LinkEdges, OneBranch, ServerOfNode
<1>2. ASSUME h \in entry[<<s, w>>].owing, h \in Node => valid[h]
      PROVE  InTransit(s, h, bcst(w)) + (IF Behind(s, h, w) THEN 1 ELSE 0)
               + InTransit(h, s, bcak(w)) = 1
  <2>1. h # Up(w)[s]
    <3>1. Remembered(s, w) /\ entry[<<s, w>>] # NoEntry
      BY <1>2 DEF Wave, NoEntry
    <3> QED
      BY <1>2, <3>1 DEF Remembered
  <2>2. Branch(w, s, h)
    BY <1>1, <2>1, OneBranch DEF Branch
  <2>3. Link(s, h, w)
    BY <1>1, <2>2 DEF Wave
  <2>4. Once(s, h, w)
    BY <1>1, <1>2, <2>3 DEF Link, Pending, Lossy
  <2>5. /\ Absent(chan[<<s, h>>], bcst(w)) => InTransit(s, h, bcst(w)) = 0
        /\ Single(chan[<<s, h>>], bcst(w)) => InTransit(s, h, bcst(w)) = 1
        /\ Absent(chan[<<h, s>>], bcak(w)) => InTransit(h, s, bcak(w)) = 0
        /\ Single(chan[<<h, s>>], bcak(w)) => InTransit(h, s, bcak(w)) = 1
    BY <1>1, NoneInTransit
  <2> QED
    BY <2>4, <2>5 DEF Once
<1>3. ASSUME InTransit(h, s, bcak(w)) > 0 PROVE h \in entry[<<s, w>>].owing
  <2>1. ~Absent(chan[<<h, s>>], bcak(w))
    BY <1>1, <1>3, NoneInTransit
  <2>2. Pending(s, h, w)
    BY <1>1, <2>1, BcakGoesUp
  <2> QED
    BY <2>2 DEF Pending
<1>4. ASSUME InTransit(h, s, bcst(w)) > 0 PROVE entry[<<s, w>>] = NoEntry
  <2>1. ~Absent(chan[<<h, s>>], bcst(w))
    BY <1>1, <1>4, NoneInTransit
  <2>2. Branch(w, h, s) /\ ~Behind(h, s, w)
    BY <1>1, <2>1, BcstGoesDown
  <2> QED
    BY <2>2 DEF Wave, Remembered, Branch, Behind
<1> QED
  BY <1>2, <1>3, <1>4 DEF Behind

(* Whoever a server waits for owes it one bcak, and no bcst or bcak arrives *)
(* that the server does not expect, in any tree and while nodes leave.      *)
THEOREM BroadcastAckAccounting == Spec => []AckAccounting
<1>1. TypeOK /\ Wave => AckAccounting
  BY WaveCounts
<1> QED
  BY <1>1, BroadcastInvariant, PTL
(***************************************************************************)
(* Who has received the data                                               *)
(*                                                                         *)
(* A set of hosts is closed if it holds, with a host, those next to it on  *)
(* the far side of the worker's node.  Cover(w) is the largest closed set  *)
(* all of whose nodes have the data of w: c is in it if everyone at and    *)
(* behind c has it.  An answer from c says just that.                      *)
(***************************************************************************)
Closed(B, w) == \A x \in B, y \in Host : Branch(w, x, y) => y \in B

Cover(w) == UNION {B \in SUBSET Host : Closed(B, w) /\ B \cap Node \subseteq got[w]}

(* The answer of c is on its way to p, or p has it and waits for others. *)
Answered(p, c, w) ==
  \/ ~Absent(chan[<<c, p>>], bcak(w))
  \/ p \in Server /\ entry[<<p, w>>].owing # {} /\ c \notin entry[<<p, w>>].owing

Gathers(w) ==
  /\ got[w] \subseteq Node \ {HomeOf[w]}
  /\ \A p, c \in Host : Branch(w, p, c) /\ Answered(p, c, w) => c \in Cover(w)

Gathered == \A w \in Worker : Gathers(w)

LEMMA CoverClosed ==
  ASSUME NEW w \in Worker
  PROVE  Cover(w) \subseteq Host /\ Closed(Cover(w), w) /\ Cover(w) \cap Node \subseteq got[w]
  BY DEF Cover, Closed

LEMMA CoverHolds ==
  ASSUME NEW w \in Worker, NEW B \in SUBSET Host, Closed(B, w), B \cap Node \subseteq got[w]
  PROVE  B \subseteq Cover(w)
  BY DEF Cover

LEMMA CoverGrows ==
  ASSUME NEW w \in Worker, got[w] \subseteq got'[w]
  PROVE  Cover(w) \subseteq Cover(w)'
<1>1. \A B \in SUBSET Host : B \cap Node \subseteq got[w] => B \cap Node \subseteq got'[w]
  OBVIOUS
<1>2. Cover(w)' = UNION {B \in SUBSET Host : Closed(B, w) /\ B \cap Node \subseteq got'[w]}
  BY DEF Cover, Closed, Branch
<1> QED
  BY <1>1, <1>2 DEF Cover

(* Everyone is behind the worker's node. *)
LEMMA AllClosed ==
  ASSUME NEW w \in Worker, NEW B \in SUBSET Host, HomeOf[w] \in B, Closed(B, w)
  PROVE  B = Host
<1>1. ASSUME NEW h \in Host, Up(w)[h] \in B PROVE h \in B
  <2>1. CASE h = HomeOf[w]
    BY <2>1
  <2>2. CASE h # HomeOf[w]
    <3>1. <<h, Up(w)[h]>> \in Edge
      BY <2>2, UpTowards DEF Towards
    <3>2. Branch(w, Up(w)[h], h)
      BY <3>1, EdgeEnds DEF Branch
    <3> QED
      BY <1>1, <3>2 DEF Closed
  <2> QED
    BY <2>1, <2>2
<1> QED
  BY <1>1, UpTowards DEF Towards, Arrives

(* While the worker is not broadcasting, nothing of a broadcast is left. *)
LEMMA AllQuiet ==
  ASSUME TypeOK, Wave, NEW w \in Worker, pc[w] = "run"
  PROVE  /\ \A s \in Server : entry[<<s, w>>].owing = {}
         /\ \A p, c \in Host : Branch(w, p, c) => Quiet(p, c, w)
<1>1. PICK B \in SUBSET Host : B = {h \in Host : h \in Server => entry[<<h, w>>].owing = {}}
  OBVIOUS
<1>2. ASSUME NEW x \in B, NEW y \in Host, Branch(w, x, y)
      PROVE  Quiet(x, y, w) /\ y \in B
  <2>1. ~Pending(x, y, w)
    BY <1>1, <1>2 DEF Pending
  <2>2. Quiet(x, y, w)
    BY <1>2, <2>1 DEF Wave, Link
  <2>3. ASSUME y \in Server PROVE entry[<<y, w>>].owing = {}
    <3>1. Remembered(y, w) /\ Up(w)[y] = x /\ entry[<<y, w>>].back # {x}
      BY <1>2, <2>2, <2>3 DEF Wave, Quiet, Behind, Branch
    <3> QED
      BY <3>1 DEF Remembered, NoEntry
  <2> QED
    BY <1>1, <2>2, <2>3
<1>3. HomeOf[w] \in B
  BY <1>1, HomeBranch, ServerOfNode DEF Host
<1>4. B = Host
  BY <1>2, <1>3, AllClosed DEF Closed
<1> QED
  BY <1>1, <1>2, <1>4 DEF Host

LEMMA GathersOn ==
  ASSUME NEW w \in Worker, Gathers(w),
         got[w] \subseteq got'[w], got'[w] \subseteq Node \ {HomeOf[w]},
         \A p, c \in Host : Branch(w, p, c) /\ Answered(p, c, w)'
                            => Answered(p, c, w) \/ c \in Cover(w)'
  PROVE  Gathers(w)'
<1>1. Cover(w) \subseteq Cover(w)'
  BY CoverGrows
<1>2. ASSUME NEW p \in Host, NEW c \in Host, Branch(w, p, c), Answered(p, c, w)'
      PROVE  c \in Cover(w)'
  BY <1>1, <1>2 DEF Gathers
<1> QED
  BY <1>2 DEF Gathers, Branch

(* An answer that is there after a step was there before, or is being sent. *)
LEMMA NewAnswer ==
  ASSUME TypeOK, NEW a, NEW b, NEW g, NEW hosts, NEW m, Handles(a, b, g, hosts, m),
         NEW x, NEW y, <<x, y>> \in Edge, NEW k, ~Absent(chan'[<<x, y>>], k)
  PROVE  ~Absent(chan[<<x, y>>], k) \/ (k = m /\ x = b /\ y \in Reached(hosts))
<1> SUFFICES ASSUME ~(k = m /\ x = b /\ y \in Reached(hosts))
             PROVE  ~Absent(chan[<<x, y>>], k)
  OBVIOUS
<1>1. CASE k = g /\ x = a /\ y = b
  BY <1>1, Present DEF Handles
<1>2. CASE ~(k = g /\ x = a /\ y = b)
  <2>1. Keeps(x, y, k)
    BY <1>2, HandledKeeps
  <2> QED
    BY <2>1 DEF Keeps
<1> QED
  BY <1>1, <1>2

(* The data of a worker of whom no answer is sent. *)
LEMMA GathersAside ==
  ASSUME TypeOK, NEW a, NEW b, NEW g, NEW hosts, NEW m, Handles(a, b, g, hosts, m),
         NEW v \in Worker, Gathers(v), m # bcak(v), got'[v] = got[v],
         \A s \in Server : entry'[<<s, v>>] = entry[<<s, v>>]
  PROVE  Gathers(v)'
<1>1. ASSUME NEW p \in Host, NEW c \in Host, Branch(v, p, c), Answered(p, c, v)'
      PROVE  Answered(p, c, v)
  <2>1. <<c, p>> \in Edge
    BY <1>1, BranchEnds
  <2>2. ~Absent(chan'[<<c, p>>], bcak(v)) => ~Absent(chan[<<c, p>>], bcak(v))
    BY <2>1, NewAnswer
  <2> QED
    BY <1>1, <2>2 DEF Answered
<1>2. got[v] \subseteq got'[v] /\ got'[v] \subseteq Node \ {HomeOf[v]}
  BY DEF Gathers
<1> QED
  BY <1>1, <1>2, GathersOn

(* A message other than an answer of v is put into a channel. *)
LEMMA PutAside ==
  ASSUME TypeOK, NEW a, NEW b, <<a, b>> \in Edge, NEW m \in Msg, Put(a, b, m),
         NEW v \in Worker, Gathers(v), m # bcak(v), got'[v] = got[v], entry' = entry
  PROVE  Gathers(v)'
<1>1. ASSUME NEW p \in Host, NEW c \in Host, Branch(v, p, c), Answered(p, c, v)'
      PROVE  Answered(p, c, v)
  <2>1. <<c, p>> \in Edge
    BY <1>1, BranchEnds
  <2>2. Keeps(c, p, bcak(v))
    BY <2>1, SentKeeps
  <2> QED
    BY <1>1, <2>2 DEF Answered, Keeps
<1>2. got[v] \subseteq got'[v] /\ got'[v] \subseteq Node \ {HomeOf[v]}
  BY DEF Gathers
<1> QED
  BY <1>1, <1>2, GathersOn

LEMMA SendBcstGathers ==
  ASSUME TypeOK, Wave, Gathered, NEW w \in Worker, SendBcst(w)
  PROVE  Gathered'
<1>1. PICK n \in Node, s \in Server :
        n = HomeOf[w] /\ s = ServerOf(n) /\ <<n, s>> \in Edge
  BY HomeBranch, ServerOfNode
<1>2. PICK m \in Msg : m = bcst(w) /\ \A v \in Worker : m # bcak(v)
  BY Messages
<1>3. /\ Put(n, s, m)
      /\ entry' = entry /\ pc[w] = "run" /\ got' = [got EXCEPT ![w] = {}]
  BY <1>1, <1>2 DEF SendBcst, Put
<1>4. got'[w] = {} /\ \A v \in Worker : v # w => got'[v] = got[v]
  BY <1>3 DEF TypeOK
<1>5. ASSUME NEW v \in Worker, v # w PROVE Gathers(v)'
  <2>1. Gathers(v) /\ got'[v] = got[v] /\ m # bcak(v)
    BY <1>2, <1>4, <1>5 DEF Gathered
  <2> QED
    BY <1>1, <1>3, <2>1, PutAside
<1>6. Gathers(w)'
  <2>1. ASSUME NEW p \in Host, NEW c \in Host, Branch(w, p, c) PROVE ~Answered(p, c, w)'
    <3>1. <<c, p>> \in Edge /\ m # bcak(w)
      BY <1>2, <2>1, BranchEnds
    <3>2. Absent(chan[<<c, p>>], bcak(w)) /\ (p \in Server => entry[<<p, w>>].owing = {})
      BY <1>3, <2>1, AllQuiet DEF Quiet
    <3>3. Keeps(c, p, bcak(w))
      BY <1>1, <1>3, <3>1, SentKeeps
    <3> QED
      BY <1>3, <3>2, <3>3 DEF Answered, Keeps
  <2> QED
    BY <1>4, <2>1 DEF Gathers, Branch
<1> QED
  BY <1>5, <1>6 DEF Gathered

LEMMA RecvBcstGathers ==
  ASSUME TypeOK, Wave, Gathered, NEW n \in Node, NEW w \in Worker, RecvBcst(n, w)
  PROVE  Gathered'
<1>1. PICK s \in Server : s = ServerOf(n) /\ <<s, n>> \in Edge /\ <<n, s>> \in Edge
  BY ServerOfNode
<1>2. s # n /\ s \in Host /\ n \in Host /\ n \notin Server
  BY ServerOfNode DEF Host
<1>3. /\ Handles(s, n, bcst(w), {s}, bcak(w))
      /\ entry' = entry /\ got' = [got EXCEPT ![w] = got[w] \cup {n}]
  BY <1>1, <1>2, Messages DEF RecvBcst, Handles
<1>4. got'[w] = got[w] \cup {n} /\ \A v \in Worker : v # w => got'[v] = got[v]
  BY <1>3 DEF TypeOK
<1>5. Branch(w, s, n)
  <2>1. ~Absent(chan[<<s, n>>], bcst(w))
    BY <1>1, <1>3, Present DEF Handles
  <2> QED
    BY <1>1, <1>2, <2>1, BcstGoesDown
<1>6. ASSUME NEW v \in Worker, v # w PROVE Gathers(v)'
  <2>1. Gathers(v) /\ got'[v] = got[v] /\ bcak(w) # bcak(v)
    BY <1>4, <1>6, Messages DEF Gathered
  <2> QED
    BY <1>3, <2>1, GathersAside
<1>7. n # HomeOf[w] /\ Closed({n}, w)
  <2>1. Up(w)[n] = s
    BY <1>5 DEF Branch
  <2>2. n # HomeOf[w]
    BY <1>2, <2>1, UpTowards DEF Towards
  <2> QED
    BY <2>2, NodeBranch DEF Closed
<1>8. n \in Cover(w)'
  <2>1. {n} \cap Node \subseteq got'[w] /\ {n} \in SUBSET Host
    BY <1>2, <1>4
  <2>2. Closed({n}, w)'
    BY <1>7 DEF Closed, Branch
  <2> QED
    BY <2>1, <2>2, <1>7 DEF Cover, Closed, Branch
<1>9. Gathers(w)'
  <2>1. ASSUME NEW p \in Host, NEW c \in Host, Branch(w, p, c), Answered(p, c, w)'
        PROVE  Answered(p, c, w) \/ c \in Cover(w)'
    <3>1. <<c, p>> \in Edge
      BY <2>1, BranchEnds
    <3>2. ~Absent(chan'[<<c, p>>], bcak(w)) => ~Absent(chan[<<c, p>>], bcak(w)) \/ c = n
      BY <1>3, <3>1, NewAnswer
    <3> QED
      BY <1>3, <1>8, <2>1, <3>2 DEF Answered
  <2>2. Gathers(w) /\ got[w] \subseteq got'[w] /\ got'[w] \subseteq Node \ {HomeOf[w]}
    BY <1>4, <1>7 DEF Gathered, Gathers
  <2> QED
    BY <2>1, <2>2, GathersOn
<1> QED
  BY <1>6, <1>9 DEF Gathered

(* Those who are next to a server on the far side are among its links. *)
LEMMA ServerCover ==
  ASSUME NEW w \in Worker, NEW s \in Server, NEW C \in SUBSET Host,
         Closed(C, w), C \cap Node \subseteq got'[w],
         \A c \in Links[s] \ {Up(w)[s]} : c \in C
  PROVE  s \in Cover(w)'
<1>1. s \in Host /\ s \notin Node
  BY ServerOfNode DEF Host
<1>2. PICK B \in SUBSET Host : B = C \cup {s}
  BY <1>1
<1>3. Closed(B, w)
  <2>1. ASSUME NEW c \in Host, Branch(w, s, c) PROVE c \in C
    BY <1>1, <2>1, ChildLink
  <2> QED
    BY <1>2, <2>1 DEF Closed
<1>4. B \cap Node \subseteq got'[w]
  BY <1>1, <1>2
<1> QED
  BY <1>2, <1>3, <1>4 DEF Cover, Closed, Branch

LEMMA ProcBcstGathers ==
  ASSUME TypeOK, Wave, Gathered, NEW s \in Server, NEW from \in Links[s], NEW w \in Worker,
         ProcBcst(s, from, w)
  PROVE  Gathered'
<1>1. /\ s \in Host /\ from \in Host /\ <<s, from>> \in Edge /\ <<from, s>> \in Edge
      /\ s # from
  BY LinkEdges, OneBranch
<1>2. PICK below : below = Links[s] \ {from}
  OBVIOUS
<1>3. PICK hosts, m :
        /\ Handles(from, s, bcst(w), hosts, m)
        /\ m \in {bcst(w), bcak(w)}
        /\ below = {} => hosts = {from} /\ entry' = entry
        /\ below # {} =>
             /\ m = bcst(w)
             /\ entry' = [entry EXCEPT ![<<s, w>>] = [back |-> {from}, owing |-> below]]
  <2>1. CASE below = {}
    <3>1. Handles(from, s, bcst(w), {from}, bcak(w)) /\ entry' = entry
      BY <1>1, <1>2, <2>1, Messages DEF ProcBcst, Handles
    <3> QED
      BY <2>1, <3>1
  <2>2. CASE below # {}
    <3>1. /\ Handles(from, s, bcst(w), below, bcst(w))
          /\ entry' = [entry EXCEPT ![<<s, w>>] = [back |-> {from}, owing |-> below]]
      BY <1>1, <1>2, <2>2, Messages DEF ProcBcst, Handles
    <3> QED
      BY <2>2, <3>1
  <2> QED
    BY <2>1, <2>2
<1>4. got' = got
  BY DEF ProcBcst
<1>5. Up(w)[s] = from
  <2>1. ~Absent(chan[<<from, s>>], bcst(w))
    BY <1>1, <1>3, Present DEF Handles
  <2> QED
    BY <1>1, <2>1, BcstGoesDown DEF Branch
<1>6. ASSUME NEW t \in Server, NEW v \in Worker, ~(t = s /\ v = w)
      PROVE  entry'[<<t, v>>] = entry[<<t, v>>]
  BY <1>3, <1>6, EntryAside
<1>7. ASSUME NEW v \in Worker, v # w PROVE Gathers(v)'
  <2>1. Gathers(v) /\ got'[v] = got[v] /\ m # bcak(v)
    BY <1>3, <1>4, <1>7, Messages DEF Gathered
  <2>2. \A t \in Server : entry'[<<t, v>>] = entry[<<t, v>>]
    BY <1>6, <1>7
  <2> QED
    BY <1>3, <2>1, <2>2, GathersAside
<1>8. ASSUME NEW p \in Host, NEW c \in Host, Branch(w, p, c), Answered(p, c, w)'
      PROVE  Answered(p, c, w) \/ c \in Cover(w)'
  <2>1. <<c, p>> \in Edge
    BY <1>8, BranchEnds
  <2>2. ~Absent(chan'[<<c, p>>], bcak(w)) =>
          ~Absent(chan[<<c, p>>], bcak(w)) \/ (m = bcak(w) /\ c = s)
    BY <1>3, <2>1, NewAnswer
  <2>3. CASE below # {}
    <3>1. m # bcak(w)
      BY <1>3, <2>3, Messages
    <3>2. p = s => c \in entry'[<<s, w>>].owing
      <4>1. PICK e : e = [back |-> {from}, owing |-> below]
        OBVIOUS
      <4>2. entry' = [entry EXCEPT ![<<s, w>>] = e]
        BY <1>3, <2>3, <4>1
      <4>3. entry'[<<s, w>>] = e
        BY <4>2 DEF TypeOK
      <4>4. ASSUME p = s PROVE c \in below
        <5>1. Branch(w, s, c)
          BY <1>8, <4>4
        <5>2. c \in Links[s] /\ Up(w)[s] # c
          BY <1>1, <5>1, ChildLink
        <5> QED
          BY <1>2, <1>5, <5>2
      <4> QED
        BY <4>1, <4>3, <4>4
    <3>3. p \in Server /\ p # s => entry'[<<p, w>>] = entry[<<p, w>>]
      BY <1>6
    <3> QED
      BY <1>8, <2>2, <3>1, <3>2, <3>3 DEF Answered
  <2>4. CASE below = {}
    <3>1. entry' = entry
      BY <1>3, <2>4
    <3>2. s \in Cover(w)'
      <4>1. PICK C \in SUBSET Host : C = {}
        OBVIOUS
      <4>2. /\ Closed(C, w) /\ C \cap Node \subseteq got'[w]
            /\ \A d \in Links[s] \ {Up(w)[s]} : d \in C
        BY <1>2, <1>5, <2>4, <4>1 DEF Closed
      <4> QED
        BY <4>2, ServerCover
    <3> QED
      BY <1>8, <2>2, <3>1, <3>2 DEF Answered
  <2> QED
    BY <2>3, <2>4
<1>9. Gathers(w)'
  <2>1. Gathers(w) /\ got[w] \subseteq got'[w] /\ got'[w] \subseteq Node \ {HomeOf[w]}
    BY <1>4 DEF Gathered, Gathers
  <2> QED
    BY <1>8, <2>1, GathersOn
<1> QED
  BY <1>7, <1>9 DEF Gathered

(* With the last answer, everyone behind s has the data. *)
LEMMA ProcBcakGathers ==
  ASSUME TypeOK, Wave, Gathered, NEW s \in Server, NEW from \in Links[s], NEW w \in Worker,
         ProcBcak(s, from, w)
  PROVE  Gathered'
<1>1. /\ s \in Host /\ from \in Host /\ <<s, from>> \in Edge /\ <<from, s>> \in Edge
      /\ s # from
  BY LinkEdges, OneBranch
<1>2. PICK owing : owing = entry[<<s, w>>].owing
  OBVIOUS
<1>3. PICK hosts, m, x :
        /\ Handles(from, s, bcak(w), hosts, m)
        /\ m \in {bcak(w), leav}
        /\ entry' = [entry EXCEPT ![<<s, w>>] = x]
        /\ x.owing = owing \ {from}
        /\ owing # {from} => m = leav
  <2>1. CASE owing = {from}
    <3>1. Handles(from, s, bcak(w), entry[<<s, w>>].back, bcak(w))
          /\ entry' = [entry EXCEPT ![<<s, w>>] = NoEntry]
      BY <1>1, <1>2, <2>1, Messages DEF ProcBcak, Handles
    <3>2. NoEntry.owing = owing \ {from}
      BY <2>1 DEF NoEntry
    <3> QED
      BY <2>1, <3>1, <3>2
  <2>2. CASE owing # {from}
    <3>1. PICK x : x = [entry[<<s, w>>] EXCEPT !.owing = owing \ {from}]
      OBVIOUS
    <3>2. entry[<<s, w>>] \in [back : SUBSET Host, owing : SUBSET Host]
      BY DEF TypeOK
    <3>3. x.owing = owing \ {from}
      BY <1>2, <3>1, <3>2
    <3>4. Handles(from, s, bcak(w), {}, leav)
      BY <1>1, <1>2, <2>2, Messages DEF ProcBcak, Handles
    <3>5. entry' = [entry EXCEPT ![<<s, w>>] = x]
      BY <1>2, <2>2, <3>1 DEF ProcBcak
    <3> QED
      BY <2>2, <3>3, <3>4, <3>5
  <2> QED
    BY <2>1, <2>2
<1>4. got' = got
  BY DEF ProcBcak
<1>5. ~Absent(chan[<<from, s>>], bcak(w))
  BY <1>1, <1>3, Present DEF Handles
<1>6. Branch(w, s, from) /\ from \in owing /\ owing \subseteq Links[s]
  <2>1. Branch(w, s, from) /\ from \in entry[<<s, w>>].owing
    BY <1>1, <1>5, BcakGoesUp DEF Pending
  <2>2. Remembered(s, w) /\ entry[<<s, w>>] # NoEntry
    BY <2>1 DEF Wave, NoEntry
  <2> QED
    BY <1>2, <2>1, <2>2 DEF Remembered
<1>7. ASSUME NEW t \in Server, NEW v \in Worker
      PROVE  /\ t = s /\ v = w => entry'[<<t, v>>].owing = owing \ {from}
             /\ ~(t = s /\ v = w) => entry'[<<t, v>>] = entry[<<t, v>>]
  <2>1. entry' = [entry EXCEPT ![<<s, w>>] = x]
    BY <1>3
  <2>2. /\ t = s /\ v = w => entry'[<<t, v>>] = x
        /\ ~(t = s /\ v = w) => entry'[<<t, v>>] = entry[<<t, v>>]
    BY <2>1 DEF TypeOK
  <2> QED
    BY <1>3, <2>2
<1>8. ASSUME NEW v \in Worker, v # w PROVE Gathers(v)'
  <2>1. Gathers(v) /\ got'[v] = got[v] /\ m # bcak(v)
    BY <1>3, <1>4, <1>8, Messages DEF Gathered
  <2>2. \A t \in Server : entry'[<<t, v>>] = entry[<<t, v>>]
    BY <1>7, <1>8
  <2> QED
    BY <1>3, <2>1, <2>2, GathersAside
<1>9. from \in Cover(w) /\ \A c \in Links[s] \ {Up(w)[s]} : c \notin owing => c \in Cover(w)
  <2>1. from \in Cover(w)
    BY <1>1, <1>5, <1>6 DEF Answered, Gathered, Gathers
  <2>2. ASSUME NEW c \in Links[s] \ {Up(w)[s]}, c \notin owing PROVE c \in Cover(w)
    <3>1. c \in Host /\ <<s, c>> \in Edge /\ Up(w)[s] # c
      BY <2>2, LinkEdges
    <3>2. Branch(w, s, c)
      BY <3>1, OneBranch DEF Branch
    <3>3. Answered(s, c, w)
      BY <1>2, <1>6, <2>2 DEF Answered
    <3> QED
      BY <1>1, <3>1, <3>2, <3>3 DEF Gathered, Gathers
  <2> QED
    BY <2>1, <2>2
<1>10. Cover(w) \subseteq Cover(w)'
  BY <1>4, CoverGrows
<1>11. ASSUME NEW p \in Host, NEW c \in Host, Branch(w, p, c), Answered(p, c, w)'
       PROVE  Answered(p, c, w) \/ c \in Cover(w)'
  <2>1. <<c, p>> \in Edge
    BY <1>11, BranchEnds
  <2>2. ~Absent(chan'[<<c, p>>], bcak(w)) =>
          ~Absent(chan[<<c, p>>], bcak(w)) \/ (m = bcak(w) /\ c = s)
    BY <1>3, <2>1, NewAnswer
  <2>3. CASE m = bcak(w) /\ c = s
    <3>1. owing = {from}
      BY <1>3, <2>3, Messages
    <3>2. \A d \in Links[s] \ {Up(w)[s]} : d \in Cover(w)
      BY <1>9, <3>1
    <3>3. /\ Cover(w) \in SUBSET Host /\ Closed(Cover(w), w)
          /\ Cover(w) \cap Node \subseteq got'[w]
      BY <1>4, CoverClosed
    <3>4. s \in Cover(w)'
      BY <3>2, <3>3, ServerCover
    <3> QED
      BY <2>3, <3>4
  <2>4. CASE ~Absent(chan[<<c, p>>], bcak(w))
    BY <2>4 DEF Answered
  <2>5. CASE Absent(chan'[<<c, p>>], bcak(w)) /\ p = s
    <3>1. c \notin owing \/ c = from
      BY <1>7, <1>11, <2>5 DEF Answered
    <3>2. c \in Links[s] \ {Up(w)[s]}
      BY <1>1, <1>11, <2>5, ChildLink
    <3> QED
      BY <1>9, <1>10, <3>1, <3>2
  <2>6. CASE Absent(chan'[<<c, p>>], bcak(w)) /\ p # s
    BY <1>7, <1>11, <2>6 DEF Answered
  <2> QED
    BY <2>2, <2>3, <2>4, <2>5, <2>6
<1>12. Gathers(w)'
  <2>1. Gathers(w) /\ got[w] \subseteq got'[w] /\ got'[w] \subseteq Node \ {HomeOf[w]}
    BY <1>4 DEF Gathered, Gathers
  <2> QED
    BY <1>11, <2>1, GathersOn
<1> QED
  BY <1>8, <1>12 DEF Gathered

LEMMA StepGathers ==
  ASSUME TypeOK, Wave, Gathered, [Next]_vars
  PROVE  Gathered'
<1>1. ASSUME chan' = chan, entry' = entry, got' = got PROVE Gathered'
  BY <1>1 DEF Gathered, Gathers, Answered, Absent, Cover, Closed, Branch
<1>2. ASSUME NEW w \in Worker, StartWait(w) PROVE Gathered'
  BY <1>1, <1>2 DEF StartWait
<1>3. ASSUME NEW n \in Node, Leave(n) PROVE Gathered'
  <2>1. PICK m \in Msg : m = leav /\ \A v \in Worker : m # bcak(v)
    BY Messages
  <2>2. /\ Put(n, ServerOf(n), m) /\ <<n, ServerOf(n)>> \in Edge
        /\ entry' = entry /\ got' = got
    BY <1>3, <2>1, ServerOfNode DEF Leave, Put
  <2>3. ASSUME NEW v \in Worker PROVE Gathers(v)'
    <3>1. Gathers(v) /\ got'[v] = got[v] /\ m # bcak(v)
      BY <2>1, <2>2 DEF Gathered
    <3> QED
      BY <2>2, <3>1, PutAside
  <2> QED
    BY <2>3 DEF Gathered
<1>4. ASSUME NEW a, NEW b, NEW g, Handles(a, b, g, {}, leav), entry' = entry, got' = got
      PROVE  Gathered'
  <2>1. ASSUME NEW v \in Worker PROVE Gathers(v)'
    <3>1. Gathers(v) /\ got'[v] = got[v] /\ leav # bcak(v)
          /\ \A t \in Server : entry'[<<t, v>>] = entry[<<t, v>>]
      BY <1>4, Messages DEF Gathered
    <3> QED
      BY <1>4, <3>1, GathersAside
  <2> QED
    BY <2>1 DEF Gathered
<1>5. ASSUME NEW n \in Node, NEW w \in Worker, RecvBcak(n, w) PROVE Gathered'
  <2>1. Handles(ServerOf(n), n, bcak(w), {}, leav) /\ entry' = entry /\ got' = got
    BY <1>5, ServerOfNode, Messages DEF RecvBcak, Handles
  <2> QED
    BY <1>4, <2>1
<1>6. ASSUME NEW s \in Server, NEW n \in Links[s] \cap Node, ProcLeav(s, n) PROVE Gathered'
  <2>1. <<n, s>> \in Edge /\ n # s
    BY LinkEdges, ServerOfNode
  <2>2. Handles(n, s, leav, {}, leav) /\ entry' = entry /\ got' = got
    BY <1>6, <2>1, Messages DEF ProcLeav, Handles
  <2> QED
    BY <1>4, <2>2
<1>7. ASSUME UNCHANGED vars PROVE Gathered'
  BY <1>1, <1>7 DEF vars
<1> QED
  BY <1>2, <1>3, <1>5, <1>6, <1>7, SendBcstGathers, RecvBcstGathers,
     ProcBcstGathers, ProcBcakGathers
    DEF Next, Progress, NodeStep, ServerStep

LEMMA InitGathers == Init => Gathered
<1> SUFFICES ASSUME Init, NEW w \in Worker PROVE Gathers(w)
  BY DEF Gathered
<1>1. ASSUME NEW p \in Host, NEW c \in Host, Branch(w, p, c) PROVE ~Answered(p, c, w)
  <2>1. <<c, p>> \in Edge
    BY <1>1, BranchEnds
  <2>2. chan[<<c, p>>] = <<>> /\ (p \in Server => entry[<<p, w>>].owing = {})
    BY <2>1 DEF Init, NoEntry
  <2> QED
    BY <2>2 DEF Answered, Absent
<1> QED
  BY <1>1 DEF Gathers, Init

(* The step with which broadcast-task returns *)
LEMMA ReturnStep ==
  ASSUME TypeOK, Wave, Gathered, [Next]_vars, NEW w \in Worker,
         pc[w] # "run", pc'[w] = "run"
  PROVE  got[w] = Node \ {HomeOf[w]}
<1>1. PICK n \in Node : RecvBcak(n, w)
  <2>1. \A v \in Worker : SendBcst(v) => pc'[w] = IF v = w THEN "sent" ELSE pc[w]
    BY DEF SendBcst, TypeOK
  <2>2. \A v \in Worker : StartWait(v) => pc'[w] = IF v = w THEN "wait" ELSE pc[w]
    BY DEF StartWait, TypeOK
  <2>3. \A n \in Node, v \in Worker : RecvBcak(n, v) /\ v # w => pc'[w] = pc[w]
    BY DEF RecvBcak, TypeOK
  <2>4. /\ \A n \in Node, v \in Worker : RecvBcst(n, v) => pc' = pc
        /\ \A n \in Node : Leave(n) => pc' = pc
        /\ \A s \in Server, from \in Host, v \in Worker :
             ProcBcst(s, from, v) \/ ProcBcak(s, from, v) => pc' = pc
        /\ \A s \in Server, n \in Node : ProcLeav(s, n) => pc' = pc
        /\ UNCHANGED vars => pc' = pc
    BY DEF RecvBcst, Leave, ProcBcst, ProcBcak, ProcLeav, vars
  <2> QED
    BY <2>1, <2>2, <2>3, <2>4, LinkEdges DEF Next, Progress, NodeStep, ServerStep
<1>2. PICK s \in Server : s = ServerOf(n) /\ <<s, n>> \in Edge
  BY ServerOfNode
<1>3. n \in Host /\ s \in Host
  BY DEF Host
<1>4. ~Absent(chan[<<s, n>>], bcak(w))
  BY <1>1, <1>2, Present DEF RecvBcak
<1>5. Branch(w, n, s) /\ n = HomeOf[w]
  BY <1>2, <1>3, <1>4, BcakGoesUp, NodeBranch
<1>6. s \in Cover(w)
  BY <1>3, <1>4, <1>5 DEF Gathered, Gathers, Answered
<1>7. PICK B \in SUBSET Host : B = Cover(w) \cup {n}
  BY <1>3, CoverClosed
<1>8. Closed(B, w)
  <2>1. \A y \in Host : Branch(w, n, y) => y = s
    BY <1>2, NodeBranch
  <2> QED
    BY <1>6, <1>7, <2>1, CoverClosed DEF Closed
<1>9. B = Host
  BY <1>5, <1>7, <1>8, AllClosed
<1>10. Node \ {n} \subseteq got[w]
  BY <1>7, <1>9, CoverClosed DEF Host
<1> QED
  BY <1>5, <1>10 DEF Gathered, Gathers

(* broadcast-task returns only after every other node has received the data, *)
(* in any tree of servers, with any number of workers that broadcast at the  *)
(* same time and while nodes leave.                                          *)
THEOREM BroadcastReturns == Spec => ReturnMeansAll
<1>1. TypeOK /\ Wave /\ Gathered /\ [Next]_vars => Gathered'
  BY StepGathers
<1>2. TypeOK /\ Wave /\ Gathered /\ [Next]_vars =>
        [\A w \in Worker : pc[w] # "run" /\ pc'[w] = "run" => got[w] = Node \ {HomeOf[w]}]_vars
  BY ReturnStep
<1> QED
  BY <1>1, <1>2, InitGathers, BroadcastInvariant, PTL DEF Spec, ReturnMeansAll

=============================================================================
