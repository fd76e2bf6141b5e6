-------------------------- MODULE TascellBroadcast --------------------------
(***************************************************************************)
(* Broadcasts: a worker sends bcst to all other nodes over a tree of       *)
(* servers (server.lsp, proc-bcst and proc-bcak), every node that received *)
(* the data answers bcak, a server answers when all the hosts it forwarded *)
(* to have answered, and the worker waits for the bcak (worker.sc,         *)
(* broadcast-task and recv-bcak).  The topmost server has a terminal as    *)
(* its parent, to which no bcst is forwarded; the others are its children. *)
(***************************************************************************)
EXTENDS Integers, SequencesExt

CONSTANTS
  Node,      \* computation nodes
  Server,    \* Tascell servers
  Links,     \* [Server -> SUBSET (Node \cup Server)]: parent and children
  Worker,    \* workers that broadcast
  HomeOf,    \* [Worker -> Node]
  Leaver,    \* nodes that may drop out
  MaxBcst    \* bound: broadcasts that each worker makes

Host == Node \cup Server

ASSUME TopologyAssumption ==
  /\ Node \cap Server = {}
  /\ Links \in [Server -> SUBSET Host]
  /\ \A s, t \in Server : s \in Links[t] <=> t \in Links[s]
  /\ \A n \in Node : \E s \in Server : {t \in Server : n \in Links[t]} = {s}
  /\ HomeOf \in [Worker -> Node]
  /\ Leaver \subseteq Node
  /\ MaxBcst \in Nat

ServerOf(n) == CHOOSE s \in Server : n \in Links[s]
Edge == {e \in Host \X Host : (e[1] \in Server /\ e[2] \in Links[e[1]])
                              \/ (e[2] \in Server /\ e[1] \in Links[e[2]])}

(* Following p, one arrives at n, from wherever one starts. *)
Arrives(p, n) ==
  \A B \in SUBSET Host : n \in B /\ (\A h \in Host : p[h] \in B => h \in B) => B = Host

(* p leads from every other host, over one of its links, towards the node n. *)
Towards(p, n) ==
  /\ p[n] = n
  /\ \A h \in Host \ {n} : <<h, p[h]>> \in Edge
  /\ \A e \in Edge : p[e[1]] = e[2] <=> p[e[2]] # e[1]
  /\ Arrives(p, n)

(* The servers form a tree: each connects to one parent. *)
ASSUME TreeAssumption ==
  \A w \in Worker : \E p \in [Host -> Host] : Towards(p, HomeOf[w])

VARIABLES
  todo,    \* broadcasts that each worker has still to make
  pc,      \* each broadcasting worker: "run", "sent" (bcst is out), "wait"
  wbcak,   \* thr->w-bcak
  chan,    \* messages on their way, per directed link, in order
  entry,   \* ts-bcst-recipients: where the bcak goes, and who still owes one
  valid,   \* child-valid, of the nodes
  up,      \* the node has not closed its connection
  got      \* observer: the nodes that received the current data of a worker

vars == <<todo, pc, wbcak, chan, entry, valid, up, got>>

Msg == [kind : {"bcst", "bcak"}, by : Worker] \cup [kind : {"leav"}]
NoEntry == [back |-> {}, owing |-> {}]

TypeOK ==
  /\ todo \in [Worker -> 0..MaxBcst]
  /\ pc \in [Worker -> {"run", "sent", "wait"}]
  /\ wbcak \in [Worker -> {0, 1}]
  /\ chan \in [Edge -> Seq(Msg)]
  /\ entry \in [Server \X Worker -> [back : SUBSET Host, owing : SUBSET Host]]
  /\ valid \in [Node -> BOOLEAN]
  /\ up \in [Node -> BOOLEAN]
  /\ got \in [Worker -> SUBSET Node]

Init ==
  /\ todo = [w \in Worker |-> MaxBcst]
  /\ pc = [w \in Worker |-> "run"]
  /\ wbcak = [w \in Worker |-> 0]
  /\ chan = [e \in Edge |-> <<>>]
  /\ entry = [p \in Server \X Worker |-> NoEntry]
  /\ valid = [n \in Node |-> TRUE]
  /\ up = [n \in Node |-> TRUE]
  /\ got = [w \in Worker |-> {}]

-----------------------------------------------------------------------------
(* The message next to be handled by b among those from a is m. *)
Receives(a, b, m) == chan[<<a, b>>] # <<>> /\ Head(chan[<<a, b>>]) = m

(* send, with its :around method: what goes to an invalid child is dropped *)
Reached(hosts) == {h \in hosts : h \in Node => valid[h]}

(* b has handled the message from a and sends m to the given hosts *)
HandleAndSend(a, b, hosts, m) ==
  chan' = [e \in Edge |->
     IF e = <<a, b>> THEN Tail(chan[e])
     ELSE IF e[1] = b /\ e[2] \in Reached(hosts) THEN Append(chan[e], m) ELSE chan[e]]

bcst(w) == [kind |-> "bcst", by |-> w]
bcak(w) == [kind |-> "bcak", by |-> w]
leav == [kind |-> "leav"]

-----------------------------------------------------------------------------
(* The worker *)

(* broadcast-task: send bcst outside *)
SendBcst(w) ==
  LET n == HomeOf[w]
  IN  /\ pc[w] = "run" /\ up[n]
      /\ todo[w] > 0
      /\ todo' = [todo EXCEPT ![w] = @ - 1]
      /\ chan' = [chan EXCEPT ![<<n, ServerOf(n)>>] = Append(@, bcst(w))]
      /\ pc' = [pc EXCEPT ![w] = "sent"]
      /\ got' = [got EXCEPT ![w] = {}]
      /\ UNCHANGED <<wbcak, entry, valid, up>>

(* ... then, in a critical section on thr->mut, set w-bcak and wait for it *)
(* to be reset                                                             *)
StartWait(w) ==
  /\ pc[w] = "sent" /\ up[HomeOf[w]]
  /\ wbcak' = [wbcak EXCEPT ![w] = 1]
  /\ pc' = [pc EXCEPT ![w] = "wait"]
  /\ UNCHANGED <<todo, chan, entry, valid, up, got>>

-----------------------------------------------------------------------------
(* The node: its main thread handles the messages from the server *)

(* Mutant: the data is not acknowledged. *)
RecvBcstSilent(n, w) ==
  LET s == ServerOf(n)
  IN  /\ up[n] /\ Receives(s, n, bcst(w))
      /\ got' = [got EXCEPT ![w] = @ \cup {n}]
      /\ HandleAndSend(s, n, {}, bcak(w))
      /\ UNCHANGED <<todo, pc, wbcak, entry, valid, up>>

(* recv-bcst *)
RecvBcst(n, w) ==
  LET s == ServerOf(n)
  IN  /\ up[n] /\ Receives(s, n, bcst(w))
      /\ got' = [got EXCEPT ![w] = @ \cup {n}]
      /\ HandleAndSend(s, n, {s}, bcak(w))
      /\ UNCHANGED <<todo, pc, wbcak, entry, valid, up>>

(* recv-bcak: reset w-bcak and wake the worker, whose loop ends *)
RecvBcak(n, w) ==
  LET s == ServerOf(n)
  IN  /\ up[n] /\ Receives(s, n, bcak(w))
      /\ wbcak' = [wbcak EXCEPT ![w] = 0]
      /\ pc' = [pc EXCEPT ![w] = IF @ = "wait" THEN "run" ELSE @]
      /\ HandleAndSend(s, n, {}, leav)
      /\ UNCHANGED <<todo, entry, valid, up, got>>

(* the connection is closed: the server's reader turns the end of file into leav *)
Leave(n) ==
  /\ n \in Leaver /\ up[n]
  /\ up' = [up EXCEPT ![n] = FALSE]
  /\ chan' = [chan EXCEPT ![<<n, ServerOf(n)>>] = Append(@, leav)]
  /\ UNCHANGED <<todo, pc, wbcak, entry, valid, got>>

-----------------------------------------------------------------------------
(* The server *)

(* proc-bcst *)
ProcBcst(s, from, w) ==
  LET recipients == Links[s] \ {from}
  IN  /\ Receives(from, s, bcst(w))
      /\ IF recipients = {}
         THEN /\ HandleAndSend(from, s, {from}, bcak(w))
              /\ UNCHANGED entry
         ELSE /\ HandleAndSend(from, s, recipients, bcst(w))
              /\ entry' = [entry EXCEPT ![<<s, w>>] = [back |-> {from}, owing |-> recipients]]
      /\ UNCHANGED <<todo, pc, wbcak, valid, up, got>>

(* Mutant: the first bcak is passed on. *)
ProcFirstBcak(s, from, w) ==
  LET e == entry[<<s, w>>]
  IN  /\ Receives(from, s, bcak(w))
      /\ HandleAndSend(from, s, e.back, bcak(w))
      /\ entry' = [entry EXCEPT ![<<s, w>>] = NoEntry]
      /\ UNCHANGED <<todo, pc, wbcak, valid, up, got>>

(* proc-bcak *)
ProcBcak(s, from, w) ==
  LET e == entry[<<s, w>>]
  IN  /\ Receives(from, s, bcak(w))
      /\ IF e.owing = {from}
         THEN /\ HandleAndSend(from, s, e.back, bcak(w))
              /\ entry' = [entry EXCEPT ![<<s, w>>] = NoEntry]
         ELSE /\ HandleAndSend(from, s, {}, leav)
              /\ entry' = [entry EXCEPT ![<<s, w>>].owing = @ \ {from}]
      /\ UNCHANGED <<todo, pc, wbcak, valid, up, got>>

(* proc-leav: invalidate-child *)
ProcLeav(s, n) ==
  /\ Receives(n, s, leav)
  /\ valid' = [valid EXCEPT ![n] = FALSE]
  /\ HandleAndSend(n, s, {}, leav)
  /\ UNCHANGED <<todo, pc, wbcak, entry, up, got>>
-----------------------------------------------------------------------------
NodeStep(n) == \E w \in Worker : RecvBcst(n, w) \/ RecvBcak(n, w)
ServerStep(s) ==
  \/ \E from \in Links[s], w \in Worker : ProcBcst(s, from, w) \/ ProcBcak(s, from, w)
  \/ \E n \in Links[s] \cap Node : ProcLeav(s, n)

(* What goes on by itself: threads are scheduled, messages are delivered. *)
Progress ==
  \/ \E w \in Worker : StartWait(w)
  \/ \E n \in Node : NodeStep(n)
  \/ \E s \in Server : ServerStep(s)

Next ==
  \/ Progress
  \/ \E w \in Worker : SendBcst(w)
  \/ \E n \in Node : Leave(n)

Spec == Init /\ [][Next]_vars

(* Progress cannot go on for ever without a new broadcast, so this is all    *)
(* the fairness needed: every thread and every server goes on some time.     *)
FairSpec == Spec /\ WF_vars(Progress)
-----------------------------------------------------------------------------
(* Properties *)

InTransit(a, b, m) == Cardinality({i \in DOMAIN chan[<<a, b>>] : chan[<<a, b>>][i] = m})

(* Whoever a server waits for owes it exactly one bcak, unless it has left:  *)
(* the bcst has not reached it, or it waits itself for those behind it, or   *)
(* its bcak has not arrived.  None of the warnings of proc-bcst and proc-bcak *)
(* ("received the same broadcast twice", "No bcst ... is remembered") is ever *)
(* given.                                                                     *)
AckAccounting ==
  \A s \in Server, w \in Worker : \A h \in Links[s] :
    LET behind == IF h \in Server /\ entry[<<h, w>>].back = {s} THEN 1 ELSE 0
    IN  /\ h \in entry[<<s, w>>].owing /\ (h \in Node => valid[h]) =>
             InTransit(s, h, bcst(w)) + behind + InTransit(h, s, bcak(w)) = 1
        /\ InTransit(h, s, bcak(w)) > 0 => h \in entry[<<s, w>>].owing
        /\ InTransit(h, s, bcst(w)) > 0 => entry[<<s, w>>] = NoEntry

(* broadcast-task returns only after every other node has received the data. *)
ReturnMeansAll ==
  [][\A w \in Worker : pc[w] # "run" /\ pc'[w] = "run" => got[w] = Node \ {HomeOf[w]}]_vars

(* While no node leaves, every server gets all the answers it waits for. *)
Converges ==
  \A s \in Server, w \in Worker :
    entry[<<s, w>>] # NoEntry ~> entry[<<s, w>>] = NoEntry \/ \E n \in Node : ~up[n]

(* broadcast-task, l.1461: "Increase w-bcak counter and waiting until a bcak *)
(* message is returned and the counter is drecreased" -- the wait is over    *)
(* once the bcak has come.                                                   *)
WaitEnds == \A w \in Worker : pc[w] = "wait" ~> pc[w] = "run"
=============================================================================
