--------------------------- MODULE TascellAddress ---------------------------
(***************************************************************************)
(* Addresses between nodes.  A request names its sender relative to the     *)
(* host that reads it: on the sender's own node <worker>, or <worker,       *)
(* subtask id> if it is a stealing back, and one element more for every     *)
(* server it has passed (server.lsp, head-push).                            *)
(* A reply is sent to that address: every server takes off the first        *)
(* element and passes the rest to the host it names (head-shift).  A node   *)
(* tells requesters apart by address-equal (cmd-serial.sc).                 *)
(* Two requests travel here, each from any worker to any node and back.     *)
(***************************************************************************)
EXTENDS Integers, SequencesExt

CONSTANTS
  Node,       \* computation nodes
  Server,     \* Tascell servers
  Parent,     \* [Node \cup Server -> Server \cup {Terminal}]
  Terminal,   \* parent of the topmost server, takes no part here
  ChildId,    \* [Node \cup Server -> Nat]: child-id, given by the parent
  WorkerId,   \* worker numbers of a node
  SubtaskId,  \* subtask numbers of a worker
  MAXCMDC     \* limit of the comparison (4 in worker.sh)

Host == Node \cup Server
P == -1       \* "p"

(* Going from parent to parent, one arrives at the terminal. *)
IsTree ==
  \A B \in SUBSET (Host \cup {Terminal}) :
    Terminal \in B /\ (\A h \in Host : Parent[h] \in B => h \in B) => Host \subseteq B

ASSUME AddressAssumption ==
  /\ Node \cap Server = {} /\ Terminal \notin Host
  /\ Parent \in [Host -> Server \cup {Terminal}]
  /\ \A n \in Node : Parent[n] \in Server
  /\ IsTree
  /\ ChildId \in [Host -> Nat]
  /\ \A g, h \in Host : Parent[g] = Parent[h] /\ ChildId[g] = ChildId[h] => g = h
  /\ WorkerId \subseteq Nat /\ SubtaskId \subseteq Nat
  /\ MAXCMDC \in Nat

VARIABLE request   \* the two requests

(* worker.sc l.407: an idle worker, and one that waits for its newest subtask *)
Sender == {<<w>> : w \in WorkerId} \cup (WorkerId \X SubtaskId)
Origin == Node \X Sender
Phase == {"out", "arrived", "back", "returned", "lost"}
TypeOK ==
  request \in [{1, 2} -> [org : Origin, at : Host \cup {Terminal}, via : Host, head : Seq(Int), phase : Phase]]

Adjacent(g, h) == Parent[g] = h \/ Parent[h] = g

(* hostid and hostid-to-host of server s *)
HostId(s, h) == IF Parent[s] = h THEN P ELSE ChildId[h]
HostWith(s, id) ==
  IF \E h \in Host : Adjacent(s, h) /\ HostId(s, h) = id
  THEN CHOOSE h \in Host : Adjacent(s, h) /\ HostId(s, h) = id
  ELSE Terminal   \* "Connection from/to ... does not exist."

(* Mutant of head-push: the element is appended. *)
HeadPushLast(s, from, head) == head \o <<HostId(s, from)>>

(* head-push, head-shift *)
HeadPush(s, from, head) == <<HostId(s, from)>> \o head
HeadShift(s, head) == [to |-> HostWith(s, Head(head)), rest |-> Tail(head)]

(* Mutant: the comparison stops one element too early. *)
AddressEqualShort(a, b) ==
  \/ Len(a) = Len(b) /\ Len(a) < MAXCMDC - 1 /\ a = b
  \/ Len(a) >= MAXCMDC - 1 /\ Len(b) >= MAXCMDC - 1 /\ \A i \in 1..(MAXCMDC - 1) : a[i] = b[i]

(* address-equal, with TERM after the last element *)
AddressEqual(a, b) ==
  \/ Len(a) = Len(b) /\ Len(a) < MAXCMDC /\ a = b
  \/ Len(a) >= MAXCMDC /\ Len(b) >= MAXCMDC /\ \A i \in 1..MAXCMDC : a[i] = b[i]

(* treq leaves the node *)
Start(org) == [org |-> org, at |-> Parent[org[1]], via |-> org[1],
               head |-> org[2], phase |-> "out"]

Init == \E o1, o2 \in Origin : request = [r \in {1, 2} |-> Start(IF r = 1 THEN o1 ELSE o2)]

(* proc-treq: the server passes the request on to a host it did not come from *)
Forward(r) ==
  LET q == request[r]
  IN  /\ q.phase = "out"
      /\ \E h \in Host : Adjacent(q.at, h) /\ h # q.via
           /\ request' = [request EXCEPT ![r] =
                [org |-> q.org, at |-> h, via |-> q.at, head |-> HeadPush(q.at, q.via, q.head),
                 phase |-> IF h \in Node THEN "arrived" ELSE "out"]]

(* the node answers: task or none to the address it has received *)
Answer(r) ==
  LET q == request[r]
  IN  /\ q.phase = "arrived"
      /\ request' = [request EXCEPT ![r] =
           [org |-> q.org, at |-> Parent[q.at], via |-> q.at, head |-> q.head, phase |-> "back"]]

(* proc-task, proc-none: the server sends the answer to where its head leads *)
Return(r) ==
  LET q == request[r]
      s == HeadShift(q.at, q.head)
  IN  /\ q.phase = "back"
      /\ request' = [request EXCEPT ![r] =
           [org |-> q.org, at |-> s.to, via |-> q.at, head |-> s.rest,
            phase |-> IF s.to \in Node THEN "returned"
                      ELSE IF s.to \in Server THEN "back" ELSE "lost"]]

Next == \E r \in {1, 2} : Forward(r) \/ Answer(r) \/ Return(r)
Spec == Init /\ [][Next]_request
-----------------------------------------------------------------------------
(* Properties *)

(* An answer comes back to the node, the worker and the subtask, if any, it *)
(* is for, whatever way the request took through the servers.                *)
RoundTrip ==
  \A r \in {1, 2} : request[r].phase \in {"returned", "lost"} =>
    /\ request[r].at = request[r].org[1]
    /\ request[r].head = request[r].org[2]

(* At one node two requests have the same address just if they have the same *)
(* sender: a relative address identifies it.  cmd-serial.sc l.239 ("compare    *)
(* node sequences, nonzero if identical") holds up to MAXCMDC elements only,   *)
(* that is, over MAXCMDC - 2 servers or, for those of idle workers, one more:  *)
(* address-equal tells requests apart                                          *)
(* that have passed no more than these, while of longer addresses different    *)
(* ones may be taken for the same.                                             *)
Identifies ==
  LET a == request[1].head
      b == request[2].head
      same == request[1].org = request[2].org
      short == Len(a) <= MAXCMDC /\ Len(b) <= MAXCMDC
  IN  request[1].phase = "arrived" /\ request[2].phase = "arrived"
        /\ request[1].at = request[2].at
      => /\ a = b <=> same
         /\ same => AddressEqual(a, b)
         /\ short => (AddressEqual(a, b) <=> same)
=============================================================================
