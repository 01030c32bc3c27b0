------------------------------ MODULE Broadcast ------------------------------
(***************************************************************************)
(* The broadcast queue NewNode wires up (framework/registry/node.go:331-   *)
(* 353): every NewNode call past the configuration check builds a fresh   *)
(* TransmitLimitedQueue, stores it in the package variable BroadcastQueue  *)
(* (node.go:27, 341) and hands the same queue to the new memberlist's      *)
(* delegate; its NumNodes closure reads the package variable mlist, not    *)
(* the instance the queue belongs to.  Client code enqueues into           *)
(* BroadcastQueue; each running instance's gossip drains its own queue.    *)
(*                                                                         *)
(* The queue itself is memberlist code, outside the sources given; it is   *)
(* modelled from the specification (4.4): Enqueue invalidates the item of  *)
(* the same key and inserts with transmit count 0; a fetch takes a         *)
(* least-sent item, counts the send, and evicts it once the count reaches  *)
(* RetransmitMult * ceil(log10(NumNodes()+1)).  An item is one broadcast   *)
(* key; a fetch takes one item (the byte budget is abstracted away).  The  *)
(* member count of an instance is fixed when it is created.               *)
(***************************************************************************)
EXTENDS Naturals, FiniteSets

CONSTANTS
    MaxNewNode,      \* bound on NewNode calls
    MaxEnqueue,      \* bound on QueueBroadcast calls
    RetransmitMult,  \* cfg.RetransmitMult (DefaultWANConfig: 4)
    MemberCounts,    \* NumMembers() an instance may have (self included)
    BKeys,           \* broadcast invalidation keys
    Outcomes,        \* NewNode outcomes the environment may produce
    Nil, Absent

ASSUME BroadcastAssumption ==
    /\ MaxNewNode \in Nat /\ MaxEnqueue \in Nat /\ RetransmitMult \in Nat
    /\ MemberCounts \subseteq Nat \ {0}
    /\ Outcomes \subseteq {"configErr", "createErr", "joinErr", "ok"}

Inst == 1 .. MaxNewNode
Ids == 1 .. MaxEnqueue
Items == [id : Ids, tx : Nat]

ASSUME SentinelAssumption == Nil \notin Inst /\ Nil \notin Ids /\ Absent \notin Items

(* ceil(log10(n + 1)): the number of decimal digits of n, i.e. of the     *)
(* powers 10^0, 10^1, ... that are at most n.                              *)
Digits(n) == Cardinality({d \in 1 .. n : 10^(d - 1) <= n})

(* memberlist's retransmitLimit(RetransmitMult, n). *)
Limit(n) == RetransmitMult * Digits(n)

VARIABLES
    mlist,     \* node.go:26, the current memberlist or Nil
    running,   \* instances created and not yet shut down
    calls,     \* NewNode calls so far; instance k is built by call k
    bq,        \* node.go:27 BroadcastQueue: Nil or the queue of call k
    members,   \* members[k]: NumMembers() of instance k
    q,         \* q[k][b]: the item of key b in queue k, or Absent
    enq,       \* QueueBroadcast calls so far; item ids are 1 .. enq
    last,      \* ghost: last[b], the id last enqueued for key b (0: none)
    owner,     \* ghost: owner[id], the queue item id went into
    sends      \* ghost: sends[id], how often item id was transmitted

vars == <<mlist, running, calls, bq, members, q, enq, last, owner, sends>>

(* The NumNodes closure (node.go:333-338): the global mlist's count. *)
NumNodes == IF mlist = Nil THEN 0 ELSE members[mlist]

Init ==
    /\ mlist = Nil
    /\ running = {}
    /\ calls = 0
    /\ bq = Nil
    /\ members \in [Inst -> MemberCounts]
    /\ q = [k \in Inst |-> [b \in BKeys |-> Absent]]
    /\ enq = 0
    /\ last = [b \in BKeys |-> 0]
    /\ owner = [id \in Ids |-> Nil]
    /\ sends = [id \in Ids |-> 0]

(* NewNode (node.go:287-353): a configuration error returns before the     *)
(* queue is built; otherwise BroadcastQueue is replaced (341) before       *)
(* memberlist.Create, whose failure stores nil in mlist (347), and before  *)
(* join, whose failure shuts the instance down but keeps it in mlist.      *)
NewNode(outcome) ==
    LET k == calls + 1 IN
    /\ calls < MaxNewNode
    /\ calls' = k
    /\ IF outcome = "configErr" THEN UNCHANGED bq ELSE bq' = k
    /\ CASE outcome = "configErr" -> UNCHANGED <<mlist, running>>
         [] outcome = "createErr" -> mlist' = Nil /\ UNCHANGED running
         [] outcome = "joinErr"   -> mlist' = k /\ UNCHANGED running
         [] outcome = "ok"        -> mlist' = k /\ running' = running \cup {k}
    /\ UNCHANGED <<members, q, enq, last, owner, sends>>

(* Shutdown (node.go:363-369). BroadcastQueue is left as it is. *)
Shutdown ==
    /\ mlist # Nil
    /\ mlist' = Nil
    /\ running' = running \ {mlist}
    /\ UNCHANGED <<calls, bq, members, q, enq, last, owner, sends>>

(* Mutant of QueueBroadcast: an item already queued for the key is kept.  *)
QueueBroadcastKeepOld(b) ==
    LET id == enq + 1 IN
    /\ bq # Nil
    /\ enq < MaxEnqueue
    /\ enq' = id
    /\ q' = IF q[bq][b] = Absent THEN [q EXCEPT ![bq][b] = [id |-> id, tx |-> 0]] ELSE q
    /\ last' = [last EXCEPT ![b] = id]
    /\ owner' = [owner EXCEPT ![id] = bq]
    /\ UNCHANGED <<mlist, running, calls, bq, members, sends>>

(* BroadcastQueue.QueueBroadcast by client code: the queued item of the   *)
(* same key is invalidated and the new one inserted with count 0.         *)
QueueBroadcast(b) ==
    LET id == enq + 1 IN
    /\ bq # Nil
    /\ enq < MaxEnqueue
    /\ enq' = id
    /\ q' = [q EXCEPT ![bq][b] = [id |-> id, tx |-> 0]]
    /\ last' = [last EXCEPT ![b] = id]
    /\ owner' = [owner EXCEPT ![id] = bq]
    /\ UNCHANGED <<mlist, running, calls, bq, members, sends>>

(* The keys whose item in queue k has the least transmit count. *)
LeastSent(k) ==
    {b \in BKeys : q[k][b] # Absent /\
                   \A c \in BKeys : q[k][c] # Absent => q[k][b].tx <= q[k][c].tx}

(* Mutant of Gossip: the item is evicted only once its count passes the   *)
(* limit.                                                                  *)
GossipEvictLate(k) ==
    /\ k \in running
    /\ members[k] > 1
    /\ \E b \in LeastSent(k) :
          LET it == q[k][b] IN
          /\ q' = [q EXCEPT ![k][b] = IF it.tx + 1 > Limit(NumNodes) THEN Absent
                                      ELSE [it EXCEPT !.tx = @ + 1]]
          /\ sends' = [sends EXCEPT ![it.id] = @ + 1]
    /\ UNCHANGED <<mlist, running, calls, bq, members, enq, last, owner>>

(* One fetch of instance k's gossip or probe traffic through its delegate: *)
(* only when k has a peer to send to; the limit is computed from the       *)
(* NumNodes closure, i.e. from the global mlist.                           *)
Gossip(k) ==
    /\ k \in running
    /\ members[k] > 1
    /\ \E b \in LeastSent(k) :
          LET it == q[k][b] IN
          /\ q' = [q EXCEPT ![k][b] = IF it.tx + 1 >= Limit(NumNodes) THEN Absent
                                      ELSE [it EXCEPT !.tx = @ + 1]]
          /\ sends' = [sends EXCEPT ![it.id] = @ + 1]
    /\ UNCHANGED <<mlist, running, calls, bq, members, enq, last, owner>>

Next ==
    \/ \E o \in Outcomes : NewNode(o)
    \/ Shutdown
    \/ \E b \in BKeys : QueueBroadcast(b)
    \/ \E k \in Inst : Gossip(k)

(* A running memberlist's gossip ticker fires every GossipInterval and     *)
(* fetches from the delegate's queue as long as it has a peer.             *)
Spec == Init /\ [][Next]_vars /\ \A k \in Inst : WF_vars(Gossip(k))

-----------------------------------------------------------------------------
TypeOK ==
    /\ mlist \in Inst \cup {Nil}
    /\ running \subseteq Inst
    /\ calls \in 0 .. MaxNewNode
    /\ bq \in Inst \cup {Nil}
    /\ members \in [Inst -> MemberCounts]
    /\ q \in [Inst -> [BKeys -> Items \cup {Absent}]]
    /\ enq \in 0 .. MaxEnqueue
    /\ last \in [BKeys -> 0 .. MaxEnqueue]
    /\ owner \in [Ids -> Inst \cup {Nil}]
    /\ sends \in [Ids -> Nat]

(* Spec 8, broadcast bound: an item enqueued into an instance's queue is   *)
(* transmitted at most RetransmitMult * log10(N+1) times, N that           *)
(* instance's member count (an item is always sent once).                  *)
BroadcastBound ==
    \A id \in Ids : owner[id] # Nil =>
        sends[id] <= IF Limit(members[owner[id]]) = 0 THEN 1
                     ELSE Limit(members[owner[id]])

(* The inductive strengthening of BroadcastBound when the process calls   *)
(* NewNode at most once: a running instance is the one mlist points at,    *)
(* so NumNodes is its own count; every queued item carries a distinct id  *)
(* of its own queue, has been sent exactly its transmit count, and is     *)
(* still under the limit unless it was never sent; ids not yet handed out *)
(* are untouched.                                                          *)
Present(k, b) == q[k][b] # Absent
BInv ==
    /\ TypeOK
    /\ mlist \in (1 .. calls) \cup {Nil}
    /\ running \subseteq (1 .. calls) \cap {mlist}
    /\ \A id \in Ids : id > enq => owner[id] = Nil /\ sends[id] = 0
    /\ \A k \in Inst, b \in BKeys : Present(k, b) =>
          /\ q[k][b].id <= enq
          /\ owner[q[k][b].id] = k
          /\ sends[q[k][b].id] = q[k][b].tx
          /\ q[k][b].tx = 0 \/ q[k][b].tx < Limit(members[k])
    /\ \A k \in Inst, b, c \in BKeys :
          Present(k, b) /\ Present(k, c) /\ q[k][b].id = q[k][c].id => b = c
    /\ BroadcastBound

(* Spec 4.4/5: the last broadcast client code queues for a key through    *)
(* BroadcastQueue is sent at least once, unless a newer one supersedes it, *)
(* while the process's memberlist (mlist) runs with a peer to gossip to.   *)
Gossiping == mlist \in running /\ members[mlist] > 1
BroadcastDelivered ==
    \A b \in BKeys, id \in Ids :
        (last[b] = id /\ sends[id] = 0 /\ Gossiping)
            ~> (sends[id] > 0 \/ last[b] # id \/ ~Gossiping)
=============================================================================
