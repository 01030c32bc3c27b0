-------------------------- MODULE BroadcastProofs --------------------------
(***************************************************************************)
(* Machine-checked proofs about Broadcast: the retransmit bound of the     *)
(* queue NewNode builds, for a process that calls NewNode at most once,    *)
(* and for every retransmit multiplier, member count, key set and number   *)
(* of enqueues.                                                            *)
(***************************************************************************)
EXTENDS Broadcast, FiniteSetTheorems, TLAPS

USE BroadcastAssumption, SentinelAssumption

(* The retransmit limit of a member count is a natural number. *)
LEMMA LimitNat ==
  ASSUME NEW n \in Nat
  PROVE  Limit(n) \in Nat
<1> DEFINE S == {d \in 1 .. n : 10^(d - 1) <= n}
<1>1. IsFiniteSet(1 .. n)
  BY FS_Interval
<1>2. IsFiniteSet(S)
  BY <1>1, FS_Subset
<1>3. Cardinality(S) \in Nat
  BY <1>2, FS_CardinalityType
<1>4. QED
  BY <1>3 DEF Limit, Digits

(* The bound BroadcastBound allows for an item of an instance with n      *)
(* members.                                                                *)
Cap(n) == IF Limit(n) = 0 THEN 1 ELSE Limit(n)

LEMMA CapNat ==
  ASSUME TypeOK, NEW k \in Inst
  PROVE  Cap(members[k]) \in Nat /\ Limit(members[k]) \in Nat
  BY LimitNat DEF TypeOK, Cap

LEMMA BoundByCap ==
  BroadcastBound <=> \A i \in Ids : owner[i] # Nil => sends[i] <= Cap(members[owner[i]])
  BY DEF BroadcastBound, Cap

LEMMA BInit == Init => BInv
<1> SUFFICES ASSUME Init PROVE BInv
  OBVIOUS
<1>1. TypeOK
  BY DEF Init, TypeOK, Inst
<1>2. QED
  BY <1>1 DEF Init, BInv, Present, BroadcastBound

-----------------------------------------------------------------------------
(* A call of NewNode, the only one the process makes. *)
LEMMA NewNodeStep ==
  ASSUME MaxNewNode <= 1, BInv, NEW o \in Outcomes, NewNode(o)
  PROVE  BInv'
<1>1. calls = 0 /\ running = {} /\ calls' = 1 /\ 1 \in Inst
  BY DEF BInv, TypeOK, NewNode, Inst
<1>2. UNCHANGED <<members, q, enq, last, owner, sends>>
  BY DEF NewNode
<1>3. /\ mlist' \in {Nil, 1} /\ bq' \in {Nil, 1} /\ bq' \in Inst \cup {Nil}
      /\ running' \subseteq {1} \cap {mlist'}
  <2>1. bq' \in {Nil, 1}
    BY <1>1 DEF NewNode, BInv, TypeOK, Inst
  <2>2. CASE o = "configErr"
    BY <1>1, <2>1, <2>2 DEF NewNode, BInv, TypeOK
  <2>3. CASE o = "createErr"
    BY <1>1, <2>1, <2>3 DEF NewNode
  <2>4. CASE o = "joinErr"
    BY <1>1, <2>1, <2>4 DEF NewNode
  <2>5. CASE o = "ok"
    BY <1>1, <2>1, <2>5 DEF NewNode
  <2>6. QED
    BY <2>2, <2>3, <2>4, <2>5
<1>4. TypeOK'
  BY <1>1, <1>2, <1>3 DEF BInv, TypeOK, Inst
<1>5. QED
  BY <1>1, <1>2, <1>3, <1>4 DEF BInv, Present, BroadcastBound

LEMMA ShutdownStep ==
  ASSUME BInv, Shutdown
  PROVE  BInv'
<1>1. running' = {} /\ mlist' = Nil
  BY DEF Shutdown, BInv
<1>2. UNCHANGED <<calls, bq, members, q, enq, last, owner, sends>>
  BY DEF Shutdown
<1>3. QED
  BY <1>1, <1>2 DEF BInv, TypeOK, Present, BroadcastBound

-----------------------------------------------------------------------------
LEMMA QueueStep ==
  ASSUME BInv, NEW b \in BKeys, QueueBroadcast(b)
  PROVE  BInv'
<1> DEFINE id == enq + 1
<1>1. /\ id \in Ids /\ enq' = id /\ bq \in Inst
      /\ q' = [q EXCEPT ![bq][b] = [id |-> id, tx |-> 0]]
      /\ owner' = [owner EXCEPT ![id] = bq]
      /\ last' = [last EXCEPT ![b] = id]
      /\ UNCHANGED <<mlist, running, calls, bq, members, sends>>
  BY DEF QueueBroadcast, BInv, TypeOK, Ids
<1>2. sends[id] = 0 /\ owner[id] = Nil
  BY <1>1 DEF BInv, TypeOK
<1>3. TypeOK'
  BY <1>1 DEF BInv, TypeOK, Items, Ids, Inst
<1>4. \A i \in Ids : i > enq' => owner'[i] = Nil /\ sends'[i] = 0
  BY <1>1 DEF BInv, TypeOK, Ids
<1>5. ASSUME NEW k \in Inst, NEW c \in BKeys, Present(k, c)'
      PROVE  /\ q'[k][c].id <= enq'
             /\ owner'[q'[k][c].id] = k
             /\ sends'[q'[k][c].id] = q'[k][c].tx
             /\ q'[k][c].tx = 0 \/ q'[k][c].tx < Limit(members'[k])
  <2>1. CASE k = bq /\ c = b
    BY <1>1, <1>2, <2>1 DEF BInv, TypeOK
  <2>2. CASE ~(k = bq /\ c = b)
    <3>1. q'[k][c] = q[k][c] /\ Present(k, c)
      BY <1>1, <1>5, <2>2 DEF BInv, TypeOK, Present
    <3>2. /\ q[k][c].id <= enq /\ q[k][c].id \in Ids
          /\ owner[q[k][c].id] = k
          /\ sends[q[k][c].id] = q[k][c].tx
          /\ q[k][c].tx = 0 \/ q[k][c].tx < Limit(members[k])
      BY <3>1 DEF BInv, TypeOK, Items, Present
    <3>3. q[k][c].id # id
      BY <3>2 DEF BInv, TypeOK, Ids
    <3>4. owner'[q[k][c].id] = owner[q[k][c].id]
      BY <1>1, <3>2, <3>3 DEF BInv, TypeOK
    <3>5. q'[k][c].id <= enq'
      BY <1>1, <3>1, <3>2 DEF BInv, TypeOK, Ids
    <3>6. sends'[q'[k][c].id] = q'[k][c].tx
      BY <1>1, <3>1, <3>2
    <3>7. q'[k][c].tx = 0 \/ q'[k][c].tx < Limit(members'[k])
      BY <1>1, <3>1, <3>2
    <3>8. QED
      BY <1>1, <3>1, <3>2, <3>4, <3>5, <3>6, <3>7
  <2>3. QED
    BY <2>1, <2>2
<1>6. \A k \in Inst, c, d \in BKeys :
        Present(k, c)' /\ Present(k, d)' /\ q'[k][c].id = q'[k][d].id => c = d
  <2> SUFFICES ASSUME NEW k \in Inst, NEW c \in BKeys, NEW d \in BKeys,
                      Present(k, c)', Present(k, d)', q'[k][c].id = q'[k][d].id
               PROVE  c = d
    OBVIOUS
  <2>1. \A e \in BKeys : Present(k, e)' /\ ~(k = bq /\ e = b) =>
                           q'[k][e] = q[k][e] /\ Present(k, e) /\ q[k][e].id <= enq
    BY <1>1 DEF BInv, TypeOK, Present
  <2>2. CASE k = bq /\ c = b /\ d = b
    BY <2>2
  <2>3. CASE ~(k = bq /\ c = b) /\ ~(k = bq /\ d = b)
    BY <2>1, <2>3 DEF BInv
  <2>4. CASE k = bq /\ (c = b \/ d = b) /\ c # d
    BY <1>1, <2>1, <2>4 DEF BInv, TypeOK
  <2>5. QED
    BY <2>2, <2>3, <2>4
<1>7. BroadcastBound'
  <2> SUFFICES ASSUME NEW i \in Ids, owner'[i] # Nil
               PROVE  sends'[i] <= Cap(members[owner'[i]])
    BY <1>1 DEF BroadcastBound, Cap
  <2>1. CASE i = id
    <3>1. Cap(members[bq]) \in Nat
      BY <1>1, CapNat DEF BInv
    <3>2. QED
      BY <1>1, <1>2, <2>1, <3>1
  <2>2. CASE i # id
    BY <1>1, <2>2, BoundByCap DEF BInv, TypeOK
  <2>3. QED
    BY <2>1, <2>2
<1>8. QED
  BY <1>1, <1>3, <1>4, <1>5, <1>6, <1>7 DEF BInv
-----------------------------------------------------------------------------
(* A fetch of the only instance's gossip: the limit it computes through   *)
(* NumNodes is its own, since that instance is the one mlist points at.   *)
LEMMA GossipStep ==
  ASSUME BInv, NEW k \in Inst, Gossip(k)
  PROVE  BInv'
<1>1. mlist = k /\ NumNodes = members[k] /\ Limit(members[k]) \in Nat
  <2>1. mlist = k
    BY DEF Gossip, BInv
  <2>2. QED
    BY <2>1, LimitNat DEF NumNodes, BInv, TypeOK
<1>2. PICK c \in BKeys :
        /\ Present(k, c)
        /\ q' = [q EXCEPT ![k][c] = IF q[k][c].tx + 1 >= Limit(members[k]) THEN Absent
                                    ELSE [q[k][c] EXCEPT !.tx = @ + 1]]
        /\ sends' = [sends EXCEPT ![q[k][c].id] = @ + 1]
  BY <1>1 DEF Gossip, LeastSent, Present
<1> DEFINE it == q[k][c]
           L == Limit(members[k])
<1>3. /\ it \in Items /\ it.id \in Ids /\ it.tx \in Nat /\ it.id <= enq
      /\ owner[it.id] = k /\ sends[it.id] = it.tx /\ (it.tx = 0 \/ it.tx < L)
  BY <1>2 DEF BInv, TypeOK, Items, Present
<1>4. UNCHANGED <<mlist, running, calls, bq, members, enq, last, owner>>
  BY DEF Gossip
(* Every other queued item keeps its record and its send count. *)
<1>5. ASSUME NEW k2 \in Inst, NEW b2 \in BKeys, ~(k2 = k /\ b2 = c), Present(k2, b2)
      PROVE  /\ q'[k2][b2] = q[k2][b2]
             /\ q[k2][b2].id # it.id
             /\ sends'[q[k2][b2].id] = sends[q[k2][b2].id]
  <2>1. q'[k2][b2] = q[k2][b2]
    BY <1>2, <1>5 DEF BInv, TypeOK
  <2>2. q[k2][b2].id # it.id
    <3>1. CASE k2 = k
      BY <1>2, <1>5, <3>1 DEF BInv
    <3>2. CASE k2 # k
      BY <1>3, <1>5, <3>2 DEF BInv
    <3>3. QED
      BY <3>1, <3>2
  <2>3. q[k2][b2].id \in Ids
    BY <1>5 DEF BInv, TypeOK, Items, Present
  <2>4. QED
    BY <1>2, <2>1, <2>2, <2>3 DEF BInv, TypeOK
<1>6. TypeOK'
  BY <1>1, <1>2, <1>3, <1>4 DEF BInv, TypeOK, Items
<1>7. \A i \in Ids : i > enq' => owner'[i] = Nil /\ sends'[i] = 0
  BY <1>2, <1>3, <1>4 DEF BInv, TypeOK
<1>8. ASSUME NEW k2 \in Inst, NEW b2 \in BKeys, Present(k2, b2)'
      PROVE  /\ q'[k2][b2].id <= enq'
             /\ owner'[q'[k2][b2].id] = k2
             /\ sends'[q'[k2][b2].id] = q'[k2][b2].tx
             /\ q'[k2][b2].tx = 0 \/ q'[k2][b2].tx < Limit(members'[k2])
  <2>1. CASE k2 = k /\ b2 = c
    <3>1. it.tx + 1 < L /\ q'[k][c] = [it EXCEPT !.tx = it.tx + 1]
      BY <1>1, <1>2, <1>3, <1>8, <2>1 DEF BInv, TypeOK, Present
    <3>2. sends'[it.id] = it.tx + 1
      BY <1>2, <1>3 DEF BInv, TypeOK
    <3>3. QED
      BY <1>3, <1>4, <2>1, <3>1, <3>2 DEF Items
  <2>2. CASE ~(k2 = k /\ b2 = c)
    <3>1. Present(k2, b2)
      BY <1>2, <1>8, <2>2 DEF BInv, TypeOK, Present
    <3>2. QED
      BY <1>4, <1>5, <2>2, <3>1 DEF BInv, Present
  <2>3. QED
    BY <2>1, <2>2
<1>9. \A k2 \in Inst, b2, d \in BKeys :
        Present(k2, b2)' /\ Present(k2, d)' /\ q'[k2][b2].id = q'[k2][d].id => b2 = d
  <2> SUFFICES ASSUME NEW k2 \in Inst, NEW b2 \in BKeys, NEW d \in BKeys,
                      Present(k2, b2)', Present(k2, d)', q'[k2][b2].id = q'[k2][d].id
               PROVE  b2 = d
    OBVIOUS
  <2>1. \A e \in BKeys : Present(k2, e)' => Present(k2, e) /\ q'[k2][e].id = q[k2][e].id
    BY <1>2, <1>3 DEF BInv, TypeOK, Present
  <2>2. QED
    BY <2>1 DEF BInv
<1>10. BroadcastBound'
  <2> SUFFICES ASSUME NEW i \in Ids, owner'[i] # Nil
               PROVE  sends'[i] <= Cap(members[owner'[i]])
    BY <1>4 DEF BroadcastBound, Cap
  <2>1. CASE i = it.id
    <3>1. sends'[i] = it.tx + 1 /\ owner'[i] = k
      BY <1>2, <1>3, <1>4, <2>1 DEF BInv, TypeOK
    <3>2. it.tx + 1 <= Cap(members[k])
      BY <1>1, <1>3 DEF Cap
    <3>3. QED
      BY <3>1, <3>2
  <2>2. CASE i # it.id
    BY <1>2, <1>4, <2>2 DEF BInv, TypeOK, BroadcastBound, Cap
  <2>3. QED
    BY <2>1, <2>2
<1>11. mlist' \in (1 .. calls') \cup {Nil} /\ running' \subseteq (1 .. calls') \cap {mlist'}
  BY <1>4 DEF BInv
<1>12. QED
  BY <1>6, <1>7, <1>8, <1>9, <1>10, <1>11 DEF BInv

-----------------------------------------------------------------------------
(* BroadcastBound holds in every reachable state of a process that calls   *)
(* NewNode at most once, whatever its outcome: the queue NewNode builds    *)
(* transmits each enqueued item at most RetransmitMult * ceil(log10(N+1))  *)
(* times (once if that is 0), N the member count of its own memberlist,    *)
(* for every multiplier, member count, key set and number of enqueues.    *)
(* With a second NewNode it can fail: an orphaned instance's NumNodes     *)
(* reads the member count of the instance that replaced it.                *)
THEOREM RetransmitBound ==
  ASSUME MaxNewNode <= 1
  PROVE  Spec => []BroadcastBound
<1>1. Init => BInv
  BY BInit
<1>2. BInv /\ [Next]_vars => BInv'
  <2> SUFFICES ASSUME BInv, [Next]_vars PROVE BInv'
    OBVIOUS
  <2>1. CASE \E o \in Outcomes : NewNode(o)
    BY <2>1, NewNodeStep
  <2>2. CASE Shutdown
    BY <2>2, ShutdownStep
  <2>3. CASE \E b \in BKeys : QueueBroadcast(b)
    BY <2>3, QueueStep
  <2>4. CASE \E k \in Inst : Gossip(k)
    BY <2>4, GossipStep
  <2>5. CASE UNCHANGED vars
    BY <2>5 DEF vars, BInv, TypeOK, Present, BroadcastBound
  <2>6. QED
    BY <2>1, <2>2, <2>3, <2>4, <2>5 DEF Next
<1>3. BInv => BroadcastBound
  BY DEF BInv
<1>4. QED
  BY <1>1, <1>2, <1>3, PTL DEF Spec
=============================================================================
