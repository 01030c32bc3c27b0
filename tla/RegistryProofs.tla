--------------------------- MODULE RegistryProofs ---------------------------
(***************************************************************************)
(* Machine-checked proofs about Registry, for every value of the constants *)
(* that satisfies the module's assumptions.                                *)
(***************************************************************************)
EXTENDS Registry, TLAPS

USE SelfAssumption, MetasAssumption, BoundsAssumption, NilAssumption
USE DEF engine, obs

InitMetaType == InitMeta \in Metas

LEMMA InitMetaInMetas == InitMetaType
  BY MetasAssumption DEF InitMetaType, InitMeta

(* Notify keeps the provider views and the ghost window well typed.        *)
LEMMA NotifyType ==
  ASSUME TypeOK, NEW n \in Nodes, NEW v \in Metas \cup {Absent}, Notify(n, v)
  PROVE  /\ view' \in [SPs -> [Nodes -> Metas \cup {Absent}]]
         /\ window' \in [SPs -> SUBSET Nodes]
  BY DEF TypeOK, Notify

-----------------------------------------------------------------------------
(* The four outcomes of NewNode, as plain facts about the next state.      *)
LEMMA NewNodeEffect ==
  ASSUME NEW o \in Results \ {"none"}, NewNode(o)
  PROVE  /\ calls' = calls + 1
         /\ calls < MaxNewNode
         /\ UNCHANGED <<engine, providers, regPc, seedInst>>
         /\ o \in {"configErr", "createErr"} => UNCHANGED <<view, window>>
         /\ o \in {"joinErr", "ok"} => Notify(Self, InitMeta)
         /\ o = "configErr" => UNCHANGED <<mlist, running>>
         /\ o # "configErr" =>
               /\ mlist' \in {Nil, calls + 1}
               /\ running' \subseteq running \cup {calls + 1}
<1>1. CASE o = "configErr"
  BY <1>1 DEF NewNode
<1>2. CASE o = "createErr"
  BY <1>2 DEF NewNode
<1>3. CASE o = "joinErr"
  BY <1>3 DEF NewNode
<1>4. CASE o = "ok"
  BY <1>4 DEF NewNode
<1>5. QED
  BY <1>1, <1>2, <1>3, <1>4 DEF Results

(* Init is well typed, and so is every successor of a well-typed state.   *)
LEMMA TypeInit == Init => TypeOK
  BY InitMetaInMetas DEF Init, TypeOK, FreshTable, Inst, States, Results,
                         RegPcs, InitMetaType

LEMMA TypeStep == TypeOK /\ [Next]_vars => TypeOK'
<1>2. TypeOK /\ [Next]_vars => TypeOK'
  <2> SUFFICES ASSUME TypeOK, [Next]_vars PROVE TypeOK'
    OBVIOUS
  <2>1. ASSUME NEW o \in Results \ {"none"}, NewNode(o) PROVE TypeOK'
    <3>1. calls + 1 \in Inst /\ calls' = calls + 1 /\ calls' \in 0 .. MaxNewNode
      BY <2>1 DEF NewNode, TypeOK, Inst
    <3>2. mlist' \in Inst \cup {Nil} /\ running' \subseteq Inst
      BY <2>1, <3>1 DEF NewNode, TypeOK, Results
    <3>3. view' \in [SPs -> [Nodes -> Metas \cup {Absent}]]
          /\ window' \in [SPs -> SUBSET Nodes]
      <4>1. CASE o \in {"joinErr", "ok"}
        BY <2>1, <4>1, NewNodeEffect, NotifyType, InitMetaInMetas DEF InitMetaType
      <4>2. CASE o \in {"configErr", "createErr"}
        BY <2>1, <4>2, NewNodeEffect DEF TypeOK
      <4>3. QED
        BY <4>1, <4>2 DEF Results
    <3>4. result' = o
      BY <2>1 DEF NewNode
    <3>5. UNCHANGED <<engine, providers, regPc, seedInst>>
      BY <2>1, NewNodeEffect
    <3>6. QED
      BY <3>1, <3>2, <3>3, <3>4, <3>5 DEF TypeOK, Results
  <2>2. CASE Shutdown
    BY <2>2 DEF Shutdown, TypeOK
  <2>3. CASE Leave
    <3>1. view' \in [SPs -> [Nodes -> Metas \cup {Absent}]]
          /\ window' \in [SPs -> SUBSET Nodes]
      BY <2>3, NotifyType DEF Leave
    <3>2. QED
      BY <2>3, <3>1 DEF Leave, TypeOK, States
  <2>4. ASSUME NEW p \in SPs, RegisterSeed(p) PROVE TypeOK'
    BY <2>4 DEF RegisterSeed, TypeOK, MemberView, RegPcs
  <2>5. ASSUME NEW p \in SPs, RegisterSubscribe(p) PROVE TypeOK'
    BY <2>5 DEF RegisterSubscribe, TypeOK, RegPcs
  <2>6. ASSUME NEW i \in running, Engine(i) PROVE TypeOK'
    <3> i \in Inst
      BY <2>6 DEF TypeOK
    <3>1. ASSUME NEW n \in Nodes, NEW k \in 0 .. MaxInc, NEW m \in Metas,
                 AliveNode(i, n, k, m)
          PROVE  TypeOK'
      <4>1. view' \in [SPs -> [Nodes -> Metas \cup {Absent}]]
            /\ window' \in [SPs -> SUBSET Nodes]
        <5>1. CASE st[i][n] \in {"none", "dead", "left"} \/ m # meta[i][n]
          <6>1. Notify(n, m)
            BY <3>1, <5>1 DEF AliveNode
          <6>2. QED
            BY <6>1, NotifyType
        <5>2. CASE ~(st[i][n] \in {"none", "dead", "left"} \/ m # meta[i][n])
          BY <3>1, <5>2 DEF AliveNode, TypeOK
        <5>3. QED
          BY <5>1, <5>2
      <4>2. QED
        BY <2>6, <3>1, <4>1 DEF Engine, AliveNode, TypeOK, States
    <3>2. ASSUME NEW n \in Nodes, NEW k \in 0 .. MaxInc, SuspectNode(i, n, k)
          PROVE  TypeOK'
      BY <2>6, <3>2 DEF Engine, SuspectNode, TypeOK, States
    <3>3. ASSUME NEW n \in Nodes, NEW k \in 0 .. MaxInc,
                 NEW to \in {"dead", "left"}, DeadNode(i, n, k, to)
          PROVE  TypeOK'
      <4>1. view' \in [SPs -> [Nodes -> Metas \cup {Absent}]]
            /\ window' \in [SPs -> SUBSET Nodes]
        BY <3>3, NotifyType DEF DeadNode
      <4>2. QED
        BY <2>6, <3>3, <4>1 DEF Engine, DeadNode, TypeOK, States
    <3>4. ASSUME NEW n \in Nodes, Reclaim(i, n) PROVE TypeOK'
      BY <2>6, <3>4, InitMetaInMetas
         DEF Engine, Reclaim, TypeOK, States, InitMetaType
    <3>5. ASSUME NEW m \in Metas, WeightUpdate(i, m) PROVE TypeOK'
      <4>1. view' \in [SPs -> [Nodes -> Metas \cup {Absent}]]
            /\ window' \in [SPs -> SUBSET Nodes]
        BY <3>5, NotifyType DEF WeightUpdate
      <4>2. QED
        BY <2>6, <3>5, <4>1 DEF Engine, WeightUpdate, TypeOK
    <3>6. QED
      BY <2>6, <3>1, <3>2, <3>3, <3>4, <3>5 DEF Engine
  <2>7. CASE UNCHANGED vars
    BY <2>7 DEF vars, engine, obs, TypeOK
  <2>8. QED
    BY <2>1, <2>2, <2>3, <2>4, <2>5, <2>6, <2>7 DEF Next
<1>3. QED
  BY <1>2

(* Every reachable state is well typed: the pointer mlist is nil or names  *)
(* an instance created by some NewNode call, and the tables, the provider  *)
(* views and the registration progress stay in their domains.              *)
THEOREM TypeCorrect == Spec => []TypeOK
  BY TypeInit, TypeStep, PTL DEF Spec

-----------------------------------------------------------------------------
(* A step of the running instance i that changes what Members() says of    *)
(* exactly one name n, and delivers that change to the subscribers,        *)
(* preserves ProviderViewExact.                                            *)
LEMMA NotifyPreserves ==
  ASSUME IInv, NEW i \in running, NEW n \in Nodes,
         NEW v \in Metas \cup {Absent},
         Notify(n, v),
         MemberView(i)' = [MemberView(i) EXCEPT ![n] = v],
         UNCHANGED <<mlist, running, providers, regPc, seedInst>>
  PROVE  ProviderViewExact'
<1> SUFFICES ASSUME NEW p \in SPs,
                    regPc'[p] # "idle", seedInst'[p] = mlist',
                    running' \subseteq {mlist'},
                    NEW m \in Nodes \ window'[p]
             PROVE  view'[p][m] = MemberView(mlist)'[m]
  BY DEF ProviderViewExact
<1>1. i = mlist
  OBVIOUS
<1>2. m \notin window[p]
  BY DEF Notify, IInv, TypeOK
<1>3. view[p][m] = MemberView(mlist)[m]
  BY <1>2 DEF IInv, ProviderViewExact
<1>4. CASE m = n
  <2>1. regPc[p] = "subscribed"
    BY <1>4 DEF Notify, IInv, TypeOK, RegPcs
  <2>2. p \in providers
    BY <2>1 DEF IInv
  <2>3. view'[p][m] = v
    BY <1>4, <2>2 DEF Notify, IInv, TypeOK
  <2>4. MemberView(mlist)'[m] = v
    BY <1>1, <1>4 DEF MemberView
  <2>5. QED
    BY <2>3, <2>4
<1>5. CASE m # n
  <2>1. view'[p][m] = view[p][m]
    BY <1>5 DEF Notify, IInv, TypeOK
  <2>2. MemberView(mlist)'[m] = MemberView(mlist)[m]
    BY <1>1, <1>5 DEF MemberView
  <2>3. QED
    BY <1>3, <2>1, <2>2
<1>6. QED
  BY <1>4, <1>5

(* A step of the running instance i that leaves Members() and the provider *)
(* views alone preserves ProviderViewExact.                                *)
LEMMA SilentPreserves ==
  ASSUME IInv, NEW i \in running,
         MemberView(i)' = MemberView(i),
         UNCHANGED <<mlist, running, providers, regPc, seedInst, view, window>>
  PROVE  ProviderViewExact'
<1> SUFFICES ASSUME NEW p \in SPs,
                    regPc'[p] # "idle", seedInst'[p] = mlist',
                    running' \subseteq {mlist'},
                    NEW m \in Nodes \ window'[p]
             PROVE  view'[p][m] = MemberView(mlist)'[m]
  BY DEF ProviderViewExact
<1>1. i = mlist
  OBVIOUS
<1>2. QED
  BY <1>1 DEF IInv, ProviderViewExact

-----------------------------------------------------------------------------
(* What each engine action does to Members() of its instance and to the    *)
(* provider views: either one name changes and the change is notified, or *)
(* nothing a provider can see changes.                                     *)
Shape(i, n, v) ==
    \/ Notify(n, v) /\ MemberView(i)' = [MemberView(i) EXCEPT ![n] = v]
    \/ UNCHANGED <<view, window>> /\ MemberView(i)' = MemberView(i)

LEMMA AliveNodeShape ==
  ASSUME TypeOK, NEW i \in Inst, NEW n \in Nodes, NEW k \in 0 .. MaxInc,
         NEW m \in Metas, AliveNode(i, n, k, m)
  PROVE  Shape(i, n, m)
<1>1. MemberView(i)' = [MemberView(i) EXCEPT ![n] = m]
  BY DEF AliveNode, MemberView, TypeOK
<1>2. CASE st[i][n] \in {"none", "dead", "left"} \/ m # meta[i][n]
  BY <1>1, <1>2 DEF AliveNode, Shape
<1>3. CASE ~(st[i][n] \in {"none", "dead", "left"} \/ m # meta[i][n])
  <2>1. MemberView(i)[n] = m
    BY <1>3 DEF MemberView, TypeOK, States
  <2>2. MemberView(i)' = MemberView(i)
    BY <1>1, <2>1 DEF MemberView
  <2>3. QED
    BY <1>3, <2>2 DEF AliveNode, Shape
<1>4. QED
  BY <1>2, <1>3

LEMMA SuspectNodeShape ==
  ASSUME TypeOK, NEW i \in Inst, NEW n \in Nodes, NEW k \in 0 .. MaxInc,
         SuspectNode(i, n, k)
  PROVE  UNCHANGED <<view, window>> /\ MemberView(i)' = MemberView(i)
  BY DEF SuspectNode, MemberView, TypeOK

LEMMA DeadNodeShape ==
  ASSUME TypeOK, NEW i \in Inst, NEW n \in Nodes, NEW k \in 0 .. MaxInc,
         NEW to \in {"dead", "left"}, DeadNode(i, n, k, to)
  PROVE  Notify(n, Absent) /\ MemberView(i)' = [MemberView(i) EXCEPT ![n] = Absent]
  BY DEF DeadNode, MemberView, TypeOK

LEMMA ReclaimShape ==
  ASSUME TypeOK, NEW i \in Inst, NEW n \in Nodes, Reclaim(i, n)
  PROVE  UNCHANGED <<view, window>> /\ MemberView(i)' = MemberView(i)
  BY DEF Reclaim, MemberView, TypeOK

LEMMA WeightUpdateShape ==
  ASSUME TypeOK, NEW i \in Inst, NEW m \in Metas, WeightUpdate(i, m)
  PROVE  Notify(Self, m) /\ MemberView(i)' = [MemberView(i) EXCEPT ![Self] = m]
  BY DEF WeightUpdate, MemberView, TypeOK

-----------------------------------------------------------------------------
LEMMA IInvInit == Init => IInv
  BY TypeInit DEF Init, IInv, ProviderViewExact, RegPcs

LEMMA IInvStep == IInv /\ [Next]_vars => IInv'
<1> SUFFICES ASSUME IInv, [Next]_vars PROVE IInv'
  OBVIOUS
<1> TypeOK /\ TypeOK'
  BY TypeStep DEF IInv
<1>1. ASSUME NEW o \in Results \ {"none"}, NewNode(o) PROVE IInv'
  <2> calls \in Nat /\ calls < MaxNewNode /\ calls' = calls + 1
    BY <1>1, NewNodeEffect DEF IInv, TypeOK
  <2> UNCHANGED <<engine, providers, regPc, seedInst>>
    BY <1>1, NewNodeEffect
  <2>1. \A p \in SPs : (p \in providers') <=> (regPc'[p] = "subscribed")
    BY DEF IInv
  <2>2. \A p \in SPs : regPc'[p] # "idle" => seedInst'[p] \in 1 .. calls'
    BY DEF IInv
  <2>3. CASE o = "configErr"
    <3>1. UNCHANGED <<mlist, running>>
      BY <1>1, <2>3, NewNodeEffect
    <3>2. mlist' \in (1 .. calls') \cup {Nil} /\ running' \subseteq 1 .. calls'
      BY <3>1 DEF IInv
    <3>3. ProviderViewExact'
      BY <1>1, <2>3, <3>1, NewNodeEffect DEF IInv, ProviderViewExact, MemberView
    <3>4. QED
      BY <2>1, <2>2, <3>2, <3>3 DEF IInv
  <2>4. CASE o # "configErr"
    <3>1. mlist' \in {Nil, calls + 1} /\ running' \subseteq running \cup {calls + 1}
      BY <1>1, <2>4, NewNodeEffect
    <3>2. mlist' \in (1 .. calls') \cup {Nil} /\ running' \subseteq 1 .. calls'
      BY <3>1 DEF IInv
    <3>3. \A p \in SPs : regPc'[p] # "idle" => seedInst'[p] # mlist'
      BY <3>1 DEF IInv, TypeOK, Inst
    <3>4. ProviderViewExact'
      BY <3>3 DEF ProviderViewExact
    <3>5. QED
      BY <2>1, <2>2, <3>2, <3>4 DEF IInv
  <2>5. QED
    BY <2>3, <2>4
<1>2. CASE Shutdown
  <2>1. Nil \notin 1 .. calls
    BY DEF IInv, TypeOK, Inst
  <2>2. QED
    BY <1>2, <2>1 DEF Shutdown, IInv, ProviderViewExact
<1>3. CASE Leave
  <2>1. MemberView(mlist)' = [MemberView(mlist) EXCEPT ![Self] = Absent]
    BY <1>3 DEF Leave, MemberView, IInv, TypeOK
  <2>2. ProviderViewExact'
    BY <1>3, <2>1, NotifyPreserves DEF Leave
  <2>3. QED
    BY <1>3, <2>2 DEF Leave, IInv
<1>4. ASSUME NEW p \in SPs, RegisterSeed(p) PROVE IInv'
  <2>1. ProviderViewExact'
    <3> SUFFICES ASSUME NEW q \in SPs,
                        regPc'[q] # "idle", seedInst'[q] = mlist',
                        running' \subseteq {mlist'},
                        NEW n \in Nodes \ window'[q]
                 PROVE  view'[q][n] = MemberView(mlist)'[n]
      BY DEF ProviderViewExact
    <3>1. MemberView(mlist)' = MemberView(mlist)
      BY <1>4 DEF RegisterSeed, engine, MemberView
    <3>2. CASE q = p
      BY <1>4, <3>1, <3>2 DEF RegisterSeed, IInv, TypeOK, MemberView
    <3>3. CASE q # p
      BY <1>4, <3>1, <3>3 DEF RegisterSeed, IInv, TypeOK, ProviderViewExact
    <3>4. QED
      BY <3>2, <3>3
  <2>2. QED
    BY <1>4, <2>1 DEF RegisterSeed, IInv, TypeOK
<1>5. ASSUME NEW p \in SPs, RegisterSubscribe(p) PROVE IInv'
  <2>1. ProviderViewExact'
    BY <1>5 DEF RegisterSubscribe, IInv, ProviderViewExact, TypeOK, MemberView
  <2>2. QED
    BY <1>5, <2>1 DEF RegisterSubscribe, IInv, TypeOK
<1>6. ASSUME NEW i \in running, Engine(i) PROVE IInv'
  <2> i \in Inst
    BY DEF IInv, TypeOK
  <2> UNCHANGED <<mlist, running, calls, result, providers, regPc, seedInst>>
    BY <1>6 DEF Engine
  <2>1. ProviderViewExact'
    <3>1. ASSUME NEW n \in Nodes, NEW v \in Metas \cup {Absent}, Shape(i, n, v)
          PROVE  ProviderViewExact'
      BY <3>1, NotifyPreserves, SilentPreserves DEF Shape
    <3>2. CASE \E n \in Nodes, k \in 0 .. MaxInc, m \in Metas : AliveNode(i, n, k, m)
      BY <3>1, <3>2, AliveNodeShape
    <3>3. CASE \E n \in Nodes, k \in 0 .. MaxInc : SuspectNode(i, n, k)
      BY <3>3, SuspectNodeShape, SilentPreserves
    <3>4. CASE \E n \in Nodes, k \in 0 .. MaxInc, to \in {"dead", "left"} :
                  DeadNode(i, n, k, to)
      BY <3>4, DeadNodeShape, NotifyPreserves
    <3>5. CASE \E n \in Nodes : Reclaim(i, n)
      BY <3>5, ReclaimShape, SilentPreserves
    <3>6. CASE \E m \in Metas : WeightUpdate(i, m)
      BY <3>6, WeightUpdateShape, NotifyPreserves
    <3>7. QED
      BY <1>6, <3>2, <3>3, <3>4, <3>5, <3>6 DEF Engine
  <2>2. QED
    BY <2>1 DEF IInv
<1>7. CASE UNCHANGED vars
  BY <1>7 DEF vars, IInv, ProviderViewExact, MemberView
<1>8. QED
  BY <1>1, <1>2, <1>3, <1>4, <1>5, <1>6, <1>7 DEF Next

(* The inductive invariant of ViewExactness holds in every reachable state: *)
(* NewNode numbers instances past every earlier one, so a provider's seed  *)
(* instance is never mistaken for a new memberlist; a provider is in       *)
(* events.ServiceProviders exactly when RegisterServiceProvider has        *)
(* appended it; and every provider that mlist.Members() seeded knows which  *)
(* memberlist seeded it.                                                   *)
THEOREM InductiveInvariant == Spec => []IInv
  BY IInvInit, IInvStep, PTL DEF Spec

(* ProviderViewExact holds in every reachable state, for any number of     *)
(* names, providers, payloads, incarnations and NewNode calls: once        *)
(* RegisterServiceProvider has seeded a provider, eventDelegate keeps its   *)
(* view equal to mlist.Members() on every name that did not change inside   *)
(* the seeding/subscription window, until another memberlist is started.   *)
THEOREM ViewExactness == Spec => []ProviderViewExact
<1>1. IInv => ProviderViewExact
  BY DEF IInv
<1>2. QED
  BY InductiveInvariant, <1>1, PTL
=============================================================================
