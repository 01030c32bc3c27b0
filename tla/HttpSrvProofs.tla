---------------------------- MODULE HttpSrvProofs ----------------------------
(***************************************************************************)
(* Proofs about the HttpRouterSrv model: its type invariant and the order *)
(* of the middleware chain every route is served with, for every set of   *)
(* routes and middlewares and every bound.                                *)
(***************************************************************************)
EXTENDS HttpSrv, SequenceTheorems, FiniteSetTheorems, TLAPS

USE HttpSrvAssumption

MwSeqs == Seq(MwNames)

(* Opt yields a sequence of middleware names. *)
LEMMA OptType ==
    ASSUME NEW b \in BOOLEAN, NEW m \in MwNames
    PROVE  Opt(b, m) \in MwSeqs
  BY DEF Opt, MwSeqs

(* The list NewHttpRouterSrv builds is a sequence of middleware names, *)
(* whatever the environment switches.                                  *)
LEMMA DefaultsType ==
    ASSUME NEW e \in [Flags -> BOOLEAN]
    PROVE  Defaults(e) \in MwSeqs
<1>1. /\ Opt(e["gzip"], "gzip") \in MwSeqs
      /\ Opt(e["logreq"], "log") \in MwSeqs
      /\ Opt(e["rest"], "rest") \in MwSeqs
  BY OptType DEF Flags, MwNames, Builtin
<1>2. << "tracing", "metrics" >> \in MwSeqs /\ << "requestid", "proxyheaders" >> \in MwSeqs
  BY DEF MwSeqs, MwNames, Builtin
<1>3. QED
  BY <1>1, <1>2, ConcatProperties DEF Defaults, MwSeqs

(* The chain Run freezes: prometheus under GDD_MANAGE, the list, recovery. *)
LEMMA FullType ==
    ASSUME NEW e \in [Flags -> BOOLEAN], NEW l \in MwSeqs
    PROVE  Opt(e["manage"], "prometheus") \o l \o << "recovery" >> \in MwSeqs
<1>1. Opt(e["manage"], "prometheus") \in MwSeqs
  BY OptType DEF Flags, MwNames, Builtin
<1>2. << "recovery" >> \in MwSeqs
  BY DEF MwSeqs, MwNames, Builtin
<1>3. QED
  BY <1>1, <1>2, ConcatProperties DEF MwSeqs

LEMMA TypeInit == Init => TypeOK
  BY DefaultsType DEF Init, TypeOK, MwSeqs, Pcs

LEMMA TypeStep == TypeOK /\ [Next]_vars => TypeOK'
<1> SUFFICES ASSUME TypeOK, [Next]_vars PROVE TypeOK'
  OBVIOUS
<1>1. ASSUME NEW r \in Routes, AddRoute(r) PROVE TypeOK'
  BY <1>1, AppendProperties DEF AddRoute, TypeOK
<1>2. ASSUME NEW m \in UserMws, AddMiddleware(m) PROVE TypeOK'
  <2>1. m \in MwNames /\ << "add", m >> \in {"pre", "add"} \X UserMws
    BY DEF MwNames
  <2>2. QED
    BY <1>2, <2>1, AppendProperties DEF AddMiddleware, TypeOK
<1>3. ASSUME NEW m \in UserMws, PreMiddleware(m) PROVE TypeOK'
  <2>1. << m >> \in MwSeqs /\ << "pre", m >> \in {"pre", "add"} \X UserMws
    BY DEF MwSeqs, MwNames
  <2>2. mws' \in MwSeqs
    BY <1>3, <2>1, ConcatProperties DEF PreMiddleware, TypeOK, MwSeqs
  <2>3. QED
    BY <1>3, <2>1, <2>2, AppendProperties DEF PreMiddleware, TypeOK, MwSeqs
<1>4. CASE Run
  <2> DEFINE full == Opt(env["manage"], "prometheus") \o mws \o << "recovery" >>
  <2>1. full \in MwSeqs
    BY FullType DEF TypeOK, MwSeqs
  <2>2. Range(biz) \subseteq Routes
    BY DEF TypeOK, Range
  <2>3. << "metrics", "cors", "basicauth" >> \in MwSeqs /\ << >> \in MwSeqs
    BY DEF MwSeqs, MwNames, Builtin
  <2>4. QED
    BY <1>4, <2>1, <2>2, <2>3 DEF Run, TypeOK, MwSeqs, Pcs
<1>5. CASE ListenAndServe
  BY <1>5 DEF ListenAndServe, TypeOK
<1>6. CASE Signal \/ Shutdown
  BY <1>6 DEF Signal, Shutdown, TypeOK, Pcs
<1>7. CASE Accept
  BY <1>7 DEF Accept, TypeOK
<1>8. CASE Finish
  BY <1>8 DEF Finish, TypeOK
<1>9. CASE Drain
  BY <1>9 DEF Drain, TypeOK, Pcs
<1>10. CASE Deadline
  BY <1>10 DEF Deadline, TypeOK, Pcs
<1>11. CASE UNCHANGED vars
  BY <1>11 DEF vars, TypeOK
<1>12. QED
  BY <1>1, <1>2, <1>3, <1>4, <1>5, <1>6, <1>7, <1>8, <1>9, <1>10, <1>11 DEF Next

(* Every state of the server has the types of TypeOK: the middleware      *)
(* lists NewHttpRouterSrv, AddMiddleware, PreMiddleware and Run build are *)
(* sequences of middleware names, and at most MaxReqs requests run.       *)
THEOREM TypeCorrect == Spec => []TypeOK
  BY TypeInit, TypeStep, PTL DEF Spec
-----------------------------------------------------------------------------
(***************************************************************************)
(* The order of the middleware chain.  The ranks of Pres and Adds are     *)
(* taken over an arbitrary call history h, so that the facts below are    *)
(* stated once and applied to hist and hist'.                             *)
(***************************************************************************)
CallRec == {"pre", "add"} \X UserMws
CallsIn(h, kind) == {j \in 1 .. Len(h) : h[j][1] = kind}
LaterIn(h, kind, k) == Cardinality({l \in CallsIn(h, kind) : l >= k})
EarlierIn(h, kind, k) == Cardinality({l \in CallsIn(h, kind) : l <= k})
PresIn(h) == [j \in 1 .. Cardinality(CallsIn(h, "pre")) |->
                h[CHOOSE k \in CallsIn(h, "pre") : LaterIn(h, "pre", k) = j][2]]
AddsIn(h) == [j \in 1 .. Cardinality(CallsIn(h, "add")) |->
                h[CHOOSE k \in CallsIn(h, "add") : EarlierIn(h, "add", k) = j][2]]
(* Every rank among the calls of a kind is taken. *)
RanksTaken(h) ==
    /\ \A j \in 1 .. Cardinality(CallsIn(h, "pre")) :
          \E k \in CallsIn(h, "pre") : LaterIn(h, "pre", k) = j
    /\ \A j \in 1 .. Cardinality(CallsIn(h, "add")) :
          \E k \in CallsIn(h, "add") : EarlierIn(h, "add", k) = j

(* The calls of a kind are among the positions of h: a finite set. *)
LEMMA CallsFinite ==
    ASSUME NEW h \in Seq(CallRec), NEW kind
    PROVE  /\ CallsIn(h, kind) \subseteq 1 .. Len(h)
           /\ IsFiniteSet(CallsIn(h, kind))
           /\ Cardinality(CallsIn(h, kind)) \in Nat
<1>1. CallsIn(h, kind) \subseteq 1 .. Len(h)
  BY DEF CallsIn
<1>2. IsFiniteSet(1 .. Len(h))
  BY FS_Interval
<1>3. QED
  BY <1>1, <1>2, FS_Subset, FS_CardinalityType

(* Appending a call of one kind adds its position to the calls of that    *)
(* kind and leaves the other kind's calls alone.                           *)
LEMMA CallsAppend ==
    ASSUME NEW h \in Seq(CallRec), NEW x \in CallRec, NEW kind
    PROVE  CallsIn(Append(h, x), kind) =
              IF x[1] = kind THEN CallsIn(h, kind) \cup {Len(h) + 1}
                             ELSE CallsIn(h, kind)
  BY AppendProperties DEF CallsIn

(* A call's rank among the calls of its kind is at least 1 and at most   *)
(* their number.                                                           *)
LEMMA RankBounds ==
    ASSUME NEW h \in Seq(CallRec), NEW kind, NEW k \in CallsIn(h, kind)
    PROVE  /\ LaterIn(h, kind, k) \in 1 .. Cardinality(CallsIn(h, kind))
           /\ EarlierIn(h, kind, k) \in 1 .. Cardinality(CallsIn(h, kind))
<1> DEFINE S == CallsIn(h, kind)
           U == {l \in S : l >= k}
           D == {l \in S : l <= k}
<1>1. IsFiniteSet(S) /\ Cardinality(S) \in Nat /\ S \subseteq Nat
  BY CallsFinite
<1>2. /\ IsFiniteSet(U) /\ Cardinality(U) <= Cardinality(S)
      /\ IsFiniteSet(D) /\ Cardinality(D) <= Cardinality(S)
  BY <1>1, FS_Subset
<1>3. Cardinality(U) # 0 /\ Cardinality(D) # 0
  <2>1. k \in U /\ k \in D
    BY <1>1
  <2>2. QED
    BY <1>2, <2>1, FS_EmptySet
<1>4. Cardinality(U) \in Nat /\ Cardinality(D) \in Nat
  BY <1>2, FS_CardinalityType
<1>5. QED
  BY <1>1, <1>2, <1>3, <1>4 DEF LaterIn, EarlierIn

(* PreMiddleware's call goes first in Pres and leaves Adds alone. *)
LEMMA PreAppend ==
    ASSUME NEW h \in Seq(CallRec), NEW m \in UserMws, RanksTaken(h)
    PROVE  LET h2 == Append(h, << "pre", m >>) IN
           /\ PresIn(h2) = << m >> \o PresIn(h)
           /\ AddsIn(h2) = AddsIn(h)
           /\ RanksTaken(h2)
<1> DEFINE x == << "pre", m >>
           h2 == Append(h, x)
           n == Len(h)
           S == CallsIn(h, "pre")
           S2 == CallsIn(h2, "pre")
           A == CallsIn(h, "add")
           c == Cardinality(S)
<1>1. x \in CallRec /\ h2 \in Seq(CallRec) /\ n \in Nat
  BY AppendProperties DEF CallRec
<1>2. S2 = S \cup {n + 1} /\ CallsIn(h2, "add") = A
  BY <1>1, CallsAppend
<1>3. /\ S \subseteq 1 .. n /\ IsFiniteSet(S) /\ c \in Nat
      /\ A \subseteq 1 .. n
  BY CallsFinite
<1>4. \A k \in 1 .. n : h2[k] = h[k]
  BY AppendProperties
<1>5. ASSUME NEW k \in S PROVE LaterIn(h2, "pre", k) = LaterIn(h, "pre", k) + 1
  <2> DEFINE U == {l \in S : l >= k}
  <2>1. {l \in S2 : l >= k} = U \cup {n + 1} /\ n + 1 \notin U
    BY <1>2, <1>3
  <2>2. IsFiniteSet(U)
    BY <1>3, FS_Subset
  <2>3. QED
    BY <2>1, <2>2, FS_AddElement DEF LaterIn
<1>6. LaterIn(h2, "pre", n + 1) = 1
  <2>1. {l \in S2 : l >= n + 1} = {n + 1}
    BY <1>2, <1>3
  <2>2. QED
    BY <2>1, FS_Singleton DEF LaterIn
<1>7. \A k \in S : LaterIn(h, "pre", k) \in 1 .. c
  BY RankBounds
<1>8. Cardinality(S2) = c + 1
  <2>1. n + 1 \notin S
    BY <1>3
  <2>2. QED
    BY <1>2, <1>3, <2>1, FS_AddElement
<1>9. n + 1 \in S2 /\ n + 1 \notin S /\ h2[n + 1] = x
  BY <1>2, <1>3, AppendProperties
(* The call of rank j + 1 after the append is the call of rank j before. *)
<1> DEFINE pick(j) == CHOOSE k \in S : LaterIn(h, "pre", k) = j
           pick2(j) == CHOOSE k \in S2 : LaterIn(h2, "pre", k) = j
(* The call of rank j + 1 after the append is the call of rank j before, *)
(* and one of the calls made before the append.                          *)
<1>10. ASSUME NEW j \in 1 .. c
       PROVE  pick2(j + 1) = pick(j) /\ pick(j) \in 1 .. n
  <2>1. \A k : (k \in S2 /\ LaterIn(h2, "pre", k) = j + 1)
               <=> (k \in S /\ LaterIn(h, "pre", k) = j)
    BY <1>2, <1>5, <1>6, <1>7, <1>9
  <2>2. pick2(j + 1) = pick(j)
    BY <2>1
  <2>3. \E k \in S : LaterIn(h, "pre", k) = j
    BY DEF RanksTaken
  <2>4. QED
    BY <2>2, <2>3, <1>3
<1>11. pick2(1) = n + 1
  <2>1. \A k \in S : LaterIn(h2, "pre", k) # 1
    BY <1>5, <1>7
  <2>2. QED
    BY <1>2, <1>6, <2>1
<1>12. PresIn(h2) = << m >> \o PresIn(h)
  <2> DEFINE P == PresIn(h)
             P2 == PresIn(h2)
  <2>1. P = [j \in 1 .. c |-> h[pick(j)][2]]
    BY DEF PresIn
  <2>2. P2 = [j \in 1 .. c + 1 |-> h2[pick2(j)][2]]
    BY <1>8 DEF PresIn
  <2> HIDE DEF pick, pick2, P, P2
  <2>3. \A j \in 1 .. c : P[j] \in UserMws
    <3> SUFFICES ASSUME NEW j \in 1 .. c PROVE P[j] \in UserMws
      OBVIOUS
    <3>1. h[pick(j)] \in CallRec
      BY <1>10, ElementOfSeq
    <3>2. QED
      BY <2>1, <3>1 DEF CallRec
  <2>4. P \in [1 .. c -> UserMws]
    BY <2>1, <2>3
  <2>5. P \in Seq(UserMws) /\ Len(P) = c
    BY <2>4, <1>3, SeqDef
  <2>6. (<< m >> \o P) \in Seq(UserMws) /\ Len(<< m >> \o P) = c + 1
    BY <2>5, ConcatProperties
  <2>7. ASSUME NEW j \in 1 .. c + 1 PROVE P2[j] = (<< m >> \o P)[j]
    <3>1. CASE j = 1
      <4>1. P2[j] = m
        BY <3>1, <2>2, <1>9, <1>11
      <4>2. (<< m >> \o P)[j] = m
        BY <3>1, <2>5
      <4>3. QED
        BY <4>1, <4>2
    <3>2. CASE j # 1
      <4>1. j - 1 \in 1 .. c /\ j = (j - 1) + 1
        BY <3>2, <1>3
      <4>2. (<< m >> \o P)[j] = P[j - 1]
        BY <4>1, <2>5
      <4>3. P2[j] = h2[pick(j - 1)][2]
        BY <4>1, <2>2, <1>10
      <4>4. h2[pick(j - 1)] = h[pick(j - 1)]
        BY <4>1, <1>10, <1>4
      <4>5. QED
        BY <4>1, <4>2, <4>3, <4>4, <2>1
    <3>3. QED
      BY <3>1, <3>2
  <2>8. P2 \in [1 .. c + 1 -> UserMws]
    BY <2>2, <2>6, <2>7, ElementOfSeq
  <2>9. P2 \in Seq(UserMws) /\ Len(P2) = c + 1
    BY <2>8, <1>3, SeqDef
  <2>10. P2 = << m >> \o P
    BY <2>6, <2>7, <2>9, SeqEqual
  <2>11. QED
    BY <2>10 DEF P, P2
<1>13. AddsIn(h2) = AddsIn(h)
  <2> DEFINE A2 == CallsIn(h2, "add")
             apick(j) == CHOOSE k \in A : EarlierIn(h, "add", k) = j
             apick2(j) == CHOOSE k \in A2 : EarlierIn(h2, "add", k) = j
  <2>1. ASSUME NEW j \in 1 .. Cardinality(A)
        PROVE  apick2(j) = apick(j) /\ apick(j) \in 1 .. n
    <3>1. \A k : (k \in A2 /\ EarlierIn(h2, "add", k) = j)
                 <=> (k \in A /\ EarlierIn(h, "add", k) = j)
      BY <1>2 DEF EarlierIn
    <3>2. apick2(j) = apick(j)
      BY <3>1
    <3>3. \E k \in A : EarlierIn(h, "add", k) = j
      BY DEF RanksTaken
    <3>4. QED
      BY <3>2, <3>3, <1>3
  <2>2. AddsIn(h) = [j \in 1 .. Cardinality(A) |-> h[apick(j)][2]]
    BY DEF AddsIn
  <2>3. AddsIn(h2) = [j \in 1 .. Cardinality(A) |-> h2[apick2(j)][2]]
    BY <1>2 DEF AddsIn
  <2> HIDE DEF apick, apick2
  <2>4. \A j \in 1 .. Cardinality(A) : h2[apick2(j)] = h[apick(j)]
    BY <2>1, <1>4
  <2>5. QED
    BY <2>2, <2>3, <2>4
<1>14. RanksTaken(h2)
  <2>1. ASSUME NEW j \in 1 .. c + 1 PROVE \E k \in S2 : LaterIn(h2, "pre", k) = j
    <3>1. CASE j = 1
      BY <3>1, <1>6, <1>9
    <3>2. CASE j # 1
      <4>1. PICK k \in S : LaterIn(h, "pre", k) = j - 1
        BY <3>2, <1>3 DEF RanksTaken
      <4>2. QED
        BY <4>1, <1>2, <1>5
    <3>3. QED
      BY <3>1, <3>2
  <2>2. \A j \in 1 .. Cardinality(A) : \E k \in A : EarlierIn(h2, "add", k) = j
    BY <1>2 DEF RanksTaken, EarlierIn
  <2>3. QED
    BY <1>2, <1>8, <2>1, <2>2 DEF RanksTaken
<1>15. QED
  BY <1>12, <1>13, <1>14

(* AddMiddleware's call goes last in Adds and leaves Pres alone. *)
LEMMA AddAppend ==
    ASSUME NEW h \in Seq(CallRec), NEW m \in UserMws, RanksTaken(h)
    PROVE  LET h2 == Append(h, << "add", m >>) IN
           /\ AddsIn(h2) = Append(AddsIn(h), m)
           /\ PresIn(h2) = PresIn(h)
           /\ RanksTaken(h2)
<1> DEFINE x == << "add", m >>
           h2 == Append(h, x)
           n == Len(h)
           A == CallsIn(h, "add")
           A2 == CallsIn(h2, "add")
           S == CallsIn(h, "pre")
           c == Cardinality(A)
<1>1. x \in CallRec /\ h2 \in Seq(CallRec) /\ n \in Nat
  BY AppendProperties DEF CallRec
<1>2. A2 = A \cup {n + 1} /\ CallsIn(h2, "pre") = S
  BY <1>1, CallsAppend
<1>3. /\ A \subseteq 1 .. n /\ IsFiniteSet(A) /\ c \in Nat
      /\ S \subseteq 1 .. n
  BY CallsFinite
<1>4. \A k \in 1 .. n : h2[k] = h[k]
  BY AppendProperties
<1>5. ASSUME NEW k \in A PROVE EarlierIn(h2, "add", k) = EarlierIn(h, "add", k)
  <2>1. {l \in A2 : l <= k} = {l \in A : l <= k}
    BY <1>2, <1>3
  <2>2. QED
    BY <2>1 DEF EarlierIn
<1>6. EarlierIn(h2, "add", n + 1) = c + 1
  <2>1. {l \in A2 : l <= n + 1} = A \cup {n + 1} /\ n + 1 \notin A
    BY <1>2, <1>3
  <2>2. QED
    BY <2>1, <1>3, FS_AddElement DEF EarlierIn
<1>7. \A k \in A : EarlierIn(h, "add", k) \in 1 .. c
  BY RankBounds
<1>8. Cardinality(A2) = c + 1 /\ n + 1 \in A2 /\ h2[n + 1] = x
  <2>1. n + 1 \notin A
    BY <1>3
  <2>2. QED
    BY <1>2, <1>3, <2>1, FS_AddElement, AppendProperties
<1> DEFINE pick(j) == CHOOSE k \in A : EarlierIn(h, "add", k) = j
           pick2(j) == CHOOSE k \in A2 : EarlierIn(h2, "add", k) = j
(* The call of rank j <= c keeps its rank; the new call has rank c + 1. *)
<1>9. ASSUME NEW j \in 1 .. c
      PROVE  pick2(j) = pick(j) /\ pick(j) \in 1 .. n
  <2>1. \A k : (k \in A2 /\ EarlierIn(h2, "add", k) = j)
               <=> (k \in A /\ EarlierIn(h, "add", k) = j)
    BY <1>2, <1>5, <1>6, <1>7, <1>3
  <2>2. pick2(j) = pick(j)
    BY <2>1
  <2>3. \E k \in A : EarlierIn(h, "add", k) = j
    BY DEF RanksTaken
  <2>4. QED
    BY <2>2, <2>3, <1>3
<1>10. pick2(c + 1) = n + 1
  <2>1. \A k \in A : EarlierIn(h2, "add", k) # c + 1
    BY <1>5, <1>7, <1>3
  <2>2. QED
    BY <1>2, <1>6, <2>1
<1>11. AddsIn(h2) = Append(AddsIn(h), m)
  <2> DEFINE P == AddsIn(h)
             P2 == AddsIn(h2)
  <2>1. P = [j \in 1 .. c |-> h[pick(j)][2]]
    BY DEF AddsIn
  <2>2. P2 = [j \in 1 .. c + 1 |-> h2[pick2(j)][2]]
    BY <1>8 DEF AddsIn
  <2> HIDE DEF pick, pick2, P, P2
  <2>3. \A j \in 1 .. c : P[j] \in UserMws
    <3> SUFFICES ASSUME NEW j \in 1 .. c PROVE P[j] \in UserMws
      OBVIOUS
    <3>1. h[pick(j)] \in CallRec
      BY <1>9, ElementOfSeq
    <3>2. QED
      BY <2>1, <3>1 DEF CallRec
  <2>4. P \in [1 .. c -> UserMws]
    BY <2>1, <2>3
  <2>5. P \in Seq(UserMws) /\ Len(P) = c
    BY <2>4, <1>3, SeqDef
  <2>6. Append(P, m) \in Seq(UserMws) /\ Len(Append(P, m)) = c + 1
    BY <2>5, AppendProperties
  <2>7. ASSUME NEW j \in 1 .. c + 1 PROVE P2[j] = Append(P, m)[j]
    <3>1. CASE j = c + 1
      <4>1. P2[j] = m
        BY <3>1, <2>2, <1>8, <1>10
      <4>2. Append(P, m)[j] = m
        BY <3>1, <2>5, AppendProperties
      <4>3. QED
        BY <4>1, <4>2
    <3>2. CASE j # c + 1
      <4>1. j \in 1 .. c
        BY <3>2, <1>3
      <4>2. Append(P, m)[j] = P[j]
        BY <4>1, <2>5, AppendProperties
      <4>3. P2[j] = h2[pick(j)][2]
        BY <4>1, <2>2, <1>9
      <4>4. h2[pick(j)] = h[pick(j)]
        BY <4>1, <1>9, <1>4
      <4>5. QED
        BY <4>1, <4>2, <4>3, <4>4, <2>1
    <3>3. QED
      BY <3>1, <3>2
  <2>8. P2 \in [1 .. c + 1 -> UserMws]
    BY <2>2, <2>6, <2>7, ElementOfSeq
  <2>9. P2 \in Seq(UserMws) /\ Len(P2) = c + 1
    BY <2>8, <1>3, SeqDef
  <2>10. P2 = Append(P, m)
    BY <2>6, <2>7, <2>9, SeqEqual
  <2>11. QED
    BY <2>10 DEF P, P2
<1>12. PresIn(h2) = PresIn(h)
  <2> DEFINE S2 == CallsIn(h2, "pre")
             ppick(j) == CHOOSE k \in S : LaterIn(h, "pre", k) = j
             ppick2(j) == CHOOSE k \in S2 : LaterIn(h2, "pre", k) = j
  <2>1. ASSUME NEW j \in 1 .. Cardinality(S)
        PROVE  ppick2(j) = ppick(j) /\ ppick(j) \in 1 .. n
    <3>1. \A k : (k \in S2 /\ LaterIn(h2, "pre", k) = j)
                 <=> (k \in S /\ LaterIn(h, "pre", k) = j)
      BY <1>2 DEF LaterIn
    <3>2. ppick2(j) = ppick(j)
      BY <3>1
    <3>3. \E k \in S : LaterIn(h, "pre", k) = j
      BY DEF RanksTaken
    <3>4. QED
      BY <3>2, <3>3, <1>3
  <2>2. PresIn(h) = [j \in 1 .. Cardinality(S) |-> h[ppick(j)][2]]
    BY DEF PresIn
  <2>3. PresIn(h2) = [j \in 1 .. Cardinality(S) |-> h2[ppick2(j)][2]]
    BY <1>2 DEF PresIn
  <2> HIDE DEF ppick, ppick2
  <2>4. \A j \in 1 .. Cardinality(S) : h2[ppick2(j)] = h[ppick(j)]
    BY <2>1, <1>4
  <2>5. QED
    BY <2>2, <2>3, <2>4
<1>13. RanksTaken(h2)
  <2>1. ASSUME NEW j \in 1 .. c + 1 PROVE \E k \in A2 : EarlierIn(h2, "add", k) = j
    <3>1. CASE j = c + 1
      BY <3>1, <1>6, <1>8
    <3>2. CASE j # c + 1
      <4>1. PICK k \in A : EarlierIn(h, "add", k) = j
        BY <3>2, <1>3 DEF RanksTaken
      <4>2. QED
        BY <4>1, <1>2, <1>5
    <3>3. QED
      BY <3>1, <3>2
  <2>2. \A j \in 1 .. Cardinality(S) : \E k \in S : LaterIn(h2, "pre", k) = j
    BY <1>2 DEF RanksTaken, LaterIn
  <2>3. QED
    BY <1>2, <1>8, <2>1, <2>2 DEF RanksTaken
<1>14. QED
  BY <1>11, <1>12, <1>13

(* Pres and Adds of a history whose ranks are all taken are sequences of  *)
(* user middlewares.                                                       *)
LEMMA RankedType ==
    ASSUME NEW h \in Seq(CallRec), RanksTaken(h)
    PROVE  PresIn(h) \in Seq(UserMws) /\ AddsIn(h) \in Seq(UserMws)
<1>1. PresIn(h) \in Seq(UserMws)
  <2> DEFINE S == CallsIn(h, "pre")
             pick(j) == CHOOSE k \in S : LaterIn(h, "pre", k) = j
  <2>1. Cardinality(S) \in Nat /\ S \subseteq 1 .. Len(h)
    BY CallsFinite
  <2>2. \A j \in 1 .. Cardinality(S) : pick(j) \in 1 .. Len(h)
    BY <2>1 DEF RanksTaken
  <2>3. \A j \in 1 .. Cardinality(S) : h[pick(j)][2] \in UserMws
    <3> SUFFICES ASSUME NEW j \in 1 .. Cardinality(S) PROVE h[pick(j)][2] \in UserMws
      OBVIOUS
    <3>1. h[pick(j)] \in CallRec
      BY <2>2, ElementOfSeq
    <3>2. QED
      BY <3>1 DEF CallRec
  <2>4. PresIn(h) = [j \in 1 .. Cardinality(S) |-> h[pick(j)][2]]
    BY DEF PresIn
  <2> HIDE DEF pick
  <2>5. QED
    BY <2>1, <2>3, <2>4, SeqDef
<1>2. AddsIn(h) \in Seq(UserMws)
  <2> DEFINE A == CallsIn(h, "add")
             pick(j) == CHOOSE k \in A : EarlierIn(h, "add", k) = j
  <2>1. Cardinality(A) \in Nat /\ A \subseteq 1 .. Len(h)
    BY CallsFinite
  <2>2. \A j \in 1 .. Cardinality(A) : pick(j) \in 1 .. Len(h)
    BY <2>1 DEF RanksTaken
  <2>3. \A j \in 1 .. Cardinality(A) : h[pick(j)][2] \in UserMws
    <3> SUFFICES ASSUME NEW j \in 1 .. Cardinality(A) PROVE h[pick(j)][2] \in UserMws
      OBVIOUS
    <3>1. h[pick(j)] \in CallRec
      BY <2>2, ElementOfSeq
    <3>2. QED
      BY <3>1 DEF CallRec
  <2>4. AddsIn(h) = [j \in 1 .. Cardinality(A) |-> h[pick(j)][2]]
    BY DEF AddsIn
  <2> HIDE DEF pick
  <2>5. QED
    BY <2>1, <2>3, <2>4, SeqDef
<1>3. QED
  BY <1>1, <1>2

(* Pres, Adds and the rank conjuncts of CInv are those of hist. *)
LEMMA HistLink ==
    /\ Pres = PresIn(hist) /\ Adds = AddsIn(hist)
    /\ Pres' = PresIn(hist') /\ Adds' = AddsIn(hist')
    /\ CInv <=> /\ TypeOK
                /\ pc = "built" => mws = Pres \o Defaults(env) \o Adds
                /\ RanksTaken(hist)
                /\ ChainAsDocumented
    /\ CInv' <=> /\ TypeOK'
                 /\ pc' = "built" => mws' = Pres' \o Defaults(env') \o Adds'
                 /\ RanksTaken(hist')
                 /\ ChainAsDocumented'
  BY DEF Pres, Adds, PresIn, AddsIn, CallsOf, CallsIn, Later, LaterIn,
         Earlier, EarlierIn, CInv, RanksTaken

(* Run wraps the list Pres ++ Defaults ++ Adds between prometheus and     *)
(* recovery; regrouping the concatenation gives the documented order.      *)
LEMMA ChainRegroup ==
    ASSUME NEW S, NEW w \in Seq(S), NEW x \in Seq(S), NEW y \in Seq(S),
           NEW z \in Seq(S)
    PROVE  w \o ((x \o y) \o z) = ((w \o x) \o y) \o z
<1>1. x \o y \in Seq(S)
  BY ConcatProperties
<1>2. w \o ((x \o y) \o z) = (w \o (x \o y)) \o z
  BY <1>1, ConcatAssociative, SMTT(60)
<1>3. (w \o x) \o y = w \o (x \o y)
  BY ConcatAssociative, SMTT(60)
<1>4. QED
  BY <1>2, <1>3

(* With no call made, Pres and Adds are empty. *)
LEMMA EmptyHist ==
    PresIn(<< >>) = << >> /\ AddsIn(<< >>) = << >> /\ RanksTaken(<< >>)
<1>1. CallsIn(<< >>, "pre") = {} /\ CallsIn(<< >>, "add") = {}
  BY DEF CallsIn
<1>2. Cardinality({}) = 0
  BY FS_EmptySet
<1>3. 1 .. Cardinality(CallsIn(<< >>, "pre")) = {} /\ 1 .. Cardinality(CallsIn(<< >>, "add")) = {}
  <2>1. Cardinality(CallsIn(<< >>, "pre")) = 0 /\ Cardinality(CallsIn(<< >>, "add")) = 0
    BY <1>1, <1>2, Zenon
  <2>2. QED
    BY <2>1
<1>4. RanksTaken(<< >>)
  BY <1>3 DEF RanksTaken
<1>5. PresIn(<< >>) = << >>
  <2>1. DOMAIN PresIn(<< >>) = {}
    BY <1>3 DEF PresIn
  <2>2. QED
    BY <2>1 DEF PresIn
<1>6. AddsIn(<< >>) = << >>
  <2>1. DOMAIN AddsIn(<< >>) = {}
    BY <1>3 DEF AddsIn
  <2>2. QED
    BY <2>1 DEF AddsIn
<1>7. QED
  BY <1>4, <1>5, <1>6

LEMMA CInvInit == Init => CInv
<1> SUFFICES ASSUME Init PROVE CInv
  OBVIOUS
<1>1. TypeOK
  BY TypeInit
<1>2. Defaults(env) \in MwSeqs
  BY DefaultsType DEF Init
<1>3. mws = << >> \o Defaults(env) \o << >>
  BY <1>2, ConcatEmptySeq DEF Init, MwSeqs
<1>4. PresIn(hist) = << >> /\ AddsIn(hist) = << >> /\ RanksTaken(hist)
  BY EmptyHist DEF Init
<1>5. QED
  BY <1>1, <1>3, <1>4, HistLink DEF Init, ChainAsDocumented

(* A user middleware list is a list of middleware names. *)
LEMMA UserSeqs ==
    ASSUME NEW l \in Seq(UserMws) PROVE l \in MwSeqs
  BY DEF MwSeqs, MwNames

LEMMA CInvStep == CInv /\ [Next]_vars => CInv'
<1> SUFFICES ASSUME CInv, [Next]_vars PROVE CInv'
  OBVIOUS
<1> DEFINE P == PresIn(hist)
           Ad == AddsIn(hist)
           D == Defaults(env)
<1>1. /\ TypeOK
      /\ pc = "built" => mws = P \o D \o Ad
      /\ RanksTaken(hist)
      /\ ChainAsDocumented
  BY HistLink
<1>2. /\ hist \in Seq(CallRec)
      /\ P \in MwSeqs /\ Ad \in MwSeqs /\ D \in MwSeqs
      /\ P \in Seq(UserMws) /\ Ad \in Seq(UserMws)
  <2>1. hist \in Seq(CallRec)
    BY <1>1 DEF TypeOK, CallRec
  <2>2. P \in Seq(UserMws) /\ Ad \in Seq(UserMws)
    BY <2>1, <1>1, RankedType
  <2>3. QED
    BY <1>1, <2>1, <2>2, UserSeqs, DefaultsType DEF TypeOK
<1>3. TypeOK'
  BY <1>1, TypeStep
<1> DEFINE G == /\ pc' = "built" => mws' = PresIn(hist') \o Defaults(env') \o AddsIn(hist')
               /\ RanksTaken(hist')
               /\ ChainAsDocumented'
<1> SUFFICES G
  BY <1>3, HistLink
(* The steps that touch neither the list, the calls nor the routes. *)
<1>4. ASSUME UNCHANGED <<env, mws, biz, hist, reg, chain>>,
             pc' = "built" <=> pc = "built",
             pc' # "built" => pc # "built"
      PROVE  G
  BY <1>4, <1>1, HistLink DEF ChainAsDocumented
<1>5. ASSUME NEW r \in Routes, AddRoute(r) PROVE G
  <2>1. /\ pc' = "built" => mws' = PresIn(hist') \o Defaults(env') \o AddsIn(hist')
        /\ RanksTaken(hist')
    BY <1>5, <1>1 DEF AddRoute
  <2>2. ChainAsDocumented'
    BY <1>5 DEF AddRoute, ChainAsDocumented
  <2>3. QED
    BY <2>1, <2>2
<1>6. ASSUME NEW m \in UserMws, AddMiddleware(m) PROVE G
  <2>1. hist' = Append(hist, << "add", m >>) /\ pc = "built" /\ pc' = "built"
        /\ env' = env /\ mws' = Append(mws, m)
    BY <1>6 DEF AddMiddleware
  <2>2. /\ AddsIn(hist') = Append(Ad, m)
        /\ PresIn(hist') = P
        /\ RanksTaken(hist')
    BY <2>1, <1>1, <1>2, AddAppend
  <2>3. m \in MwNames /\ << m >> \in MwSeqs /\ P \o D \in MwSeqs
    BY <1>2, ConcatProperties DEF MwNames, MwSeqs
  <2>4. Append(mws, m) = (P \o D \o Ad) \o << m >>
    <3>1. Append(mws, m) = mws \o << m >>
      BY <1>1, <2>3, AppendIsConcat, SMTT(60) DEF TypeOK
    <3>2. QED
      BY <3>1, <1>1, <2>1
  <2>5. (P \o D \o Ad) \o << m >> = (P \o D) \o (Ad \o << m >>)
    BY <1>2, <2>3, ConcatAssociative, SMTT(60) DEF MwSeqs
  <2>6. Ad \o << m >> = Append(Ad, m)
    BY <1>2, <2>3, AppendIsConcat, SMTT(60) DEF MwSeqs
  <2>7. mws' = PresIn(hist') \o Defaults(env') \o AddsIn(hist')
    BY <2>1, <2>2, <2>4, <2>5, <2>6
  <2>8. ChainAsDocumented'
    BY <2>1 DEF ChainAsDocumented
  <2>9. QED
    BY <2>2, <2>7, <2>8
<1>7. ASSUME NEW m \in UserMws, PreMiddleware(m) PROVE G
  <2>1. hist' = Append(hist, << "pre", m >>) /\ pc = "built" /\ pc' = "built"
        /\ env' = env /\ mws' = << m >> \o mws
    BY <1>7 DEF PreMiddleware
  <2>2. /\ PresIn(hist') = << m >> \o P
        /\ AddsIn(hist') = Ad
        /\ RanksTaken(hist')
    BY <2>1, <1>1, <1>2, PreAppend
  <2>3. << m >> \in MwSeqs /\ P \o D \in MwSeqs
    BY <1>2, ConcatProperties DEF MwNames, MwSeqs
  <2>4. << m >> \o ((P \o D) \o Ad) = (<< m >> \o (P \o D)) \o Ad
    BY <1>2, <2>3, ConcatAssociative, SMTT(60) DEF MwSeqs
  <2>5. << m >> \o (P \o D) = (<< m >> \o P) \o D
    BY <1>2, <2>3, ConcatAssociative, SMTT(60) DEF MwSeqs
  <2>6. mws' = PresIn(hist') \o Defaults(env') \o AddsIn(hist')
    BY <1>1, <2>1, <2>2, <2>4, <2>5
  <2>7. ChainAsDocumented'
    BY <2>1 DEF ChainAsDocumented
  <2>8. QED
    BY <2>2, <2>6, <2>7
<1>8. CASE Run
  <2> DEFINE O == Opt(env["manage"], "prometheus")
             R == << "recovery" >>
  <2>1. /\ pc = "built" /\ pc' = "serving"
        /\ UNCHANGED <<env, biz, hist>>
        /\ reg' = Range(biz)
        /\ \A r \in reg' : chain'[r] = O \o mws \o R
    <3>1. Range(biz) \subseteq Routes
      BY <1>1 DEF TypeOK, Range
    <3>2. QED
      BY <1>8, <3>1 DEF Run
  <2>2. O \in MwSeqs /\ R \in MwSeqs /\ O \o P \in MwSeqs /\ P \o D \in MwSeqs
    <3>1. O \in MwSeqs
      BY <1>1, OptType DEF TypeOK, Flags, MwNames, Builtin
    <3>2. QED
      BY <3>1, <1>2, ConcatProperties DEF MwSeqs, MwNames, Builtin
  <2>3. O \o ((P \o D) \o Ad) = ((O \o P) \o D) \o Ad
    <3>1. /\ O \in Seq(MwNames) /\ P \in Seq(MwNames)
          /\ D \in Seq(MwNames) /\ Ad \in Seq(MwNames)
      BY <1>2, <2>2 DEF MwSeqs
    <3> HIDE DEF O, P, D, Ad
    <3>2. QED
      BY <3>1, ChainRegroup, SMTT(60)
  <2>4. \A r \in reg' : chain'[r] = O \o P \o D \o Ad \o R
    BY <1>1, <2>1, <2>3
  <2>5. ChainAsDocumented'
    BY <2>1, <2>4, HistLink DEF ChainAsDocumented
  <2>6. QED
    BY <1>1, <2>1, <2>5
<1>9. CASE ListenAndServe \/ Signal \/ Shutdown \/ Accept \/ Finish \/ Drain \/ Deadline
  <2>1. /\ UNCHANGED <<env, mws, biz, hist, reg, chain>>
        /\ pc' = "built" <=> pc = "built"
        /\ pc' # "built" => pc # "built"
    BY <1>9, <1>1 DEF ListenAndServe, Signal, Shutdown, Accept, Finish, Drain, Deadline, TypeOK, Pcs
  <2>2. QED
    BY <2>1, <1>4
<1>10. CASE UNCHANGED vars
  BY <1>10, <1>4 DEF vars
<1>11. QED
  BY <1>5, <1>6, <1>7, <1>8, <1>9, <1>10 DEF Next

(* Whatever AddMiddleware, PreMiddleware and AddRoute calls precede Run,  *)
(* every route added is served with prometheus (GDD_MANAGE), the          *)
(* PreMiddleware'd middlewares latest first, the defaults, the            *)
(* AddMiddleware'd ones in call order and recovery innermost, as the doc   *)
(* comments of PreMiddleware and AddMiddleware promise.                    *)
THEOREM ChainDocumented == Spec => []ChainAsDocumented
<1>1. CInv => ChainAsDocumented
  BY DEF CInv
<1>2. QED
  BY CInvInit, CInvStep, <1>1, PTL DEF Spec
=============================================================================
