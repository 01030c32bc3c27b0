----------------------------- MODULE SeedsProofs -----------------------------
(***************************************************************************)
(* Proofs about seeds() (framework/registry/node.go:35-55): with MEM_PORT  *)
(* at its default, the loop rewrites every field of MEM_SEED as the        *)
(* specification says, and it implements SeedsLoop's safety part, for      *)
(* every alphabet and input length.  Itoa and Atoi are never unfolded: the *)
(* facts below hold whatever digits they produce.                          *)
(***************************************************************************)
EXTENDS Seeds, SequenceTheorems, FiniteSetTheorems, WellFoundedInduction, TLAPS

(* The numeric part of SeedsAssumption. *)
LEMMA SeedsNumbers ==
    MaxLen \in Nat /\ DefaultGddMemPort \in Nat /\ GddMemPort \in Nat
  BY SeedsAssumption, Zenon

(* The less-than relation on Nat, as WellFoundedInduction's OpToRel. *)
NatLess == {ss \in Nat \X Nat : ss[1] < ss[2]}

LEMMA NatLessWellFounded == IsWellFoundedOn(NatLess, Nat)
<1>1. NatLess = OpToRel(<, Nat)
  BY Zenon DEF NatLess, OpToRel
<1>2. QED
  BY <1>1, NatLessThanWellFounded, Zenon

(* A non-empty set of positions 1 .. n has a largest element, and Max     *)
(* (FiniteSetsExt) picks it.                                               *)
LEMMA MaxOfPositions ==
    ASSUME NEW n \in Nat, NEW I \in SUBSET (1 .. n), I # {}
    PROVE  Max(I) \in I /\ \A y \in I : Max(I) >= y
<1> DEFINE T == {n - y : y \in I}
<1>1. T \subseteq Nat /\ T # {}
  <2>1. \A y \in I : n - y \in Nat
    OBVIOUS
  <2>2. T \subseteq Nat
    BY <2>1
  <2>3. T # {}
    OBVIOUS
  <2>4. QED
    BY <2>2, <2>3
<1>2. \E t \in T : \A u \in T : ~(<< u, t >> \in NatLess)
  BY <1>1, NatLessWellFounded, WFMin, Zenon
<1>3. \E x \in I : \A y \in I : x >= y
  <2>1. PICK t \in T : \A u \in T : ~(<< u, t >> \in NatLess)
    BY <1>2
  <2>2. \A u \in T : ~(u < t)
    BY <2>1, <1>1 DEF NatLess
  <2>3. PICK x \in I : t = n - x
    BY <2>1
  <2>4. \A y \in I : y \in 1 .. n
    OBVIOUS
  <2>5. \A y \in I : x >= y
    BY <2>2, <2>3, <2>4
  <2>6. QED
    BY <2>5
<1>4. QED
  BY <1>3 DEF Max

(* strings.LastIndex(seed, ":"), 1-based: the last colon, or 0. *)
LEMMA LastIndexDef ==
    ASSUME NEW f
    PROVE  SelectLastInSeq(f, LAMBDA c : c = ColonChar) =
              LET I == {j \in 1 .. Len(f) : f[j] = ColonChar} IN IF I # {} THEN Max(I) ELSE 0
  BY Zenon DEF SelectLastInSeq

(* With MEM_PORT at its default, one iteration of the loop body rewrites a *)
(* field that does not end in ':' exactly as the specification says: the  *)
(* "no colon" and "bad port" branches use config.DefaultGddMemPort, which  *)
(* is then the configured port.                                            *)
LEMMA FixSeedAsSpecified ==
    ASSUME GddMemPort = DefaultGddMemPort,
           NEW T, NEW f \in Seq(T), ~EndsWithColon(f)
    PROVE  FixSeed(f) = RefSeed(f)
<1> DEFINE li == SelectLastInSeq(f, LAMBDA c : c = ColonChar)
           I == {j \in 1 .. Len(f) : f[j] = ColonChar}
           host == SubSeq(f, 1, li - 1)
           port == SubSeq(f, li + 1, Len(f))
<1>1. li = IF I # {} THEN Max(I) ELSE 0
  BY LastIndexDef, Zenon
<1>2. FixSeed(f) =
        IF li = 0 THEN f \o Colon \o Itoa[DefaultGddMemPort]
        ELSE IF Len(f) > li
             THEN IF IsInt(port) THEN host \o Colon \o Itoa[Atoi(port)]
                                 ELSE host \o Colon \o Itoa[DefaultGddMemPort]
             ELSE f
  BY Zenon DEF FixSeed
<1>3. RefSeed(f) =
        (IF li = 0 THEN f ELSE host) \o Colon
        \o Itoa[IF IsInt(IF li = 0 THEN << >> ELSE port) THEN Atoi(IF li = 0 THEN << >> ELSE port)
                ELSE GddMemPort]
  BY Zenon DEF RefSeed
<1> HIDE DEF li
<1>4. CASE I = {}
  <2>1. ~IsInt(<< >>)
    BY DEF IsInt
  <2>2. li = 0
    BY <1>1, <1>4
  <2>3. QED
    BY <1>2, <1>3, <2>1, <2>2
<1>5. CASE I # {}
  <2>1. li \in I
    <3>1. Len(f) \in Nat /\ I \in SUBSET (1 .. Len(f))
      BY LenProperties
    <3>2. Max(I) \in I
      BY <3>1, <1>5, MaxOfPositions
    <3>3. QED
      BY <3>2, <1>1, <1>5
  <2>2. li \in 1 .. Len(f) /\ f[li] = ColonChar
    BY <2>1
  <2>3. Len(f) > li /\ li # 0
    BY <2>2 DEF EndsWithColon
  <2>4. CASE IsInt(port)
    BY <1>2, <1>3, <2>3, <2>4
  <2>5. CASE ~IsInt(port)
    BY <1>2, <1>3, <2>3, <2>5
  <2>6. QED
    BY <2>4, <2>5
<1>6. QED
  BY <1>4, <1>5
-----------------------------------------------------------------------------
(***************************************************************************)
(* strings.Split: the cuts are in range, so every field is a substring.    *)
(***************************************************************************)

(* The commas are among the positions of x: a finite set. *)
LEMMA CommasFinite ==
    ASSUME NEW T, NEW x \in Seq(T)
    PROVE  /\ Commas(x) \subseteq 1 .. Len(x)
           /\ IsFiniteSet(Commas(x))
           /\ Cardinality(Commas(x)) \in Nat
<1>1. Commas(x) \subseteq 1 .. Len(x) /\ Len(x) \in Nat
  BY LenProperties DEF Commas
<1>2. IsFiniteSet(1 .. Len(x))
  BY <1>1, FS_Interval
<1>3. QED
  BY <1>1, <1>2, FS_Subset, FS_CardinalityType

(* Counting the commas at or before it numbers each comma 1 .. n, and two *)
(* different commas get different numbers: a comma further right has the *)
(* earlier ones and itself before it.                                      *)
LEMMA RankBounds ==
    ASSUME NEW C, IsFiniteSet(C), C \subseteq Nat, NEW p \in C
    PROVE  /\ IsFiniteSet({q \in C : q <= p})
           /\ Cardinality({q \in C : q <= p}) \in 1 .. Cardinality(C)
<1>1. IsFiniteSet({q \in C : q <= p})
      /\ Cardinality({q \in C : q <= p}) <= Cardinality(C)
  BY FS_Subset
<1>2. Cardinality({q \in C : q <= p}) \in Nat /\ Cardinality(C) \in Nat
  BY <1>1, FS_CardinalityType
<1>3. p \in {q \in C : q <= p}
  OBVIOUS
<1>4. Cardinality({q \in C : q <= p}) # 0
  BY <1>1, <1>3, FS_EmptySet
<1>5. QED
  BY <1>1, <1>2, <1>4

(* A later position has a strictly larger rank. *)
LEMMA RankMonotone ==
    ASSUME NEW C, IsFiniteSet(C), C \subseteq Nat,
           NEW a \in C, NEW b \in C, a < b
    PROVE  Cardinality({q \in C : q <= a}) < Cardinality({q \in C : q <= b})
<1> DEFINE Da == {q \in C : q <= a}
           Db == {q \in C : q <= b}
<1>1. Da \cup {b} \subseteq Db /\ b \notin Da
  <2>1. a \in Nat /\ b \in Nat
    OBVIOUS
  <2>2. \A q \in C : q <= a => q <= b
    BY <2>1
  <2>3. b \in Db /\ b \notin Da
    BY <2>1 DEF Da, Db
  <2>4. QED
    BY <2>2, <2>3, Zenon DEF Da, Db
<1>2. IsFiniteSet(Da) /\ IsFiniteSet(Db)
      /\ Cardinality(Da) \in Nat /\ Cardinality(Db) \in Nat
  <2>1. Da \subseteq C /\ Db \subseteq C
    BY DEF Da, Db
  <2>2. IsFiniteSet(Da) /\ IsFiniteSet(Db)
    BY <2>1, FS_Subset
  <2>3. QED
    BY <2>2, FS_CardinalityType
<1>3. Cardinality(Da \cup {b}) = Cardinality(Da) + 1
  <2>1. Cardinality(Da \cup {b})
        = IF b \in Da THEN Cardinality(Da) ELSE Cardinality(Da) + 1
    BY <1>2, FS_AddElement, ZenonT(30)
  <2>2. QED
    BY <1>1, <2>1
<1>4. Cardinality(Da \cup {b}) <= Cardinality(Db)
  BY <1>1, <1>2, FS_Subset
<1>5. QED
  BY <1>2, <1>3, <1>4

(* Ranking the commas by position hits every rank from 1 to their number. *)
LEMMA CommaRanks ==
    ASSUME NEW T, NEW x \in Seq(T)
    PROVE  \A k \in 1 .. Cardinality(Commas(x)) :
              \E p \in Commas(x) : Cardinality({q \in Commas(x) : q <= p}) = k
<1> DEFINE C == Commas(x)
           n == Cardinality(C)
           rk == [p \in C |-> Cardinality({q \in C : q <= p})]
<1>1. C \subseteq Nat /\ IsFiniteSet(C) /\ n \in Nat
  BY CommasFinite, LenProperties
<1>2. rk \in [C -> 1 .. n]
  BY <1>1, RankBounds DEF rk
<1>3. \A a, b \in C : rk[a] = rk[b] => a = b
  <2> SUFFICES ASSUME NEW a \in C, NEW b \in C, a # b PROVE rk[a] # rk[b]
    OBVIOUS
  <2>1. rk[a] = Cardinality({q \in C : q <= a})
        /\ rk[b] = Cardinality({q \in C : q <= b})
    BY DEF rk
  <2>2. rk[a] \in Nat /\ rk[b] \in Nat
    BY <1>1, <1>2
  <2>3. CASE a < b
    <3>1. Cardinality({q \in C : q <= a}) < Cardinality({q \in C : q <= b})
      BY <1>1, <2>3, RankMonotone, Zenon
    <3>2. QED
      BY <2>1, <2>2, <3>1
  <2>4. CASE b < a
    <3>1. Cardinality({q \in C : q <= b}) < Cardinality({q \in C : q <= a})
      BY <1>1, <2>4, RankMonotone, Zenon
    <3>2. QED
      BY <2>1, <2>2, <3>1
  <2>5. QED
    BY <1>1, <2>3, <2>4
<1>4. rk \in Injection(C, 1 .. n)
  <2>1. DOMAIN rk = C
    BY DEF rk
  <2>2. IsInjective(rk)
    BY <1>3, <2>1, Zenon DEF IsInjective
  <2>3. QED
    BY <1>2, <2>2, Zenon DEF Injection
<1>5. IsFiniteSet(1 .. n) /\ Cardinality(1 .. n) = n
  BY <1>1, FS_Interval
<1>6. rk \in Surjection(C, 1 .. n)
  BY <1>4, <1>5, FS_Injection, Zenon
<1>7. \A k \in 1 .. n : \E p \in C : rk[p] = k
  BY <1>6, Zenon DEF Surjection
<1>8. QED
  BY <1>7, Zenon DEF rk

(* Every cut lies between 0 and one past the end of x. *)
LEMMA CutBounds ==
    ASSUME NEW T, NEW x \in Seq(T), NEW k \in 0 .. Cardinality(Commas(x)) + 1
    PROVE  Cut(x, k) \in 0 .. Len(x) + 1
<1>1. Commas(x) \subseteq 1 .. Len(x) /\ Cardinality(Commas(x)) \in Nat /\ Len(x) \in Nat
  BY CommasFinite, LenProperties
<1>2. CASE k = 0
  BY <1>2 DEF Cut
<1>3. CASE k > Cardinality(Commas(x))
  BY <1>1, <1>3 DEF Cut
<1>4. CASE k \in 1 .. Cardinality(Commas(x))
  <2>1. \E p \in Commas(x) : Cardinality({q \in Commas(x) : q <= p}) = k
    BY <1>4, CommaRanks, Zenon
  <2>2. k # 0 /\ ~(k > Cardinality(Commas(x)))
    BY <1>1, <1>4
  <2>3. Cut(x, k) \in Commas(x)
    BY <2>1, <2>2, Zenon DEF Cut
  <2>4. QED
    BY <1>1, <2>3
<1>5. QED
  BY <1>1, <1>2, <1>3, <1>4

(* strings.Split returns one field per comma plus one, each a substring. *)
LEMMA SplitType ==
    ASSUME NEW T, NEW x \in Seq(T)
    PROVE  /\ Split(x) \in Seq(Seq(T))
           /\ Len(Split(x)) = Cardinality(Commas(x)) + 1
<1> DEFINE n == Cardinality(Commas(x))
<1>1. n \in Nat /\ Len(x) \in Nat
  BY CommasFinite, LenProperties
<1>2. ASSUME NEW j \in 1 .. n + 1
      PROVE  SubSeq(x, Cut(x, j - 1) + 1, Cut(x, j) - 1) \in Seq(T)
  <2>1. Cut(x, j - 1) \in 0 .. Len(x) + 1 /\ Cut(x, j) \in 0 .. Len(x) + 1
    BY <1>1, CutBounds
  <2>2. \A l \in Cut(x, j - 1) + 1 .. Cut(x, j) - 1 : x[l] \in T
    BY <1>1, <2>1, LenProperties
  <2>3. QED
    BY <2>1, <2>2, SubSeqProperties
<1>3. Split(x) \in [1 .. n + 1 -> Seq(T)]
  BY <1>2 DEF Split
<1>4. QED
  BY <1>1, <1>3, SeqDef, LenProperties

(* The list seeds() walks: empty for an empty MEM_SEED, else the fields. *)
LEMMA FieldsType ==
    ASSUME NEW x \in Inputs
    PROVE  Fields(x) \in Seq(Seq(Alphabet))
<1>1. x \in Seq(Alphabet)
  BY SeqDef DEF Inputs, BoundedSeq, SeqOf
<1>2. << >> \in Seq(Seq(Alphabet))
  BY EmptySeq
<1>3. QED
  BY <1>1, <1>2, SplitType DEF Fields

-----------------------------------------------------------------------------
(* A function on 1 .. n is a sequence of length n. *)
LEMMA LenOfDomain ==
    ASSUME NEW n \in Nat, NEW f, DOMAIN f = 1 .. n
    PROVE  Len(f) = n
  OBVIOUS

(* The loop starts with the list strings.Split returned, index at 1. *)
LEMMA SInvInit == Init => SInv
<1> SUFFICES ASSUME Init PROVE SInv
  OBVIOUS
<1> DEFINE F == Fields(seedstr)
<1>1. seedstr \in Inputs
  BY DEF Init
<1>2. F \in Seq(Seq(Alphabet))
  BY <1>1, FieldsType
<1>3. Len(F) \in Nat /\ F \in [1 .. Len(F) -> Seq(Alphabet)]
  BY <1>2, LenProperties
<1>4. s = F /\ i = 1
  BY DEF Init, Fields
<1>5. s = [j \in 1 .. Len(F) |-> IF j < i THEN FixSeed(F[j]) ELSE F[j]]
  BY <1>3, <1>4
<1>6. i \in 1 .. Len(F) + 1
  BY <1>3, <1>4
<1>7. QED
  BY <1>1, <1>5, <1>6, Zenon DEF SInv

(* One iteration of the range loop rewrites position i from its field and  *)
(* moves i on; positions it has passed are left alone.                     *)
LEMMA SInvStep == SInv /\ [Next]_vars => SInv'
<1> SUFFICES ASSUME SInv, [Next]_vars PROVE SInv'
  OBVIOUS
<1> DEFINE F == Fields(seedstr)
<1>1. seedstr \in Inputs /\ i \in 1 .. Len(F) + 1
      /\ s = [j \in 1 .. Len(F) |-> IF j < i THEN FixSeed(F[j]) ELSE F[j]]
  BY DEF SInv
<1>2. Len(F) \in Nat
  BY <1>1, FieldsType, LenProperties
<1>3. Len(s) = Len(F)
  BY <1>1, <1>2, LenOfDomain
<1>4. CASE Iterate
  <2>1. i <= Len(F) /\ seedstr' = seedstr /\ i' = i + 1
        /\ s' = [s EXCEPT ![i] = FixSeed(s[i])]
    BY <1>3, <1>4 DEF Iterate
  <2>2. Fields(seedstr') = F
    BY <2>1
  <2>3. s[i] = F[i]
    BY <1>1, <1>2, <2>1
  <2>4. s' = [j \in 1 .. Len(F) |-> IF j < i' THEN FixSeed(F[j]) ELSE F[j]]
    <3> DEFINE G == [j \in 1 .. Len(F) |-> IF j < i' THEN FixSeed(F[j]) ELSE F[j]]
    <3>1. s' = [s EXCEPT ![i] = FixSeed(F[i])]
      BY <2>1, <2>3
    <3>2. DOMAIN s' = 1 .. Len(F) /\ DOMAIN G = 1 .. Len(F)
      BY <1>1, <3>1
    <3>3. \A j \in 1 .. Len(F) : s'[j] = G[j]
      <4> SUFFICES ASSUME NEW j \in 1 .. Len(F) PROVE s'[j] = G[j]
        OBVIOUS
      <4>1. CASE j = i
        BY <1>1, <1>2, <2>1, <3>1, <4>1
      <4>2. CASE j # i
        <5>1. s'[j] = s[j]
          BY <1>1, <3>1, <4>2
        <5>2. (j < i) = (j < i')
          BY <1>1, <1>2, <2>1, <4>2
        <5>3. QED
          BY <1>1, <5>1, <5>2
      <4>3. QED
        BY <4>1, <4>2
    <3>4. QED
      BY <3>1, <3>2, <3>3, ZenonT(60)
  <2>5. /\ seedstr' \in Inputs
        /\ i' \in 1 .. Len(Fields(seedstr')) + 1
        /\ s' = [j \in 1 .. Len(Fields(seedstr')) |->
                   IF j < i' THEN FixSeed(Fields(seedstr')[j])
                   ELSE Fields(seedstr')[j]]
    <3>1. seedstr' \in Inputs /\ i' \in 1 .. Len(F) + 1
      BY <1>1, <1>2, <2>1
    <3>2. QED
      BY <3>1, <2>2, <2>4, Zenon
  <2>6. QED
    BY <2>5, Zenon DEF SInv
<1>5. CASE UNCHANGED vars
  BY <1>1, <1>5 DEF SInv, vars
<1>6. QED
  BY <1>4, <1>5 DEF Next

(* SInv holds in every state of seeds()'s loop. *)
LEMMA SInvInvariant == Spec => []SInv
  BY SInvInit, SInvStep, PTL DEF Spec

(* With MEM_PORT at its default, when seeds() returns it has produced one  *)
(* element per comma-separated field of MEM_SEED, and every field that     *)
(* does not end in ':' has become host:port as the specification says.     *)
THEOREM SeedsCorrect ==
    ASSUME GddMemPort = DefaultGddMemPort
    PROVE  Spec => []SeedsAsSpecified
<1>1. SInv => SeedsAsSpecified
  <2> SUFFICES ASSUME SInv, Done
               PROVE  LET F == IF seedstr = << >> THEN << >> ELSE Split(seedstr) IN
                      /\ Len(s) = Len(F)
                      /\ \A j \in 1 .. Len(F) :
                            ~EndsWithColon(F[j]) => s[j] = RefSeed(F[j])
    BY DEF SeedsAsSpecified
  <2> DEFINE F == Fields(seedstr)
  <2>1. seedstr \in Inputs /\ i \in 1 .. Len(F) + 1
        /\ s = [j \in 1 .. Len(F) |-> IF j < i THEN FixSeed(F[j]) ELSE F[j]]
    BY DEF SInv
  <2>2. F \in Seq(Seq(Alphabet)) /\ Len(F) \in Nat
    BY <2>1, FieldsType, LenProperties
  <2>3. Len(s) = Len(F)
    BY <2>1, <2>2, LenOfDomain
  <2>4. i = Len(F) + 1
    BY <2>1, <2>2, <2>3 DEF Done
  <2>5. ASSUME NEW j \in 1 .. Len(F), ~EndsWithColon(F[j])
        PROVE  s[j] = RefSeed(F[j])
    <3>1. s[j] = FixSeed(F[j])
      BY <2>1, <2>2, <2>4
    <3>2. F[j] \in Seq(Alphabet)
      BY <2>2, ElementOfSeq
    <3>3. FixSeed(F[j]) = RefSeed(F[j])
      BY <2>5, <3>2, FixSeedAsSpecified
    <3>4. QED
      BY <3>1, <3>3
  <2>6. QED
    BY <2>3, <2>5, Zenon DEF Fields
<1>2. QED
  BY <1>1, SInvInvariant, PTL

(* The range loop of seeds() implements SeedsLoop's safety part: it starts *)
(* from the split list with nothing rewritten, and each iteration rewrites *)
(* one position not rewritten before, from its original value.           *)
THEOREM LoopSafety ==
    Spec => Loop!Init /\ [][Loop!Next]_<<seedstr, s, 1 .. i - 1>>
<1>1. Init => Loop!Init
  BY DEF Init, Loop!Init, Fields
<1>2. SInv /\ [Next]_vars => [Loop!Next]_<<seedstr, s, 1 .. i - 1>>
  <2> SUFFICES ASSUME SInv, [Next]_vars
               PROVE  [Loop!Next]_<<seedstr, s, 1 .. i - 1>>
    OBVIOUS
  <2> DEFINE F == Fields(seedstr)
  <2>1. i \in 1 .. Len(F) + 1 /\ DOMAIN s = 1 .. Len(F)
    BY DEF SInv
  <2>2. Len(F) \in Nat
    BY FieldsType, LenProperties DEF SInv
  <2>3. CASE Iterate
    <3>1. i <= Len(F)
      BY <2>1, <2>2, <2>3, LenOfDomain DEF Iterate
    <3>2. i \in DOMAIN s \ (1 .. i - 1)
      BY <2>1, <2>2, <3>1
    <3>3. 1 .. i' - 1 = (1 .. i - 1) \cup {i}
      BY <2>1, <2>2, <2>3 DEF Iterate
    <3>4. Loop!Rewrite(i)
      BY <2>3, <3>2, <3>3 DEF Iterate, Loop!Rewrite
    <3>5. QED
      BY <3>2, <3>4 DEF Loop!Next
  <2>4. CASE UNCHANGED vars
    BY <2>4 DEF vars
  <2>5. QED
    BY <2>3, <2>4 DEF Next
<1>3. QED
  BY <1>1, <1>2, SInvInvariant, PTL DEF Spec
=============================================================================
