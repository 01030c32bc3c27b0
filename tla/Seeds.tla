------------------------------- MODULE Seeds -------------------------------
(***************************************************************************)
(* seeds() of framework/registry/node.go:35-55: the MEM_SEED list          *)
(* "host[:port],host[:port],..." rewritten in place, one element per loop  *)
(* iteration, so that every element carries a port.  Strings are sequences *)
(* of one-character strings; the alphabet is a constant.                   *)
(***************************************************************************)
EXTENDS Naturals, Sequences, SequencesExt

CONSTANTS
    Alphabet,           \* the characters an input may contain
    MaxLen,             \* bound on the input's length
    DefaultGddMemPort,  \* config.DefaultGddMemPort
    GddMemPort          \* the membership port actually configured (MEM_PORT)

Digits == [d \in {"0", "1", "2", "3", "4", "5", "6", "7", "8", "9"} |->
             CASE d = "0" -> 0 [] d = "1" -> 1 [] d = "2" -> 2 [] d = "3" -> 3
               [] d = "4" -> 4 [] d = "5" -> 5 [] d = "6" -> 6 [] d = "7" -> 7
               [] d = "8" -> 8 [] d = "9" -> 9]

(* The separators seeds() looks for. *)
ColonChar == ":"
CommaChar == ","

ASSUME SeedsAssumption ==
    /\ {ColonChar, CommaChar} \subseteq Alphabet
    /\ MaxLen \in Nat
    /\ DefaultGddMemPort \in Nat /\ GddMemPort \in Nat
    \* no "0" digit: a leading zero would make cast.ToIntE's base
    \* detection matter, which this model does not take a position on
    /\ "0" \notin Alphabet

Inputs == BoundedSeq(Alphabet, MaxLen)

(* strconv.Itoa / fmt "%d". *)
Itoa[n \in Nat] ==
    IF n < 10 THEN << CHOOSE d \in DOMAIN Digits : Digits[d] = n >>
              ELSE Itoa[n \div 10] \o << CHOOSE d \in DOMAIN Digits : Digits[d] = n % 10 >>

(* cast.ToIntE on a string: succeeds on a non-empty run of digits. *)
IsInt(s) == s # << >> /\ \A j \in 1 .. Len(s) : s[j] \in DOMAIN Digits
Atoi(s) == FoldLeft(LAMBDA acc, d : 10 * acc + Digits[d], 0, s)

(* strings.Split(seedstr, ","): one field more than there are commas.    *)
(* Field j runs from after cut j - 1 to before cut j, where cut 0 is the   *)
(* start, cut k the k-th comma (the one with k commas at or before it) and *)
(* the last cut one past the end.                                          *)
Commas(s) == {j \in 1 .. Len(s) : s[j] = CommaChar}
Cut(s, k) ==
    IF k = 0 THEN 0
    ELSE IF k > Cardinality(Commas(s)) THEN Len(s) + 1
    ELSE CHOOSE p \in Commas(s) : Cardinality({q \in Commas(s) : q <= p}) = k
Split(s) ==
    [j \in 1 .. Cardinality(Commas(s)) + 1 |-> SubSeq(s, Cut(s, j - 1) + 1, Cut(s, j) - 1)]

Colon == << ColonChar >>

(* Mutant of FixSeed: the host keeps the colon (seed[:li+1]). *)
FixSeedKeepColon(seed) ==
    LET li == SelectLastInSeq(seed, LAMBDA c : c = ColonChar)
        host == SubSeq(seed, 1, li)
        port == SubSeq(seed, li + 1, Len(seed))
    IN  IF li = 0 THEN seed \o Colon \o Itoa[DefaultGddMemPort]
        ELSE IF Len(seed) > li
             THEN IF IsInt(port) THEN host \o Colon \o Itoa[Atoi(port)]
                                 ELSE host \o Colon \o Itoa[DefaultGddMemPort]
             ELSE seed

(* One iteration of the loop body (node.go:41-52).  li is 1-based here,    *)
(* 0 when strings.LastIndex finds no colon.                                *)
FixSeed(seed) ==
    LET li == SelectLastInSeq(seed, LAMBDA c : c = ColonChar)
        host == SubSeq(seed, 1, li - 1)
        port == SubSeq(seed, li + 1, Len(seed))
    IN  IF li = 0 THEN seed \o Colon \o Itoa[DefaultGddMemPort]
        ELSE IF Len(seed) > li
             THEN IF IsInt(port) THEN host \o Colon \o Itoa[Atoi(port)]
                                 ELSE host \o Colon \o Itoa[DefaultGddMemPort]
             ELSE seed

VARIABLES
    seedstr,   \* the argument
    s,         \* the slice being rewritten
    i          \* loop index (1-based)

vars == <<seedstr, s, i>>

(* node.go:36-39: an empty string yields nil, else the split list. *)
Init ==
    /\ seedstr \in Inputs
    /\ s = IF seedstr = << >> THEN << >> ELSE Split(seedstr)
    /\ i = 1

(* Mutant of Iterate: the loop runs past the end of the slice. *)
IterateUnbounded ==
    /\ s' = [s EXCEPT ![i] = FixSeed(s[i])]
    /\ i' = i + 1
    /\ UNCHANGED seedstr

(* Mutant of Iterate: the loop stops before the last element. *)
IterateStopsEarly ==
    /\ i < Len(s)
    /\ s' = [s EXCEPT ![i] = FixSeed(s[i])]
    /\ i' = i + 1
    /\ UNCHANGED seedstr

(* node.go:40-53: one iteration of `for i, seed := range s`. *)
Iterate ==
    /\ i <= Len(s)
    /\ s' = [s EXCEPT ![i] = FixSeed(s[i])]
    /\ i' = i + 1
    /\ UNCHANGED seedstr

Next == Iterate

(* The loop runs on the calling goroutine and nothing blocks it. *)
Spec == Init /\ [][Next]_vars /\ WF_vars(Iterate)

Done == i > Len(s)

-----------------------------------------------------------------------------
(* What the specification (4.1) says a seed element becomes: host[:port]   *)
(* with a missing or unparseable port replaced by the configured port.     *)
RefSeed(f) ==
    LET li == SelectLastInSeq(f, LAMBDA c : c = ColonChar)
        host == IF li = 0 THEN f ELSE SubSeq(f, 1, li - 1)
        port == IF li = 0 THEN << >> ELSE SubSeq(f, li + 1, Len(f))
    IN  host \o Colon \o Itoa[IF IsInt(port) THEN Atoi(port) ELSE GddMemPort]

EndsWithColon(f) == f # << >> /\ f[Len(f)] = ColonChar

TypeOK ==
    /\ seedstr \in Inputs
    /\ s \in Seq(Seq(Alphabet \cup DOMAIN Digits))
    /\ i \in 1 .. Len(s) + 1

(* When seeds() returns, it returned one element per comma-separated field *)
(* of MEM_SEED, and every field that does not end in ':' became           *)
(* host:port as the specification says.                                    *)
SeedsAsSpecified ==
    Done =>
        LET F == IF seedstr = << >> THEN << >> ELSE Split(seedstr) IN
        /\ Len(s) = Len(F)
        /\ \A j \in 1 .. Len(F) : ~EndsWithColon(F[j]) => s[j] = RefSeed(F[j])

(* The loop implements SeedsLoop: index i walks the list once, so every  *)
(* position below i holds the rewrite of its field and the loop ends.      *)
Fields(x) == IF x = << >> THEN << >> ELSE Split(x)
(* The inductive invariant behind SeedsAsSpecified and LoopRefinement:    *)
(* the positions the loop has passed hold the rewrite of their field, the  *)
(* others the field as strings.Split returned it.                          *)
SInv ==
    LET F == Fields(seedstr) IN
    /\ seedstr \in Inputs
    /\ i \in 1 .. Len(F) + 1
    /\ s = [j \in 1 .. Len(F) |-> IF j < i THEN FixSeed(F[j]) ELSE F[j]]
Loop == INSTANCE SeedsLoop WITH arg <- seedstr, out <- s, fixed <- 1 .. i - 1,
                                Fix <- FixSeed
LoopRefinement == Loop!Spec

(* The same for every field, "host:" included (spec 4.1: a missing port    *)
(* defaults to the membership port).                                       *)
SeedsAllHavePort ==
    Done =>
        LET F == IF seedstr = << >> THEN << >> ELSE Split(seedstr) IN
        \A j \in 1 .. Len(F) : s[j] = RefSeed(F[j])
=============================================================================
