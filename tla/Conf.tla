-------------------------------- MODULE Conf --------------------------------
(***************************************************************************)
(* newConf() of framework/registry/node.go:128-281: the memberlist         *)
(* configuration built from environment variables.  Environment values are *)
(* strings (sequences of one-character strings); durations are in          *)
(* milliseconds.  Logging options (LOG_LEVEL, MEM_LOG_DISABLE) only choose *)
(* a writer and are left out.                                              *)
(***************************************************************************)
EXTENDS Integers, Sequences, SequencesExt

CONSTANTS
    Samples,        \* environment values an input may take
    VariedKeys,     \* keys whose value is chosen from Samples; others unset
    Default,        \* config.DefaultGddMem*: key -> default (ms or count)
    Hostname        \* os.Hostname()

(* Duration-valued keys and the unit of their bare-integer form.           *)
DurUnit == [MEM_DEAD_TIMEOUT |-> 1000, MEM_SYNC_INTERVAL |-> 1000,
            MEM_RECLAIM_TIMEOUT |-> 1000, MEM_PROBE_INTERVAL |-> 1000,
            MEM_PROBE_TIMEOUT |-> 1000, MEM_GOSSIP_INTERVAL |-> 1,
            MEM_TCP_TIMEOUT |-> 1000, MEM_WEIGHT_INTERVAL |-> 1]
DurKeys == DOMAIN DurUnit
IntKeys == {"MEM_INDIRECT_CHECKS", "MEM_SUSPICION_MULT", "MEM_GOSSIP_NODES",
            "MEM_WEIGHT", "MEM_PORT"}
StrKeys == {"MEM_NAME", "MEM_HOST"}
Keys == DurKeys \cup IntKeys \cup StrKeys

DigitVal == [d \in {"0", "1", "2", "3", "4", "5", "6", "7", "8", "9"} |->
               CASE d = "0" -> 0 [] d = "1" -> 1 [] d = "2" -> 2 [] d = "3" -> 3
                 [] d = "4" -> 4 [] d = "5" -> 5 [] d = "6" -> 6 [] d = "7" -> 7
                 [] d = "8" -> 8 [] d = "9" -> 9]
IsDigits(s) == s # << >> /\ \A j \in 1 .. Len(s) : s[j] \in DOMAIN DigitVal
DigitsVal(s) == FoldLeft(LAMBDA acc, d : 10 * acc + DigitVal[d], 0, s)

(* An optional leading sign. *)
HasSign(s) == s # << >> /\ s[1] \in {"+", "-"}
Unsigned(s) == IF HasSign(s) THEN Tail(s) ELSE s
SignOf(s) == IF HasSign(s) /\ s[1] = "-" THEN -1 ELSE 1

(* strconv.Atoi; cast.ToIntE is taken to agree with it on these inputs.    *)
AtoiOk(s) == IsDigits(Unsigned(s))
Atoi(s) == SignOf(s) * DigitsVal(Unsigned(s))

(* time.ParseDuration for "0" and for one <digits><unit> component.        *)
UnitMs == [u \in {<< "m", "s" >>, << "s" >>, << "m" >>, << "h" >>} |->
             CASE u = << "m", "s" >> -> 1 [] u = << "s" >> -> 1000
               [] u = << "m" >> -> 60000 [] u = << "h" >> -> 3600000]
(* Length of the leading run of digits. *)
NumLen(s) == LET j == SelectInSeq(s, LAMBDA c : c \notin DOMAIN DigitVal)
             IN  IF j = 0 THEN Len(s) ELSE j - 1
ParseDurationOk(s) ==
    LET b == Unsigned(s) IN
    \/ s = << "0" >>
    \/ /\ NumLen(b) > 0
       /\ SubSeq(b, NumLen(b) + 1, Len(b)) \in DOMAIN UnitMs
ParseDuration(s) ==
    LET b == Unsigned(s) IN
    IF s = << "0" >> THEN 0
    ELSE SignOf(s) * DigitsVal(SubSeq(b, 1, NumLen(b)))
                   * UnitMs[SubSeq(b, NumLen(b) + 1, Len(b))]

(* The inputs the model is run on: unset is among the samples, and every *)
(* sample is either modelled by AtoiOk/ParseDurationOk or is rejected by *)
(* Go's parser anyway.                                                    *)
ConfAssumption ==
    /\ << >> \in Samples
    /\ VariedKeys \subseteq Keys
    /\ Default \in [DurKeys \cup IntKeys -> Int]
    \* a sample ParseDuration is not modelled on (several components, a
    \* fraction) contains a character Go's parser rejects anyway
    /\ \A s \in Samples :
           \/ AtoiOk(s) \/ ParseDurationOk(s) \/ s = << >>
           \/ \E j \in 1 .. Len(s) :
                 s[j] \notin DOMAIN DigitVal \cup {"+", "-", ".", "n", "u", "m", "s", "h"}

(* The shape of node.go:157-167 (and its seven copies): the default, then *)
(* Atoi in the key's unit, then time.ParseDuration, else the default.      *)
DurField(env, k) ==
    IF env[k] = << >> THEN Default[k]
    ELSE IF AtoiOk(env[k]) THEN Atoi(env[k]) * DurUnit[k]
    ELSE IF ParseDurationOk(env[k]) THEN ParseDuration(env[k])
    ELSE Default[k]

(* node.go:130-133 and the like: cast.ToIntE, else the default. *)
IntField(env, k) == IF AtoiOk(env[k]) THEN Atoi(env[k]) ELSE Default[k]

(* node.go:232-250: a pinned weight > 0 disables weight recomputation. *)
WeightInterval(env) ==
    IF IntField(env, "MEM_WEIGHT") > 0 THEN 0
    ELSE DurField(env, "MEM_WEIGHT_INTERVAL")

(* newConf (node.go:128-281). *)
newConf(env) ==
    [IndirectChecks      |-> IntField(env, "MEM_INDIRECT_CHECKS"),
     GossipToTheDeadTime |-> DurField(env, "MEM_DEAD_TIMEOUT"),
     PushPullInterval    |-> DurField(env, "MEM_SYNC_INTERVAL"),
     DeadNodeReclaimTime |-> DurField(env, "MEM_RECLAIM_TIMEOUT"),
     ProbeInterval       |-> DurField(env, "MEM_PROBE_INTERVAL"),
     ProbeTimeout        |-> DurField(env, "MEM_PROBE_TIMEOUT"),
     SuspicionMult       |-> IntField(env, "MEM_SUSPICION_MULT"),
     GossipNodes         |-> IntField(env, "MEM_GOSSIP_NODES"),
     GossipInterval      |-> DurField(env, "MEM_GOSSIP_INTERVAL"),
     WeightInterval      |-> WeightInterval(env),
     TCPTimeout          |-> DurField(env, "MEM_TCP_TIMEOUT"),
     Name                |-> IF env["MEM_NAME"] # << >> THEN env["MEM_NAME"]
                                                    ELSE Hostname,
     BindPort            |-> IntField(env, "MEM_PORT"),
     AdvertisePort       |-> IntField(env, "MEM_PORT"),
     AdvertiseAddr       |-> IF env["MEM_HOST"] # << >> /\ env["MEM_HOST"][1] = "."
                               THEN Hostname \o env["MEM_HOST"]
                               ELSE env["MEM_HOST"]]

VARIABLES
    env,   \* the environment newConf reads
    cfg    \* its result, or << >> before the call

vars == <<env, cfg>>

Envs == {[k \in Keys |-> IF k \in VariedKeys THEN f[k] ELSE << >>] :
            f \in [VariedKeys -> Samples]}

Init ==
    /\ ConfAssumption
    /\ env \in Envs
    /\ cfg = << >>

(* The call itself. *)
NewConf ==
    /\ cfg = << >>
    /\ cfg' = newConf(env)
    /\ UNCHANGED env

Spec == Init /\ [][NewConf]_vars

-----------------------------------------------------------------------------
Built == cfg # << >>

(* Spec 4.2: the detector ticks every ProbeInterval and waits ProbeTimeout *)
(* for a direct ack, leaving ProbeInterval - ProbeTimeout for indirect     *)
(* probes: 0 < ProbeTimeout < ProbeInterval.                               *)
ProbeTimingSane ==
    Built => 0 < cfg.ProbeTimeout /\ cfg.ProbeTimeout < cfg.ProbeInterval
=============================================================================
