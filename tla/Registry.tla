------------------------------ MODULE Registry ------------------------------
(***************************************************************************)
(* The registry facade of framework/registry/node.go composed with the     *)
(* membership table of the memberlist instance it drives, as seen by ONE   *)
(* process.                                                                *)
(*                                                                         *)
(*  - the package variable `mlist` (node.go:26) points at the current      *)
(*    memberlist instance, or is nil;                                      *)
(*  - every memberlist instance ever created keeps its own table           *)
(*    Name -> (State, Incarnation, Meta) and runs its protocol loops until *)
(*    it is shut down;                                                     *)
(*  - the package variable `events` (node.go:28) is shared by every        *)
(*    instance: each join/leave/update edge of any running instance is     *)
(*    delivered to every provider in events.ServiceProviders;              *)
(*  - RegisterServiceProvider (node.go:462) seeds a provider from          *)
(*    mlist.Members() and only afterwards appends it to the subscribers.   *)
(*                                                                         *)
(* The memberlist engine (framework/internal/memberlist) is not part of    *)
(* the sources given; its transitions are taken from the specification     *)
(* (sections 4.2, 4.6 and 4.10) and only as far as they change what        *)
(* Members() returns or which event is emitted.                            *)
(***************************************************************************)
EXTENDS Naturals, FiniteSets

CONSTANTS
    Nodes,        \* names that can appear in a membership table
    Self,         \* the local node's name (cfg.Name)
    SPs,          \* service providers client code may register
    Metas,        \* abstract MergedMeta payloads (service, port, weight...)
    MaxInc,       \* bound on incarnation numbers
    MaxNewNode,   \* bound on the number of NewNode calls
    Nil,          \* the nil pointer
    Absent        \* "not in the provider's view"

ASSUME SelfAssumption == Self \in Nodes
ASSUME MetasAssumption == Metas # {} /\ Absent \notin Metas
ASSUME BoundsAssumption == MaxInc \in Nat /\ MaxNewNode \in Nat

(* Memberlist instances are numbered by the NewNode call that created them. *)
Inst == 1 .. MaxNewNode

ASSUME NilAssumption == Nil \notin Inst

States == {"none", "alive", "suspect", "dead", "left"}
Results == {"none", "ok", "configErr", "createErr", "joinErr"}
RegPcs == {"idle", "seeded", "subscribed"}

InitMeta == CHOOSE m \in Metas : TRUE

VARIABLES
    mlist,      \* node.go:26, the current *memberlist.Memberlist or Nil
    running,    \* instances created and not yet shut down
    calls,      \* number of NewNode calls so far
    result,     \* what the last NewNode call returned
    st,         \* st[i][n]: state of name n in instance i's table
    inc,        \* inc[i][n]: its incarnation
    meta,       \* meta[i][n]: its Meta bytes
    providers,  \* events.ServiceProviders, as a set
    regPc,      \* progress of RegisterServiceProvider for each provider
    view,       \* view[p][n]: what provider p believes node n's meta is
    window,     \* ghost: names that changed while p was seeded, not subscribed
    seedInst    \* ghost: the instance p was seeded from

engine == <<st, inc, meta>>
obs == <<providers, regPc, view, window, seedInst>>
vars == <<mlist, running, calls, result, engine, obs>>

-----------------------------------------------------------------------------
(* The table of a freshly created instance: only the local node, Alive.    *)
FreshTable == [n \in Nodes |-> IF n = Self THEN "alive" ELSE "none"]

(* Mutant of MemberView: dead members are listed too. *)
MemberViewWithDead(i) ==
    [n \in Nodes |-> IF st[i][n] \in {"alive", "suspect", "dead"} THEN meta[i][n]
                                                                    ELSE Absent]

(* Members() of instance i, as AllNodes returns it (node.go:79-88):        *)
(* every name that is neither dead nor left, with its meta.                *)
MemberView(i) ==
    [n \in Nodes |-> IF st[i][n] \in {"alive", "suspect"} THEN meta[i][n]
                                                            ELSE Absent]

(* eventDelegate: an edge of node n delivered to every subscribed provider *)
(* (NotifyJoin -> AddNode, NotifyUpdate -> UpdateWeight/AddNode set the     *)
(* node's meta, NotifyLeave -> RemoveNode sets it Absent).  A provider      *)
(* between seeding and subscription misses it; the ghost notes that.       *)
Notify(n, v) ==
    /\ view' = [p \in SPs |-> IF p \in providers
                                THEN [view[p] EXCEPT ![n] = v]
                                ELSE view[p]]
    /\ window' = [p \in SPs |-> IF regPc[p] = "seeded"
                                  THEN window[p] \cup {n}
                                  ELSE window[p]]

-----------------------------------------------------------------------------
Init ==
    /\ mlist = Nil
    /\ running = {}
    /\ calls = 0
    /\ result = "none"
    /\ st = [i \in Inst |-> FreshTable]
    /\ inc = [i \in Inst |-> [n \in Nodes |-> 0]]
    /\ meta = [i \in Inst |-> [n \in Nodes |-> InitMeta]]
    /\ providers = {}
    /\ regPc = [p \in SPs |-> "idle"]
    /\ view = [p \in SPs |-> [n \in Nodes |-> Absent]]
    /\ window = [p \in SPs |-> {}]
    /\ seedInst = [p \in SPs |-> Nil]

(* Mutant of NewNode: the new instance is numbered by the old call count. *)
NewNodeUncounted(outcome) ==
    LET k == calls IN
    /\ calls < MaxNewNode
    /\ calls' = calls + 1
    /\ result' = outcome
    /\ CASE outcome = "configErr" -> UNCHANGED <<mlist, running>>
         [] outcome = "createErr" -> mlist' = Nil /\ UNCHANGED running
         [] outcome = "joinErr"   -> mlist' = k /\ UNCHANGED running
         [] outcome = "ok"        -> mlist' = k /\ running' = running \cup {k}
    /\ IF outcome \in {"joinErr", "ok"} THEN Notify(Self, InitMeta)
                                        ELSE UNCHANGED <<view, window>>
    /\ UNCHANGED <<engine, providers, regPc, seedInst>>

(***************************************************************************)
(* NewNode (node.go:287-360) with join (node.go:57-76).  The outcome is    *)
(* chosen by the environment: no service name configured (return before   *)
(* anything is assigned), memberlist.Create failing (bind error: the       *)
(* assignment `mlist, err = memberlist.Create(...)` stores nil), join      *)
(* failing on a non-empty seed list (mlist.Shutdown() but mlist is kept),  *)
(* or success (empty seed list, or at least one seed contacted; the        *)
(* members learnt by the join's push/pull arrive as AliveNode steps).      *)
(* Once Create has set the local node alive, the shared `events` delegate  *)
(* (node.go:345) gets NotifyJoin for it (spec 4.6: one event per edge).    *)
(***************************************************************************)
NewNode(outcome) ==
    LET k == calls + 1 IN
    /\ calls < MaxNewNode
    /\ calls' = k
    /\ result' = outcome
    /\ CASE outcome = "configErr" -> UNCHANGED <<mlist, running>>
         [] outcome = "createErr" -> mlist' = Nil /\ UNCHANGED running
         [] outcome = "joinErr"   -> mlist' = k /\ UNCHANGED running
         [] outcome = "ok"        -> mlist' = k /\ running' = running \cup {k}
    /\ IF outcome \in {"joinErr", "ok"} THEN Notify(Self, InitMeta)
                                        ELSE UNCHANGED <<view, window>>
    /\ UNCHANGED <<engine, providers, regPc, seedInst>>

(* Shutdown (node.go:363-369). *)
Shutdown ==
    /\ mlist # Nil
    /\ running' = running \ {mlist}
    /\ mlist' = Nil
    /\ UNCHANGED <<calls, result, engine, obs>>

(* Leave (node.go:372-377): mlist.Leave marks the local node Left and       *)
(* emits NotifyLeave for it.  The code only checks mlist != nil; a Leave   *)
(* on the list NewNode shut down after a failed join reaches memberlist    *)
(* code outside this repository and, its transport closed, changes none   *)
(* of the state modelled here, so it is no step.  That the facade reaches *)
(* that list at all is what NoShutdownListExposed reports.                *)
Leave ==
    /\ mlist \in running
    /\ st[mlist][Self] = "alive"
    /\ st' = [st EXCEPT ![mlist][Self] = "left"]
    /\ Notify(Self, Absent)
    /\ UNCHANGED <<mlist, running, calls, result, inc, meta,
                   providers, regPc, seedInst>>

(* RegisterServiceProvider, first half (node.go:462-468): nothing if mlist *)
(* is nil, else AddNode for every member of mlist.Members().               *)
RegisterSeed(p) ==
    /\ regPc[p] = "idle"
    /\ mlist # Nil
    /\ view' = [view EXCEPT ![p] = MemberView(mlist)]
    /\ regPc' = [regPc EXCEPT ![p] = "seeded"]
    /\ window' = [window EXCEPT ![p] = {}]
    /\ seedInst' = [seedInst EXCEPT ![p] = mlist]
    /\ UNCHANGED <<mlist, running, calls, result, engine, providers>>

(* Mutant of RegisterSubscribe: the provider is never appended. *)
RegisterSubscribeNoAppend(p) ==
    /\ regPc[p] = "seeded"
    /\ regPc' = [regPc EXCEPT ![p] = "subscribed"]
    /\ UNCHANGED <<mlist, running, calls, result, engine, view, window,
                   seedInst, providers>>

(* Second half (node.go:469): append to events.ServiceProviders. *)
RegisterSubscribe(p) ==
    /\ regPc[p] = "seeded"
    /\ providers' = providers \cup {p}
    /\ regPc' = [regPc EXCEPT ![p] = "subscribed"]
    /\ UNCHANGED <<mlist, running, calls, result, engine, view, window,
                   seedInst>>

-----------------------------------------------------------------------------
(* The memberlist engine of a running instance i (spec_modelled).          *)

(* An Alive claim about n with incarnation k: accepted for an unknown name *)
(* or a strictly higher incarnation.  Join if n was unknown, dead or left; *)
(* Update if only its meta changed; no event otherwise.                    *)
AliveNode(i, n, k, m) ==
    LET s == st[i][n] IN
    /\ n # Self
    /\ s = "none" \/ k > inc[i][n]
    /\ st' = [st EXCEPT ![i][n] = "alive"]
    /\ inc' = [inc EXCEPT ![i][n] = k]
    /\ meta' = [meta EXCEPT ![i][n] = m]
    /\ IF s \in {"none", "dead", "left"} \/ m # meta[i][n]
         THEN Notify(n, m)
         ELSE UNCHANGED <<view, window>>

(* A Suspect claim (or a failed probe round, k = inc): Alive -> Suspect.   *)
SuspectNode(i, n, k) ==
    /\ n # Self
    /\ st[i][n] = "alive"
    /\ k >= inc[i][n]
    /\ st' = [st EXCEPT ![i][n] = "suspect"]
    /\ inc' = [inc EXCEPT ![i][n] = k]
    /\ UNCHANGED <<meta, view, window>>

(* A Dead claim, an expired suspicion timer (to = "dead") or the subject's *)
(* own leave broadcast (to = "left"): NotifyLeave.                         *)
DeadNode(i, n, k, to) ==
    /\ n # Self
    /\ st[i][n] \in {"alive", "suspect"}
    /\ k >= inc[i][n]
    /\ st' = [st EXCEPT ![i][n] = to]
    /\ inc' = [inc EXCEPT ![i][n] = k]
    /\ Notify(n, Absent)
    /\ UNCHANGED meta

(* A dead or left name past GossipToTheDeadTime is dropped from the table. *)
Reclaim(i, n) ==
    /\ st[i][n] \in {"dead", "left"}
    /\ n # Self
    /\ st' = [st EXCEPT ![i][n] = "none"]
    /\ inc' = [inc EXCEPT ![i][n] = 0]
    /\ meta' = [meta EXCEPT ![i][n] = InitMeta]
    /\ UNCHANGED <<view, window>>

(* Weight recomputation rewrites the local meta, bumps the local           *)
(* incarnation and emits NotifyUpdate for the local node.                  *)
WeightUpdate(i, m) ==
    /\ st[i][Self] = "alive"
    /\ m # meta[i][Self]
    /\ inc[i][Self] < MaxInc
    /\ meta' = [meta EXCEPT ![i][Self] = m]
    /\ inc' = [inc EXCEPT ![i][Self] = @ + 1]
    /\ Notify(Self, m)
    /\ UNCHANGED st

Engine(i) ==
    /\ \/ \E n \in Nodes, k \in 0 .. MaxInc, m \in Metas : AliveNode(i, n, k, m)
       \/ \E n \in Nodes, k \in 0 .. MaxInc : SuspectNode(i, n, k)
       \/ \E n \in Nodes, k \in 0 .. MaxInc, to \in {"dead", "left"} :
              DeadNode(i, n, k, to)
       \/ \E n \in Nodes : Reclaim(i, n)
       \/ \E m \in Metas : WeightUpdate(i, m)
    /\ UNCHANGED <<mlist, running, calls, result, providers, regPc, seedInst>>

-----------------------------------------------------------------------------
Next ==
    \/ \E o \in Results \ {"none"} : NewNode(o)
    \/ Shutdown
    \/ Leave
    \/ \E p \in SPs : RegisterSeed(p) \/ RegisterSubscribe(p)
    \/ \E i \in running : Engine(i)

Spec == Init /\ [][Next]_vars

-----------------------------------------------------------------------------
TypeOK ==
    /\ mlist \in Inst \cup {Nil}
    /\ running \subseteq Inst
    /\ calls \in 0 .. MaxNewNode
    /\ result \in Results
    /\ st \in [Inst -> [Nodes -> States]]
    /\ inc \in [Inst -> [Nodes -> 0 .. MaxInc]]
    /\ meta \in [Inst -> [Nodes -> Metas]]
    /\ providers \subseteq SPs
    /\ regPc \in [SPs -> RegPcs]
    /\ view \in [SPs -> [Nodes -> Metas \cup {Absent}]]
    /\ window \in [SPs -> SUBSET Nodes]
    /\ seedInst \in [SPs -> Inst \cup {Nil}]

(* A registered service provider's view of a node equals what              *)
(* mlist.Members() says of it, for every node that did not change between  *)
(* the provider's seeding and its subscription, as long as no other         *)
(* memberlist instance has been started since the provider was seeded.    *)
(* This is what eventDelegate's NotifyJoin/Leave/Update hooks must keep     *)
(* true after RegisterServiceProvider returns.                             *)
ProviderViewExact ==
    \A p \in SPs :
        (/\ regPc[p] # "idle"
         /\ seedInst[p] = mlist
         /\ running \subseteq {mlist})
        => \A n \in Nodes \ window[p] : view[p][n] = MemberView(mlist)[n]

(* Spec 4.8/9: RegisterServiceProvider "atomically seeds sp with the        *)
(* current member list, then subscribes it": a subscribed provider's view   *)
(* equals mlist.Members().                                                 *)
RegisterAtomic ==
    \A p \in providers :
        (seedInst[p] = mlist /\ running \subseteq {mlist})
        => view[p] = MemberView(mlist)

(* Spec 4.6/4.9/9: a subscribed provider maintains its view from the      *)
(* event hooks of the registry NewNode constructs, so after an orderly     *)
(* Shutdown and a new NewNode its view agrees with mlist.Members() on      *)
(* every node that did not change while it was being registered.  The     *)
(* package-level `events` (node.go:28) keeps its providers across both.     *)
ProviderViewAcrossRestart ==
    \A p \in providers :
        running = {mlist} => \A n \in Nodes \ window[p] : view[p][n] = MemberView(mlist)[n]

(* Spec 4.8/5: Shutdown "stops all protocol loops, closes sockets": no      *)
(* memberlist instance keeps running that the facade no longer points at.  *)
NoOrphanMemberlist == running \subseteq {mlist}

(* Spec 7: calls after Shutdown fail (StateError): the facade never serves *)
(* AllNodes/LocalNode/Leave from a memberlist that has been shut down.      *)
NoShutdownListExposed == mlist # Nil => mlist \in running

(* The inductive strengthening of ProviderViewExact used by the proof:     *)
(* instances are numbered by the NewNode calls already made, a provider is *)
(* subscribed exactly when events.ServiceProviders holds it, and a seeded   *)
(* provider was seeded from an instance that already existed.              *)
IInv ==
    /\ TypeOK
    /\ mlist \in (1 .. calls) \cup {Nil}
    /\ running \subseteq 1 .. calls
    /\ \A p \in SPs : (p \in providers) <=> (regPc[p] = "subscribed")
    /\ \A p \in SPs : regPc[p] # "idle" => seedInst[p] \in 1 .. calls
    /\ ProviderViewExact
=============================================================================
