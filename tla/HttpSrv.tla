------------------------------- MODULE HttpSrv -------------------------------
(***************************************************************************)
(* The HttpRouterSrv of package ddhttp (codegen/httpiclient.go:138-476):   *)
(* the middleware list built by NewHttpRouterSrv, AddMiddleware and        *)
(* PreMiddleware; Run, which freezes that list into every business route's *)
(* handler and into the NotFound / MethodNotAllowed handlers, starts the   *)
(* listener goroutine and blocks until SIGINT; and the deferred graceful   *)
(* Shutdown.  A middleware is a name; a chain is the sequence of names     *)
(* from the outermost wrapper inwards.  Logging, the banner and            *)
(* printRoutes are left out.                                               *)
(***************************************************************************)
EXTENDS Naturals, Sequences, SequencesExt

CONSTANTS
    Routes,     \* business routes (model.Route) the application adds
    UserMws,    \* middlewares the application adds
    MaxCalls,   \* bound on AddRoute / AddMiddleware / PreMiddleware calls
    MaxReqs     \* bound on requests in flight

ASSUME HttpSrvAssumption ==
    /\ MaxCalls \in Nat /\ MaxReqs \in Nat
    /\ UserMws \cap {"tracing", "metrics", "gzip", "log", "requestid",
                     "proxyheaders", "rest", "prometheus", "recovery"} = {}
    /\ Routes # {}

(* The middlewares the framework itself installs. *)
Builtin == {"tracing", "metrics", "gzip", "log", "requestid", "proxyheaders",
            "rest", "prometheus", "recovery", "cors", "basicauth"}
MwNames == UserMws \cup Builtin

(* Environment switches read by NewHttpRouterSrv and Run. *)
Flags == {"gzip", "logreq", "rest", "manage"}

Pcs == {"built", "serving", "stopping", "draining", "stopped"}

VARIABLES
    env,        \* GDD_ENABLE_RESPONSE_GZIP, GDD_LOG_REQ_ENABLE, GDD_APP_TYPE=rest, GDD_MANAGE
    mws,        \* srv.Middlewares
    biz,        \* srv.bizRoutes
    hist,       \* ghost: the middleware calls made, <<"pre"|"add", m>>
    pc,         \* built: before Run; serving: Run blocked on the signal;
                \* stopping: SIGINT received, Shutdown not yet called;
                \* draining: Shutdown waiting; stopped: Run returned
    reg,        \* business routes registered in srv.Router
    chain,      \* chain[r]: the middlewares wrapping route r's handler
    fallback,   \* the chain wrapping rootRouter.NotFound and MethodNotAllowed
    gdd,        \* the chain wrapping the manage and debug routes (GDD_MANAGE)
    listen,     \* the ListenAndServe goroutine: none, listening, failed, closed
    inflight    \* requests whose handler is running

vars == <<env, mws, biz, hist, pc, reg, chain, fallback, gdd, listen, inflight>>

Opt(b, m) == IF b THEN << m >> ELSE << >>

(* NewHttpRouterSrv (httpiclient.go:145-182): the default list. *)
Defaults(e) ==
    << "tracing", "metrics" >> \o Opt(e["gzip"], "gzip") \o Opt(e["logreq"], "log")
    \o << "requestid", "proxyheaders" >> \o Opt(e["rest"], "rest")

Init ==
    /\ env \in [Flags -> BOOLEAN]
    /\ mws = Defaults(env)
    /\ biz = << >>
    /\ hist = << >>
    /\ pc = "built"
    /\ reg = {}
    /\ chain = [r \in Routes |-> << >>]
    /\ fallback = << >>
    /\ gdd = << >>
    /\ listen = "none"
    /\ inflight = 0

Calls == Len(biz) + Len(hist)

(* AddRoute (185-187). *)
AddRoute(r) ==
    /\ pc = "built"
    /\ Calls < MaxCalls
    /\ biz' = Append(biz, r)
    /\ UNCHANGED <<env, mws, hist, pc, reg, chain, fallback, gdd, listen, inflight>>

(* AddMiddleware (223-228): to the end of the chain. *)
AddMiddleware(m) ==
    /\ pc = "built"
    /\ Calls < MaxCalls
    /\ mws' = Append(mws, m)
    /\ hist' = Append(hist, << "add", m >>)
    /\ UNCHANGED <<env, biz, pc, reg, chain, fallback, gdd, listen, inflight>>

(* Mutant of PreMiddleware: the new middleware goes to the end. *)
PreMiddlewareAppends(m) ==
    /\ pc = "built"
    /\ Calls < MaxCalls
    /\ mws' = mws \o << m >>
    /\ hist' = Append(hist, << "pre", m >>)
    /\ UNCHANGED <<env, biz, pc, reg, chain, fallback, gdd, listen, inflight>>

(* PreMiddleware (230-236): to the head of the chain. *)
PreMiddleware(m) ==
    /\ pc = "built"
    /\ Calls < MaxCalls
    /\ mws' = << m >> \o mws
    /\ hist' = Append(hist, << "pre", m >>)
    /\ UNCHANGED <<env, biz, pc, reg, chain, fallback, gdd, listen, inflight>>

(* Mutant of Run: `for item := range srv.bizRoutes` ranges over indices.  *)
RunRangeIndex ==
    LET full == Opt(env["manage"], "prometheus") \o mws \o << "recovery" >> IN
    /\ pc = "built"
    /\ mws' = full
    /\ reg' = DOMAIN biz
    /\ chain' = [r \in Routes \cup DOMAIN biz |-> IF r \in DOMAIN biz THEN full ELSE << >>]
    /\ fallback' = full
    /\ gdd' = IF env["manage"] THEN << "metrics", "cors", "basicauth" >> ELSE << >>
    /\ pc' = "serving"
    /\ UNCHANGED <<env, biz, hist, listen, inflight>>

(* Run (289-432) up to the blocking receive: with GDD_MANAGE prometheus is *)
(* prepended (291-292), recovery is appended (416), every business route   *)
(* is registered with the whole list (417-423), NotFound and               *)
(* MethodNotAllowed are wrapped with it (424-432), and newHttpServer       *)
(* starts the listener goroutine.  With GDD_MANAGE the manage and debug    *)
(* routes are registered under their own chain (metrics, cors, basic       *)
(* auth: 320, 357-365, 402-410).                                           *)
Run ==
    LET full == Opt(env["manage"], "prometheus") \o mws \o << "recovery" >> IN
    /\ pc = "built"
    /\ mws' = full
    /\ reg' = Range(biz)
    /\ chain' = [r \in Routes |-> IF r \in Range(biz) THEN full ELSE << >>]
    /\ fallback' = full
    /\ gdd' = IF env["manage"] THEN << "metrics", "cors", "basicauth" >> ELSE << >>
    /\ pc' = "serving"
    /\ UNCHANGED <<env, biz, hist, listen, inflight>>

(* The goroutine of newHttpServer (275-283): ListenAndServe binds or fails *)
(* (address in use); once Shutdown has begun it returns ErrServerClosed.    *)
(* The error is only logged: Run keeps blocking either way.                *)
ListenAndServe ==
    /\ pc # "built"
    /\ listen = "none"
    /\ listen' \in IF pc \in {"draining", "stopped"} THEN {"closed"} ELSE {"listening", "failed"}
    /\ UNCHANGED <<env, mws, biz, hist, pc, reg, chain, fallback, gdd, inflight>>

(* SIGINT (467-475): the blocking receive returns and Run's deferred      *)
(* function starts; the listener is still bound.                          *)
Signal ==
    /\ pc = "serving"
    /\ pc' = "stopping"
    /\ UNCHANGED <<env, mws, biz, hist, reg, chain, fallback, gdd, listen, inflight>>

(* The deferred function (447-464) parses GDD_GRACE_TIMEOUT, arms the     *)
(* grace context and calls httpServer.Shutdown, which closes the listener *)
(* before it waits for the connections.                                   *)
Shutdown ==
    /\ pc = "stopping"
    /\ pc' = "draining"
    /\ listen' = IF listen = "listening" THEN "closed" ELSE listen
    /\ UNCHANGED <<env, mws, biz, hist, reg, chain, fallback, gdd, inflight>>

(* The server accepts a request on the bound listener and runs its handler *)
(* (rootRouter) in a goroutine of its own.                                 *)
Accept ==
    /\ listen = "listening"
    /\ inflight < MaxReqs
    /\ inflight' = inflight + 1
    /\ UNCHANGED <<env, mws, biz, hist, pc, reg, chain, fallback, gdd, listen>>

(* A handler returns; once Run has returned the process is gone. *)
Finish ==
    /\ pc # "stopped"
    /\ inflight > 0
    /\ inflight' = inflight - 1
    /\ UNCHANGED <<env, mws, biz, hist, pc, reg, chain, fallback, gdd, listen>>

(* Shutdown returns nil once no connection is active, and Run returns.    *)
Drain ==
    /\ pc = "draining"
    /\ inflight = 0
    /\ pc' = "stopped"
    /\ UNCHANGED <<env, mws, biz, hist, reg, chain, fallback, gdd, listen, inflight>>

(* Mutant of Deadline: Shutdown(context.Background()) never expires. *)
DeadlineNoTimeout ==
    /\ pc = "draining"
    /\ inflight > 0
    /\ FALSE
    /\ pc' = "stopped"
    /\ UNCHANGED <<env, mws, biz, hist, reg, chain, fallback, gdd, listen, inflight>>

(* The grace context (GDD_GRACE_TIMEOUT, 449-458) expires with handlers    *)
(* still running: Shutdown returns ctx.Err(), which is ignored, and Run    *)
(* returns; the requests still in flight are cut.                         *)
Deadline ==
    /\ pc = "draining"
    /\ inflight > 0
    /\ pc' = "stopped"
    /\ UNCHANGED <<env, mws, biz, hist, reg, chain, fallback, gdd, listen, inflight>>

Next ==
    \/ \E r \in Routes : AddRoute(r)
    \/ \E m \in UserMws : AddMiddleware(m) \/ PreMiddleware(m)
    \/ Run
    \/ ListenAndServe
    \/ Signal
    \/ Shutdown
    \/ Accept
    \/ Finish
    \/ Drain
    \/ Deadline

(* The deferred function runs as soon as the receive returns, Shutdown   *)
(* polls for idle connections and the grace context is a timer: all fire  *)
(* while enabled.  Handlers are user code and may block forever, and no   *)
(* signal need ever come, so neither is fair.                             *)
Spec == Init /\ [][Next]_vars /\ WF_vars(Shutdown) /\ WF_vars(Drain) /\ WF_vars(Deadline)

-----------------------------------------------------------------------------
TypeOK ==
    /\ env \in [Flags -> BOOLEAN]
    /\ mws \in Seq(MwNames)
    /\ biz \in Seq(Routes)
    /\ hist \in Seq({"pre", "add"} \X UserMws)
    /\ pc \in Pcs
    /\ reg \subseteq Routes
    /\ chain \in [Routes -> Seq(MwNames)]
    /\ fallback \in Seq(MwNames)
    /\ gdd \in Seq(MwNames)
    /\ listen \in {"none", "listening", "failed", "closed"}
    /\ inflight \in 0 .. MaxReqs

(* The positions in hist of the PreMiddleware ("pre") or AddMiddleware    *)
(* ("add") calls, and how many of them were made at or after, or at or     *)
(* before, position k.                                                     *)
CallsOf(kind) == {j \in 1 .. Len(hist) : hist[j][1] = kind}
Later(kind, k) == Cardinality({l \in CallsOf(kind) : l >= k})
Earlier(kind, k) == Cardinality({l \in CallsOf(kind) : l <= k})
(* The user middlewares passed to PreMiddleware, latest call first, and   *)
(* to AddMiddleware, in call order.                                        *)
Pres == [j \in 1 .. Cardinality(CallsOf("pre")) |->
            hist[CHOOSE k \in CallsOf("pre") : Later("pre", k) = j][2]]
Adds == [j \in 1 .. Cardinality(CallsOf("add")) |->
            hist[CHOOSE k \in CallsOf("add") : Earlier("add", k) = j][2]]
(* The order the doc comments promise, over any sequence of calls:         *)
(* PreMiddleware puts its argument at the head, AddMiddleware at the end,  *)
(* so a route's handler runs prometheus (GDD_MANAGE), the PreMiddleware'd  *)
(* ones latest first, the defaults, the AddMiddleware'd ones in call order *)
(* and recovery innermost, and every route added before Run is served.     *)
ChainAsDocumented ==
    pc # "built" =>
        /\ reg = Range(biz)
        /\ \A r \in reg :
              chain[r] = Opt(env["manage"], "prometheus") \o Pres \o Defaults(env)
                         \o Adds \o << "recovery" >>

(* The inductive invariant behind ChainAsDocumented: before Run the list  *)
(* already is the PreMiddleware'd ones, the defaults and the              *)
(* AddMiddleware'd ones, and every rank among the calls of a kind is taken *)
(* by one of them.                                                         *)
CInv ==
    /\ TypeOK
    /\ pc = "built" => mws = Pres \o Defaults(env) \o Adds
    /\ \A j \in 1 .. Cardinality(CallsOf("pre")) :
          \E k \in CallsOf("pre") : Later("pre", k) = j
    /\ \A j \in 1 .. Cardinality(CallsOf("add")) :
          \E k \in CallsOf("add") : Earlier("add", k) = j
    /\ ChainAsDocumented

(* Once SIGINT is received Run returns, however long the handlers still in *)
(* flight take: the deferred Shutdown is bounded by the grace context.     *)
ShutdownCompletes == pc \in {"stopping", "draining"} ~> pc = "stopped"
=============================================================================
