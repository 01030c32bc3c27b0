------------------------------- MODULE MCConf -------------------------------
EXTENDS Conf, TLC

(* Environment values: unset, bare integers (zero, negative, one meant as  *)
(* seconds, one meant as milliseconds), duration strings and garbage.      *)
MCSamples == {<< >>, << "0" >>, << "1" >>, << "-", "1" >>, << "5", "0", "0" >>,
              << "5", "0", "0", "m", "s" >>, << "2", "s" >>, << "x" >>}

(* Defaults of spec 6 (durations in ms); MEM_WEIGHT_INTERVAL's is a Go     *)
(* time.Duration constant, taken as 5 s.                                   *)
MCDefault == [MEM_DEAD_TIMEOUT |-> 30000, MEM_SYNC_INTERVAL |-> 30000,
              MEM_RECLAIM_TIMEOUT |-> 0, MEM_PROBE_INTERVAL |-> 1000,
              MEM_PROBE_TIMEOUT |-> 500, MEM_GOSSIP_INTERVAL |-> 200,
              MEM_TCP_TIMEOUT |-> 10000, MEM_WEIGHT_INTERVAL |-> 5000,
              MEM_INDIRECT_CHECKS |-> 3, MEM_SUSPICION_MULT |-> 4,
              MEM_GOSSIP_NODES |-> 3, MEM_WEIGHT |-> 0, MEM_PORT |-> 7946]

MCHostname == << "h" >>

MCProbeOnly == {"MEM_PROBE_TIMEOUT"}
=============================================================================
