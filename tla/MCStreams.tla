----------------------------- MODULE MCStreams ------------------------------
(***************************************************************************)
(* The two processes that drain the exchanges' streams, each in behaviours *)
(* of its own: the collector, and the API with its hub.  The listing of a  *)
(* symbol meets no event: the counts and the lists do not touch.           *)
(***************************************************************************)
EXTENDS Collector, Hub

CONSTANTS
  binance, bybit,
  ApiTime  \* bound on the clock in the behaviours of the API

VARIABLE engine  \* the process: "collector", "quiet" (a collector) or "api"

MCBurst == [e \in Exchanges |-> IF e = binance THEN 1 ELSE 2]

Init ==
  /\ StreamsInit /\ CollectorInit /\ HubInit
  /\ engine \in {"collector", "quiet", "api"}

Next ==
  /\ UNCHANGED engine
  /\ \/ engine = "collector" /\ CollectorNext /\ UNCHANGED <<listed, hubVars>>
     \/ engine = "quiet" /\ CollectorNext /\ UNCHANGED <<received, hubVars>>
     \/ engine = "api" /\ HubNext /\ now' <= ApiTime /\ UNCHANGED <<listed, collectorVars>>

Spec == Init /\ [][Next]_<<streamVars, collectorVars, hubVars, engine>>

=============================================================================
