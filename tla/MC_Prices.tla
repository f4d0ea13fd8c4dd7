------------------------------- MODULE MC_Prices --------------------------------
(* A tick is half a minute; the hour of NGN is shortened to six ticks.  The node  *)
(* of the chain may answer after the next poll of MON is due, the source of NGN   *)
(* answers within a tick.                                                         *)
EXTENDS Prices

BothFeeds == {"mon", "ngn"}
TwoRates == [f \in Feeds |-> IF f = "mon" THEN {"price"} ELSE {"low", "high"}]
Intervals == [f \in Feeds |-> IF f = "mon" THEN 2 ELSE 6]
TTLs == [f \in Feeds |-> IF f = "mon" THEN 4 ELSE 12]
Latencies == [f \in Feeds |-> IF f = "mon" THEN 3 ELSE 1]
=================================================================================
