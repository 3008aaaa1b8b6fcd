---------------------------- MODULE MCOrderQueue ----------------------------
(* OrderQueue with one order behind each kind of gate. *)
EXTENDS OrderQueue

MCIds == {"dated", "event", "odd"}

MCOrders ==
    [o \in MCIds |->
       CASE o = "dated" -> [gate |-> "AFTER_DATE", day |-> 1,
                            nonHawkish |-> FALSE, sideKnown |-> TRUE]
         [] o = "event" -> [gate |-> "AFTER_EVENT", day |-> 1,
                            nonHawkish |-> TRUE, sideKnown |-> TRUE]
         [] o = "odd"   -> [gate |-> "AFTER_DATE", day |-> 0,
                            nonHawkish |-> FALSE, sideKnown |-> FALSE]]

MCPairIds == {"dated", "vix"}

MCPair ==
    [o \in MCPairIds |->
       IF o = "dated" THEN [gate |-> "AFTER_DATE", day |-> 1,
                            nonHawkish |-> FALSE, sideKnown |-> TRUE]
                      ELSE [gate |-> "CONDITIONAL", day |-> 1,
                            nonHawkish |-> FALSE, sideKnown |-> TRUE]]
=============================================================================
