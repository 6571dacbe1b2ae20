---------------------------- MODULE MCZemaphore ----------------------------
\* Four threads on one zemaphore: two that only take, one that only gives,
\* and one that does both.
EXTENDS Zemaphore

MCProgram ==
    [t \in ZemThreads |-> CASE t = "taker1" -> <<"down", "down">>
                            [] t = "taker2" -> <<"down">>
                            [] t = "giver"  -> <<"up", "up">>
                            [] t = "mixed"  -> <<"up", "down">>]

=============================================================================
