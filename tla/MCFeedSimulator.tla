-------------------------- MODULE MCFeedSimulator ---------------------------
\* An instance of FeedSimulator; prices start at the floor, where the walk is cut.
EXTENDS FeedSimulator

MCDraws == {[venue |-> 4, asset |-> 49, kind |-> 20, delta |-> 0, spread |-> 2],
            [venue |-> 7, asset |-> 84, kind |-> 14, delta |-> 80, spread |-> 0],
            [venue |-> 9, asset |-> 99, kind |-> 14, delta |-> 5, spread |-> 9]}
MCJump == <<50, 10, 1>>
MCBase == <<3000, 100, 101>>
=============================================================================
