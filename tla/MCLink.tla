------------------------------- MODULE MCLink -------------------------------
(* The instance of Link that TLC checks.                                   *)
EXTENDS Link

Small   == Limits(2, 1, 1)
Large   == Limits(9, 9, 9)
Uneven  == Limits(2, 9, 1)          \* a full chunk does not fit in a frame
NoOrder == [max_frame |-> 3, max_chunk |-> 1]
Partial == [max_frame |-> 2]

RelaySlave  == [sendsFirst |-> TRUE]
SilentSlave == [sendsFirst |-> FALSE]

Setup(host, cartridge, s, kinds, sends, notifies, payloads, ending) ==
    [host |-> host, cartridge |-> cartridge, slave |-> s, kinds |-> kinds, sends |-> sends,
     notifies |-> notifies, payloads |-> payloads, ending |-> ending]

\* The response, under all limits, with a cartridge that may die.
Responses ==
    {Setup(p[1], p[2], RelaySlave, {"REQ"}, 1, 0, {<<>>, <<"a", "b", "c">>}, {"cartridge"}) :
        p \in {<<DefaultLimits, l>> : l \in {DefaultLimits, Small, Large, Partial}}
               \cup {<<l, DefaultLimits>> : l \in {Uneven, NoOrder}}}

\* The relay, with ends that leave.
Relays ==
    {Setup(DefaultLimits, DefaultLimits, s, FrameType \cup {RemovedRes}, 3, 2, {},
           {"engine", "host"}) : s \in {RelaySlave, SilentSlave}}

\* A response between notifications.
Announcing ==
    {Setup(DefaultLimits, DefaultLimits, RelaySlave, {"REQ", "RELAY_STATE"}, 2, 3, {<<"a">>}, {})}

MCSetups == Responses \cup Relays \cup Announcing
=============================================================================
