----------------------------- MODULE MCTunDevice -----------------------------
(* Model-checking instances of TunDevice: the gateway may push a host route *)
(* to its server, the default route in a spelling of its own, and a network   *)
(* of three addresses, two of which may be in a local network of the user.    *)
EXTENDS TunDevice

CONSTANTS srv, a, b, c

AllAddresses == {srv, a, b, c}
Server       == {srv}
Pushed       == {{a, b, c}, {srv}, AllAddresses}

UserDefault(metric) == [dst |-> AllAddresses, metric |-> metric, via |-> "gw"]
Lan                 == [dst |-> {b, c}, metric |-> 0, via |-> "lan"]

\* With and without a gateway, the default route with and without a metric.
Tables == {{}, {UserDefault(0)}, {UserDefault(100)}, {Lan, UserDefault(100)}}
=============================================================================
