----------------------------- MODULE TunDevice -----------------------------
(***************************************************************************)
(* The TUN device and the routes around it (pkg/tun/tun.go): New with      *)
(* configure, AddDefaultRoute, AddRouteWithDomain called by the DNS        *)
(* handlers, RemoveRoutes, RemoveDNS and Close, on the kernel's main       *)
(* routing table.                                                          *)
(*                                                                         *)
(* A prefix is the set of addresses it covers: a host route is a singleton, *)
(* the default route covers all of Addresses, one prefix is longer than     *)
(* another when it is a subset.  The kernel keeps one route per prefix and  *)
(* metric, the program always uses metric 0.  The routing table and         *)
(* systemd-resolved are not in src/: Installed, Deleted, Via and LinkGone   *)
(* model them from the requests tun.go sends.  Calls that take d.mu are one *)
(* action each.                                                             *)
(***************************************************************************)
EXTENDS Naturals, FiniteSets

CONSTANTS
  Addresses,
  ExcludeIPs,   \* addresses of the VPN server (Config.ExcludeIPs)
  ServerIP,     \* the server given to AddDefaultRoute, in ExcludeIPs
  Routes,       \* prefixes pushed by the gateway (Config.Routes)
  UserTables    \* routing tables the user may have before the session

\* Of two prefixes one is part of the other, or they have no address in common.
\* A table has one route per prefix and metric, and the default route is no host
\* route.
ASSUME TunAssumption ==
  /\ IsFiniteSet(Addresses)
  /\ ExcludeIPs \subseteq Addresses /\ ServerIP \in ExcludeIPs
  /\ \A ip \in Addresses : Addresses # {ip}
  /\ Routes \subseteq SUBSET Addresses
  /\ \A d, e \in Routes : d \subseteq e \/ e \subseteq d \/ d \cap e = {}
  /\ \A t \in UserTables :
       /\ t \subseteq [dst : SUBSET Addresses, metric : Nat, via : {"gw", "lan"}]
       /\ \A r, s \in t : r.dst = s.dst /\ r.metric = s.metric => r = s

VARIABLES
  phase,     \* "none", "address", "exclude", "routes", "dns", "up", "removed",
             \* "reverted", "closed", or "failed" by New
  user,      \* the routing table before the session
  table,     \* the routing table
  excludes,  \* exclude addresses still to be configured
  pushes,    \* pushed routes still to be configured
  added,     \* d.addedRoutes
  linkDNS,   \* systemd-resolved has DNS servers for the link
  defaulted, \* AddDefaultRoute has been called
  excluded,  \* history: addresses with an exclusion route
  wanted,    \* history: addresses AddRouteWithDomain returned nil for
  undeleted  \* history: prefixes RemoveRoutes failed to delete

vars == <<phase, user, table, excludes, pushes, added, linkDNS, defaulted,
          excluded, wanted, undeleted>>

Default == Addresses
Via3    == {"gw", "lan", "tun"}
Route   == [dst : SUBSET Addresses, metric : Nat, via : Via3]

-----------------------------------------------------------------------------
(* The kernel's routing table.                                             *)

\* The request of addRoute: add, and replace when the prefix is taken.
Installed(t, dst, via) ==
  {r \in t : r.dst # dst \/ r.metric # 0}
    \cup {[dst |-> dst, metric |-> 0, via |-> via]}

\* The request of RemoveRoutes: link scope and static protocol, which only the
\* routes through the device have.
Deleted(t, dsts) == {r \in t : ~(r.dst \in dsts /\ r.via = "tun")}

\* The routes of a link go with the link.
LinkGone(t) == {r \in t : r.via # "tun"}

\* The longest prefix wins, then the lowest metric.
Matching(ip) == {r \in table : ip \in r.dst}

Via(ip) ==
  LET longest == {r \in Matching(ip) : \A s \in Matching(ip) : r.dst \subseteq s.dst}
      best    == {r \in longest : \A s \in longest : r.metric <= s.metric}
  IN  IF best = {} THEN "none" ELSE (CHOOSE r \in best : TRUE).via

\* detectDefaultGateway: some default route has a gateway.
HasGateway == \E r \in table : r.dst = Default /\ r.via = "gw"

-----------------------------------------------------------------------------
Init ==
  /\ phase = "none"
  /\ user \in UserTables /\ table = user
  /\ excludes = ExcludeIPs /\ pushes = Routes
  /\ added = {} /\ linkDNS = FALSE /\ defaulted = FALSE
  /\ excluded = {} /\ wanted = {} /\ undeleted = {}

\* water.New
Create ==
  /\ phase = "none"
  /\ phase' = "address"
  /\ UNCHANGED <<user, table, excludes, pushes, added, linkDNS, defaulted,
                 excluded, wanted, undeleted>>

\* The address is set and the link brought up.
SetAddress ==
  /\ phase = "address"
  /\ phase' = "exclude"
  /\ UNCHANGED <<user, table, excludes, pushes, added, linkDNS, defaulted,
                 excluded, wanted, undeleted>>

\* configure fails at the address or at the DNS servers: New closes the device.
ConfigureFails ==
  /\ phase \in {"address", "dns"}
  /\ phase' = "failed"
  /\ table' = LinkGone(table)
  /\ linkDNS' = FALSE
  /\ UNCHANGED <<user, excludes, pushes, added, defaulted, excluded, wanted,
                 undeleted>>

\* Mutant of Exclude: the exclusion route leads into the device.
ExcludeIntoTun(ip) ==
  /\ phase = "exclude"
  /\ ip \in excludes
  /\ excludes' = excludes \ {ip}
  /\ table' = Installed(table, {ip}, "tun")
  /\ excluded' = excluded \cup {ip}
  /\ UNCHANGED <<phase, user, pushes, added, linkDNS, defaulted, wanted, undeleted>>

\* Mutant of Exclude: the prefix length is forgotten.
ExcludeWithoutLength(ip) ==
  /\ phase = "exclude"
  /\ ip \in excludes
  /\ excludes' = excludes \ {ip}
  /\ HasGateway
  /\ table' = Installed(table, Default, "gw")
  /\ excluded' = excluded \cup {ip}
  /\ UNCHANGED <<phase, user, pushes, added, linkDNS, defaulted, wanted, undeleted>>

\* A host route through the existing gateway; without one, or when the kernel
\* refuses, the address is skipped.
Exclude(ip) ==
  /\ phase = "exclude"
  /\ ip \in excludes
  /\ excludes' = excludes \ {ip}
  /\ \/ UNCHANGED <<table, excluded>>
     \/ /\ HasGateway
        /\ table' = Installed(table, {ip}, "gw")
        /\ excluded' = excluded \cup {ip}
  /\ UNCHANGED <<phase, user, pushes, added, linkDNS, defaulted, wanted, undeleted>>

ExcludesDone ==
  /\ phase = "exclude" /\ excludes = {}
  /\ phase' = "routes"
  /\ UNCHANGED <<user, table, excludes, pushes, added, linkDNS, defaulted,
                 excluded, wanted, undeleted>>

\* A pushed route is added through the device and tracked, or it is skipped: when
\* the kernel refuses it, and always when its text is 0.0.0.0/0 or ::/0.  In any
\* other spelling the default route is a route like the others.
PushRoute(dst) ==
  /\ phase = "routes"
  /\ dst \in pushes
  /\ pushes' = pushes \ {dst}
  /\ \/ UNCHANGED <<table, added>>
     \/ /\ table' = Installed(table, dst, "tun")
        /\ added' = added \cup {dst}
  /\ UNCHANGED <<phase, user, excludes, linkDNS, defaulted, excluded, wanted,
                 undeleted>>

\* Mutant of RoutesDone: a route that cannot be added ends the loop.
RoutesStopEarly ==
  /\ phase = "routes"
  /\ phase' = "dns"
  /\ UNCHANGED <<user, table, excludes, pushes, added, linkDNS, defaulted,
                 excluded, wanted, undeleted>>

RoutesDone ==
  /\ phase = "routes" /\ pushes = {}
  /\ phase' = "dns"
  /\ UNCHANGED <<user, table, excludes, pushes, added, linkDNS, defaulted,
                 excluded, wanted, undeleted>>

\* configureDNS, or nothing with --no-dns.
ConfigureDNS ==
  /\ phase = "dns"
  /\ linkDNS' \in BOOLEAN
  /\ phase' = "up"
  /\ UNCHANGED <<user, table, excludes, pushes, added, defaulted, excluded,
                 wanted, undeleted>>

\* AddDefaultRoute, once, right after New.  The host route of the server is
\* added when a gateway is found and the server is given by its address; the
\* default route when the kernel accepts it.
AddDefaultRoute ==
  /\ phase = "up" /\ ~defaulted /\ wanted = {}
  /\ defaulted' = TRUE
  /\ \E host, default \in BOOLEAN :
       LET t == IF host /\ HasGateway THEN Installed(table, {ServerIP}, "gw") ELSE table
       IN  /\ excluded' = IF host /\ HasGateway THEN excluded \cup {ServerIP}
                          ELSE excluded
           /\ table' = IF default THEN Installed(t, Default, "tun") ELSE t
  /\ UNCHANGED <<phase, user, excludes, pushes, added, linkDNS, wanted, undeleted>>

Live == phase \in {"up", "removed", "reverted"}

\* Mutant of RouteCovered: the addresses are compared without the mask.
RouteCoveredByAny(ip) ==
  /\ Live
  /\ added # {}
  /\ wanted' = wanted \cup {ip}
  /\ UNCHANGED <<user, phase, table, excludes, pushes, added, linkDNS, defaulted,
                 excluded, undeleted>>

\* AddRouteWithDomain for an address some tracked route covers.
RouteCovered(ip) ==
  /\ Live
  /\ \E dst \in added : ip \in dst
  /\ wanted' = wanted \cup {ip}
  /\ UNCHANGED <<phase, user, table, excludes, pushes, added, linkDNS, defaulted,
                 excluded, undeleted>>

\* Mutant of AddRouteWithDomain: the new route is not tracked.
AddRouteUntracked(ip) ==
  /\ Live
  /\ \A dst \in added : ip \notin dst
  /\ table' = Installed(table, {ip}, "tun")
  /\ wanted' = wanted \cup {ip}
  /\ UNCHANGED <<phase, user, excludes, pushes, added, linkDNS, defaulted,
                 excluded, undeleted>>

\* AddRouteWithDomain for any other address, when the kernel accepts the
\* route; when it does not, nothing changes.
AddRouteWithDomain(ip) ==
  /\ Live
  /\ \A dst \in added : ip \notin dst
  /\ table' = Installed(table, {ip}, "tun")
  /\ added' = added \cup {{ip}}
  /\ wanted' = wanted \cup {ip}
  /\ UNCHANGED <<phase, user, excludes, pushes, linkDNS, defaulted, excluded,
                 undeleted>>

\* Deletions that fail are logged and forgotten; without a netlink socket
\* nothing is done at all.  (One that fails may be that of a tracked default route
\* in whose place AddDefaultRoute has put its own, which has another scope.)
RemoveRoutes ==
  /\ phase = "up"
  /\ phase' = "removed"
  /\ \/ UNCHANGED <<table, added, wanted, undeleted>>
     \/ \E failed \in SUBSET added :
          /\ table' = Deleted(table, added \ failed)
          /\ undeleted' = undeleted \cup failed
          /\ added' = {}
          /\ wanted' = {}
  /\ UNCHANGED <<user, excludes, pushes, linkDNS, defaulted, excluded>>

\* RevertLink, whose failure is ignored.
RemoveDNS ==
  /\ phase = "removed"
  /\ phase' = "reverted"
  /\ linkDNS' \in {linkDNS, FALSE}
  /\ UNCHANGED <<user, table, excludes, pushes, added, defaulted, excluded,
                 wanted, undeleted>>

Close ==
  /\ phase = "reverted"
  /\ phase' = "closed"
  /\ table' = LinkGone(table)
  /\ linkDNS' = FALSE
  /\ UNCHANGED <<user, excludes, pushes, added, defaulted, excluded, wanted,
                 undeleted>>

Closed == phase \in {"failed", "closed"} /\ UNCHANGED vars

Configure == \/ Create \/ SetAddress \/ ConfigureFails \/ ExcludesDone
             \/ RoutesDone \/ ConfigureDNS
             \/ \E ip \in ExcludeIPs : Exclude(ip)
             \/ \E dst \in Routes : PushRoute(dst)

Next == \/ Configure \/ AddDefaultRoute
        \/ \E ip \in Addresses : RouteCovered(ip) \/ AddRouteWithDomain(ip)
        \/ RemoveRoutes \/ RemoveDNS \/ Close \/ Closed

Spec == Init /\ [][Next]_vars

-----------------------------------------------------------------------------
(* Properties.                                                             *)

\* Every variable keeps its type, and configure has tried every exclusion and
\* every pushed route before it goes on.
TypeOK ==
  /\ phase \in {"none", "address", "exclude", "routes", "dns", "up", "removed",
                "reverted", "closed", "failed"}
  /\ user \in UserTables
  /\ table \subseteq Route
  /\ excludes \subseteq ExcludeIPs /\ pushes \subseteq Routes
  /\ added \subseteq SUBSET Addresses
  /\ linkDNS \in BOOLEAN /\ defaulted \in BOOLEAN
  /\ excluded \subseteq ExcludeIPs /\ wanted \subseteq Addresses
  /\ undeleted \subseteq SUBSET Addresses
  /\ phase \notin {"none", "address", "exclude", "failed"} => excludes = {}
  /\ phase \in {"dns", "up", "removed", "reverted", "closed"} => pushes = {}

OwnPrefix(dst) == dst \in added \cup undeleted \/ (dst = Default /\ defaulted)

\* The table never holds two routes that the kernel could not tell apart, and
\* every route through the device that nobody failed to delete is tracked or is
\* the one of AddDefaultRoute: RemoveRoutes misses none.
TunRoutesTracked ==
  /\ \A r, s \in table : r.dst = s.dst /\ r.metric = s.metric => r = s
  /\ \A r \in table : r.via = "tun" => OwnPrefix(r.dst)

\* What is tracked is installed, a pushed host route to the server excepted,
\* which AddDefaultRoute replaces.  AddRouteWithDomain relies on it: it returns
\* without a route for an address that a tracked prefix covers.
TrackedIsInstalled ==
  Live => \A dst \in added :
            \/ [dst |-> dst, metric |-> 0, via |-> "tun"] \in table
            \/ defaulted /\ dst = {ServerIP}

\* d.addedRoutes and the kernel's table agree, in both directions.
TrackedIffInstalled == TunRoutesTracked /\ TrackedIsInstalled

\* While a tunnel may run, the packets of its own connection enter it for one of
\* two reasons only: the gateway or a DNS answer asked for a host route to the
\* server, which took the place of the exclusion route; or there is no exclusion
\* route, because it was skipped or refused with no more than a warning, and a
\* tracked prefix or the default route covers the server.
ServerInsideHasCause ==
  phase = "up" =>
    \A ip \in ExcludeIPs : Via(ip) = "tun" =>
      \/ {ip} \in added /\ ({ip} \in Routes \/ ip \in wanted)
      \/ ip \notin excluded /\ (defaulted \/ \E dst \in added : ip \in dst)

\* "IPs to route via existing default gateway (e.g. VPN server)" (tun.go:44): an
\* exclusion route that was installed stays in effect while the tunnel may run.
ExclusionsKept == phase = "up" => \A ip \in excluded : Via(ip) # "tun"

\* RemoveRoutes "removes all routes added by this device" (tun.go:105).  Of
\* everything that was configured only the exclusion routes survive the device,
\* which it does not know of, and of the user's routes only those are lost whose prefix the
\* program routed itself, the default route included when it had metric 0.
OnlyExclusionsLeft ==
  phase \in {"failed", "closed"} =>
    /\ table \ user \subseteq {[dst |-> {ip}, metric |-> 0, via |-> "gw"] :
                                 ip \in excluded}
    /\ \A r \in user \ table :
         /\ r.metric = 0
         /\ \/ r.dst \in Routes \cup {{ip} : ip \in Addresses}
            \/ r.dst = Default /\ defaulted
    /\ ~linkDNS

\* AddRouteWithDomain "adds a host route for the given IP through the TUN
\* device" (tun.go:478), or relies on a tracked one: while the device is up, an
\* address for which it returned no error is reached through the tunnel, unless
\* a longer route of the user or an exclusion route takes it elsewhere.
ResolvedThroughTunnel ==
  phase = "up" =>
    \A ip \in wanted :
      \/ Via(ip) = "tun"
      \/ ip \in excluded
      \/ /\ \E r \in Matching(ip) : r.via = "tun"
         /\ \E r \in Matching(ip) \cap user : r.dst # Default
=============================================================================
