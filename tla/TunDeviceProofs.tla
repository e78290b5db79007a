--------------------------- MODULE TunDeviceProofs ---------------------------
(***************************************************************************)
(* Proofs about TunDevice, for any addresses, pushed routes and routing     *)
(* tables of the user.  Everything is about the table, so that each action   *)
(* is first reduced to what it does to the table: nothing, one or two added  *)
(* routes, deletions of tracked routes, or the end of the link.            *)
(***************************************************************************)
EXTENDS TunDevice, LoopTheorems

-----------------------------------------------------------------------------
(* What the invariants rest on.                                            *)

HostRoute(ip)  == [dst |-> {ip}, metric |-> 0, via |-> "gw"]
TunRoute(dst)  == [dst |-> dst, metric |-> 0, via |-> "tun"]

OneRoutePerPrefix(t) == \A r, s \in t : r.dst = s.dst /\ r.metric = s.metric => r = s

\* Nothing is tracked before the pushed routes, and what is tracked is in the
\* table for as long as there is a link, also before the device is up.
InstalledWhileLinked ==
  /\ phase \in {"none", "address", "exclude"} => added = {}
  /\ phase \notin {"failed", "closed"} =>
       \A dst \in added :
         \/ TunRoute(dst) \in table
         \/ defaulted /\ dst = {ServerIP} /\ ServerIP \in excluded

\* Tracked are pushed routes and host routes.  As long as the device is up, one of
\* them covers every address that somebody was promised, and every host route
\* was pushed or promised.
TrackedAsAsked ==
  /\ added \cup undeleted \subseteq Routes \cup {{ip} : ip \in Addresses}
  /\ phase \notin {"removed", "reverted", "closed", "failed"} =>
       /\ undeleted = {}
       /\ \A ip \in wanted : \E dst \in added : ip \in dst
       /\ \A ip \in Addresses : {ip} \in added => {ip} \in Routes \/ ip \in wanted

\* Only a host route through the device takes an exclusion route's place.
ExclusionsStay ==
  phase \notin {"removed", "reverted", "closed", "failed"} =>
    \A ip \in excluded : HostRoute(ip) \in table \/ {ip} \in added

\* OnlyExclusionsLeft while routes through the device are still there.
NewRoutes ==
  \A r \in table \ user : r = TunRoute(r.dst) \/ \E ip \in excluded : r = HostRoute(ip)

LostRoutes ==
  \A r \in user \ table :
    /\ r.metric = 0
    /\ \/ r.dst \in Routes \cup {{ip} : ip \in Addresses}
       \/ r.dst = Default /\ defaulted

LinkGoneAtEnd ==
  phase \in {"failed", "closed"} => ~linkDNS /\ \A r \in table : r.via # "tun"

Inv == /\ TypeOK /\ TunRoutesTracked /\ InstalledWhileLinked /\ ExclusionsStay
       /\ TrackedAsAsked /\ NewRoutes /\ LostRoutes /\ LinkGoneAtEnd

-----------------------------------------------------------------------------
(* The kernel's operations on a table.                                      *)

\* A request to add a route keeps every route but the one it replaces.
LEMMA InstalledMembers ==
  ASSUME NEW t, NEW dst, NEW via, NEW r
  PROVE  r \in Installed(t, dst, via)
           <=> \/ r \in t /\ (r.dst # dst \/ r.metric # 0)
               \/ r = [dst |-> dst, metric |-> 0, via |-> via]
BY DEF Installed

\* It leaves a table of routes, with one for each prefix and metric.
LEMMA InstalledIsTable ==
  ASSUME NEW t \in SUBSET Route, NEW dst \in SUBSET Addresses, NEW via \in Via3,
         OneRoutePerPrefix(t)
  PROVE  /\ Installed(t, dst, via) \in SUBSET Route
         /\ OneRoutePerPrefix(Installed(t, dst, via))
<1>1. [dst |-> dst, metric |-> 0, via |-> via] \in Route
  BY DEF Route
<1>2. Installed(t, dst, via) \in SUBSET Route
  BY <1>1 DEF Installed
<1>3. OneRoutePerPrefix(Installed(t, dst, via))
  BY InstalledMembers DEF OneRoutePerPrefix
<1> QED BY <1>2, <1>3

\* The user's routes do not lead into the device.
LEMMA UserRoutes ==
  ASSUME TypeOK
  PROVE  /\ user \subseteq Route
         /\ \A r \in user : r.via # "tun"
         /\ OneRoutePerPrefix(user)
<1>1. user \subseteq [dst : SUBSET Addresses, metric : Nat, via : {"gw", "lan"}]
  BY TunAssumption DEF TypeOK
<1>2. OneRoutePerPrefix(user)
  BY TunAssumption DEF TypeOK, OneRoutePerPrefix
<1>3. {"gw", "lan"} \subseteq Via3 /\ "tun" \notin {"gw", "lan"}
  BY DEF Via3
<1> QED BY <1>1, <1>2, <1>3 DEF Route

-----------------------------------------------------------------------------
(* The initial states.                                                     *)

\* The invariant holds before the device is created.
LEMMA InitInv == Init => Inv
<1> SUFFICES ASSUME Init PROVE Inv
  OBVIOUS
<1>1. /\ user \in UserTables /\ table = user
      /\ \A r \in user : r \in [dst : SUBSET Addresses, metric : Nat, via : {"gw", "lan"}]
      /\ \A r, s \in user : r.dst = s.dst /\ r.metric = s.metric => r = s
  BY TunAssumption DEF Init
<1>2. {"gw", "lan"} \subseteq Via3 /\ "tun" \notin {"gw", "lan"}
  BY DEF Via3
<1>3. user \subseteq Route
  BY <1>1, <1>2 DEF Route
<1>4. TypeOK
  BY <1>1, <1>3 DEF Init, TypeOK
<1>5. TunRoutesTracked
  BY <1>1, <1>2 DEF TunRoutesTracked
<1>6. InstalledWhileLinked /\ ExclusionsStay /\ TrackedAsAsked /\ LinkGoneAtEnd
  BY DEF Init, InstalledWhileLinked, ExclusionsStay, TrackedAsAsked, LinkGoneAtEnd
<1>7. NewRoutes /\ LostRoutes
  BY <1>1 DEF NewRoutes, LostRoutes
<1> QED BY <1>4, <1>5, <1>6, <1>7 DEF Inv

-----------------------------------------------------------------------------
(* Steps.  TableInOrder is what a step must show of the table alone.        *)

MayBeLost(r) ==
  /\ r.metric = 0
  /\ \/ r.dst \in Routes \cup {{ip} : ip \in Addresses}
     \/ r.dst = Default /\ defaulted

TableInOrder ==
  /\ table' \in SUBSET Route /\ OneRoutePerPrefix(table')
  /\ \A r \in table' : r.via = "tun" => OwnPrefix(r.dst)'
  /\ \A r \in table' \ table : r = TunRoute(r.dst) \/ \E ip \in excluded' : r = HostRoute(ip)
  /\ \A r \in table \ table' : r.via = "tun" \/ MayBeLost(r)'

\* Such a step keeps the table tracked, new routes the program's own, and the
\* lost ones to those it may replace: no route of the user is a tun route.
LEMMA TableStep ==
  ASSUME Inv, TableInOrder, user' = user, excluded \subseteq excluded',
         defaulted => defaulted'
  PROVE  TunRoutesTracked' /\ NewRoutes' /\ LostRoutes'
<1>1. TunRoutesTracked'
  BY DEF TableInOrder, TunRoutesTracked, OneRoutePerPrefix
<1>2. NewRoutes'
  BY DEF TableInOrder, Inv, NewRoutes, HostRoute
<1>3. \A r \in user : r.via # "tun"
  BY UserRoutes DEF Inv
<1>4. \A r \in user \ table : MayBeLost(r)'
  BY DEF Inv, LostRoutes, MayBeLost
<1>5. LostRoutes'
  BY <1>3, <1>4 DEF TableInOrder, LostRoutes, MayBeLost
<1> QED BY <1>1, <1>2, <1>5

\* A step that adds one route, through the device and tracked, or around it.
LEMMA AddInOrder ==
  ASSUME Inv, NEW dst \in SUBSET Addresses, NEW via \in {"gw", "tun"},
         table' = Installed(table, dst, via), undeleted' = undeleted,
         added \subseteq added',
         defaulted' = defaulted, via = "tun" => dst \in added',
         via = "gw" => \E ip \in excluded' : dst = {ip},
         MayBeLost([dst |-> dst, metric |-> 0, via |-> via])'
  PROVE  TableInOrder
<1> DEFINE new == [dst |-> dst, metric |-> 0, via |-> via]
<1>1. via \in Via3
  BY DEF Via3
<1>2. table \in SUBSET Route /\ OneRoutePerPrefix(table)
  BY DEF Inv, TypeOK, TunRoutesTracked, OneRoutePerPrefix
<1>3. table' \in SUBSET Route /\ OneRoutePerPrefix(table')
  BY <1>1, <1>2, InstalledIsTable
<1>4. \A r : r \in table' <=> (r \in table /\ (r.dst # dst \/ r.metric # 0)) \/ r = new
  BY InstalledMembers
<1>5. \A r \in table' : r.via = "tun" => OwnPrefix(r.dst)'
  BY <1>4 DEF Inv, TunRoutesTracked, OwnPrefix
<1>6. \A r \in table' \ table : r = TunRoute(r.dst) \/ \E ip \in excluded' : r = HostRoute(ip)
  BY <1>4 DEF HostRoute, TunRoute
<1>7. \A r \in table \ table' : MayBeLost(r)'
  BY <1>4 DEF MayBeLost
<1> QED BY <1>3, <1>5, <1>6, <1>7 DEF TableInOrder

\* A step that only deletes routes, all of them through the device, from the
\* list of tracked routes only what it deletes.
LEMMA DeleteInOrder ==
  ASSUME Inv, table' \subseteq table, \A r \in table \ table' : r.via = "tun",
         \A r \in table' : r.via = "tun" => OwnPrefix(r.dst)'
  PROVE  TableInOrder
BY DEF TableInOrder, Inv, TypeOK, TunRoutesTracked, OneRoutePerPrefix

\* AddDefaultRoute may add two routes, the exclusion route first.
LEMMA DefaultInOrder ==
  ASSUME Inv, AddDefaultRoute
  PROVE  TableInOrder
<1>1. PICK host \in BOOLEAN, default \in BOOLEAN :
        LET t == IF host /\ HasGateway THEN Installed(table, {ServerIP}, "gw") ELSE table
        IN  /\ excluded' = IF host /\ HasGateway THEN excluded \cup {ServerIP}
                           ELSE excluded
            /\ table' = IF default THEN Installed(t, Default, "tun") ELSE t
  BY DEF AddDefaultRoute
<1> DEFINE t == IF host /\ HasGateway THEN Installed(table, {ServerIP}, "gw") ELSE table
<1>2. /\ added' = added /\ undeleted' = undeleted /\ defaulted'
  BY DEF AddDefaultRoute
<1>3. table \in SUBSET Route /\ OneRoutePerPrefix(table)
  BY DEF Inv, TypeOK, TunRoutesTracked, OneRoutePerPrefix
<1>4. /\ ServerIP \in Addresses /\ {ServerIP} \in SUBSET Addresses
      /\ Default \in SUBSET Addresses /\ {"gw", "tun"} \subseteq Via3
  BY TunAssumption DEF Default, Via3
<1>5. t \in SUBSET Route /\ OneRoutePerPrefix(t)
  BY <1>3, <1>4, InstalledIsTable
<1>6. table' \in SUBSET Route /\ OneRoutePerPrefix(table')
  BY <1>1, <1>4, <1>5, InstalledIsTable
<1>7. \A r \in t : r \in table \/ (r = HostRoute(ServerIP) /\ ServerIP \in excluded')
  BY <1>1, InstalledMembers DEF HostRoute
<1>8. \A r \in table' : r \in t \/ r = TunRoute(Default)
  BY <1>1, InstalledMembers DEF TunRoute
<1>9. \A r \in table \ t : r.metric = 0 /\ r.dst = {ServerIP}
  BY InstalledMembers
<1>10. \A r \in t \ table' : r.metric = 0 /\ r.dst = Default
  BY <1>1, InstalledMembers
<1>11. \A r \in table' : r.via = "tun" => OwnPrefix(r.dst)'
  <2>1. \A r \in table : r.via = "tun" => OwnPrefix(r.dst)'
    BY <1>2 DEF Inv, TunRoutesTracked, OwnPrefix
  <2>2. HostRoute(ServerIP).via # "tun" /\ TunRoute(Default).dst = Default
    BY DEF TunRoute, HostRoute
  <2> QED BY <1>2, <1>7, <1>8, <2>1, <2>2 DEF OwnPrefix
<1>12. \A r \in table' \ table :
         r = TunRoute(r.dst) \/ \E ip \in excluded' : r = HostRoute(ip)
  <2> SUFFICES ASSUME NEW r \in table' \ table
               PROVE  r = TunRoute(r.dst) \/ \E ip \in excluded' : r = HostRoute(ip)
    OBVIOUS
  <2>1. CASE r \in t BY <1>7, <2>1
  <2>2. CASE r = TunRoute(Default)
    <3>1. r.dst = Default BY <2>2 DEF TunRoute
    <3> QED BY <2>2, <3>1
  <2> QED BY <1>8, <2>1, <2>2
<1>13. \A r \in table \ table' : MayBeLost(r)'
  BY <1>2, <1>4, <1>9, <1>10 DEF MayBeLost
<1> QED BY <1>6, <1>11, <1>12, <1>13 DEF TableInOrder

\* A step that leaves the table alone and drops nothing from the tracked list.
LEMMA SameTable ==
  ASSUME Inv, table' = table, added \subseteq added', undeleted' = undeleted,
         defaulted' = defaulted
  PROVE  TableInOrder
BY DEF TableInOrder, Inv, TypeOK, TunRoutesTracked, OneRoutePerPrefix, OwnPrefix

\* Without its link the table has no route through the device left.
LEMMA EndInOrder ==
  ASSUME Inv, table' = LinkGone(table)
  PROVE  TableInOrder
<1>1. table' \subseteq table /\ \A r \in table \ table' : r.via = "tun"
  BY DEF LinkGone
<1>2. \A r \in table' : r.via # "tun"
  BY DEF LinkGone
<1> QED BY <1>1, <1>2, DeleteInOrder

\* What is tracked stays installed when the one prefix that is routed anew is
\* routed through the device, or is no tracked one.
LEMMA StaysInstalled ==
  ASSUME Inv, NEW dst, NEW via,
         table' = Installed(table, dst, via), defaulted' = defaulted,
         phase' = phase, excluded \subseteq excluded',
         phase \in {"none", "address", "exclude"} => added' = {},
         \/ via = "tun" /\ added' = added \cup {dst}
         \/ added' = {}
  PROVE  InstalledWhileLinked'
BY InstalledMembers DEF Inv, InstalledWhileLinked, TunRoute

\* Likewise for the exclusion routes.
LEMMA ExclusionsStayInstalled ==
  ASSUME Inv, NEW dst, NEW via,
         table' = Installed(table, dst, via), phase' = phase,
         added \subseteq added',
         \/ via = "tun" /\ excluded' = excluded /\ dst \in added'
         \/ via = "gw" /\ \E ip \in Addresses : dst = {ip} /\ excluded' = excluded \cup {ip}
  PROVE  ExclusionsStay'
<1> DEFINE new == [dst |-> dst, metric |-> 0, via |-> via]
<1> SUFFICES ASSUME phase \notin {"removed", "reverted", "closed", "failed"},
                    NEW ip \in excluded'
             PROVE  HostRoute(ip) \in table' \/ {ip} \in added'
  BY DEF ExclusionsStay
<1>1. \A r : r \in table' <=> (r \in table /\ (r.dst # dst \/ r.metric # 0)) \/ r = new
  BY InstalledMembers
<1>2. HostRoute(ip).dst = {ip}
  BY DEF HostRoute
<1>3. CASE dst # {ip}
  <2>1. ip \in excluded
    BY <1>3
  <2>2. HostRoute(ip) \in table \/ {ip} \in added
    BY <2>1 DEF Inv, ExclusionsStay
  <2> QED BY <1>1, <1>2, <1>3, <2>2
<1>4. CASE dst = {ip} /\ via = "gw"
  BY <1>1, <1>4 DEF HostRoute
<1>5. CASE dst = {ip} /\ via = "tun" /\ dst \in added'
  BY <1>5
<1> QED BY <1>3, <1>4, <1>5

-----------------------------------------------------------------------------
(* Every step keeps the invariant.                                          *)

\* The rest of an action that adds a route: types, and the end of the link.
LEMMA StepInv ==
  ASSUME Inv, TypeOK', TableInOrder, user' = user, excluded \subseteq excluded',
         defaulted => defaulted', InstalledWhileLinked', ExclusionsStay',
         TrackedAsAsked', LinkGoneAtEnd'
  PROVE  Inv'
BY TableStep DEF Inv

\* An action that only moves configure on.
LEMMA MoveOn ==
  ASSUME Inv, Create \/ SetAddress \/ ExcludesDone \/ RoutesDone \/ ConfigureDNS
  PROVE  Inv'
<1>1. /\ UNCHANGED <<user, table, excludes, pushes, added, defaulted, excluded,
                     wanted, undeleted>>
      /\ linkDNS' \in BOOLEAN
  BY DEF Inv, TypeOK, Create, SetAddress, ExcludesDone, RoutesDone, ConfigureDNS
<1>2. /\ phase' \in {"address", "exclude", "routes", "dns", "up"}
      /\ phase' \in {"address", "exclude"} => phase \in {"none", "address"}
      /\ phase' \in {"routes", "dns", "up"} => excludes = {}
      /\ phase' \in {"dns", "up"} => pushes = {}
      /\ phase \notin {"removed", "reverted", "closed", "failed"}
  BY DEF Inv, TypeOK, Create, SetAddress, ExcludesDone, RoutesDone, ConfigureDNS
<1>3. TypeOK'
  BY <1>1, <1>2 DEF Inv, TypeOK
<1>4. TableInOrder
  BY <1>1, SameTable
<1>5. InstalledWhileLinked' /\ ExclusionsStay' /\ TrackedAsAsked'
  BY <1>1, <1>2 DEF Inv, InstalledWhileLinked, ExclusionsStay, TrackedAsAsked
<1>6. LinkGoneAtEnd'
  BY <1>2 DEF LinkGoneAtEnd
<1> QED BY <1>1, <1>3, <1>4, <1>5, <1>6, StepInv

\* The device goes, after a failure of New or at the end.
LEMMA EndOfLink ==
  ASSUME Inv, ConfigureFails \/ Close
  PROVE  Inv'
<1>1. /\ UNCHANGED <<user, excludes, pushes, added, defaulted, excluded, wanted,
                     undeleted>>
      /\ table' = LinkGone(table) /\ linkDNS' = FALSE
      /\ phase' \in {"failed", "closed"}
      /\ phase' = "closed" => phase = "reverted"
  BY DEF ConfigureFails, Close
<1>2. table' \subseteq table /\ \A r \in table' : r.via # "tun"
  BY <1>1 DEF LinkGone
<1>3. TypeOK'
  BY <1>1, <1>2 DEF Inv, TypeOK
<1>4. TableInOrder
  BY <1>1, EndInOrder
<1>5. InstalledWhileLinked' /\ ExclusionsStay' /\ TrackedAsAsked' /\ LinkGoneAtEnd'
  BY <1>1, <1>2 DEF Inv, InstalledWhileLinked, ExclusionsStay, TrackedAsAsked, LinkGoneAtEnd
<1> QED BY <1>1, <1>3, <1>4, <1>5, StepInv

\* The route of an excluded address is installed, or fails.
LEMMA ExcludeInv ==
  ASSUME Inv, NEW ip \in ExcludeIPs, Exclude(ip)
  PROVE  Inv'
<1>1. /\ UNCHANGED <<phase, user, pushes, added, linkDNS, defaulted, wanted,
                     undeleted>>
      /\ excludes' \subseteq excludes /\ phase = "exclude"
      /\ \/ UNCHANGED <<table, excluded>>
         \/ /\ table' = Installed(table, {ip}, "gw")
            /\ excluded' = excluded \cup {ip}
  BY DEF Exclude
<1>2. added = {} /\ ip \in Addresses /\ {ip} \in SUBSET Addresses
  BY <1>1, TunAssumption DEF Inv, InstalledWhileLinked
<1>3. TableInOrder
  <2>1. CASE UNCHANGED <<table, excluded>>
    BY <1>1, <2>1, SameTable
  <2>2. CASE table' = Installed(table, {ip}, "gw") /\ excluded' = excluded \cup {ip}
    <3>1. MayBeLost([dst |-> {ip}, metric |-> 0, via |-> "gw"])'
      BY <1>2 DEF MayBeLost
    <3> QED BY <1>1, <1>2, <2>2, <3>1, AddInOrder
  <2> QED BY <1>1, <2>1, <2>2
<1>4. table' \subseteq Route /\ excluded' \subseteq ExcludeIPs
  BY <1>1, <1>3 DEF TableInOrder, Inv, TypeOK
<1>5. TypeOK'
  BY <1>1, <1>4 DEF Inv, TypeOK
<1>6. InstalledWhileLinked'
  BY <1>1, <1>2 DEF InstalledWhileLinked
<1>7. ExclusionsStay'
  <2>1. CASE UNCHANGED <<table, excluded>>
    BY <1>1, <2>1 DEF Inv, ExclusionsStay
  <2>2. CASE table' = Installed(table, {ip}, "gw") /\ excluded' = excluded \cup {ip}
    BY <1>1, <1>2, <2>2, ExclusionsStayInstalled
  <2> QED BY <1>1, <2>1, <2>2
<1>8. LinkGoneAtEnd' /\ TrackedAsAsked'
  BY <1>1 DEF LinkGoneAtEnd, Inv, TrackedAsAsked
<1> QED BY <1>1, <1>3, <1>5, <1>6, <1>7, <1>8, StepInv

\* A pushed route is installed, or fails.
LEMMA PushRouteInv ==
  ASSUME Inv, NEW dst \in Routes, PushRoute(dst)
  PROVE  Inv'
<1>1. /\ UNCHANGED <<phase, user, excludes, linkDNS, defaulted, excluded, wanted,
                     undeleted>>
      /\ pushes' \subseteq pushes /\ phase = "routes"
      /\ \/ UNCHANGED <<table, added>>
         \/ /\ table' = Installed(table, dst, "tun")
            /\ added' = added \cup {dst}
  BY DEF PushRoute
<1>2. dst \in SUBSET Addresses
  BY TunAssumption
<1>3. CASE UNCHANGED <<table, added>>
  <2>1. TypeOK' /\ TableInOrder
    BY <1>1, <1>3, SameTable DEF Inv, TypeOK
  <2>2. InstalledWhileLinked' /\ ExclusionsStay' /\ TrackedAsAsked' /\ LinkGoneAtEnd'
    BY <1>1, <1>3 DEF Inv, InstalledWhileLinked, ExclusionsStay, TrackedAsAsked, LinkGoneAtEnd
  <2> QED BY <1>1, <2>1, <2>2, StepInv
<1>4. CASE /\ table' = Installed(table, dst, "tun")
           /\ added' = added \cup {dst}
  <2>1. MayBeLost([dst |-> dst, metric |-> 0, via |-> "tun"])'
    BY <1>4 DEF MayBeLost
  <2>2. TableInOrder
    BY <1>1, <1>2, <1>4, <2>1, AddInOrder
  <2>3. TypeOK'
    BY <1>1, <1>2, <1>4, <2>2 DEF TableInOrder, Inv, TypeOK
  <2>4. InstalledWhileLinked'
    BY <1>1, <1>4, StaysInstalled
  <2>5. ExclusionsStay'
    BY <1>1, <1>4, ExclusionsStayInstalled
  <2>6. LinkGoneAtEnd' /\ TrackedAsAsked'
    BY <1>1, <1>4 DEF LinkGoneAtEnd, Inv, TrackedAsAsked
  <2> QED BY <1>1, <2>2, <2>3, <2>4, <2>5, <2>6, StepInv
<1> QED BY <1>1, <1>3, <1>4

\* The default route is installed, with the host route of the gateway before it.
LEMMA AddDefaultRouteInv ==
  ASSUME Inv, AddDefaultRoute
  PROVE  Inv'
<1>1. PICK host \in BOOLEAN, default \in BOOLEAN :
        LET t == IF host /\ HasGateway THEN Installed(table, {ServerIP}, "gw") ELSE table
        IN  /\ excluded' = IF host /\ HasGateway THEN excluded \cup {ServerIP}
                           ELSE excluded
            /\ table' = IF default THEN Installed(t, Default, "tun") ELSE t
  BY DEF AddDefaultRoute
<1> DEFINE t == IF host /\ HasGateway THEN Installed(table, {ServerIP}, "gw") ELSE table
<1>2. /\ UNCHANGED <<phase, user, excludes, pushes, added, linkDNS, wanted, undeleted>>
      /\ phase = "up" /\ defaulted' = TRUE
  BY DEF AddDefaultRoute
<1>3. ServerIP \in ExcludeIPs /\ ServerIP \in Addresses /\ \A ip \in Addresses : Default # {ip}
  BY TunAssumption DEF Default
<1>4. TableInOrder
  BY DefaultInOrder
<1>5. excluded \subseteq excluded' /\ excluded' \subseteq ExcludeIPs
  BY <1>1, <1>3 DEF Inv, TypeOK
<1>6. TypeOK'
  BY <1>2, <1>4, <1>5 DEF TableInOrder, Inv, TypeOK
<1>7. \A r \in table : r \in t \/ (r.dst = {ServerIP} /\ ServerIP \in excluded')
  BY <1>1, InstalledMembers
<1>8. \A r \in t : r \in table' \/ (r.dst = Default /\ r.metric = 0 /\ TunRoute(Default) \in table')
  BY <1>1, InstalledMembers DEF TunRoute
<1>9. InstalledWhileLinked'
  <2> SUFFICES ASSUME NEW dst \in added
               PROVE  TunRoute(dst) \in table' \/ (dst = {ServerIP} /\ ServerIP \in excluded')
    BY <1>2 DEF InstalledWhileLinked
  <2>1. TunRoute(dst) \in table \/ (dst = {ServerIP} /\ ServerIP \in excluded')
    BY <1>2, <1>5 DEF Inv, InstalledWhileLinked
  <2>2. TunRoute(dst).dst = dst
    BY DEF TunRoute
  <2> QED BY <1>7, <1>8, <2>1, <2>2
<1>10. ExclusionsStay'
  <2> SUFFICES ASSUME NEW ip \in excluded'
               PROVE  HostRoute(ip) \in table' \/ {ip} \in added
    BY <1>2 DEF ExclusionsStay
  <2>1. ip \in Addresses /\ HostRoute(ip).dst = {ip}
    BY <1>5, TunAssumption DEF HostRoute
  <2>2. HostRoute(ip) \in t \/ {ip} \in added
    <3>1. CASE host /\ HasGateway
      <4>1. HostRoute(ServerIP) \in t
        BY <3>1, InstalledMembers DEF HostRoute
      <4>2. CASE ip = ServerIP
        BY <4>1, <4>2
      <4>3. CASE ip # ServerIP
        <5>1. ip \in excluded
          BY <1>1, <4>3
        <5>2. HostRoute(ip) \in table \/ {ip} \in added
          BY <1>2, <5>1 DEF Inv, ExclusionsStay
        <5> QED BY <1>7, <2>1, <4>3, <5>2
      <4> QED BY <4>2, <4>3
    <3>2. CASE ~(host /\ HasGateway)
      BY <1>1, <1>2, <3>2 DEF Inv, ExclusionsStay
    <3> QED BY <3>1, <3>2
  <2> QED BY <1>3, <1>8, <2>1, <2>2
<1>11. LinkGoneAtEnd' /\ TrackedAsAsked'
  BY <1>2 DEF LinkGoneAtEnd, Inv, TrackedAsAsked
<1> QED BY <1>2, <1>4, <1>5, <1>6, <1>9, <1>10, <1>11, StepInv

\* An address that a pushed route covers needs no route of its own.
LEMMA RouteCoveredInv ==
  ASSUME Inv, NEW ip \in Addresses, RouteCovered(ip)
  PROVE  Inv'
<1>1. /\ UNCHANGED <<phase, user, table, excludes, pushes, added, linkDNS, defaulted,
                     excluded, undeleted>>
      /\ wanted' = wanted \cup {ip} /\ \E dst \in added : ip \in dst
  BY DEF RouteCovered
<1>2. TypeOK' /\ TableInOrder
  BY <1>1, SameTable DEF Inv, TypeOK
<1>3. InstalledWhileLinked' /\ ExclusionsStay' /\ TrackedAsAsked' /\ LinkGoneAtEnd'
  BY <1>1 DEF Inv, InstalledWhileLinked, ExclusionsStay, TrackedAsAsked, LinkGoneAtEnd
<1> QED BY <1>1, <1>2, <1>3, StepInv

\* The host route of a resolved address that no route covers is installed.
LEMMA AddRouteInv ==
  ASSUME Inv, NEW ip \in Addresses, AddRouteWithDomain(ip)
  PROVE  Inv'
<1>1. /\ UNCHANGED <<phase, user, excludes, pushes, linkDNS, defaulted, excluded,
                     undeleted>>
      /\ table' = Installed(table, {ip}, "tun")
      /\ added' = added \cup {{ip}}
      /\ wanted' = wanted \cup {ip}
      /\ phase \in {"up", "removed", "reverted"}
  BY DEF AddRouteWithDomain, Live
<1>2. MayBeLost([dst |-> {ip}, metric |-> 0, via |-> "tun"])'
  BY DEF MayBeLost
<1>3. TableInOrder
  BY <1>1, <1>2, AddInOrder
<1>4. TypeOK'
  BY <1>1, <1>3 DEF TableInOrder, Inv, TypeOK
<1>5. InstalledWhileLinked'
  BY <1>1, StaysInstalled
<1>6. ExclusionsStay'
  BY <1>1, ExclusionsStayInstalled
<1>7. LinkGoneAtEnd' /\ TrackedAsAsked'
  BY <1>1 DEF LinkGoneAtEnd, Inv, TrackedAsAsked
<1> QED BY <1>1, <1>3, <1>4, <1>5, <1>6, <1>7, StepInv

\* The routes whose deletion failed are no longer tracked but undeleted.
LEMMA RemoveRoutesInv ==
  ASSUME Inv, RemoveRoutes
  PROVE  Inv'
<1>1. /\ UNCHANGED <<user, excludes, pushes, linkDNS, defaulted, excluded>>
      /\ phase = "up" /\ phase' = "removed"
      /\ \/ UNCHANGED <<table, added, wanted, undeleted>>
         \/ /\ added' = {} /\ wanted' = {}
            /\ \E failed \in SUBSET added :
                 /\ table' = Deleted(table, added \ failed)
                 /\ undeleted' = undeleted \cup failed
  BY DEF RemoveRoutes
<1>2. ExclusionsStay' /\ LinkGoneAtEnd'
  BY <1>1 DEF ExclusionsStay, LinkGoneAtEnd
<1>3. CASE UNCHANGED <<table, added, wanted, undeleted>>
  <2>1. TypeOK' /\ TableInOrder
    BY <1>1, <1>3, SameTable DEF Inv, TypeOK
  <2>2. InstalledWhileLinked' /\ TrackedAsAsked'
    BY <1>1, <1>3 DEF Inv, InstalledWhileLinked, TrackedAsAsked
  <2> QED BY <1>1, <1>2, <2>1, <2>2, StepInv
<1>4. ASSUME added' = {}, wanted' = {}, NEW failed \in SUBSET added,
             table' = Deleted(table, added \ failed),
             undeleted' = undeleted \cup failed
      PROVE  Inv'
  <2>1. table' \subseteq table /\ \A r \in table \ table' : r.via = "tun"
    BY <1>4 DEF Deleted
  <2>2. \A r \in table' : r.via = "tun" => OwnPrefix(r.dst)'
    BY <1>1, <1>4 DEF Deleted, Inv, TunRoutesTracked, OwnPrefix
  <2>3. TableInOrder
    BY <2>1, <2>2, DeleteInOrder
  <2>4. TypeOK'
    BY <1>1, <1>4, <2>1 DEF Inv, TypeOK
  <2>5. InstalledWhileLinked' /\ TrackedAsAsked'
    BY <1>1, <1>4 DEF InstalledWhileLinked, Inv, TrackedAsAsked
  <2> QED BY <1>1, <1>2, <2>3, <2>4, <2>5, StepInv
<1> QED BY <1>1, <1>3, <1>4

\* The DNS settings of the link are reverted, or stay.
LEMMA RemoveDNSInv ==
  ASSUME Inv, RemoveDNS
  PROVE  Inv'
<1>1. /\ UNCHANGED <<user, table, excludes, pushes, added, defaulted, excluded,
                     wanted, undeleted>>
      /\ linkDNS' \in BOOLEAN /\ phase = "removed" /\ phase' = "reverted"
  BY DEF RemoveDNS, Inv, TypeOK
<1>2. TypeOK' /\ TableInOrder
  BY <1>1, SameTable DEF Inv, TypeOK
<1>3. InstalledWhileLinked' /\ ExclusionsStay' /\ TrackedAsAsked' /\ LinkGoneAtEnd'
  BY <1>1 DEF Inv, InstalledWhileLinked, ExclusionsStay, TrackedAsAsked, LinkGoneAtEnd
<1> QED BY <1>1, <1>2, <1>3, StepInv

\* A step that changes nothing keeps the invariant.
LEMMA Stutter == Inv /\ UNCHANGED vars => Inv'
<1> SUFFICES ASSUME Inv, UNCHANGED vars PROVE Inv'
  OBVIOUS
<1>1. TypeOK' /\ TableInOrder
  BY SameTable DEF Inv, TypeOK, vars
<1>2. InstalledWhileLinked' /\ ExclusionsStay' /\ TrackedAsAsked' /\ LinkGoneAtEnd'
  BY DEF Inv, InstalledWhileLinked, ExclusionsStay, TrackedAsAsked, LinkGoneAtEnd, vars
<1> QED BY <1>1, <1>2, StepInv DEF vars

\* Every step of the device keeps the invariant.
LEMMA NextInv == Inv /\ [Next]_vars => Inv'
<1> SUFFICES ASSUME Inv, [Next]_vars PROVE Inv'
  OBVIOUS
<1>1. CASE Configure
  <2>1. CASE Create \/ SetAddress \/ ExcludesDone \/ RoutesDone \/ ConfigureDNS
    BY <2>1, MoveOn
  <2>2. CASE ConfigureFails
    BY <2>2, EndOfLink
  <2>3. CASE \E ip \in ExcludeIPs : Exclude(ip)
    BY <2>3, ExcludeInv
  <2>4. CASE \E dst \in Routes : PushRoute(dst)
    BY <2>4, PushRouteInv
  <2> QED BY <1>1, <2>1, <2>2, <2>3, <2>4 DEF Configure
<1>2. CASE AddDefaultRoute
  BY <1>2, AddDefaultRouteInv
<1>3. CASE \E ip \in Addresses : RouteCovered(ip) \/ AddRouteWithDomain(ip)
  BY <1>3, RouteCoveredInv, AddRouteInv
<1>4. CASE RemoveRoutes
  BY <1>4, RemoveRoutesInv
<1>5. CASE RemoveDNS
  BY <1>5, RemoveDNSInv
<1>6. CASE Close
  BY <1>6, EndOfLink
<1>7. CASE Closed \/ UNCHANGED vars
  BY <1>7, Stutter DEF Closed
<1> QED BY <1>1, <1>2, <1>3, <1>4, <1>5, <1>6, <1>7 DEF Next

\* The inductive invariant holds in every reachable state.
THEOREM Invariant == Spec => []Inv
<1>1. Init => Inv
  BY InitInv
<1>2. Inv /\ [Next]_vars => Inv'
  BY NextInv
<1> QED BY <1>1, <1>2, PTL DEF Spec

-----------------------------------------------------------------------------
(* The properties.                                                         *)

\* configure has tried every exclusion and every pushed route before it goes
\* on, and the variables keep their types.
THEOREM TypeCorrect == Spec => []TypeOK
<1>1. Inv => TypeOK
  BY DEF Inv
<1> QED BY <1>1, Invariant, PTL

\* d.addedRoutes and the kernel's table agree, whatever the kernel refuses to
\* add or to delete and whatever the gateway and the DNS answers ask for.
THEOREM TrackingCorrect == Spec => []TrackedIffInstalled
<1>1. Inv => TrackedIffInstalled
  <2> SUFFICES ASSUME Inv PROVE TrackedIffInstalled
    OBVIOUS
  <2>1. Live => phase \notin {"failed", "closed"}
    BY DEF Live
  <2>2. TrackedIsInstalled
    BY <2>1 DEF Inv, InstalledWhileLinked, TrackedIsInstalled, TunRoute
  <2> QED BY <2>2 DEF Inv, TrackedIffInstalled
<1> QED BY <1>1, Invariant, PTL

\* A route with metric 0 decides where an address goes when no prefix is longer:
\* the table has only one such route.
LEMMA RouteDecides ==
  ASSUME Inv, NEW ip, NEW route \in Matching(ip), route.metric = 0,
         \A s \in Matching(ip) : route.dst \subseteq s.dst
  PROVE  Via(ip) = route.via
<1> DEFINE longest == {r \in Matching(ip) : \A s \in Matching(ip) : r.dst \subseteq s.dst}
           best    == {r \in longest : \A s \in longest : r.metric <= s.metric}
<1>1. /\ \A r \in Matching(ip) : r \in table /\ r.metric \in Nat
      /\ OneRoutePerPrefix(table)
  BY DEF Inv, TypeOK, Route, TunRoutesTracked, OneRoutePerPrefix, Matching
<1>2. route \in longest /\ \A r \in longest : r \in table /\ r.dst = route.dst
  BY <1>1
<1>3. route \in best
  BY <1>1, <1>2
<1>4. \A r \in best : r.metric = 0
  BY <1>1, <1>2
<1>5. \A r \in best : r = route
  BY <1>1, <1>2, <1>4 DEF OneRoutePerPrefix
<1>6. best # {} /\ (CHOOSE r \in best : TRUE) = route
  BY <1>3, <1>5
<1>7. Via(ip) = IF best = {} THEN "none" ELSE (CHOOSE r \in best : TRUE).via
  BY DEF Via
<1> QED BY <1>6, <1>7

\* No prefix is longer than that of an exclusion route.
LEMMA HostRouteDecides ==
  ASSUME Inv, NEW ip, HostRoute(ip) \in table
  PROVE  Via(ip) = "gw"
<1>1. /\ HostRoute(ip).dst = {ip} /\ HostRoute(ip).metric = 0
      /\ HostRoute(ip).via = "gw"
  BY DEF HostRoute
<1>2. HostRoute(ip) \in Matching(ip)
  BY <1>1 DEF Matching
<1>3. \A s \in Matching(ip) : HostRoute(ip).dst \subseteq s.dst
  BY <1>1 DEF Matching
<1> QED BY <1>1, <1>2, <1>3, RouteDecides

\* The packets that enter the tunnel enter it by a route that covers them.
LEMMA EntersByRoute ==
  ASSUME NEW ip, Via(ip) = "tun"
  PROVE  \E r \in table : r.via = "tun" /\ ip \in r.dst
<1> DEFINE longest == {r \in Matching(ip) : \A s \in Matching(ip) : r.dst \subseteq s.dst}
           best    == {r \in longest : \A s \in longest : r.metric <= s.metric}
<1>1. Via(ip) = IF best = {} THEN "none" ELSE (CHOOSE r \in best : TRUE).via
  BY DEF Via
<1>2. best # {} /\ (CHOOSE r \in best : TRUE).via = "tun"
  BY <1>1
<1>3. (CHOOSE r \in best : TRUE) \in best
  BY <1>2
<1>4. \A r \in best : r \in table /\ ip \in r.dst
  BY DEF Matching
<1> QED BY <1>2, <1>3, <1>4

\* The packets of the VPN connection go into the tunnel they carry only where a
\* host route to the server was pushed or promised, or where the exclusion route
\* is missing and a tracked prefix or the default route covers the server.
THEOREM ServerInsideForCause == Spec => []ServerInsideHasCause
<1>1. Inv => ServerInsideHasCause
  <2> SUFFICES ASSUME Inv, phase = "up", NEW ip \in ExcludeIPs, Via(ip) = "tun"
               PROVE  \/ {ip} \in added /\ ({ip} \in Routes \/ ip \in wanted)
                      \/ ip \notin excluded /\ (defaulted \/ \E dst \in added : ip \in dst)
    BY DEF ServerInsideHasCause
  <2>1. CASE ip \in excluded
    <3>1. HostRoute(ip) \in table \/ {ip} \in added
      BY <2>1 DEF Inv, ExclusionsStay
    <3>2. HostRoute(ip) \notin table
      <4>1. "gw" # "tun"
        OBVIOUS
      <4> QED BY <4>1, HostRouteDecides
    <3>3. {ip} \in Routes \/ ip \in wanted
      BY <3>1, <3>2, TunAssumption DEF Inv, TrackedAsAsked
    <3> QED BY <3>1, <3>2, <3>3
  <2>2. CASE ip \notin excluded
    <3>1. PICK r \in table : r.via = "tun" /\ ip \in r.dst
      BY EntersByRoute
    <3>2. r.dst \in added \/ (r.dst = Default /\ defaulted)
      BY <3>1 DEF Inv, TunRoutesTracked, OwnPrefix, TrackedAsAsked
    <3> QED BY <2>2, <3>1, <3>2
  <2> QED BY <2>1, <2>2
<1> QED BY <1>1, Invariant, PTL

\* What is left behind at the end, and what was replaced for good.
THEOREM LeavesOnlyExclusions == Spec => []OnlyExclusionsLeft
<1>1. Inv => OnlyExclusionsLeft
  <2> SUFFICES ASSUME Inv, phase \in {"failed", "closed"} PROVE OnlyExclusionsLeft
    BY DEF OnlyExclusionsLeft
  <2>1. ~linkDNS /\ \A r \in table : r.via # "tun"
    BY DEF Inv, LinkGoneAtEnd
  <2>2. \A r \in table \ user : \E ip \in excluded : r = HostRoute(ip)
    BY <2>1 DEF Inv, NewRoutes, TunRoute
  <2>3. table \ user \subseteq {[dst |-> {ip}, metric |-> 0, via |-> "gw"] :
                                  ip \in excluded}
    BY <2>2 DEF HostRoute
  <2>4. LostRoutes
    BY DEF Inv
  <2> QED BY <2>1, <2>3, <2>4 DEF OnlyExclusionsLeft, LostRoutes
<1> QED BY <1>1, Invariant, PTL

\* Prefixes that are tracked or lead into the device are nested when they have an
\* address in common.
LEMMA Nested ==
  ASSUME NEW d \in Routes \cup {{ip} : ip \in Addresses} \cup {Default},
         NEW e \in Routes \cup {{ip} : ip \in Addresses} \cup {Default},
         d \cap e # {}
  PROVE  d \subseteq e \/ e \subseteq d
<1>1. d \subseteq Default /\ e \subseteq Default
  BY TunAssumption DEF Default
<1>2. CASE d = Default \/ e = Default
  BY <1>1, <1>2
<1>3. CASE (\E ip \in Addresses : d = {ip}) \/ (\E ip \in Addresses : e = {ip})
  BY <1>3
<1>4. CASE d \in Routes /\ e \in Routes
  BY <1>4, TunAssumption
<1> QED BY <1>2, <1>3, <1>4

\* Where no other routes cover an address, the longest one into the device decides.
LEMMA LongestDecides ==
  ASSUME Inv, NEW ip \in Addresses, NEW dst \in added, ip \in dst, TunRoute(dst) \in table,
         \A r \in Matching(ip) : r = TunRoute(r.dst) \/ r.dst = Default
  PROVE  Via(ip) = "tun"
<1> DEFINE M     == Matching(ip)
           dsts  == {r.dst : r \in M}
           Known == Routes \cup {{a} : a \in Addresses} \cup {Default}
<1>1. /\ TunRoute(dst) \in M /\ dst \in dsts /\ dst \subseteq Default
      /\ \A d : TunRoute(d).dst = d /\ TunRoute(d).metric = 0 /\ TunRoute(d).via = "tun"
  <2>1. dst \subseteq Default
    BY TunAssumption DEF Inv, TrackedAsAsked, Default
  <2> QED BY <2>1 DEF TunRoute, Matching
<1>2. \A d \in dsts : d \in Known /\ ip \in d
  <2>1. \A r \in M : r.via = "tun" => r.dst \in Known
    BY DEF Inv, TunRoutesTracked, OwnPrefix, TrackedAsAsked, Matching
  <2>2. \A r \in M : r.dst \in Known /\ ip \in r.dst
    BY <1>1, <2>1 DEF Matching
  <2> QED BY <2>2
<1>3. \A d \in dsts : IsFiniteSet(d)
  <2>1. \A d \in dsts : d \in SUBSET Addresses
    BY <1>2, TunAssumption DEF Default
  <2> QED BY <2>1, FS_Subset, TunAssumption
<1> HIDE DEF dsts, Known
<1>4. PICK d0 \in dsts : \A d \in dsts : d \subseteq d0 => d = d0
  BY <1>1, <1>3, SmallestSet
<1>5. \A d \in dsts : d0 \subseteq d
  BY <1>2, <1>4, Nested DEF Known
<1>6. TunRoute(d0) \in M
  <2>1. PICK r0 \in M : r0.dst = d0
    BY DEF dsts
  <2>2. CASE d0 = Default
    <3>1. dst = d0
      BY <1>1, <1>5, <2>2
    <3> QED BY <1>1, <3>1
  <2>3. CASE d0 # Default
    <3>1. r0 = TunRoute(d0)
      BY <2>1, <2>3
    <3> QED BY <3>1
  <2> QED BY <2>2, <2>3
<1>7. \A s \in M : TunRoute(d0).dst \subseteq s.dst
  BY <1>1, <1>5 DEF dsts
<1> QED BY <1>1, <1>6, <1>7, RouteDecides

\* What AddRouteWithDomain promises for an address holds as long as the device is
\* up, whatever the gateway pushed and whichever prefix the promise relied on.
THEOREM PromisesKept == Spec => []ResolvedThroughTunnel
<1>1. Inv => ResolvedThroughTunnel
  <2> SUFFICES ASSUME Inv, phase = "up", NEW ip \in wanted, ip \notin excluded,
                      Via(ip) # "tun"
               PROVE  /\ \E r \in Matching(ip) : r.via = "tun"
                      /\ \E r \in Matching(ip) \cap user : r.dst # Default
    BY DEF ResolvedThroughTunnel
  <2>1. PICK dst \in added : ip \in dst
    BY DEF Inv, TrackedAsAsked
  <2>2. TunRoute(dst) \in table
    BY <2>1 DEF Inv, InstalledWhileLinked
  <2>3. TunRoute(dst) \in Matching(ip) /\ TunRoute(dst).via = "tun"
    BY <2>1, <2>2 DEF TunRoute, Matching
  <2>4. ip \in Addresses
    BY DEF Inv, TypeOK
  <2>5. PICK r \in Matching(ip) : r # TunRoute(r.dst) /\ r.dst # Default
    BY <2>1, <2>2, <2>4, LongestDecides
  <2>6. r \in user
    <3> SUFFICES ASSUME r \notin user PROVE FALSE
      OBVIOUS
    <3>1. PICK x \in excluded : r = HostRoute(x)
      BY <2>5 DEF Inv, NewRoutes, Matching
    <3>2. r.dst = {x} /\ ip \in r.dst
      BY <3>1 DEF HostRoute, Matching
    <3> QED BY <3>2
  <2> QED BY <2>3, <2>5, <2>6
<1> QED BY <1>1, Invariant, PTL
=============================================================================
