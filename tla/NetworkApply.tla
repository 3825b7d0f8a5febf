---------------------------- MODULE NetworkApply ----------------------------
(* netconf: a network configuration is applied to the links of the machine    *)
(* (pkg/netconf, cmd/network, pkg/hostname).  cloud-init-save applies one     *)
(* before it has asked the datasources and one after, and the network service *)
(* a third, all to the same kernel: what an earlier one left is the state the *)
(* next one starts from.                                                      *)
EXTENDS Naturals, Sequences, SequencesExt, FiniteSets, TLC

CONSTANTS
    Physical,   \* the physical links but those of Wi-Fi, in the order of their index
    Wireless,   \* those of Wi-Fi
    Wild,       \* pattern with a wildcard |-> the names it matches
    Mac,        \* pattern with a MAC address, or a wildcard for some |-> the links
                \* that have them
    Lease,      \* link |-> the address its DHCP server offers
    Reach,      \* gateway |-> the addresses of links in whose network it is
    MaxFaults   \* bound on the calls to the kernel that fail

VARIABLES
    \* the kernel and the files
    dev,        \* link |-> see NewLink
    index,      \* the links but those of Wi-Fi in the order of their index
    mode,       \* bond |-> its mode
    gateway,    \* the default route added without a metric: see NoRoute
    resolv,     \* who wrote /etc/resolv.conf last
    hostname,   \* who set the host name last
    \* the program
    step,       \* where ApplyNetworkConfigs stands
    cfg,        \* the configuration it works on: a Config
    listed,     \* link |-> its MAC address when the links were listed last
    todo,       \* links still to do
    \* history
    faults,     \* calls that failed
    broken,     \* links a call failed on during this application
    returned    \* addresses given back with a lease during this application

kernel == <<dev, index, mode, gateway, resolv, hostname>>
history == <<faults, broken, returned>>

None == "none"
Fault == faults < MaxFaults /\ faults' = faults + 1
Fine == UNCHANGED <<faults, broken>>
Breaks(l) == Fault /\ broken' = broken \cup {l}

\* A Config: [ifaces |-> interfaces by their key, dns, named |-> the user set
\* name servers, a host name].  An interface holds only the fields that are set.
Get(iface, field, default) == IF field \in DOMAIN iface THEN iface[field] ELSE default
Addresses(iface) == Get(iface, "addresses", {})
Dhcp(iface) == Get(iface, "dhcp", FALSE) \/ "wifi" \in DOMAIN iface

NewLink(type, mac) ==
    [type |-> type, mac |-> mac, up |-> FALSE, master |-> None,
     addrs |-> {}, lease |-> None, linkLocal |-> FALSE]
\* The default route: the gateway and the link it is reached by.
NoRoute == [via |-> None, dev |-> None]
Slaves(d, m) == {l \in DOMAIN d : d[l].master = m}

-----------------------------------------------------------------------------
(* Which interface of the configuration a link takes                         *)

\* GetValidLinkList.
MacsOf(d) == [l \in DOMAIN d |-> d[l].mac]

\* A bond has the address of its first slave and a VLAN that of its parent.
MacMatches(pattern, l, iface) ==
    /\ pattern \in DOMAIN Mac /\ listed[l] \in Mac[pattern]
    /\ l # Get(iface, "bond", None) /\ dev[l].type # "vlan"

\* findMatch: a MAC address, or a wildcard for some, comes before a name and a name
\* before a wildcard for names; among several of one sort the order of a Go map
\* decides.  The addresses are those at the time when the links were listed.
FindMatch(l) ==
    LET Match(k) == Get(cfg.ifaces[k], "match", k)
        macs == {k \in DOMAIN cfg.ifaces : MacMatches(Match(k), l, cfg.ifaces[k])}
        exact == {k \in DOMAIN cfg.ifaces : Match(k) = l}
        wild == {k \in DOMAIN cfg.ifaces :
                   Match(k) \in DOMAIN Wild /\ l \in Wild[Match(k)]}
    IN {cfg.ifaces[k] : k \in IF macs # {} THEN macs
                              ELSE IF exact # {} THEN exact ELSE wild}

\* populateDefault: DHCP on every eth link when nothing is configured.  The
\* entry it adds for lo is never used: GetValidLinkList leaves lo out.
PopulateDefault(c) ==
    IF DOMAIN c.ifaces = {} THEN [c EXCEPT !.ifaces = ("eth*" :> [dhcp |-> TRUE])] ELSE c

-----------------------------------------------------------------------------
(* Virtual links                                                             *)

\* SetHostnameFromCloudConfig.
HostnameOf(c) == IF c.named THEN "user" ELSE "default"
\* ApplyNetworkConfig up to netconf: the host name is set, the dhcpcd and wpa
\* files are generated.
StartApply(c) ==
    /\ step \in {"idle", "applied"}
    /\ cfg' = PopulateDefault(c)
    /\ hostname' = HostnameOf(c)
    /\ step' = "create" /\ broken' = {} /\ returned' = {}
    /\ UNCHANGED <<dev, index, mode, gateway, resolv, listed, todo, faults>>

\* An entry stands for a bridge or for a port of one, or else for a slave.
Bridges ==
    {IF cfg.ifaces[k].bridge = "true" THEN k ELSE cfg.ifaces[k].bridge :
       k \in {j \in DOMAIN cfg.ifaces : "bridge" \in DOMAIN cfg.ifaces[j]}}
Bonds ==
    {cfg.ifaces[k].bond :
       k \in {j \in DOMAIN cfg.ifaces : /\ "bond" \in DOMAIN cfg.ifaces[j]
                                         /\ "bridge" \notin DOMAIN cfg.ifaces[j]}}
\* The mode a bond is to have: that of the entry with its name.
ModeOf(b) == IF b \in DOMAIN cfg.ifaces THEN Get(cfg.ifaces[b], "mode", None) ELSE None

\* The bonds and bridges, added where they are not there yet.
AddLinks(bonds, bridges) ==
    [l \in DOMAIN dev \cup bonds \cup bridges |->
       IF l \in DOMAIN dev THEN dev[l]
       ELSE NewLink(IF l \in bonds THEN "bond" ELSE "bridge", l)]

\* Names that links of another type have.
WrongType(names, type) == {l \in names \cap DOMAIN dev : dev[l].type # type}

\* Opt("mode"): the bond is taken down and loses its slaves first.
SetMode(d, bonds) ==
    [l \in DOMAIN d |->
       IF l \in bonds THEN [d[l] EXCEPT !.up = FALSE, !.mac = l]
       ELSE IF d[l].master \in bonds THEN [d[l] EXCEPT !.master = None, !.up = FALSE]
       ELSE d[l]]

\* The kernel drops the routes of a link that is taken down, or that loses its last
\* address.
Flushed(g, d) ==
    IF /\ g.dev \in DOMAIN d
       /\ ~d[g.dev].up \/ (d[g.dev].addrs = {} /\ ~d[g.dev].linkLocal)
    THEN NoRoute ELSE g

\* createInterfaces: bridges and bonds, and the options of the bonds, unless a link
\* of another type has the name.  The kernel refuses another mode while the bond
\* has slaves.
CreateInterfaces ==
    /\ step = "create"
    /\ \E failing \in {{}} \cup {{b} : b \in (Bonds \cup Bridges) \ DOMAIN dev} :
         LET wrong == WrongType(Bonds, "bond")
             bonds == Bonds \ (failing \cup wrong)
             bridges == Bridges \ failing
             moded == {b \in bonds : ModeOf(b) # None}
             after == SetMode(AddLinks(bonds, bridges), moded)
         IN /\ IF failing = {} THEN UNCHANGED faults ELSE Fault
            /\ broken' = broken \cup failing \cup wrong \cup WrongType(Bridges, "bridge")
            /\ dev' = after /\ gateway' = Flushed(gateway, after)
            /\ listed' = MacsOf(after)
            /\ index' = index \o SetToSeq(DOMAIN after \ DOMAIN dev)
            /\ mode' = [b \in DOMAIN mode \cup moded |->
                          IF b \in moded /\ (Slaves(after, b) = {} \/ b \notin DOMAIN mode)
                            THEN ModeOf(b) ELSE mode[b]]
    /\ step' = "vlans"
    /\ UNCHANGED <<resolv, hostname, cfg, todo, returned>>

\* A VLAN has the address of the link it is made on.
NewVlan(parent) == NewLink("vlan", dev[parent].mac)

\* createSlaveInterfaces: the VLANs of the interface that each link matches, unless
\* the links cannot be listed or a VLAN cannot be made.  Then the links are listed
\* again, those of Wi-Fi last.
CreateSlaveInterfaces ==
    /\ step = "vlans"
    /\ \E pick \in [DOMAIN dev -> {Get(cfg.ifaces[k], "vlans", {}) : k \in DOMAIN cfg.ifaces}
                                  \cup {{}}] :
         LET all == [v \in DOMAIN dev \cup UNION Range(pick) |->
                       IF v \in DOMAIN dev THEN dev[v]
                       ELSE NewVlan(CHOOSE l \in DOMAIN dev : v \in pick[l])]
             order == index \o SetToSeq(DOMAIN all \ DOMAIN dev)
             asked == \A l \in DOMAIN dev :
                         pick[l] \in IF FindMatch(l) = {} THEN {{}}
                                    ELSE {Get(c, "vlans", {}) : c \in FindMatch(l)}
         IN /\ dev' = all /\ index' = order /\ listed' = MacsOf(all)
            /\ \/ /\ asked /\ Fine
                  /\ step' = "links" /\ todo' = order \o Wireless
               \/ /\ pick = [l \in DOMAIN dev |-> {}] /\ ~asked
                  /\ Fault /\ UNCHANGED broken
                  /\ step' = "links" /\ todo' = order \o Wireless
               \/ asked /\ Breaks("list") /\ step' = "nolist" /\ todo' = <<>>
    /\ UNCHANGED <<mode, gateway, resolv, hostname, cfg, returned>>

-----------------------------------------------------------------------------
(* One link                                                                  *)

\* Bond.AddSlave: nothing for a link that is one already; a link that becomes
\* one is taken up by the kernel and gives a new bond its address.
Enslave(d, l, b) ==
    [d EXCEPT ![l].master = b,
              ![l].up = d[l].master # b,
              ![b].mac = IF Slaves(d, b) = {} THEN d[l].mac ELSE @]
\* Bridge.AddLink and linkUp; a bridge has the address of a port.
AddPort(d, l, b) ==
    [d EXCEPT ![l].master = b, ![l].up = TRUE,
              ![b].mac = IF Slaves(d, b) = {} THEN d[l].mac ELSE @]
\* Bond and NewBridge make a master that createInterfaces could not make; it
\* comes without its options and is not in the list of links.
Joins(l, m) ==
    /\ broken' = broken \cup IF m \in DOMAIN dev \ broken THEN {} ELSE {l, m}
    /\ UNCHANGED faults
\* Another sort of link has the master's name, or the kernel refuses: a link as
\* its own master, and as a slave one that has another master.
Refused(l, m, type) ==
    \/ l = m
    \/ m \in WrongType({m}, type)
    \/ type = "bond" /\ dev[l].master \notin {None, m}
JoinFails(l, m, type) ==
    /\ IF Refused(l, m, type) THEN UNCHANGED faults ELSE Fault
    /\ broken' = broken \cup {l} \cup ({m} \ DOMAIN dev)

\* A link-local address is assigned or removed; other addresses that are not
\* configured are removed unless there is a link-local one,
Cleared(link, iface) ==
    [link EXCEPT !.linkLocal = "ipv4ll" \in DOMAIN iface,
                 !.addrs = IF "ipv4ll" \in DOMAIN iface THEN @ ELSE @ \cap Addresses(iface)]
\* Mutant: addresses that are not configured are left.
Addressed_KeepOld(link, iface) ==
    [link EXCEPT !.linkLocal = "ipv4ll" \in DOMAIN iface,
                 !.addrs = @ \cup Addresses(iface)]
\* and those that are configured are added.
Addressed(link, iface) ==
    [link EXCEPT !.linkLocal = "ipv4ll" \in DOMAIN iface,
                 !.addrs = Addresses(iface) \cup IF "ipv4ll" \in DOMAIN iface THEN @ ELSE {}]

\* setGateway adds, and ignores that there is a default route already; the kernel
\* finds the link that reaches the gateway, or refuses.
GatewayAdded(g, d, iface) ==
    LET gw == Get(iface, "gateway", None)
        links == {x \in DOMAIN d : d[x].up /\ gw \in DOMAIN Reach
                                              /\ d[x].addrs \cap Reach[gw] # {}}
    IN IF g # NoRoute \/ links = {} THEN {g} ELSE {[via |-> gw, dev |-> x] : x \in links}

\* applyInterfaceConfig: what fails ends it, except for an address.
ApplyInterfaceConfig(l, iface) ==
    \/ /\ "bond" \in DOMAIN iface
       /\ LET all == AddLinks({iface.bond}, {})
              down == [dev EXCEPT ![l].up = FALSE]
          IN \/ /\ ~Refused(l, iface.bond, "bond")
                /\ dev' = Enslave(all, l, iface.bond) /\ Joins(l, iface.bond)
                /\ gateway' = Flushed(gateway, down)
             \/ /\ dev' \in {[d EXCEPT ![l].up = FALSE] : d \in {dev, all}}
                /\ JoinFails(l, iface.bond, "bond")
                /\ gateway' = Flushed(gateway, down)
             \/ Breaks(l) /\ UNCHANGED <<dev, gateway>>
    \/ /\ "bond" \notin DOMAIN iface /\ Get(iface, "bridge", "true") # "true"
       /\ LET all == AddLinks({}, {iface.bridge})
          IN \/ /\ ~Refused(l, iface.bridge, "bridge")
                /\ dev' = AddPort(all, l, iface.bridge) /\ Joins(l, iface.bridge)
             \/ dev' \in {dev, all} /\ JoinFails(l, iface.bridge, "bridge")
       /\ UNCHANGED gateway
    \/ /\ "bond" \notin DOMAIN iface /\ Get(iface, "bridge", "true") = "true"
       /\ LET new == Addressed(dev[l], iface)
              g == Flushed(gateway, [dev EXCEPT ![l] = Cleared(dev[l], iface)])
          IN \/ /\ dev' = [dev EXCEPT ![l] = [new EXCEPT !.up = TRUE]] /\ Fine
                /\ gateway' \in GatewayAdded(g, dev', iface)
             \/ Breaks(l) /\ UNCHANGED <<dev, gateway>>
             \/ Breaks(l) /\ dev' = [dev EXCEPT ![l] = new] /\ gateway' = g
             \/ \E a \in Addresses(iface) :
                  /\ Breaks(l)
                  /\ dev' = [dev EXCEPT ![l] = [new EXCEPT !.up = TRUE, !.addrs = @ \ {a}]]
                  /\ gateway' \in GatewayAdded(g, dev', iface)

\* dhcpcd gives the lease back and removes its address.
Released(link) == [link EXCEPT !.addrs = @ \ {link.lease}, !.lease = None]
\* dhcpcd waits for a lease until its timeout.
Leased(l, link) == [link EXCEPT !.addrs = @ \cup {Lease[l]}, !.lease = Lease[l], !.up = TRUE]

\* runDhcp and runWifiDhcp, which first removes every address of the link.  There
\* may be no answer in time.
RunDhcp(l, iface) ==
    LET start == IF "wifi" \in DOMAIN iface
                   THEN [Released(dev[l]) EXCEPT !.addrs = {}] ELSE dev[l]
    IN /\ \/ /\ l \in DOMAIN Lease
             /\ dev' = [dev EXCEPT ![l] = Leased(l, start)]
             /\ resolv' = IF cfg.dns THEN resolv ELSE "dhcp"
             /\ hostname' = IF cfg.named THEN hostname ELSE "dhcp"
             /\ Fine
          \/ /\ dev' = [dev EXCEPT ![l] = start] /\ UNCHANGED <<resolv, hostname>>
             /\ broken' = broken \cup {l} /\ UNCHANGED faults
       /\ gateway' = Flushed(gateway, [dev EXCEPT ![l] = start])
       /\ UNCHANGED returned

NextLink == todo' = Tail(todo)

\* applyOuter for a link with a static configuration.
ApplyStatic ==
    /\ step = "links" /\ todo # <<>>
    /\ LET l == Head(todo)
       IN \E iface \in FindMatch(l) :
            /\ ~Dhcp(iface)
            /\ ApplyInterfaceConfig(l, iface)
            /\ step' = IF dev[l].lease = None THEN "links" ELSE "release"
            /\ IF dev[l].lease = None THEN NextLink ELSE UNCHANGED todo
    /\ index' = index \o SetToSeq(DOMAIN dev' \ DOMAIN dev)
    /\ UNCHANGED <<mode, resolv, hostname, cfg, listed, returned>>

\* A link without DHCP that still has a lease gives it back, after it was
\* configured.
ReleaseLease ==
    /\ step = "release"
    /\ LET l == Head(todo)
       IN /\ dev' = [dev EXCEPT ![l] = Released(dev[l])]
          /\ returned' = returned \cup {dev[l].lease}
    /\ gateway' = Flushed(gateway, dev')
    /\ NextLink /\ step' = "links"
    /\ UNCHANGED <<index, mode, resolv, hostname, cfg, listed, faults, broken>>

\* applyOuter for a link with DHCP: applyInterfaceConfig is not called.
ApplyDhcp ==
    /\ step = "links" /\ todo # <<>>
    /\ \E iface \in FindMatch(Head(todo)) : Dhcp(iface) /\ RunDhcp(Head(todo), iface)
    /\ NextLink
    /\ UNCHANGED <<index, mode, step, cfg, listed>>

\* No interface of the configuration matches.
SkipLink ==
    /\ step = "links" /\ todo # <<>> /\ FindMatch(Head(todo)) = {}
    /\ NextLink
    /\ UNCHANGED <<kernel, step, cfg, listed, history>>

LinksDone ==
    /\ step = "links" /\ todo = <<>>
    /\ step' = "dns"
    /\ UNCHANGED <<kernel, cfg, listed, todo, history>>

\* The end of ApplyNetworkConfig: resolv.conf of the user, or a default one
\* when no link has a lease; then /etc/hosts is written.
SetDNS ==
    /\ step \in {"dns", "nolist"}
    /\ resolv' = IF cfg.dns THEN "user"
                 ELSE IF step = "dns" /\ \E l \in DOMAIN dev : dev[l].lease # None THEN resolv
                 ELSE "default"
    /\ step' = "applied" /\ listed' = <<>>
    /\ UNCHANGED <<dev, index, mode, gateway, hostname, cfg, todo, history>>

ApplyStep ==
    \/ CreateInterfaces \/ CreateSlaveInterfaces \/ ApplyStatic \/ ReleaseLease
    \/ ApplyDhcp \/ SkipLink \/ LinksDone \/ SetDNS

\* The machine starts: nothing but the physical links, and of the files only
\* what is on disk.
FreshLinks == [l \in ToSet(Physical \o Wireless) |-> NewLink("device", l)]
FreshKernel ==
    /\ dev' = FreshLinks /\ index' = Physical /\ mode' = <<>>
    /\ gateway' = NoRoute /\ resolv' = None /\ hostname' = None
    /\ step' = "idle" /\ listed' = <<>> /\ todo' = <<>> /\ broken' = {} /\ returned' = {}
    /\ UNCHANGED cfg
NetInit ==
    /\ dev = FreshLinks /\ index = Physical /\ mode = <<>>
    /\ gateway = NoRoute /\ resolv = None /\ hostname = None
    /\ step = "idle" /\ listed = <<>> /\ todo = <<>> /\ broken = {} /\ returned = {}
    /\ faults = 0 /\ cfg = [ifaces |-> <<>>, dns |-> FALSE, named |-> FALSE]

-----------------------------------------------------------------------------
(* Properties                                                                *)

\* What a link is to be like when interface iface was applied to it.  One with
\* DHCP has its lease, and one of Wi-Fi nothing but that.  A bond
\* without a mode keeps its slaves, and a slave that is one already is only
\* taken down (createInterfaces, AddSlave); an address that dhcpcd gave back is
\* gone though it was configured (applyOuter).
Reflects(l, iface) ==
    CASE Dhcp(iface) ->
           /\ dev[l].up /\ dev[l].lease # None /\ dev[l].lease \in dev[l].addrs
           /\ "wifi" \in DOMAIN iface => dev[l].addrs = {dev[l].lease}
      [] ~Dhcp(iface) /\ "bond" \in DOMAIN iface ->
           /\ dev[l].master = iface.bond
           /\ ModeOf(iface.bond) # None =>
                 dev[l].up /\ mode[iface.bond] = ModeOf(iface.bond)
      [] ~Dhcp(iface) /\ "bond" \notin DOMAIN iface /\ Get(iface, "bridge", "true") # "true" ->
           dev[l].master = iface.bridge /\ dev[l].up
      [] OTHER ->
           /\ dev[l].up /\ Addresses(iface) \ returned \subseteq dev[l].addrs
           /\ "ipv4ll" \notin DOMAIN iface => dev[l].addrs \subseteq Addresses(iface)
           /\ dev[l].linkLocal = ("ipv4ll" \in DOMAIN iface)

\* The interfaces that are meant for a link: a MAC address stands for the device
\* that has it, not for what is built on that.
Meant(l) ==
    LET Match(k) == Get(cfg.ifaces[k], "match", k)
        macs == {k \in DOMAIN cfg.ifaces : Match(k) \in DOMAIN Mac /\ l \in Mac[Match(k)]}
        exact == {k \in DOMAIN cfg.ifaces : Match(k) = l}
        wild == {k \in DOMAIN cfg.ifaces :
                   Match(k) \in DOMAIN Wild /\ l \in Wild[Match(k)]}
    IN {cfg.ifaces[k] : k \in IF macs # {} THEN macs
                              ELSE IF exact # {} THEN exact ELSE wild}

\* When a configuration has been applied, the user's host name and name servers
\* are in force, and there is a resolv.conf in any case, whatever DHCP did in this
\* and earlier applications (ApplyNetworkConfig, SetHostnameFromCloudConfig).
NamesInForce ==
    step = "applied" =>
        /\ cfg.named => hostname = "user"
        /\ cfg.dns => resolv = "user"
        /\ resolv # None

\* When a configuration has been applied, every link is as configured on which,
\* and on whose master, no call failed and DHCP was answered, and the names are in
\* force, whatever other configurations were applied to the machine before
\* (ApplyNetworkConfigs).  A call that fails is also that of a bridge that was
\* listed with the MAC address of its own port, left by an earlier application.
Converges ==
    /\ NamesInForce
    /\ step = "applied" =>
          "list" \in broken \/ \A l \in DOMAIN dev \ broken :
              Meant(l) = {} \/ \E iface \in Meant(l) : Reflects(l, iface)

\* The gateway of the configuration that was applied last is the one in use:
\* "replace the existing gw with the main ipv4 one" (applyInterfaceConfig).
GatewayReplaced ==
    step = "applied" /\ faults = 0 =>
        \A l \in DOMAIN dev : \A iface \in Meant(l) :
            "gateway" \in DOMAIN iface /\ ~Dhcp(iface) => gateway.via = iface.gateway
=============================================================================
