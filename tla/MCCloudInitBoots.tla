-------------------------- MODULE MCCloudInitBoots --------------------------
(* A small instance of CloudInitBoots: machines that differ in initramfs,     *)
(* datasources and the network part of cloud-config.yml.                      *)
EXTENDS CloudInitBoots

CONSTANTS k1, k2

MCPhysical == <<"eth0", "eth1">>
MCWireless == <<"wlan0">>
MCWild == "eth*" :> {"eth0", "eth1"}
MCMac == ("mac=eth0" :> {"eth0"}) @@ ("mac=eth1" :> {"eth1"}) @@ ("mac=*" :> {"eth0", "eth1"})
MCReach == ("siteA" :> {"siteA", "public"}) @@ ("siteB" :> {"siteB", "public"})
           @@ ("gw1" :> {"a2", "leased"})
MCLease == ("eth0" :> "leased") @@ ("wlan0" :> "leased")

Network(ifaces, dns) == [ifaces |-> ifaces, dns |-> dns, named |-> FALSE]
Machine(initrd, names, platform, user) ==
    [initrd |-> initrd, names |-> names, platform |-> platform, user |-> user]

\* Nothing configured; a bond without a mode, by a wildcard for MAC addresses; a bridge matched by MAC address,
\* with a VLAN; Wi-Fi, a link-local address and the address DHCP would give.
BondUser == Network(("mac=*" :> [bond |-> "bond0"]), TRUE)
BridgeUser ==
    Network(("br0" :> [bridge |-> "true", addresses |-> {"a1"}])
            @@ ("mac=eth0" :> [bridge |-> "br0"])
            @@ ("eth1" :> [addresses |-> {"a2"}, gateway |-> "gw1", vlans |-> {"eth1.10"}])
            @@ ("eth1.10" :> [dhcp |-> TRUE]), FALSE)
MixedUser ==
    Network(("wlan0" :> [wifi |-> "home"]) @@ ("eth1" :> [ipv4ll |-> TRUE])
            @@ ("lan" :> [match |-> "eth0", addresses |-> {"leased"}, gateway |-> "gw1"]), FALSE)
MCMachines ==
    {Machine(TRUE, {"packet"}, "bare", NoUser),
     Machine(TRUE, {"gce", "configdrive"}, "bare", BondUser),
     Machine(FALSE, {"digitalocean"}, "bare", NoUser),
     Machine(TRUE, {"digitalocean"}, "bare", NoUser),
     Machine(FALSE, {"ec2"}, "bare", BridgeUser),
     Machine(TRUE, {"file"}, "bare", MixedUser),
     Machine(TRUE, {}, "vmware", NoUser),
     Machine(TRUE, {"cloudstack", "aliyun"}, "bare", NoUser),
     Machine(FALSE, {"configdrive"}, "bare", NoUser)}
=============================================================================
