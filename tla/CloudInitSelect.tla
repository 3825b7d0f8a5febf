-------------------------- MODULE CloudInitSelect --------------------------
(* cloud-init-save: one goroutine per configured datasource asks whether it   *)
(* is available, again and again where that may change, and offers itself on  *)
(* an unbuffered channel; the first that is received has its user-data and    *)
(* meta-data fetched, request by request, and saved, file by file             *)
(* (cmd/cloudinitsave, config/cloudinit/datasource).  A timer ends the wait.  *)
EXTENDS Naturals, FiniteSets, TLC

CONSTANTS
    Key,        \* SSH keys
    MaxRetries, \* bound on the attempts of one request
    MaxFaults   \* bound on the writes that fail

VARIABLES
    boots,          \* number of this boot
    sources,        \* the datasources considered
    pc,             \* the goroutine of each
    stop, done,     \* the two channels, closed or not
    timeout,        \* time.After(datasourceTimeout) has fired
    main, chosen,   \* selectDatasource
    left, tries,    \* fetchAndSave: requests to go, attempts at this one
    kind, data,     \* what it got: the kind of user-data, and all of it
    file,           \* the files where cloud-init-save runs
    faults          \* writes that failed

fetching == <<left, tries, kind, data>>

None == "none"
Files == {"script", "cloudConfig", "metadata", "network"}
NoFile == [gen |-> 0]
NoFiles == [f \in Files |-> NoFile]

-----------------------------------------------------------------------------
(* The datasources                                                           *)

\* getDatasources: "*" stands for a list; file and url need a path, vmware its
\* hypervisor, and cloudstack a server, which it takes from the DHCP leases;
\* what is not known is passed over.
Listed == {"configdrive", "vmware", "ec2", "digitalocean", "packet", "gce", "cloudstack",
           "exoscale", "proxmox"}
Plain == {"file:path", "tftp", "url:path", "cmdline"}
GetDatasources(names, platform, leased) ==
    {s \in names \cup IF "*" \in names THEN Listed ELSE {} :
       /\ s \in Listed \cup Plain \cup {"aliyun", "azure"}
       /\ s = "vmware" => platform = "vmware"
       /\ s = "cloudstack" => leased}

\* AvailabilityChanges: what a goroutine asks for again.  A drive that cannot be
\* mounted stays unavailable.
Changing(s) == s \in {"packet", "gce", "file:path"}

\* The requests of FetchUserdata and FetchMetadata, and those that GetRetry makes:
\* not the reads of a file or of tftp.
Requests(s) ==
    CASE s \in {"ec2", "gce"} -> 8
      [] s \in {"aliyun", "cloudstack", "exoscale"} -> 5
      [] s \in {"azure", "digitalocean", "packet", "configdrive"} -> 2
      [] OTHER -> 1
Retried(s) ==
    s \in {"ec2", "gce", "aliyun", "cloudstack", "exoscale", "azure", "digitalocean",
           "packet", "vmware", "url:path", "cmdline"}

\* What a source says may change from boot to boot.
Site == IF boots % 2 = 1 THEN "siteA" ELSE "siteB"

\* Meta-data as FetchMetadata makes it from what the source knows: its keys, and
\* a host name, or not.
Meta(keys, named) ==
    [keys |-> keys, named |-> named, rootDisk |-> FALSE, dns |-> FALSE, ifaces |-> <<>>]
NoMetadata == Meta({}, FALSE)
\* ec2 knows its root disk, but no interface: the list is used when it is an error.
Ec2Metadata(keys, named) == [Meta(keys, named) EXCEPT !.rootDisk = TRUE]
\* gce leaves the network to DHCP, and a config drive says nothing about it.
GceMetadata(keys, named) == Meta(keys, named)
ConfigDriveMetadata(keys, named) == Meta(keys, named)
CloudstackMetadata(keys, named) == Meta(keys, named)
ExoscaleMetadata(keys, named) == Meta(keys, named)
AzureMetadata(keys, named) == Meta(keys, named)
AliyunMetadata(keys, named) == Meta(keys, named)
\* packet bonds its two interfaces.
PacketMetadata(keys, named) ==
    [Meta(keys, named) EXCEPT !.ifaces =
        ("mac=eth0" :> [bond |-> "bond0"]) @@ ("mac=eth1" :> [bond |-> "bond0"])
        @@ ("bond0" :> [mode |-> "4", addresses |-> {Site}, gateway |-> Site])]
\* digitalocean has static addresses and name servers, or gives an empty answer.
DigitalOceanMetadata(keys, named) ==
    IF ~named THEN NoMetadata
    ELSE [Meta(keys, named) EXCEPT !.dns = TRUE,
            !.ifaces = ("eth0" :> [addresses |-> {"public"}, gateway |-> Site])]
\* The variables of the hypervisor: no keys; an interface has DHCP unless it
\* has an address, and is matched by its MAC address if that is given.
VMwareMetadata(keys, named) ==
    IF ~named THEN NoMetadata
    ELSE [Meta({}, named) EXCEPT !.dns = TRUE,
            !.ifaces = ("eth0" :> [match |-> "mac=eth1", addresses |-> {Site}, gateway |-> Site])
                       @@ ("eth1" :> [match |-> "eth0", dhcp |-> TRUE])]

FetchMetadata(s, keys, named) ==
    CASE s = "ec2" -> Ec2Metadata(keys, named)
      [] s = "gce" -> GceMetadata(keys, named)
      [] s = "packet" -> PacketMetadata(keys, named)
      [] s = "digitalocean" -> DigitalOceanMetadata(keys, named)
      [] s = "vmware" -> VMwareMetadata(keys, named)
      [] s = "configdrive" -> ConfigDriveMetadata(keys, named)
      [] s = "cloudstack" -> CloudstackMetadata(keys, named)
      [] s = "exoscale" -> ExoscaleMetadata(keys, named)
      [] s = "azure" -> AzureMetadata(keys, named)
      [] s = "aliyun" -> AliyunMetadata(keys, named)
      [] OTHER -> NoMetadata
\* What the meta-data file holds; with is history: the kind of user-data it came with.
Metadata(s, keys, named, with) ==
    LET md == FetchMetadata(s, keys, named)
    IN  [gen |-> boots, with |-> with, keys |-> md.keys, named |-> md.named,
         rootDisk |-> md.rootDisk, dns |-> md.dns, ifaces |-> md.ifaces]
AllDefaults(md) ==
    md.keys = {} /\ ~md.named /\ ~md.rootDisk /\ ~md.dns /\ DOMAIN md.ifaces = {}

-----------------------------------------------------------------------------
(* The goroutines                                                            *)

Goto(s, where) == pc' = [pc EXCEPT ![s] = where]

\* Mutant: a source that is not available is given up, whether or not that may
\* change.
Check_GiveUp(s) ==
    /\ pc[s] = "check"
    /\ Goto(s, "offer") \/ Goto(s, "ended")
    /\ UNCHANGED <<boots, sources, stop, done, timeout, main, chosen, fetching, file, faults>>

\* IsAvailable answers; a source that cannot become available gives up.
Check(s) ==
    /\ pc[s] = "check"
    /\ \/ Goto(s, "offer")
       \/ Changing(s) /\ Goto(s, "pause")
       \/ ~Changing(s) /\ Goto(s, "ended")
    /\ UNCHANGED <<boots, sources, stop, done, timeout, main, chosen, fetching, file, faults>>

\* The select on stop and the pause: both may be ready.
Resume(s) ==
    /\ pc[s] = "pause"
    /\ Goto(s, "check") \/ (stop /\ Goto(s, "ended"))
    /\ UNCHANGED <<boots, sources, stop, done, timeout, main, chosen, fetching, file, faults>>

\* wg.Wait() returns when every goroutine has ended.
AllEnded ==
    /\ ~done /\ main # "idle"
    /\ \A s \in sources : pc[s] = "ended"
    /\ done' = TRUE
    /\ UNCHANGED <<boots, sources, pc, stop, timeout, main, chosen, fetching, file, faults>>

Timeout ==
    /\ main = "select" /\ ~timeout
    /\ timeout' = TRUE
    /\ UNCHANGED <<boots, sources, pc, stop, done, main, chosen, fetching, file, faults>>

-----------------------------------------------------------------------------
(* selectDatasource, fetchAndSave and saveFiles                              *)

\* saveCloudConfig gets to selectDatasource.
StartSelect(names, platform, leased) ==
    /\ main = "idle"
    /\ sources' = GetDatasources(names, platform, leased)
    /\ pc' = [s \in sources' |-> "check"]
    /\ main' = IF sources' = {} THEN "returned" ELSE "select"
    /\ UNCHANGED <<boots, stop, done, timeout, chosen, fetching, file, faults>>

\* The three cases of the select, in no particular order.
Receive(s) ==
    /\ main = "select" /\ pc[s] = "offer"
    /\ Goto(s, "ended") /\ chosen' = s
    /\ main' = "fetch" /\ left' = Requests(s) /\ tries' = 0
    /\ UNCHANGED <<boots, sources, stop, done, timeout, kind, data, file, faults>>
NoneLeft ==
    /\ main = "select"
    /\ done \/ timeout
    /\ main' = "close"
    /\ UNCHANGED <<boots, sources, pc, stop, done, timeout, chosen, fetching, file, faults>>

\* Mutant: the count of the attempts starts again.
GetRetry_Forever ==
    /\ main = "fetch" /\ left > 0
    /\ \/ left' = left - 1 /\ tries' = 0 /\ UNCHANGED main
       \/ Retried(chosen) /\ tries' = 1 - tries /\ UNCHANGED <<left, main>>
       \/ main' = "close" /\ UNCHANGED <<left, tries>>
    /\ UNCHANGED <<boots, sources, pc, stop, done, timeout, chosen, kind, data, file, faults>>

\* GetRetry: an answer, 404 included (FetchData makes it an empty one), ends a
\* request; errors of the server and of the network are tried again, up to a
\* bound; other errors, and those of a file, end fetchAndSave.
GetRetry ==
    /\ main = "fetch" /\ left > 0
    /\ \/ left' = left - 1 /\ tries' = 0 /\ UNCHANGED main
       \/ /\ Retried(chosen) /\ tries + 1 < MaxRetries
          /\ tries' = tries + 1 /\ UNCHANGED <<left, main>>
       \/ main' = "close" /\ UNCHANGED <<left, tries>>
    /\ UNCHANGED <<boots, sources, pc, stop, done, timeout, chosen, kind, data, file, faults>>

\* The rest of fetchAndSave: user-data is a script, a cloud-config (or a
\* compose file made one), or not usable; what cannot be parsed ends it, and so
\* does an aliyun without keys.
Parse ==
    /\ main = "fetch" /\ left = 0
    /\ \/ \E k \in {"script", "cloudConfig", "nothing"}, keys \in {{}, Key} :
            LET named == keys # {} IN
            /\ chosen = "aliyun" => keys # {}
            /\ kind' = k
            /\ data' = [script |-> [gen |-> boots],
                        cloudConfig |-> [gen |-> boots, keys |-> keys, named |-> ~named],
                        metadata |-> Metadata(chosen, keys, named, k),
                        network |-> Metadata(chosen, keys, named, k)]
            /\ main' = "script"
       \/ main' = "close" /\ UNCHANGED <<kind, data>>
    /\ UNCHANGED <<boots, sources, pc, stop, done, timeout, chosen, left, tries, file, faults>>

\* Mutant: the meta-data is written before the cloud-config.
NextFile_MetaFirst(f) == CASE f = "script" -> "metadata"
                           [] f = "metadata" -> "cloudConfig"
                           [] f = "cloudConfig" -> "network"
                           [] OTHER -> "close"
NextFile(f) == CASE f = "script" -> "cloudConfig"
                 [] f = "cloudConfig" -> "metadata"
                 [] f = "metadata" -> "network"
                 [] OTHER -> "close"

\* User-data is one of the two kinds; network.yml is not written when the
\* meta-data is all defaults.
Skips(f) ==
    \/ f \in {"script", "cloudConfig"} \ {kind}
    \/ f = "network" /\ AllDefaults(data.metadata)

\* saveFiles writes each file atomically; an error ends it.
Write ==
    /\ main \in Files
    /\ \/ Skips(main) /\ main' = NextFile(main) /\ UNCHANGED <<file, faults>>
       \/ ~Skips(main) /\ file' = [file EXCEPT ![main] = data[main]]
          /\ main' = NextFile(main) /\ UNCHANGED faults
       \/ /\ ~Skips(main) /\ faults < MaxFaults /\ faults' = faults + 1
          /\ main' = "close" /\ UNCHANGED file
    /\ UNCHANGED <<boots, sources, pc, stop, done, timeout, chosen, fetching>>

\* The variables of fetchAndSave are gone when it has returned.
Forget == left' = 0 /\ tries' = 0 /\ kind' = "nothing" /\ data' = <<>>

Close ==
    /\ main = "close"
    /\ stop' = TRUE
    /\ main' = "returned" /\ Forget
    /\ UNCHANGED <<boots, sources, pc, done, timeout, chosen, file, faults>>

-----------------------------------------------------------------------------
Goroutine(s) == Check(s) \/ Resume(s)
Main == (\E s \in sources : Receive(s)) \/ NoneLeft \/ GetRetry \/ Parse \/ Write \/ Close
SelectStep == (\E s \in sources : Goroutine(s)) \/ AllEnded \/ Timeout \/ Main

SelectInit ==
    /\ sources = {} /\ pc = <<>> /\ stop = FALSE /\ done = FALSE /\ timeout = FALSE
    /\ main = "idle" /\ chosen = None /\ left = 0 /\ tries = 0
    /\ kind = "nothing" /\ data = <<>>
SelectGone ==
    /\ sources' = {} /\ pc' = <<>> /\ stop' = FALSE /\ done' = FALSE /\ timeout' = FALSE
    /\ main' = "idle" /\ chosen' = None /\ Forget

-----------------------------------------------------------------------------
(* Properties                                                                *)

\* Nothing is selected only when no datasource is left or time was up: an
\* offer is never dropped because main was not waiting yet, or had just been
\* told that all goroutines ended (selectDatasource).
NoneOnlyIfNone ==
    main = "returned" /\ chosen = None =>
        timeout \/ \A s \in sources : pc[s] = "ended" /\ ~Changing(s)

\* The meta-data that cloud-init-save leaves is never newer than the user-data
\* it came with, whichever write failed and wherever a boot was cut short
\* (saveFiles).
UserDataFirst ==
    /\ file["metadata"].gen > 0 /\ file["metadata"].with # "nothing" =>
          file[file["metadata"].with].gen >= file["metadata"].gen
    /\ file["network"].gen <= file["metadata"].gen
=============================================================================
