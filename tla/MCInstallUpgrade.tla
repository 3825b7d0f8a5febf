------------------------- MODULE MCInstallUpgrade -------------------------
(* Small instances of InstallUpgrade.                                        *)
EXTENDS InstallUpgrade

CONSTANTS sda, v1, v2, k1, k2, quiet

OneDisk == <<sda>>
Given == {NoAppend, quiet}

\* v1 and v2 have kernels of their own; an upgrade to the version that is
\* installed overwrites them.
OwnKernels == [v \in Version |-> IF v = v1 THEN k1 ELSE k2]

Install(type, dev, part, app) ==
    [type |-> type, dev |-> dev, part |-> part, ver |-> v1, app |-> app,
     conf |-> TRUE, kexec |-> FALSE, iso |-> FALSE, dist |-> FALSE,
     statedir |-> FALSE]
AllTypes ==
    {Install("generic", sda, FALSE, quiet), Install("arm", sda, TRUE, NoAppend),
     Install("amazon-ebs-hvm", sda, TRUE, NoAppend),
     Install("noformat", None, FALSE, NoAppend),
     Install("raid", None, FALSE, NoAppend),
     Install("bootstrap", sda, TRUE, NoAppend)}
Upgrade(v, app) == [ver |-> v, app |-> app, kexec |-> FALSE, console |-> FALSE]
ManyUpgrades ==
    {Upgrade(v, NoAppend) : v \in Version}
        \cup {[Upgrade(v2, quiet) EXCEPT !.kexec = TRUE, !.console = TRUE]}
=============================================================================
