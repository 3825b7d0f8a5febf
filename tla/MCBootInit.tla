----------------------------- MODULE MCBootInit -----------------------------
(* Small instances of BootInit.                                              *)
EXTENDS BootInit

CONSTANTS v1, v2, boot

Config(on) == [k \in ConfigFields |-> k \in on]
\* A usual machine, one with the options of a development setup and its state on
\* a named device, one without a disk, one of boot2docker that must have its
\* state and has boot commands, and one without an initramfs.
FiveConfigs ==
    {Config({"initrd", "dev", "autoformat", "datasources"}),
     Config({"initrd", "dev", "node", "rmUsr", "recovery", "preloadWait"}),
     Config({"initrd", "preloadWait", "datasources"}),
     Config({"initrd", "b2d", "required", "bootcmd", "datasources", "preloadWait"}),
     Config({"dev", "datasources", "preloadWait"})}
OneConfig == {Config({"initrd", "dev", "preloadWait"})}
=============================================================================
