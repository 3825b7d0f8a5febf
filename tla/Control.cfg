CONSTANTS
    web = web
    log = log
    dind = dind
    alpine = alpine
    base = base
    e1 = e1
    latest = latest
    s1 = s1
    s2 = s2
    Shell <- TwoShells
    Services = {web, log}
    Dinds = {dind}
    Consoles = {base, alpine}
    Default = base
    Engines = {e1}
    Latest = latest
    Below <- SystemConfig
    Cmdline <- KernelConfig
    First <- UserConfig
    None = None
    Torn = Torn
    Commands <- CommandLines
    MaxCommands = 2
    MaxFaults = 1
SPECIFICATION FairSpec
INVARIANTS ConfiguredIsStaged IncludedIsDefined OneHostKey ConsoleComesBack
PROPERTIES OthersKept DockerRuns
CHECK_DEADLOCK FALSE
