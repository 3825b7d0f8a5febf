SPECIFICATION FairSpec
CONSTANTS
    network = network
    console = console
    docker = docker
    app = app
    Service = {network, console, docker, app}
    Network = network
    Docker = docker
    Syslog = console
    Reloader = {network}
    Special = {console}
    Initial = {network, console, docker}
    Versions <- AllVersions
    MissingChoices = {{}, {docker}}
    Ops = {"up", "run", "create", "start", "stop", "pull"}
    Selections = {{}, {docker}}
    MaxEdits = 1
INVARIANTS WaitsEnd DependencyOrder SuccessIsComplete
PROPERTIES ActsInRounds Termination GoroutinesEnd
