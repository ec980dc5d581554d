SPECIFICATION LiveSpec
CONSTANTS
    alice = alice
    bob = bob
    Client <- TwoClients
    Host = {"127.0.0.1", "pod"}
    Port = {"9000", "9876"}
    ConfigFiles <- SomeFiles
    Overrides <- SomeOverrides
CHECK_DEADLOCK FALSE
INVARIANTS
    TypeOK
    CleanExitIsClean
    ProbeFindsTheServer
PROPERTIES
    EndsWhenTold
    ListenerIsNotLeaked
    DaemonIsALifecycle
