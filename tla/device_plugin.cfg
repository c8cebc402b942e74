\* Three faults: a kubelet that restarts twice and a signal, say.  The process may exit.
CONSTANTS
    Slots = 5
    MaxFaults = 3
SPECIFICATION PluginSpec
INVARIANTS
    PluginTypeOK
    Advertised
    ServerWhenStarted
PROPERTIES
    Available
    Terminates
CHECK_DEADLOCK FALSE
