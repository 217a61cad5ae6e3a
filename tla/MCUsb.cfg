CONSTANTS
    MPS = 2
    MAX_IN = 5
    OUT_PKTS = 4
    MaxSetups = 3
    CfgLen <- MCCfgLen
    MuxCfg = 2
    StrLen = 2
    StrAsk = 5
    MaxRestarts = 1
    Environments = {
        {"control", "bus", "resets", "long"},
        {"in", "stop", "bus", "resets", "long"},
        {"out", "stop", "long"},
        {"control", "nak", "bus", "masks", "resets"},
        {"bus", "masks", "snapshot"},
        {"wires", "resets", "bus", "snapshot"},
        {"builtin", "control", "wires", "resets"},
        {"builtin", "control", "out"}, {"builtin", "control", "in"}}
SPECIFICATION FairSpec
INVARIANTS NoStaleReply InWhole  LineTrue NoOldInterrupt HostReadsWhole
PROPERTIES LinkFollowsCable 
CHECK_DEADLOCK FALSE
