CONSTANTS
    Ifs = {bnet0, bnet1}
    Probe = probe0
    Ports = {"tcp873", "udp51820"}
    All = all
    Scopes = {all, {"tcp873"}}
    Expose = all
    None = none
    MaxFaults = 1
    MaxKills = 1
    MaxReloads = 1
SPECIFICATION Spec
CHECK_DEADLOCK FALSE
INVARIANT OwnLinksScoped
INVARIANT HandshakeFresh
 
