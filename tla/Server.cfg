\* The server around two connections of the rpc proxy from one address, which is
\* used again as soon as the socket that had it is closed or reset.
CONSTANTS
    a1 = a1  ip = ip
    Conns = {c1, c2}
    Addrs = {a1}
    IPs = {ip}
    RemoteAddr <- MCRemoteAddr
    RemoteIP <- MCRemoteIP
    Nil = Nil
    MaxFailures = 2
SPECIFICATION ServerFairSpec
INVARIANTS
    ServerTypeOK
    EstablishedAreTracked
    MapsAreExact
    OneResponseAfterReset
    StopLeavesOnlyDraining
PROPERTIES
    DrainingCloses
    HangupHonoured
    TerminationCompletes
CHECK_DEADLOCK FALSE
