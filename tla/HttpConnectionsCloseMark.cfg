\* Are responses on draining connections marked Connection: close?
CONSTANTS
    c1 = c1  c2 = c2  c3 = c3
    a1 = a1  a2 = a2  ip = ip
    Conns = {c1, c2, c3}
    Addrs = {a1, a2}
    IPs = {ip}
    RemoteAddr <- MCRemoteAddr
    RemoteIP <- MCRemoteIP
    Nil = Nil
SPECIFICATION Spec
PROPERTY DrainingResponsesMarked
