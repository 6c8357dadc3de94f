\* One session and a reset that finds its pump inactive.
CONSTANTS
    s1 = s1  s2 = s2  a1 = a1  a2 = a2
    Sessions = {s1, s2}
    Addrs = {a1, a2}
    RemoteAddr <- MCRemoteAddr
    Countdown = 1
    Nil = Nil
SPECIFICATION Spec
PROPERTY PassedOverHaveStopped
CHECK_DEADLOCK FALSE
