CONSTANTS
    Urls = {a, b, ip, m}
    Secure = {a, b}
    Literals = {ip}
    Malformed = {m}
    Addresses = {pub, priv}
    Public = {pub}
    MaxRedirects = 1
    Timeout = 2
    SlowThreshold = 3
    MaxRebinds = 1
    MaxTrickles = 1
SPECIFICATION FairSpec
CHECK_DEADLOCK FALSE
INVARIANTS GuardHolds TimeIsWhole CertificateIsOwn
PROPERTY ProbeEnds
