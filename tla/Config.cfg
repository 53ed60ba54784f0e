SPECIFICATION CmdSpec
CONSTANTS
    Duration = duration
    Prefix = prefix
    Cert = cert
    Key = key
    Hostname = hostname
    RawProxies = proxies
INVARIANTS OwnFlagWins MalformedStopped NeverSilentlyPlain
