SPECIFICATION IPSpec
CONSTANTS
    h1 = h1
    h2 = h2
    h3 = h3
    p1 = p1
    p2 = p2
    net = net
    other = other
    inside = inside
    Hosts <- MCHosts
    Proxies <- MCProxies
    Junk = junk
    Subnet <- MCSubnet
    ProxySettings = {"", "none", "proxies", "invalid"}
    MaxOwn = 2
    MaxHops = 2
SYMMETRY Neighbours
INVARIANTS
    OriginIsClient
