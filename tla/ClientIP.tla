------------------------------ MODULE ClientIP -------------------------------
(* Whose request is it?  A client sends a request, with headers of its own     *)
(* making, through a chain of reverse proxies, each of which adds the address  *)
(* it got the request from to X-Forwarded-For; the server works out the client *)
(* from what arrives (httpbin/helpers.go: getClientIP) and charges the rate    *)
(* limiter's bucket for it (httpbin/ratelimit.go: normalizeIPForRateLimit).    *)
(*                                                                             *)
(* Addresses are model values; such a header may also hold Junk, a text that   *)
(* is no address.                                                              *)
EXTENDS Integers, Sequences, FiniteSetsExt

CONSTANTS Hosts,      \* addresses of hosts that are not proxies
          Proxies,    \* addresses of the reverse proxies
          Junk,       \* a text that is no IP address
          Subnet,     \* Subnet[a]: the /24 or /64 that address a is in
          ProxySettings, \* the settings of trusted-proxies to consider
          MaxOwn,     \* bound on the X-Forwarded-For a client sends itself
          MaxHops     \* bound on the proxies a request passes

Addresses == Hosts \cup Proxies
Texts == Addresses \cup {Junk}
None == <<>>

ASSUME AddressAssumption ==
    /\ Hosts \cap Proxies = {}
    /\ Junk \notin Addresses
    /\ DOMAIN Subnet = Addresses
    /\ ProxySettings \subseteq {"", "none", "proxies", "invalid"}
    /\ MaxOwn \in Nat /\ MaxHops \in Nat

VARIABLES setting,         \* the text of the trusted-proxies setting
          useSubnets,      \* RateLimiterConfig.UseSubnets
          configured,      \* h.trustedProxiesConfigured
          trustedProxies,  \* h.trustedProxies
          phase,           \* "starting", "travelling", "arrived", "served", "exited"
          client,          \* the host that sends the request
          peer,            \* the host the request comes from now: r.RemoteAddr
          xff,             \* its X-Forwarded-For, a sequence of texts
          platform,        \* its Fly-Client-IP or the like, None if absent
          hops,            \* proxies passed
          origin,          \* what getClientIP made of it
          charged          \* the limiter's key for it

settings == <<setting, useSubnets>>
ipVars == <<settings, configured, trustedProxies, phase, client, peer, xff, platform,
          hops, origin, charged>>

-----------------------------------------------------------------------------
(* ParseTrustedProxies: nothing, "none", a list of CIDRs, or an error.         *)
Parsed(text) ==
    CASE text = ""        -> [ok |-> TRUE,  configured |-> FALSE, cidrs |-> {}]
      [] text = "none"    -> [ok |-> TRUE,  configured |-> TRUE,  cidrs |-> {}]
      [] text = "proxies" -> [ok |-> TRUE,  configured |-> TRUE,  cidrs |-> Proxies]
      [] text = "invalid" -> [ok |-> FALSE, configured |-> FALSE, cidrs |-> {}]

IPInit ==
    /\ setting \in ProxySettings
    /\ useSubnets \in BOOLEAN
    /\ configured = FALSE
    /\ trustedProxies = {}
    /\ phase = "starting"
    /\ client \in Hosts
    /\ peer = client
    /\ xff \in UNION {[1 .. n -> Texts] : n \in 0 .. MaxOwn}
    /\ platform \in {None} \cup {<<a>> : a \in Texts}
    /\ hops = 0
    /\ origin = Junk
    /\ charged = Junk

(* A program sets the server up with ParseTrustedProxies and then              *)
(* WithTrustedProxies, or gives up; whether the command does so is a question  *)
(* for module Config.                                                          *)
Start ==
    /\ phase = "starting"
    /\ LET p == Parsed(setting)
       IN  /\ phase' = IF p.ok THEN "travelling" ELSE "exited"
           /\ configured' = p.configured
           /\ trustedProxies' = p.cidrs
    /\ UNCHANGED <<settings, client, peer, xff, platform, hops, origin, charged>>

(* A reverse proxy forwards the request: it appends its peer.                  *)
Forward(p) ==
    /\ phase = "travelling"
    /\ hops < MaxHops
    /\ hops' = hops + 1
    /\ xff' = Append(xff, peer)
    /\ peer' = p
    /\ UNCHANGED <<settings, configured, trustedProxies, phase, client, platform,
                   origin, charged>>

Arrive ==
    /\ phase = "travelling"
    /\ phase' = "arrived"
    /\ UNCHANGED <<settings, configured, trustedProxies, client, peer, xff, platform,
                   hops, origin, charged>>

(* Where a header has an address that is not a trusted proxy's; texts that are *)
(* no address are skipped.                                                     *)
Outside(texts) == {n \in DOMAIN texts : texts[n] \in Addresses \ trustedProxies}

(* Bug: the first such address.                                                *)
RightmostIsFirstBug(texts) ==
    IF Outside(texts) = {} THEN texts[1] ELSE texts[Min(Outside(texts))]

(* The last such address, or the first text if there is none.                  *)
Rightmost(texts) ==
    IF Outside(texts) = {} THEN texts[1] ELSE texts[Max(Outside(texts))]

(* Without a setting every header is believed, the platforms' before           *)
(* X-Forwarded-For; with one, only X-Forwarded-For and only from a proxy.      *)
getClientIP ==
    CASE ~configured /\ platform # None -> platform[1]
      [] ~configured /\ platform = None /\ xff # <<>> -> xff[1]
      [] configured /\ peer \in trustedProxies /\ xff # <<>> -> Rightmost(xff)
      [] OTHER -> peer

(* The address itself or its subnet; other texts as they are.                  *)
normalizeIPForRateLimit(text) ==
    IF useSubnets /\ text \in Addresses THEN Subnet[text] ELSE text

Serve ==
    /\ phase = "arrived"
    /\ phase' = "served"
    /\ origin' = getClientIP
    /\ charged' = normalizeIPForRateLimit(getClientIP)
    /\ UNCHANGED <<settings, configured, trustedProxies, client, peer, xff, platform,
                   hops>>

Finished ==
    /\ phase \in {"served", "exited"}
    /\ UNCHANGED ipVars

IPNext == Start \/ (\E p \in Proxies : Forward(p)) \/ Arrive \/ Serve \/ Finished

IPSpec == IPInit /\ [][IPNext]_ipVars

-----------------------------------------------------------------------------
(* Properties.                                                                 *)

(* With the proxies configured, the server finds the client that sent the      *)
(* request, through any number of proxies and whatever headers it sends, and   *)
(* charges it, or its subnet if subnets are what is limited, so that no client *)
(* can choose the bucket it is charged to.  With "none" both are the host the  *)
(* request came from, whatever that host says.                                 *)
OriginIsClient ==
    phase = "served" =>
        LET who == IF setting = "proxies" THEN client ELSE peer
        IN  setting \in {"proxies", "none"} =>
                /\ origin = who
                /\ charged = (IF useSubnets THEN Subnet[who] ELSE who)
=============================================================================
