------------------------------- MODULE Config --------------------------------
(* How the command starts (cmd/cmd.go): loadConfig parses the flags and then   *)
(* resolves one setting after the other against the environment, and mainImpl  *)
(* makes a server of the result or exits.                                      *)
(*                                                                             *)
(* One setting of each kind stands for its like:                               *)
(*   duration  a value with a default that is parsed (also max-body-size,      *)
(*             port, srv-*, rate-limit-*, max-concurrent-requests)             *)
(*   prefix    a text that is checked once it is resolved (also log-format,    *)
(*             log-level)                                                      *)
(*   cert, key texts that go together                                          *)
(*   hostname  a switch (also rate-limit-use-subnets, unsafe-...)              *)
(*   proxies   trusted-proxies, a raw text                                     *)
(* A value is "default", "cli" or "env" for a good one from there, or "bad".   *)
EXTENDS Sequences, Integers

CONSTANTS Duration, Prefix, Cert, Key, Hostname, RawProxies   \* the settings

Order == <<Duration, Prefix, Cert, Key, Hostname, RawProxies>>
Settings == {Duration, Prefix, Cert, Key, Hostname, RawProxies}
ASSUME DistinctAssumption ==
    \A m, n \in DOMAIN Order : Order[m] = Order[n] => m = n

(* What the user can have written; "none" is nothing at all.                   *)
Flags(s) ==
    CASE s \in {Duration, Prefix} -> {"none", "default", "cli", "bad"}
      [] s = RawProxies -> {"none", "cli", "bad"}
      [] OTHER -> {"none", "cli"}

Envs(s) ==
    CASE s \in {Duration, Prefix, Hostname, RawProxies} -> {"none", "env", "bad"}
      [] OTHER -> {"none", "env"}

VARIABLES flag, env,   \* what the user wrote
          cfg,         \* the configuration, as far as it is resolved
          next,        \* the setting to resolve next
          stage,       \* "flags", "env", "build", "serving" or "exited"
          exit,        \* the exit status
          server       \* what the server was built with

cmdVars == <<flag, env, cfg, next, stage, exit, server>>

Defaults == [s \in Settings |-> "default"]

CmdInit ==
    /\ flag \in [Settings -> {"none", "default", "cli", "bad"}]
    /\ env \in [Settings -> {"none", "env", "bad"}]
    /\ \A s \in Settings : flag[s] \in Flags(s) /\ env[s] \in Envs(s)
    /\ cfg = Defaults
    /\ next = 1
    /\ stage = "flags"
    /\ exit = -1
    /\ server = Defaults

Exit(code) == stage' = "exited" /\ exit' = code /\ UNCHANGED <<cfg, next, server>>

FlagValue(s) == IF flag[s] = "none" THEN "default" ELSE flag[s]

(* fs.Parse: -h exits with 0, an unparsable flag with 2.                       *)
Help ==
    /\ stage = "flags"
    /\ Exit(0)
    /\ UNCHANGED <<flag, env>>

ParseFlags ==
    /\ stage = "flags"
    /\ IF flag[Duration] = "bad"
       THEN Exit(2)
       ELSE /\ cfg' = [s \in Settings |-> FlagValue(s)]
            /\ stage' = "env"
            /\ UNCHANGED <<next, exit, server>>
    /\ UNCHANGED <<flag, env>>

-----------------------------------------------------------------------------
(* Bug: the environment wins.                                                  *)
ResolvedEnvFirstBug(s) == IF env[s] # "none" THEN env[s] ELSE cfg[s]

(* getEnvBool: a switch is on for "1" and "true" and left alone for anything   *)
(* else, be it nothing, "false" or a slip.                                     *)
Says(s) == IF s = Hostname THEN env[s] = "env" ELSE env[s] # "none"

(* The environment is asked only while a setting has its default value; it can *)
(* turn a switch on whatever the flag says.                                    *)
Resolved(s) ==
    IF (cfg[s] = "default" \/ s = Hostname) /\ Says(s) THEN env[s] ELSE cfg[s]

(* Bugs: only a prefix from the environment is checked; the certificate is     *)
(* checked against the key before the environment is asked for the key.        *)
RefusedEnvOnlyBug(s) ==
    \/ s \in {Duration, Prefix} /\ cfg[s] = "default" /\ Resolved(s) = "bad"
    \/ s = Key /\ (cfg[Cert] = "default") # (Resolved(Key) = "default")

RefusedEarlyBug(s) ==
    \/ s \in {Duration, Prefix} /\ Resolved(s) = "bad"
    \/ s = Cert /\ (Resolved(Cert) = "default") /\ (cfg[Key] # "default")

(* What is turned down: what does not parse, a prefix without its slash, half  *)
(* a certificate.                                                              *)
Refused(s) ==
    \/ s \in {Duration, Prefix} /\ Resolved(s) = "bad"
    \/ s = Key /\ (cfg[Cert] = "default") # (Resolved(Key) = "default")

Resolve ==
    LET s == Order[next]
    IN  /\ stage = "env"
        /\ next <= Len(Order)
        /\ IF Refused(s) THEN Exit(2)
           ELSE /\ cfg' = [cfg EXCEPT ![s] = Resolved(s)]
                /\ next' = next + 1
                /\ UNCHANGED <<stage, exit, server>>
        /\ UNCHANGED <<flag, env>>

(* os.Hostname fails: not a usage error.                                       *)
HostnameFails ==
    /\ stage = "env"
    /\ next <= Len(Order)
    /\ Order[next] = Hostname
    /\ Resolved(Hostname) # "default"
    /\ Exit(1)
    /\ UNCHANGED <<flag, env>>

(* "reset temporary fields to their zero values", the raw proxies among them.  *)
Reset ==
    /\ stage = "env"
    /\ next > Len(Order)
    /\ cfg' = [cfg EXCEPT ![RawProxies] = "default"]
    /\ stage' = "build"
    /\ UNCHANGED <<flag, env, next, exit, server>>

(* mainImpl passes the configuration to httpbin.New; proxies that do not parse *)
(* exit with 1.                                                                *)
Build ==
    /\ stage = "build"
    /\ IF cfg[RawProxies] = "bad" THEN Exit(1)
       ELSE /\ server' = cfg
            /\ stage' = "serving"
            /\ UNCHANGED <<cfg, next, exit>>
    /\ UNCHANGED <<flag, env>>

Over ==
    /\ stage \in {"serving", "exited"}
    /\ UNCHANGED cmdVars

CmdNext == \/ Help \/ ParseFlags \/ Resolve \/ HostnameFails \/ Reset \/ Build \/ Over

CmdSpec == CmdInit /\ [][CmdNext]_cmdVars

-----------------------------------------------------------------------------
(* Properties.                                                                 *)

(* A flag other than the default is what the server runs with, whatever the    *)
(* environment says; and an environment variable is used without a flag.       *)
OwnFlagWins ==
    stage = "serving" =>
        \A s \in {Duration, Prefix, Cert, Key} :
            server[s] = CASE flag[s] = "cli" -> "cli"
                          [] flag[s] = "none" /\ env[s] # "none" -> env[s]
                          [] flag[s] = "none" /\ env[s] = "none" -> "default"
                          [] OTHER -> server[s]

(* The server never runs with a value that does not parse, wherever it came    *)
(* from, and neither a malformed variable that a flag overrides nor one for a  *)
(* switch, which getEnvBool takes for off, stops it.                           *)
MalformedStopped ==
    /\ stage = "serving" => \A s \in Settings : server[s] # "bad"
    /\ exit = 2 => \/ \E s \in {Duration, Prefix} :
                          flag[s] = "bad" \/ (flag[s] # "cli" /\ env[s] = "bad")
                   \/ (flag[Cert] = "cli" \/ env[Cert] # "none")
                          # (flag[Key] = "cli" \/ env[Key] # "none")

(* Whoever names a certificate or a key, by flag or by variable, gets a server *)
(* that uses TLS with both, or none at all: never plain HTTP.                  *)
NeverSilentlyPlain ==
    stage = "serving" =>
        \/ server[Cert] # "default" /\ server[Key] # "default"
        \/ \A s \in {Cert, Key} : flag[s] = "none" /\ env[s] = "none"

(* "TRUSTED_PROXIES=none: trust no proxy headers": the server is built with    *)
(* the trusted proxies the user names.                                         *)
ProxiesHonoured ==
    (stage = "serving" /\ (flag[RawProxies] = "cli" \/ env[RawProxies] = "env"))
        => server[RawProxies] # "default"
=============================================================================
