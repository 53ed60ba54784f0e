------------------------------ MODULE Pipeline -------------------------------
(* Composable URLs (httpbin/pipeline.go, httpbin/mix.go) and the endpoints     *)
(* that redirect (httpbin/handlers.go), as a client that follows redirects     *)
(* sees them: a path is routed, parsed and validated, its delays are served    *)
(* and it is answered, perhaps with the location of another path.              *)
(*                                                                             *)
(* The server listens under a prefix, which http.StripPrefix takes off every   *)
(* request and the handlers put on the locations they send.  The bare prefix,  *)
(* and a path of one segment that only a subtree route matches, stand for the  *)
(* ones with a slash.                                                          *)
(*                                                                             *)
(* A path is a sequence of segments as r.URL.Path holds them, unescaped.  The  *)
(* redirects of a pipeline write them into a location as they are, where a     *)
(* client reads '?', '#' and '%' as a query, a fragment and an escape.         *)
EXTENDS PipelineParser

CONSTANTS Paths,         \* paths a client starts from
          Prefix,        \* HTTPBin.prefix, as segments
          Number,        \* Number[s]: the number segment s spells, if it does
          Span,          \* Span[s]: the delay <<min, max>> it spells, if it does
          Headers,       \* segments that name an allowed header and its value
          Reads,         \* Reads[s]: what a client reads for s, which holds '?', '#' or '%'
          Weighted,      \* Weighted[s]: the choices <<code, weight>> it lists
          Grain,         \* rand.Float64 is one of 0/Grain, ..., (Grain - 1)/Grain
          Directive,     \* Directive[s]: kind and value of a /mix segment
          Targets,       \* values of ?url=, as locations, for /redirect-to
          AllowedDomains,\* AllowedRedirectDomains
          MaxDirectives, \* the most directives /mix takes (20)
          MaxRedirects,  \* the largest redirect count in a pipeline (20)
          MaxDuration    \* HTTPBin.MaxDuration

(* No prefix begins like one of the absolute locations that the handlers       *)
(* outside the pipeline send without it, or holds '?', '#' or '%'.  No number  *)
(* and no name of a redirect holds them either, and no escape spells a slash   *)
(* or a dot segment.  The dot segments of a target are cleaned up: those that  *)
(* are left come first.                                                        *)
ASSUME PipelineAssumption ==
    /\ MaxDirectives \in Nat /\ MaxRedirects \in Nat /\ MaxDuration \in Nat
    /\ Grain \in Nat \ {0}
    /\ \A s \in DOMAIN Number : Number[s] \in Nat
    /\ \A s \in DOMAIN Span : Span[s] \in Nat \X Nat
    /\ \A s \in DOMAIN Directive : Directive[s].kind \in {"s", "h", "d", "b64"}
    /\ \A s \in DOMAIN Weighted : Weighted[s] \in Seq(Nat \X Nat)
    /\ Paths \subseteq Seq(STRING) \ {<<>>}
    /\ Prefix \in Seq(STRING)
    /\ Prefix # <<>> => Prefix[1] \notin {"get", "absolute-redirect"}
    /\ \A t \in Targets : t.path \in Seq(STRING)
    /\ \A s \in DOMAIN Reads :
          /\ Reads[s].as \in STRING \ {".."}
          /\ Reads[s].kind \in {"altered", "cut", "dropped", "malformed"}
          /\ s \notin Redirects \cup {"get"} \cup DOMAIN Number
          /\ \A i \in DOMAIN Prefix : Prefix[i] # s

VARIABLES url,       \* the location requested
          query,     \* its query: NoQuery, Absolute, or the url of /redirect-to
          method,    \* the method it is requested with
          pc,        \* "request", "delaying", "dispatch" or "done"
          todo,      \* delays not served yet, as ranges
          waited,    \* time spent in the delays of this request
          status,    \* status of the last response
          promise    \* history: the redirect chain the client is in, or NoChain

vars == <<url, query, method, pc, todo, waited, status, promise>>

(* Locations: a path on this server, the same with a query or with its host    *)
(* spelled out, a relative path, or a URL of another host.                     *)
Here(p) == [host |-> "local", path |-> p]
There(h, p) == [host |-> h, path |-> p]
Nowhere == There("none", <<>>)
Own == {"local", "query", "self"}

NoQuery == Nowhere
Absolute == There("absolute", <<>>)

(* A chain of redirects: what the client is sent to, and how often.            *)
Chain(base, mods, type, dest, left) ==
    [base |-> base, mods |-> mods, type |-> type, dest |-> dest, left |-> left]
NoChain == Chain(<<>>, <<>>, "none", <<>>, -1)

(* What is left of the path once the prefix is taken off.                      *)
path == SubSeq(url.path, Len(Prefix) + 1, Len(url.path))
parsed == parsePipeline(path)

Codes == 100 .. 599
Numeral(n) == CHOOSE s \in DOMAIN Number : Number[s] = n
NumberOf(s) == IF s \in DOMAIN Number THEN Number[s] ELSE -1
DelayOf(s) == IF s \in DOMAIN Span THEN Span[s] ELSE <<1, 0>>

-----------------------------------------------------------------------------
(* Responses, and what the client makes of them.                               *)

(* WriteHeader panics for a number that is no status; the connection is        *)
(* dropped.  An informational status does not end the response: 200 does.      *)
Panicked == 0
Sent(code) == IF code \notin 100 .. 999 THEN Panicked
              ELSE IF code \in 100 .. 199 \ {101} THEN 200 ELSE code

(* A client follows these, with a GET unless it is asked to repeat itself.     *)
Followed == {301, 302, 303, 307, 308}
Repeats == {307, 308}

(* The response: its status and its Location, as the client reads it, Nowhere  *)
(* if it has none.  What is behind a '?' may be any query.                     *)
Answer(code, loc) ==
    /\ status' = Sent(code)
    /\ IF code \in Followed /\ loc # Nowhere
       THEN /\ url' = loc
            /\ query' \in IF loc.host = "query" THEN {NoQuery, Absolute} \cup Targets
                         ELSE {NoQuery}
            /\ method' = IF code \in Repeats THEN method ELSE "GET"
            /\ pc' = IF loc.host \in Own THEN "request" ELSE "done"
       ELSE pc' = "done" /\ UNCHANGED <<url, query, method>>

Respond(code) == Answer(code, Nowhere) /\ promise' = NoChain

(* doRedirect: the prefix goes before a path that begins with a slash, and     *)
(* neither before a relative path nor before a host.                           *)
doRedirect(loc) == IF loc.host = "local" THEN Here(Prefix \o loc.path) ELSE loc

-----------------------------------------------------------------------------
(* Routes: what the mux sends to handlers of their own, and to Pipeline.       *)

IsRedirect(p) == Len(p) = 2 /\ p[1] \in Redirects
IsStatus(p) == Len(p) = 2 /\ p[1] = "status"
IsLinks(p) == Len(p) \in {2, 3} /\ p[1] = "links"
IsCookies(p) == p \in TwoSegment
IsRedirectTo(p) == p = <<"redirect-to">>
IsMix(p) == p # <<>> /\ p[1] = "mix"
ToPipeline(p) ==
    /\ p # <<>>
    /\ p[1] \in Modifiers \cup Redirects \cup {"image", "body"}
    /\ ~(Len(p) = 2 /\ p[1] \in {"delay", "status", "image"} \cup Redirects)

Requested == pc = "request" /\ IsPrefix(Prefix, url.path)

(* StripPrefix answers for paths outside the prefix.                           *)
OutsidePrefix ==
    /\ pc = "request"
    /\ ~IsPrefix(Prefix, url.path)
    /\ Respond(404)
    /\ UNCHANGED <<todo, waited>>

(* Every other handler, the index page too: none of them redirects.            *)
Direct ==
    /\ Requested
    /\ ~\/ IsRedirect(path) \/ IsStatus(path) \/ IsLinks(path) \/ IsCookies(path)
        \/ IsRedirectTo(path) \/ IsMix(path) \/ ToPipeline(path)
    /\ \E code \in {200, 400, 404, 405} : Respond(code)
    /\ UNCHANGED <<todo, waited>>

(* Where the handlers outside the pipeline send the client with n redirects    *)
(* left.  An absolute location is made without the prefix.                     *)
redirectLocation(relative, n) ==
    LET p == IF n < 1 THEN <<"get">>
             ELSE <<IF relative THEN "relative-redirect" ELSE "absolute-redirect", Numeral(n)>>
    IN  IF relative THEN Here(p) ELSE There("self", p)

(* The chain goes on, or a new one starts.                                     *)
Promised(base, mods, type, dest, n) ==
    IF promise.left > 0
    THEN Chain(promise.base, promise.mods, promise.type, promise.dest, promise.left - 1)
    ELSE Chain(base, mods, type, dest, n - 1)

(* Redirect, RelativeRedirect and AbsoluteRedirect; there is no upper bound.   *)
handleRedirect ==
    /\ Requested
    /\ IsRedirect(path)
    /\ LET n        == NumberOf(path[2])
           relative == \/ path[1] = "relative-redirect"
                       \/ path[1] = "redirect" /\ query # Absolute
       IN  IF n < 1 THEN Respond(400)
           ELSE /\ Answer(302, doRedirect(redirectLocation(relative, n - 1)))
                /\ promise' = IF relative
                              THEN Promised(Prefix, <<>>, "relative-redirect", <<>>, n)
                              ELSE Promised(<<>>, <<>>, "absolute-redirect", <<>>, n)
    /\ UNCHANGED <<todo, waited>>

(* SetCookies and DeleteCookies.                                               *)
Cookies ==
    /\ Requested
    /\ IsCookies(path)
    /\ Answer(302, doRedirect(Here(<<"cookies">>)))
    /\ promise' = NoChain
    /\ UNCHANGED <<todo, waited>>

(* The outcome of Links: a page, or from /links/n to its first page.           *)
Links ==
    /\ Requested
    /\ IsLinks(path)
    /\ IF NumberOf(path[2]) \notin 0 .. 256 \/ (Len(path) = 3 /\ NumberOf(path[3]) = -1)
       THEN Answer(400, Nowhere)
       ELSE IF Len(path) = 3 THEN Answer(200, Nowhere)
       ELSE Answer(302, doRedirect(Here(Append(path, "0"))))
    /\ promise' = NoChain
    /\ UNCHANGED <<todo, waited>>

(* A path once its dot segments have gone up, though not above the root.       *)
Climb(p) ==
    LET dots == {i \in DOMAIN p : p[i] = ".."}
        ups  == Cardinality(dots)
    IN  IF dots = {} THEN p
        ELSE SubSeq(p, 1, Min(dots) - 1 - ups) \o SubSeq(p, Min(dots) + ups, Len(p))

(* What a client makes of a location: a relative path starts from the URL that *)
(* it asked for.                                                               *)
Resolved(loc) ==
    LET base == IF loc.host = "relative" THEN SubSeq(url.path, 1, Len(url.path) - 1) ELSE <<>>
    IN  IF loc.host \in {"local", "relative"} THEN Here(Climb(base \o loc.path)) ELSE loc

(* The redirect of RedirectTo to the url in the query, if its domain may be    *)
(* redirected to, with a status from 300 to 399.                               *)
RedirectToAnswers(to) ==
    IF to.host \notin {"local", "relative"} /\ AllowedDomains # {} /\ to.host \notin AllowedDomains
    THEN {<<403, Nowhere>>}
    ELSE {<<400, Nowhere>>} \cup ({302, 307} \X {Resolved(doRedirect(to))})

RedirectTo ==
    /\ Requested
    /\ IsRedirectTo(path)
    /\ IF query \in Targets
       THEN \E a \in RedirectToAnswers(query) : Answer(a[1], a[2])
       ELSE Answer(400, Nowhere)
    /\ promise' = NoChain
    /\ UNCHANGED <<todo, waited>>

-----------------------------------------------------------------------------
(* /status, on its own or at the end of a pipeline.                            *)

(* upTo[i] is the sum of the first i numbers.                                  *)
UpTo(numbers) ==
    LET upTo[i \in 0 .. Len(numbers)] == IF i = 0 THEN 0 ELSE upTo[i - 1] + numbers[i]
    IN  upTo

Total(numbers) == UpTo(numbers)[Len(numbers)]

Weights(choices) == [i \in DOMAIN choices |-> choices[i][2]]

(* Bug: a number that equals the running total still counts.                   *)
weightedRandomChoiceInclusiveBug(choices, r) ==
    LET upTo == UpTo(Weights(choices))
        hit == {i \in DOMAIN choices : r * upTo[Len(choices)] <= upTo[i] * Grain}
    IN  IF hit = {} THEN 0 ELSE Min(hit)

(* The choice, by number, that the random number r/Grain falls on: the first   *)
(* whose running total of weights exceeds it; 0, a panic, if there is none.    *)
weightedRandomChoice(choices, r) ==
    LET upTo == UpTo(Weights(choices))
        hit == {i \in DOMAIN choices : r * upTo[Len(choices)] < upTo[i] * Grain}
    IN  IF hit = {} THEN 0 ELSE Min(hit)

(* Bug: the special cases send their Location without the prefix.              *)
LocationOfBareBug(code) ==
    IF code \in {301, 302, 303, 305, 307} THEN Here(<<"redirect", "1">>)
    ELSE IF code \in {300, 308} THEN Here(<<"image", "jpeg">>) ELSE Nowhere

(* createSpecialCases: the statuses that come with a Location.                 *)
LocationOf(code) ==
    IF code \in {301, 302, 303, 305, 307} THEN Here(Prefix \o <<"redirect", "1">>)
    ELSE IF code \in {300, 308} THEN Here(Prefix \o <<"image", "jpeg">>) ELSE Nowhere

(* The statuses that segment s may be answered with; Panicked for a choice     *)
(* that cannot be made.                                                        *)
StatusOf(s) ==
    IF s \in DOMAIN Weighted
    THEN {LET i == weightedRandomChoice(Weighted[s], r)
          IN  IF i = 0 THEN Panicked ELSE Weighted[s][i][1] : r \in 0 .. Grain - 1}
    ELSE {IF NumberOf(s) \in Codes THEN NumberOf(s) ELSE 400}

Status ==
    /\ Requested
    /\ IsStatus(path)
    /\ \E code \in StatusOf(path[2]) : Answer(code, LocationOf(code))
    /\ promise' = NoChain
    /\ UNCHANGED <<todo, waited>>

-----------------------------------------------------------------------------
(* Pipeline.                                                                   *)

(* The delay each modifier asks for; those of other kinds ask for none.        *)
DelayRanges(mods) ==
    [i \in DOMAIN mods |-> IF mods[i][1] = "delay" THEN DelayOf(mods[i][2]) ELSE <<0, 0>>]

(* Bug: the minimum of each delay is what counts towards the limit.            *)
totalDelayOfMinBug(ranges) == Total([i \in DOMAIN ranges |-> ranges[i][1]])

(* The sum of the largest delays the ranges allow.                             *)
totalDelay(ranges) == Total([i \in DOMAIN ranges |-> ranges[i][2]])

InRange(d) == d[1] <= d[2] /\ d[2] <= MaxDuration

(* A delay in range, a lawful status code, a header that is allowed.           *)
ValidModifier(m) ==
    CASE m[1] = "delay" -> InRange(DelayOf(m[2]))
      [] m[1] = "status" -> NumberOf(m[2]) \in Codes
      [] m[1] = "header" -> m[2] \in Headers
      [] m[1] = "nocache" -> TRUE

(* Every modifier is valid, and the delays are together within the limit.      *)
ValidModifiers(mods) ==
    /\ \A i \in DOMAIN mods : ValidModifier(mods[i])
    /\ totalDelay(DelayRanges(mods)) <= MaxDuration

(* statusOverrideResponseWriter: the first status modifier wins over whatever  *)
(* the terminal writes.                                                        *)
Override(mods, code) ==
    LET named == {i \in DOMAIN mods : mods[i][1] = "status"}
    IN  IF named = {} \/ code = Panicked THEN code ELSE NumberOf(mods[Min(named)][2])

Overridden(code) == Override(parsed.mods, code)

(* Pipeline parses the path and validates every modifier before it acts.       *)
Validate ==
    /\ Requested
    /\ ToPipeline(path)
    /\ IF parsed.ok /\ ValidModifiers(parsed.mods)
       THEN /\ todo' = DelayRanges(parsed.mods)
            /\ pc' = "delaying"
            /\ UNCHANGED <<url, query, method, status, promise>>
       ELSE Respond(400) /\ UNCHANGED todo
    /\ waited' = 0

(* One delay, drawn from its range.                                            *)
Delay ==
    /\ pc = "delaying"
    /\ todo # <<>>
    /\ \E d \in Head(todo)[1] .. Head(todo)[2] : waited' = waited + d
    /\ todo' = Tail(todo)
    /\ UNCHANGED <<url, query, method, pc, status, promise>>

(* The client disconnects: no response is written.                             *)
Cancelled ==
    /\ pc = "delaying"
    /\ todo # <<>>
    /\ Head(todo)[2] > 0
    /\ pc' = "done"
    /\ UNCHANGED <<url, query, method, todo, waited, status, promise>>

(* The terminal's method is checked; 405 is not overridden.                    *)
CheckMethod ==
    /\ pc = "delaying"
    /\ todo = <<>>
    /\ ~IsMix(path)
    /\ IF method \in Methods(parsed.name[1])
       THEN pc' = "dispatch" /\ UNCHANGED <<url, query, method, status, promise>>
       ELSE Respond(405)
    /\ UNCHANGED <<todo, waited>>

Dispatch(name) == pc = "dispatch" /\ parsed.name = name

(* Terminals that need arguments check how many they have; what else they      *)
(* answer is up to their handlers.                                             *)
Needs(t) == IF t \in {"links", "base64"} THEN 1 ELSE IF t = "digest-auth" THEN 3 ELSE 0

DispatchOther ==
    /\ pc = "dispatch"
    /\ \A t \in Redirects \cup {"status", "redirect-to"} : ~Dispatch(<<t>>)
    /\ parsed.name \notin TwoSegment
    /\ \E code \in IF Len(parsed.args) < Needs(parsed.name[1]) THEN {400}
                   ELSE {200, 400, 404} : Respond(Overridden(code))
    /\ UNCHANGED <<todo, waited>>

(* Terminals that redirect in a way of their own: the modifiers do not come    *)
(* along.                                                                      *)
DispatchStatus ==
    /\ Dispatch(<<"status">>)
    /\ \E code \in StatusOf(parsed.args[1]) : Answer(Overridden(code), LocationOf(code))
    /\ promise' = NoChain
    /\ UNCHANGED <<todo, waited>>

DispatchCookies ==
    /\ \E name \in TwoSegment : Dispatch(name)
    /\ Answer(Overridden(302), doRedirect(Here(<<"cookies">>)))
    /\ promise' = NoChain
    /\ UNCHANGED <<todo, waited>>

DispatchRedirectTo ==
    /\ Dispatch(<<"redirect-to">>)
    /\ IF query \in Targets
       THEN \E a \in RedirectToAnswers(query) : Answer(Overridden(a[1]), a[2])
       ELSE Answer(Overridden(400), Nowhere)
    /\ promise' = NoChain
    /\ UNCHANGED <<todo, waited>>

(* Bug: the last redirect forgets the modifiers.                               *)
NextPathBareBug(mods, type, args) ==
    LET n    == Number[args[1]]
        dest == Tail(args)
    IN  IF n > 1 THEN buildModifierPrefix(mods) \o <<type, Numeral(n - 1)>> \o dest
        ELSE IF dest # <<>> THEN dest ELSE <<"get">>

(* Bug: the chain does not count down.                                         *)
NextPathEndlessBug(mods, type, args) == buildModifierPrefix(mods) \o <<type>> \o args

(* Bug: the modifiers are put on twice.                                        *)
NextPathDoubledBug(mods, type, args) ==
    LET n    == Number[args[1]]
        dest == Tail(args)
    IN  buildModifierPrefix(mods) \o buildModifierPrefix(mods) \o
            IF n > 1 THEN <<type, Numeral(n - 1)>> \o dest
            ELSE IF dest # <<>> THEN dest ELSE <<"get">>

(* Where a redirect terminal sends the client: the count goes down, and the    *)
(* last redirect goes to the destination, or to /get if there is none; the     *)
(* modifiers come along in both cases.                                         *)
NextPath(mods, type, args) ==
    LET n    == Number[args[1]]
        dest == Tail(args)
    IN  buildModifierPrefix(mods) \o
            IF n > 1 THEN <<type, Numeral(n - 1)>> \o dest
            ELSE IF dest # <<>> THEN dest ELSE <<"get">>

(* What a client reads for a segment that is written as it is.                 *)
KindOf(s) == IF s \in DOMAIN Reads THEN Reads[s].kind ELSE "plain"
ReadAs(s) == IF s \in DOMAIN Reads THEN Reads[s].as ELSE s
Plain(p) == \A i \in DOMAIN p : p[i] \notin DOMAIN Reads

(* What a client reads for a path that is written as it is: up to the first    *)
(* '?' or '#', with escapes replaced, and nothing if one of them is malformed. *)
Unescaped(p) ==
    LET ends == {i \in DOMAIN p : KindOf(p[i]) \in {"cut", "dropped"}}
        last == IF ends = {} THEN Len(p)
                ELSE IF KindOf(p[Min(ends)]) = "cut" THEN Min(ends) ELSE Min(ends) - 1
    IN  IF \E i \in 1 .. last : KindOf(p[i]) = "malformed" THEN Nowhere
        ELSE There(IF ends = {} THEN "local" ELSE "query", [i \in 1 .. last |-> ReadAs(p[i])])

(* The location for path p as a client reads it.  An absolute one is made with *)
(* the prefix here, and it is escaped.                                         *)
NextLocation(type, p) ==
    IF type = "absolute-redirect" THEN doRedirect(There("self", Prefix \o p))
    ELSE Unescaped(doRedirect(Here(p)).path)

dispatchRedirectTerminal ==
    /\ \E t \in Redirects : Dispatch(<<t>>)
    /\ LET m    == parsed.mods
           type == parsed.name[1]
           args == parsed.args
           n    == IF args = <<>> THEN 0 ELSE NumberOf(args[1])
       IN  IF n \notin 1 .. MaxRedirects
           THEN Respond(Overridden(400))
           ELSE /\ \E loc \in {NextLocation(type, p) : p \in {NextPath(m, type, args)}} :
                      Answer(Overridden(302), loc)
                /\ promise' = IF Overridden(302) \in Followed
                              THEN Promised(Prefix, m, type, Tail(args), n) ELSE NoChain
    /\ UNCHANGED <<todo, waited>>

-----------------------------------------------------------------------------
(* /mix.                                                                       *)

directives == Tail(path)
OfKind(k) == {i \in DOMAIN directives : Directive[directives[i]].kind = k}
MixDelays == [i \in DOMAIN directives |->
                 IF i \in OfKind("d") THEN DelayOf(Directive[directives[i]].value) ELSE <<0, 0>>]

(* Each directive is checked as it is met, the sum of the delays at the end; a *)
(* delay is one number here, never a range.                                    *)
ValidDirective(d) ==
    CASE d.kind = "s" -> NumberOf(d.value) \in Codes
      [] d.kind = "h" -> d.value \in Headers
      [] d.kind = "d" -> DelayOf(d.value)[1] = DelayOf(d.value)[2] /\ InRange(DelayOf(d.value))
      [] d.kind = "b64" -> d.value = "encoded"

(* Mix parses and checks its directives, and waits once for all its delays.    *)
Mix ==
    /\ Requested
    /\ IsMix(path)
    /\ IF /\ Len(directives) <= MaxDirectives
          /\ \A i \in DOMAIN directives :
                directives[i] \in DOMAIN Directive /\ ValidDirective(Directive[directives[i]])
          /\ totalDelay(MixDelays) <= MaxDuration
       THEN LET sum == totalDelay(MixDelays)
            IN  /\ todo' = IF sum > 0 THEN <<<<sum, sum>>>> ELSE <<>>
                /\ pc' = "delaying"
                /\ UNCHANGED <<url, query, method, status, promise>>
       ELSE Respond(400) /\ UNCHANGED todo
    /\ waited' = 0

(* The last status given wins; there is never a Location.                      *)
MixAnswer ==
    /\ pc = "delaying"
    /\ todo = <<>>
    /\ IsMix(path)
    /\ Respond(IF OfKind("s") = {} THEN 200
               ELSE Number[Directive[directives[Max(OfKind("s"))]].value])
    /\ UNCHANGED <<todo, waited>>

-----------------------------------------------------------------------------
(* Queries that matter to path p.                                              *)
Queries(p) == {NoQuery} \cup
    IF IsRedirect(p) THEN {Absolute} ELSE IF Last(p) = "redirect-to" THEN Targets ELSE {}

Init ==
    /\ \E p \in Paths : url = Here(Prefix \o p) /\ query \in Queries(p)
    /\ method \in {"GET", "POST"}
    /\ pc = "request"
    /\ todo = <<>>
    /\ waited = 0
    /\ status = 0
    /\ promise = NoChain

Done ==
    /\ pc = "done"
    /\ UNCHANGED vars

Next == \/ OutsidePrefix \/ Direct \/ handleRedirect \/ Cookies \/ Links \/ RedirectTo
        \/ Status \/ Mix \/ MixAnswer
        \/ Validate \/ Delay \/ Cancelled \/ CheckMethod
        \/ DispatchOther \/ DispatchStatus \/ DispatchCookies \/ DispatchRedirectTo
        \/ dispatchRedirectTerminal \/ Done

Spec == Init /\ [][Next]_vars

(* The handler's goroutine runs and the client follows redirects.              *)
FairSpec == Spec /\ WF_vars(Next)

-----------------------------------------------------------------------------
(* Properties.                                                                 *)

(* "Multiple modifiers are cumulative and their total must not exceed the      *)
(* limit", and the same for the directives of /mix: whatever is drawn from the *)
(* ranges, one request never waits longer than MaxDuration for them.           *)
DelaysWithinLimit == waited <= MaxDuration

(* Parsing loses nothing but surplus arguments: the modifiers, rebuilt, and    *)
(* the terminal are what the path begins with, so a redirect that rebuilds the *)
(* prefix asks for the same modifiers again.  This is about segments; whether  *)
(* they survive being written into a location is up to ChainKeepsPromise.      *)
ParseRoundTrip ==
    (Requested /\ parsed.ok) =>
        LET rebuilt == buildModifierPrefix(parsed.mods) \o parsed.name \o parsed.args
        IN  /\ IsPrefix(rebuilt, path)
            /\ parsePipeline(rebuilt) = parsed

(* Looking ahead is enough: a path that can be read as modifiers and then a    *)
(* terminal is accepted and read that way, whatever its arguments are called.  *)
ParseComplete ==
    (Requested /\ Len(path) <= MaxSegments) =>
        \A i \in 0 .. Len(path) - 1 :
            (\E S \in SUBSET (1 .. i) : ReadsAs(path, i, S)) =>
                parsed.ok /\ Len(buildModifierPrefix(parsed.mods)) = i

(* Chains whose segments survive in a location: absolute ones, which escape    *)
(* them, and those without '?', '#' and '%'.  The others break at their first  *)
(* redirect: the client loses what is behind a '?', the count too.             *)
Survives(c) ==
    \/ c.type = "absolute-redirect"
    \/ Plain(c.base) /\ Plain(FlattenSeq(c.mods)) /\ Plain(c.dest)

(* A chain of redirects that has started and survives in its locations keeps   *)
(* its promise: with k redirects left the client asks for the same modifiers   *)
(* and destination with count k, and after the last one for the destination    *)
(* under those modifiers.                                                      *)
ChainKeepsPromise ==
    (pc = "request" /\ promise.left >= 0 /\ Survives(promise)) =>
        url.path = promise.base \o FlattenSeq(promise.mods) \o
                   IF promise.left > 0
                   THEN <<promise.type, Numeral(promise.left)>> \o promise.dest
                   ELSE IF promise.dest # <<>> THEN promise.dest ELSE <<"get">>

(* A chain is not turned down half way: what was accepted once is accepted     *)
(* until its last redirect.  There are two exceptions: absolute chains outside *)
(* the pipeline, which leave the prefix, and chains that do not survive in     *)
(* their locations.                                                            *)
ChainNotRejected ==
    [][(/\ promise.left > 0 /\ promise.base = Prefix /\ Survives(promise)
        /\ pc # "done" /\ pc' = "done")
           => status' \notin {400, 404, 405}]_vars

(* Every chain of redirects comes to an end.                                   *)
ChainEnds == <>(pc = "done")

(* A request for a redirect to a URL that the client gives, and that is not a  *)
(* path on this server that begins with a slash and stays below it.            *)
SentAway == /\ IsRedirectTo(path) \/ Dispatch(<<"redirect-to">>)
            /\ query.host # "local" \/ \E i \in DOMAIN query.path : query.path[i] = ".."

(* A client that the server sends on, to a path of its own making or to one    *)
(* that the client gave with a slash in front, stays under the prefix, which   *)
(* is put on once.  Two kinds of redirects leave it: those to a URL that the   *)
(* client gave with a host, as a relative path or with dots that climb out of  *)
(* it, and those of absolute chains outside the pipeline.                      *)
RedirectsInside ==
    [][url' # url =>
           \/ /\ IsPrefix(Prefix, url'.path)
              /\ IsPrefix(Prefix \o Prefix, url'.path) => Prefix = <<>>
           \/ SentAway
           \/ IsRedirect(path) /\ url'.host = "self"]_vars

(* A weighted choice of statuses takes each in proportion to its weight, and   *)
(* none without weight, if there is any weight at all.                         *)
ChosenByWeight ==
    (Requested /\ IsStatus(path) /\ path[2] \in DOMAIN Weighted) =>
        LET choices == Weighted[path[2]]
            total   == Total(Weights(choices))
            falls(i) == {r \in 0 .. Grain - 1 : weightedRandomChoice(choices, r) = i}
        IN  total > 0 => \A i \in DOMAIN choices :
                            Cardinality(falls(i)) * total = choices[i][2] * Grain
=============================================================================
