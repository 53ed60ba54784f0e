---------------------------- MODULE PipelineParser ---------------------------
(* How httpbin/pipeline.go reads a composable URL: modifiers with their        *)
(* arguments, then one terminal, and how it writes the modifiers back into the *)
(* location of a redirect.  A path is a sequence of segments, after path.Clean *)
(* and without the server's prefix.                                            *)
EXTENDS Integers, Sequences, FiniteSetsExt, SequencesExt

CONSTANT MaxSegments   \* maxPipelineSegments

ASSUME ParserAssumption == MaxSegments \in Nat

-----------------------------------------------------------------------------
(* The tables of modifiers and terminals, with names of each kind: "delay"     *)
(* stands for response_delay too, "nocache" for no-cache.                      *)

ModifierArgs == [delay |-> 1, status |-> 1, header |-> 1, nocache |-> 0]
Modifiers == DOMAIN ModifierArgs

Redirects == {"redirect", "relative-redirect", "absolute-redirect"}

(* Terminals that take one argument, and all the segments that remain.         *)
OneArgument == {"status", "body"}
AnyArguments == Redirects \cup {"links", "cache", "base64", "digest-auth", "image"}
NoArguments == {"get", "cookies", "redirect-to"}
TerminalArgs == [t \in NoArguments \cup OneArgument \cup AnyArguments |->
                    IF t \in AnyArguments THEN -1 ELSE IF t \in OneArgument THEN 1 ELSE 0]
TwoSegment == {<<"cookies", "set">>, <<"cookies", "delete">>}
Methods(name) == IF name = "get" THEN {"GET"} ELSE {"GET", "POST"}

Rejected == [ok |-> FALSE, mods |-> <<>>, name |-> <<>>, args |-> <<>>]

(* The terminal that the segments rest begin with: two-segment names first,    *)
(* then one segment and its arguments; surplus ones are dropped.               *)
ParseTerminal(rest) ==
    LET one  == rest[1]
        n    == TerminalArgs[one]
        args == Tail(rest)
    IN  IF Len(rest) >= 2 /\ SubSeq(rest, 1, 2) \in TwoSegment
        THEN [ok |-> TRUE, mods |-> <<>>, name |-> SubSeq(rest, 1, 2),
              args |-> SubSeq(rest, 3, Len(rest))]
        ELSE IF one \notin DOMAIN TerminalArgs \/ Len(args) < n
        THEN Rejected
        ELSE [ok |-> TRUE, mods |-> <<>>, name |-> <<one>>,
              args |-> IF n = -1 THEN args ELSE SubSeq(args, 1, n)]

(* Bug: the look-ahead is off by one.                                          *)
IsModifierLookaheadBug(p, i) ==
    /\ p[i] \in Modifiers
    /\ p[i] \in DOMAIN TerminalArgs => i + ModifierArgs[p[i]] <= Len(p)

(* Whether segment i of p is a modifier: a name that is a terminal too counts  *)
(* as a modifier only if something follows its arguments.                      *)
IsModifier(p, i) ==
    /\ p[i] \in Modifiers
    /\ p[i] \in DOMAIN TerminalArgs => i + ModifierArgs[p[i]] < Len(p)

(* What was read, with a modifier before it.                                   *)
Following(m, r) == [ok |-> TRUE, mods |-> <<m>> \o r.mods, name |-> r.name, args |-> r.args]

parsePipeline(p) ==
    LET parse[i \in 1 .. Len(p) + 1] ==
            IF i > Len(p) THEN Rejected
            ELSE IF ~IsModifier(p, i) THEN ParseTerminal(SubSeq(p, i, Len(p)))
            ELSE LET last == i + ModifierArgs[p[i]]
                 IN  IF last > Len(p) THEN Rejected
                     ELSE LET r == parse[last + 1]
                          IN  IF r.ok THEN Following(SubSeq(p, i, last), r) ELSE Rejected
    IN  IF p = <<>> \/ Len(p) > MaxSegments THEN Rejected ELSE parse[1]

(* Bug: the name is written with each argument, so flags are lost.             *)
buildModifierPrefixNoFlagsBug(mods) ==
    FlattenSeq(SelectSeq(mods, LAMBDA m : Len(m) > 1))

(* The modifiers as the beginning of a path.                                   *)
buildModifierPrefix(mods) == FlattenSeq(mods)

(* A specification of the parser: which readings a path has.                    *)

(* A reading of p: modifiers with their arguments up to segment i, each at one *)
(* of the positions S, and then a terminal with exactly its arguments.         *)
ReadsAs(p, i, S) ==
    LET last(s) == s + ModifierArgs[p[s]]
        rest    == SubSeq(p, i + 1, Len(p))
    IN  /\ \A s \in S : p[s] \in Modifiers /\ last(s) <= i
        /\ \A j \in 1 .. i : \E s \in S : {t \in S : j \in t .. last(t)} = {s}
        /\ \/ Len(rest) >= 2 /\ SubSeq(rest, 1, 2) \in TwoSegment
           \/ /\ rest[1] \in DOMAIN TerminalArgs
              /\ TerminalArgs[rest[1]] \in {-1, Len(rest) - 1}
=============================================================================
