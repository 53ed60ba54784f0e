------------------------------- MODULE Server --------------------------------
(* The life of concurrent requests through the middleware chain that           *)
(* HTTPBin.Handler builds (httpbin/httpbin.go), from the outside in:           *)
(*                                                                             *)
(*    observe > StripPrefix > rateLimit > maxConcurrent > preflight >          *)
(*        responseDelay > mux                                                  *)
(*                                                                             *)
(* and through the graceful shutdown of cmd/cmd.go.  Each request is served by *)
(* a goroutine of its own; they share the limiter and the semaphore channel.   *)
(*                                                                             *)
(* The limiter is the one module RateLimiter implements.  Time is discrete;    *)
(* computing takes none of it and a timer that is due fires before the clock   *)
(* moves on.                                                                   *)
EXTENDS Integers, FiniteSets

CONSTANTS Reqs,           \* requests, each sent once
          Clients,        \* rate-limiting keys
          ClientOf,       \* ClientOf[r]: the key request r is charged to
          Slots,          \* maxConcurrentRequests, > 0
          MaxDuration,    \* HTTPBin.MaxDuration, in ticks
          ConvertTimeout, \* the time an external converter is given
          ClientTimeout,  \* the later of ReadTimeout and WriteTimeout
          Delays,         \* values of ?response_delay= that clients send
          Burst, Refill,  \* of the limiter, in tokens and tokens per tick
          MaxTime         \* bound on the clock

ASSUME ServerAssumption ==
    /\ IsFiniteSet(Reqs)
    /\ ClientOf \in [Reqs -> Clients]
    /\ Slots \in Nat \ {0}
    /\ MaxDuration \in Nat
    /\ ConvertTimeout \in Nat
    /\ ClientTimeout \in Nat
    /\ Delays \subseteq Int
    /\ Burst \in Nat \ {0}
    /\ Refill \in Nat
    /\ MaxTime \in Nat

VARIABLES now, credit, verdict,   \* the clock and the limiter
          pc,                     \* pc[r]: where the goroutine of r is
          began,                  \* began[r]: when r arrived
          due,                    \* due[r]: when the timer r waits on fires
          gone,                   \* requests whose client has disconnected
          status,                 \* status[r]: metaResponseWriter.status, 0 if unset
          panicked,               \* requests whose handler panicked
          observed,               \* observed[r]: calls of the observer for r
          sem,                    \* items in maxConcurrent's channel
          phase,                  \* the main goroutine and the process with it
          stopper, deadline,      \* the signal goroutine, and its Shutdown's context
          doneCh                  \* the channel between the two, of capacity 1

limiterVars == <<now, credit, verdict>>
requestVars == <<pc, began, due, gone, status, panicked, observed, sem>>
processVars == <<phase, stopper, deadline, doneCh>>
vars == <<limiterVars, requestVars, processVars>>

Limiter == INSTANCE IdealLimiter WITH Keys <- Clients, Cap <- Burst, Unit <- 1

(* Inside the semaphore; in flight; and keeping Shutdown waiting, which does   *)
(* not track hijacked connections.                                             *)
Inside(r) == pc[r] \in {"delaying", "handling", "leaving"}
InFlight(r) == pc[r] \notin {"idle", "done"}
Hijacked(r) == status[r] = 101
Active(r) == InFlight(r) /\ ~Hijacked(r)

(* What a handler waits for by timers of its own: its delay, or its pipeline's,*)
(* and then a streaming terminal for a duration or a converter's output.       *)
Waits == {d + e : d \in 0 .. MaxDuration, e \in 0 .. MaxDuration \cup 0 .. ConvertTimeout}

(* No handler runs longer than this.                                           *)
Longest == 2 * MaxDuration + ConvertTimeout + ClientTimeout

(* Types: maxConcurrent's channel is never over its capacity and the observer  *)
(* is called at most once for a request.                                       *)
TypeOK ==
    /\ now \in 0 .. MaxTime
    /\ credit \in [Clients -> 0 .. Burst]
    /\ pc \in [Reqs -> {"idle", "limiting", "entering", "delaying", "handling",
                        "leaving", "observing", "done"}]
    /\ began \in [Reqs -> 0 .. MaxTime]
    /\ due \in [Reqs -> 0 .. MaxTime + Longest]
    /\ gone \subseteq Reqs
    /\ status \in [Reqs -> {0, 101, 200, 400, 404, 429, 499, 503}]
    /\ panicked \subseteq Reqs
    /\ observed \in [Reqs -> 0 .. 1]
    /\ sem \in 0 .. Slots
    /\ phase \in {"serving", "waiting", "exit0", "exit1", "failed"}
    /\ stopper \in {"idle", "signalled", "polling", "returned"}
    /\ doneCh \in {"empty", "nil", "expired"}
    /\ deadline \in 0 .. MaxTime + MaxDuration + 1

Running == phase \in {"serving", "waiting"}

(* The last moment for a request to arrive, or for the signal, that leaves     *)
(* time for everything that follows before the clock stops.                    *)
LatestStart == MaxTime - MaxDuration - Longest - 1

-----------------------------------------------------------------------------
Init ==
    /\ Limiter!Init
    /\ pc = [r \in Reqs |-> "idle"]
    /\ began = [r \in Reqs |-> 0]
    /\ due = [r \in Reqs |-> 0]
    /\ gone = {}
    /\ status = [r \in Reqs |-> 0]
    /\ panicked = {}
    /\ observed = [r \in Reqs |-> 0]
    /\ sem = 0
    /\ phase = "serving"
    /\ stopper = "idle"
    /\ deadline = 0
    /\ doneCh = "empty"

(* net/http accepts a request, which it does until Shutdown has closed the     *)
(* listeners, and starts its goroutine; observe notes the time.                *)
Arrive(r) ==
    /\ Running
    /\ stopper \in {"idle", "signalled"}
    /\ pc[r] = "idle"
    /\ now <= LatestStart
    /\ pc' = [pc EXCEPT ![r] = "limiting"]
    /\ began' = [began EXCEPT ![r] = now]
    /\ UNCHANGED <<limiterVars, due, gone, status, panicked, observed, sem,
                   processVars>>

(* Bug: rateLimitMiddleware wraps observe instead of being wrapped by it.      *)
LimitOutsideObserveBug(r) ==
    /\ Running
    /\ pc[r] = "limiting"
    /\ Limiter!Serve(ClientOf[r])
    /\ pc' = [pc EXCEPT ![r] = IF verdict'[2] THEN "entering" ELSE "done"]
    /\ UNCHANGED <<began, due, gone, status, panicked, observed, sem, processVars>>

(* rateLimitMiddleware: 429 goes back through observe only.                    *)
Limit(r) ==
    /\ Running
    /\ pc[r] = "limiting"
    /\ Limiter!Serve(ClientOf[r])
    /\ IF verdict'[2]
       THEN pc' = [pc EXCEPT ![r] = "entering"] /\ UNCHANGED status
       ELSE /\ pc' = [pc EXCEPT ![r] = "observing"]
            /\ status' = [status EXCEPT ![r] = 429]
    /\ UNCHANGED <<began, due, gone, panicked, observed, sem, processVars>>

(* http.StripPrefix: a path outside the prefix is 404 before it is limited.    *)
OutsidePrefix(r) ==
    /\ Running
    /\ pc[r] = "limiting"
    /\ pc' = [pc EXCEPT ![r] = "observing"]
    /\ status' = [status EXCEPT ![r] = 404]
    /\ UNCHANGED <<limiterVars, began, due, gone, panicked, observed, sem, processVars>>

(* The mux runs the handler: it hijacks the connection at once, as WebSocket   *)
(* does (its handshake writes 101), or is through with its timers after a      *)
(* while, or is held by a client that sends or reads slowly until the server's *)
(* timeouts, which run from the request's arrival, fail its reads and writes.  *)
StartHandler(r) ==
    /\ pc' = [pc EXCEPT ![r] = "handling"]
    /\ \E t \in {now + w : w \in Waits} \cup now .. began[r] + ClientTimeout :
           due' = [due EXCEPT ![r] = t]
    /\ \E code \in {0, 101} : status' = [status EXCEPT ![r] = code]

Reply(r, code, next) ==
    /\ pc' = [pc EXCEPT ![r] = next]
    /\ status' = [status EXCEPT ![r] = code]
    /\ UNCHANGED due

StartDelay(r, d) ==
    /\ pc' = [pc EXCEPT ![r] = "delaying"]
    /\ due' = [due EXCEPT ![r] = now + d]
    /\ UNCHANGED status

(* responseDelay, reached at once from preflight: 400 for a delay outside      *)
(* [0, MaxDuration], no timer for 0.                                           *)
ResponseDelay(r, d) ==
    CASE d < 0 \/ d > MaxDuration -> Reply(r, 400, "leaving")
      [] d = 0 -> StartHandler(r)
      [] OTHER -> StartDelay(r, d)

(* Preflight answers OPTIONS itself.                                           *)
Admitted(r) ==
    \/ Reply(r, 200, "leaving")
    \/ \E d \in Delays : ResponseDelay(r, d)

(* maxConcurrent: a non-blocking send on the channel, or 503.                  *)
Enter(r) ==
    /\ Running
    /\ pc[r] = "entering"
    /\ IF sem < Slots
       THEN sem' = sem + 1 /\ Admitted(r)
       ELSE Reply(r, 503, "observing") /\ UNCHANGED sem
    /\ UNCHANGED <<limiterVars, began, gone, panicked, observed, processVars>>

(* responseDelay's select: the timer, or the request's context.  When both     *)
(* are ready either may be taken.                                              *)
DelayOver(r) ==
    /\ Running
    /\ pc[r] = "delaying"
    /\ now >= due[r]
    /\ StartHandler(r)
    /\ UNCHANGED <<limiterVars, began, gone, panicked, observed, sem, processVars>>

DelayCancelled(r) ==
    /\ Running
    /\ pc[r] = "delaying"
    /\ r \in gone
    /\ Reply(r, status[r], "leaving")
    /\ UNCHANGED <<limiterVars, began, gone, panicked, observed, sem, processVars>>

(* The handler is through: it writes its response or, hijacked, just returns,  *)
(* or it panics.                                                               *)
Finish(r) ==
    /\ Running
    /\ pc[r] = "handling"
    /\ now >= due[r]
    /\ \/ /\ Reply(r, IF Hijacked(r) THEN 101 ELSE 200, "leaving")
          /\ UNCHANGED panicked
       \/ /\ Reply(r, status[r], "leaving")
          /\ panicked' = panicked \cup {r}
    /\ UNCHANGED <<limiterVars, began, gone, observed, sem, processVars>>

(* A handler such as Delay stops waiting when the client goes away.            *)
FinishCancelled(r) ==
    /\ Running
    /\ pc[r] = "handling"
    /\ r \in gone
    /\ ~Hijacked(r)
    /\ Reply(r, 499, "leaving")
    /\ UNCHANGED <<limiterVars, began, gone, panicked, observed, sem, processVars>>

(* The goroutine of r ends, and what it knew of the request with it.           *)
Forget(r) ==
    /\ pc' = [pc EXCEPT ![r] = "done"]
    /\ began' = [began EXCEPT ![r] = 0]
    /\ due' = [due EXCEPT ![r] = 0]
    /\ gone' = gone \ {r}
    /\ status' = [status EXCEPT ![r] = 0]

Unwind(r) ==
    IF r \in panicked
    THEN Forget(r)
    ELSE /\ pc' = [pc EXCEPT ![r] = "observing"]
         /\ UNCHANGED <<began, due, gone, status>>

(* Bug: the receive from sem is not deferred, so a panic skips it.             *)
LeaveNotDeferredBug(r) ==
    /\ Running
    /\ pc[r] = "leaving"
    /\ sem' = IF r \in panicked THEN sem ELSE sem - 1
    /\ Unwind(r)
    /\ UNCHANGED <<limiterVars, panicked, observed, processVars>>

(* Unwinding: maxConcurrent's deferred receive frees the slot; a panic goes on *)
(* past observe, which is not deferred, to net/http, which recovers.           *)
Leave(r) ==
    /\ Running
    /\ pc[r] = "leaving"
    /\ sem' = sem - 1
    /\ Unwind(r)
    /\ UNCHANGED <<limiterVars, panicked, observed, processVars>>

(* Bug: the observer hands its result to something that only runs at shutdown. *)
ObserveBlockingBug(r) ==
    /\ Running
    /\ stopper = "polling"
    /\ pc[r] = "observing"
    /\ observed' = [observed EXCEPT ![r] = @ + 1]
    /\ Forget(r)
    /\ UNCHANGED <<limiterVars, panicked, sem, processVars>>

(* observe reports the result once the handlers inside it have returned.       *)
Observe(r) ==
    /\ Running
    /\ pc[r] = "observing"
    /\ observed' = [observed EXCEPT ![r] = @ + 1]
    /\ Forget(r)
    /\ UNCHANGED <<limiterVars, panicked, sem, processVars>>

(* The client closes the connection; net/http cancels the request's context.   *)
Disconnect(r) ==
    /\ Running
    /\ Active(r)
    /\ r \notin gone
    /\ gone' = gone \cup {r}
    /\ UNCHANGED <<limiterVars, pc, began, due, status, panicked, observed, sem,
                   processVars>>

-----------------------------------------------------------------------------
(* listenAndServeGracefully: the main goroutine is in ListenAndServe, then     *)
(* waits on doneCh; the signal goroutine waits for a signal, then is in        *)
(* Shutdown, whose result it sends to doneCh.                                  *)

(* ListenAndServe fails with something other than ErrServerClosed, as it may   *)
(* until Shutdown has marked the server as closed; nobody waits for doneCh.    *)
ListenError ==
    /\ phase = "serving"
    /\ stopper \in {"idle", "signalled"}
    /\ phase' = "failed"
    /\ UNCHANGED <<limiterVars, requestVars, stopper, deadline, doneCh>>

(* Bug: the grace period is a second less than MaxDuration, not one more.      *)
SignalShortGraceBug ==
    /\ Running
    /\ stopper = "idle"
    /\ now <= LatestStart
    /\ stopper' = "signalled"
    /\ deadline' = now + MaxDuration - 1
    /\ UNCHANGED <<limiterVars, requestVars, phase, doneCh>>

(* SIGTERM or SIGINT: a context of MaxDuration plus one second for Shutdown.   *)
Signal ==
    /\ Running
    /\ stopper = "idle"
    /\ now <= LatestStart
    /\ stopper' = "signalled"
    /\ deadline' = now + MaxDuration + 1
    /\ UNCHANGED <<limiterVars, requestVars, phase, doneCh>>

(* Shutdown marks the server as closed, closes the listeners and polls.        *)
CloseListeners ==
    /\ Running
    /\ stopper = "signalled"
    /\ stopper' = "polling"
    /\ UNCHANGED <<limiterVars, requestVars, phase, deadline, doneCh>>

(* Bug: mainImpl is told all is well as soon as the listeners are closed.      *)
ListenReturnsAtOnceBug ==
    /\ phase = "serving"
    /\ stopper \in {"polling", "returned"}
    /\ phase' = "exit0"
    /\ UNCHANGED <<limiterVars, requestVars, stopper, deadline, doneCh>>

(* Bug: ListenAndServe is called again, in a loop, after any error.            *)
ListenReturnsRetriedBug ==
    /\ phase = "serving"
    /\ stopper \in {"polling", "returned"}
    /\ UNCHANGED vars

(* ListenAndServe returns ErrServerClosed, at once when Shutdown has begun and *)
(* perhaps only after it has returned; the main goroutine goes on to doneCh.   *)
ListenReturns ==
    /\ phase = "serving"
    /\ stopper \in {"polling", "returned"}
    /\ phase' = "waiting"
    /\ UNCHANGED <<limiterVars, requestVars, stopper, deadline, doneCh>>

(* Shutdown finds no active connection and returns nil.                        *)
Drained ==
    /\ Running
    /\ stopper = "polling"
    /\ \A r \in Reqs : ~Active(r)
    /\ stopper' = "returned"
    /\ doneCh' = "nil"
    /\ UNCHANGED <<limiterVars, requestVars, phase, deadline>>

(* Shutdown's context expires first; the requests it leaves behind go on until *)
(* the process exits.                                                          *)
DrainTimeout ==
    /\ Running
    /\ stopper = "polling"
    /\ now >= deadline
    /\ stopper' = "returned"
    /\ doneCh' = "expired"
    /\ UNCHANGED <<limiterVars, requestVars, phase, deadline>>

(* The main goroutine receives Shutdown's result and mainImpl returns.         *)
Return ==
    /\ phase = "waiting"
    /\ doneCh # "empty"
    /\ phase' = IF doneCh = "nil" THEN "exit0" ELSE "exit1"
    /\ doneCh' = "empty"
    /\ UNCHANGED <<limiterVars, requestVars, stopper, deadline>>

(* Somebody can move without the clock: a goroutine that is not waiting, a     *)
(* timer that is due, a context that is cancelled, Shutdown's poll.            *)
Urgent ==
    \/ \E r \in Reqs :
          \/ pc[r] \in {"limiting", "entering", "leaving", "observing"}
          \/ pc[r] \in {"delaying", "handling"} /\ now >= due[r]
          \/ pc[r] = "delaying" /\ r \in gone
    \/ stopper = "signalled"
    \/ stopper = "polling" /\ (now >= deadline \/ \A r \in Reqs : ~Active(r))
    \/ phase = "serving" /\ stopper \in {"polling", "returned"}
    \/ phase = "waiting" /\ doneCh # "empty"

Tick ==
    /\ Running
    /\ ~Urgent
    /\ Limiter!Advance
    /\ UNCHANGED <<requestVars, processVars>>

(* The process has exited.                                                     *)
Exited ==
    /\ ~Running
    /\ UNCHANGED vars

Step(r) == \/ OutsidePrefix(r) \/ Limit(r) \/ Enter(r)
           \/ DelayOver(r) \/ DelayCancelled(r)
           \/ Finish(r) \/ FinishCancelled(r) \/ Leave(r) \/ Observe(r)

Next ==
    \/ \E r \in Reqs : Arrive(r) \/ Step(r) \/ Disconnect(r)
    \/ Signal \/ CloseListeners \/ Drained \/ DrainTimeout
    \/ ListenError \/ ListenReturns \/ Return
    \/ Tick \/ Exited

Spec == Init /\ [][Next]_vars

(* Goroutines are scheduled, time passes, Shutdown keeps polling and closed    *)
(* listeners end ListenAndServe.  Clients and signals owe nothing.             *)
FairSpec ==
    /\ Spec
    /\ \A r \in Reqs : WF_vars(Step(r))
    /\ WF_vars(Tick)
    /\ WF_vars(CloseListeners \/ Drained \/ DrainTimeout)
    /\ WF_vars(ListenReturns \/ Return)

-----------------------------------------------------------------------------
(* Properties.                                                                 *)

(* maxConcurrent's channel holds exactly one item per request inside it, and   *)
(* so never more than Slots run, whatever order requests return, panic, are    *)
(* cancelled or are turned away in.                                            *)
SlotsBalanced == sem = Cardinality({r \in Reqs : Inside(r)}) /\ sem <= Slots

(* A process that exits with status 0 has answered every request it took,      *)
(* hijacked connections excepted.  ListenAndServe returns when Shutdown begins *)
(* and mainImpl does not; what Shutdown found before it sent nil to doneCh is  *)
(* still so when mainImpl receives it, requests being taken up to the moment   *)
(* the listeners close and none after it.                                      *)
GracefulExit == phase = "exit0" => \A r \in Reqs : ~Active(r)

(* Every request that was turned away, answered or cancelled is reported to    *)
(* the observer once; one that panicked never is.                              *)
ObservedUnlessPanicked ==
    \A r \in Reqs : pc[r] = "done" => observed[r] = (IF r \in panicked THEN 0 ELSE 1)

(* No request that is through within MaxDuration of its arrival is cut off,    *)
(* whenever the signal comes: Shutdown gives up only on one that outlives it,  *)
(* by waiting twice (a response delay or a pipeline's delay and then a handler *)
(* with a delay, a duration or a converter) or by the slowness of its client.  *)
GivesUpOnlyOnLong ==
    \A r \in Reqs :
        /\ stopper # "idle"
        /\ Active(r)
        /\ due[r] <= began[r] + MaxDuration
        => now < deadline /\ doneCh # "expired" /\ phase # "exit1"

(* Every request that was accepted ends, unless the process does first.        *)
RequestsEnd ==
    \A r \in Reqs : InFlight(r) ~> (pc[r] = "done" \/ ~Running)

(* A signal leads to the end of the process, whichever of the two goroutines   *)
(* is first at each turn.                                                      *)
SignalEndsProcess == stopper = "signalled" ~> ~Running
=============================================================================
