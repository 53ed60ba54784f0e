----------------------------- MODULE ServerProofs ----------------------------
(* Theorems about the middleware chain and the graceful shutdown, for any      *)
(* finite set of requests, any limits and any length of time.                  *)
EXTENDS Server, FiniteSetTheorems, TLAPS

Places == {"idle", "limiting", "entering", "delaying", "handling", "leaving",
           "observing", "done"}
Codes == {0, 101, 200, 400, 404, 429, 499, 503}
InsidePlaces == {"delaying", "handling", "leaving"}

(* The requests that hold a slot.                                              *)
Occupants == {r \in Reqs : Inside(r)}

-----------------------------------------------------------------------------
(* Counting the requests inside the semaphore.                                 *)

(* There are finitely many of them.                                            *)
LEMMA OccupantsFinite == IsFiniteSet(Occupants) /\ Cardinality(Occupants) \in Nat
<1>1. IsFiniteSet(Occupants)
  BY ServerAssumption, FS_Subset DEF Occupants
<1> QED
  BY <1>1, FS_CardinalityType

(* A request that moves from outside to inside adds one.                       *)
LEMMA OccupantsEnter ==
    ASSUME TypeOK, NEW r \in Reqs, NEW next \in InsidePlaces, ~Inside(r),
           pc' = [pc EXCEPT ![r] = next]
    PROVE  Cardinality(Occupants') = Cardinality(Occupants) + 1
<1>1. Occupants' = Occupants \cup {r} /\ r \notin Occupants
  BY DEF Occupants, Inside, InsidePlaces, TypeOK
<1> QED
  BY <1>1, OccupantsFinite, FS_AddElement

(* A request that moves from inside to outside takes one away, so that there   *)
(* was one to take.                                                            *)
LEMMA OccupantsLeave ==
    ASSUME TypeOK, NEW r \in Reqs, NEW next \in Places \ InsidePlaces, Inside(r),
           pc' = [pc EXCEPT ![r] = next]
    PROVE  /\ Cardinality(Occupants') = Cardinality(Occupants) - 1
           /\ Cardinality(Occupants) > 0
<1>1. Occupants' = Occupants \ {r} /\ r \in Occupants
  BY DEF Occupants, Inside, InsidePlaces, TypeOK
<1>2. Cardinality(Occupants \ {r}) = Cardinality(Occupants) - 1 /\ IsFiniteSet(Occupants \ {r})
  BY <1>1, OccupantsFinite, FS_RemoveElement
<1>3. Cardinality(Occupants \ {r}) \in Nat
  BY <1>2, FS_CardinalityType
<1> QED
  BY <1>1, <1>2, <1>3, OccupantsFinite

(* Any other move leaves the count alone.                                      *)
LEMMA OccupantsStay ==
    ASSUME TypeOK, NEW r \in Reqs, NEW next \in Places,
           Inside(r) <=> next \in InsidePlaces,
           pc' = [pc EXCEPT ![r] = next]
    PROVE  Occupants' = Occupants
  BY DEF Occupants, Inside, InsidePlaces, TypeOK

-----------------------------------------------------------------------------
(* Longest is a number of ticks, and covers a single delay.                    *)
LEMMA LongestType == Longest \in Nat /\ MaxDuration <= Longest
  BY ServerAssumption DEF Longest

-----------------------------------------------------------------------------
(* Types, slots and the observer.  TypeOK is not inductive by itself: that the *)
(* channel holds an item when a request leaves needs SlotsBalanced, and that   *)
(* the observer is called at most once needs Reported.                         *)

(* A request is reported when it is done and not before, and a panic only      *)
(* happens on the way out of the handlers.                                     *)
Reported ==
    \A r \in Reqs : /\ pc[r] # "done" => observed[r] = 0
                    /\ r \in panicked => pc[r] \in {"leaving", "done"}

Balanced == sem = Cardinality(Occupants)

ServerInv == TypeOK /\ Balanced /\ Reported /\ ObservedUnlessPanicked

(* A step of r that moves it within one side of the semaphore, short of its    *)
(* end, reports nothing and keeps the invariant.                               *)
LEMMA Moves ==
    ASSUME ServerInv, NEW r \in Reqs, NEW next \in Places \ {"done"},
           Inside(r) <=> next \in InsidePlaces,
           pc[r] # "done", r \in panicked => next = "leaving",
           pc' = [pc EXCEPT ![r] = next],
           now' = now, credit' \in [Clients -> 0 .. Burst],
           began' \in [Reqs -> 0 .. MaxTime],
           due' \in [Reqs -> 0 .. MaxTime + Longest],
           status' \in [Reqs -> Codes],
           gone' \subseteq Reqs,
           panicked' = panicked \/ (panicked' = panicked \cup {r} /\ next = "leaving"),
           UNCHANGED <<observed, sem, processVars>>
    PROVE  ServerInv'
<1>1. TypeOK'
  <2>1. pc' \in [Reqs -> Places]
    BY DEF ServerInv, TypeOK, Places
  <2>2. panicked' \subseteq Reqs
    BY DEF ServerInv, TypeOK
  <2>3. status' \in [Reqs -> {0, 101, 200, 400, 404, 429, 499, 503}]
    BY DEF Codes
  <2>4. UNCHANGED <<phase, stopper, deadline, doneCh>>
    BY DEF processVars
  <2> QED
    BY <2>1, <2>2, <2>3, <2>4 DEF ServerInv, TypeOK, Places
<1>2. Balanced'
  <2>1. Occupants' = Occupants
    BY OccupantsStay DEF ServerInv
  <2> QED
    BY <2>1 DEF ServerInv, Balanced
<1>3. Reported' /\ ObservedUnlessPanicked'
  BY DEF ServerInv, TypeOK, Reported, ObservedUnlessPanicked
<1> QED
  BY <1>1, <1>2, <1>3 DEF ServerInv

(* The end of r: it is no longer inside and has been reported unless it        *)
(* panicked.                                                                   *)
LEMMA Ends ==
    ASSUME ServerInv, NEW r \in Reqs, Forget(r),
           pc[r] # "done",
           observed' = [observed EXCEPT ![r] = IF r \in panicked THEN 0 ELSE 1],
           sem' = sem - (IF Inside(r) THEN 1 ELSE 0),
           UNCHANGED <<limiterVars, panicked, processVars>>
    PROVE  ServerInv'
<1>1. pc' = [pc EXCEPT ![r] = "done"]
  BY DEF Forget
<1>2. sem' \in 0 .. Slots /\ Balanced'
  <2>1. sem \in Nat /\ sem <= Slots /\ Slots \in Nat
    BY ServerAssumption DEF ServerInv, TypeOK
  <2>2. CASE Inside(r)
    <3>1. Cardinality(Occupants') = Cardinality(Occupants) - 1 /\ Cardinality(Occupants) > 0
      BY <1>1, <2>2, OccupantsLeave DEF ServerInv, Places, InsidePlaces
    <3> QED
      BY <2>1, <2>2, <3>1 DEF ServerInv, Balanced
  <2>3. CASE ~Inside(r)
    <3>1. Occupants' = Occupants
      BY <1>1, <2>3, OccupantsStay DEF ServerInv, Places, InsidePlaces
    <3> QED
      BY <2>1, <2>3, <3>1 DEF ServerInv, Balanced
  <2> QED
    BY <2>2, <2>3
<1>3. TypeOK'
  <2>1. 0 \in 0 .. MaxTime /\ 0 \in 0 .. MaxTime + Longest
    BY ServerAssumption, LongestType
  <2> QED
    BY <1>2, <2>1 DEF ServerInv, TypeOK, Forget, limiterVars, processVars
<1>4. Reported' /\ ObservedUnlessPanicked'
  BY <1>1 DEF ServerInv, TypeOK, Reported, ObservedUnlessPanicked
<1> QED
  BY <1>2, <1>3, <1>4 DEF ServerInv

(* A step that concerns no request: the clock, the signal, the shutdown.       *)
LEMMA Apart ==
    ASSUME ServerInv, TypeOK', UNCHANGED requestVars
    PROVE  ServerInv'
<1>1. Occupants' = Occupants
  BY DEF Occupants, Inside, requestVars
<1> QED
  BY <1>1 DEF ServerInv, Balanced, Reported, ObservedUnlessPanicked, requestVars

(* No request has arrived and no slot is taken.                                *)
LEMMA InitServer == Init => ServerInv
<1> SUFFICES ASSUME Init PROVE ServerInv
  OBVIOUS
<1>1. TypeOK
  <2>1. /\ 0 \in 0 .. MaxTime /\ 0 \in 0 .. MaxTime + Longest /\ 0 \in 0 .. Slots
        /\ 0 \in 0 .. MaxTime + MaxDuration + 1 /\ Burst \in 0 .. Burst
    BY ServerAssumption, LongestType
  <2> QED
    BY <2>1 DEF Init, TypeOK, Limiter!Init
<1>2. Occupants = {}
  BY DEF Init, Occupants, Inside
<1>3. Balanced
  BY <1>2, FS_EmptySet DEF Init, Balanced
<1>4. Reported /\ ObservedUnlessPanicked
  BY DEF Init, Reported, ObservedUnlessPanicked
<1> QED
  BY <1>1, <1>3, <1>4 DEF ServerInv

(* IdealLimiter's steps keep its credits within the burst.                     *)
LEMMA CreditTyped ==
    ASSUME TypeOK
    PROVE  /\ \A r \in Reqs : Limiter!Serve(ClientOf[r]) =>
                  now' = now /\ credit' \in [Clients -> 0 .. Burst]
           /\ Limiter!Advance =>
                  now' \in 0 .. MaxTime /\ now' = now + 1 /\ credit' \in [Clients -> 0 .. Burst]
<1>1. ASSUME NEW r \in Reqs, Limiter!Serve(ClientOf[r])
      PROVE  now' = now /\ credit' \in [Clients -> 0 .. Burst]
  <2> DEFINE k == ClientOf[r]
  <2>1. k \in Clients /\ Burst \in Nat
    BY ServerAssumption
  <2>2. credit[k] \in 0 .. Burst
    BY <2>1 DEF TypeOK
  <2>3. (IF credit[k] >= 1 THEN credit[k] - 1 ELSE credit[k]) \in 0 .. Burst
    BY <2>1, <2>2
  <2>4. /\ now' = now
        /\ credit' = [credit EXCEPT ![k] = IF credit[k] >= 1 THEN credit[k] - 1 ELSE credit[k]]
    BY <1>1 DEF Limiter!Serve
  <2> HIDE DEF k
  <2> QED
    BY <2>1, <2>3, <2>4 DEF TypeOK
<1>2. ASSUME Limiter!Advance
      PROVE  now' \in 0 .. MaxTime /\ now' = now + 1 /\ credit' \in [Clients -> 0 .. Burst]
  <2>1. now \in Nat /\ MaxTime \in Nat /\ Burst \in Nat /\ Refill \in Nat
    BY ServerAssumption DEF TypeOK
  <2>2. now' \in 0 .. MaxTime /\ now' = now + 1
    BY <1>2, <2>1 DEF Limiter!Advance
  <2>3. \A k \in Clients : Limiter!Capped(credit[k] + Refill) \in 0 .. Burst
    BY <2>1 DEF TypeOK, Limiter!Capped
  <2> QED
    BY <1>2, <2>2, <2>3 DEF Limiter!Advance
<1> QED
  BY <1>1, <1>2

(* The timers a step may start are within the bounds of due.                   *)
LEMMA DueTyped ==
    ASSUME TypeOK, NEW r \in Reqs, NEW t \in now .. MaxTime + Longest
    PROVE  [due EXCEPT ![r] = t] \in [Reqs -> 0 .. MaxTime + Longest]
<1>1. t \in 0 .. MaxTime + Longest
  BY ServerAssumption, LongestType DEF TypeOK
<1> QED
  BY <1>1 DEF TypeOK

(* A handler is through before Longest has passed.                             *)
LEMMA HandlerTimer ==
    ASSUME TypeOK, NEW r \in Reqs, StartHandler(r)
    PROVE  /\ pc' = [pc EXCEPT ![r] = "handling"]
           /\ \E t \in now .. MaxTime + Longest : due' = [due EXCEPT ![r] = t]
<1>1. PICK t \in {now + w : w \in Waits} \cup now .. began[r] + ClientTimeout :
          due' = [due EXCEPT ![r] = t]
  BY DEF StartHandler
<1>2. now \in 0 .. MaxTime /\ began[r] \in 0 .. MaxTime
  BY DEF TypeOK
<1>3. /\ MaxTime \in Nat /\ MaxDuration \in Nat /\ ConvertTimeout \in Nat
      /\ ClientTimeout \in Nat /\ Longest = 2 * MaxDuration + ConvertTimeout + ClientTimeout
  BY ServerAssumption DEF Longest
<1>4. t \in now .. MaxTime + Longest
  <2>1. ASSUME NEW w \in Waits, t = now + w PROVE t \in now .. MaxTime + Longest
    <3>1. PICK d \in 0 .. MaxDuration, e \in 0 .. MaxDuration \cup 0 .. ConvertTimeout : w = d + e
      BY <2>1 DEF Waits
    <3>2. d + e \in 0 .. Longest
      BY <1>3, <3>1
    <3> QED
      BY <1>2, <1>3, <2>1, <3>1, <3>2
  <2>2. ASSUME t \in now .. began[r] + ClientTimeout PROVE t \in now .. MaxTime + Longest
    BY <1>2, <1>3, <2>2
  <2> QED
    BY <1>1, <2>1, <2>2
<1> QED
  BY <1>1, <1>4 DEF StartHandler

(* What preflight and responseDelay do with an admitted request: it leaves     *)
(* with its answer, or waits.                                                  *)
LEMMA AdmittedTimer ==
    ASSUME TypeOK, NEW r \in Reqs, Admitted(r)
    PROVE  \/ pc' = [pc EXCEPT ![r] = "leaving"] /\ due' = due
           \/ /\ pc' \in {[pc EXCEPT ![r] = "delaying"], [pc EXCEPT ![r] = "handling"]}
              /\ \E t \in now .. MaxTime + Longest : due' = [due EXCEPT ![r] = t]
<1>1. CASE Reply(r, 200, "leaving")
  BY <1>1 DEF Reply
<1>2. ASSUME NEW d \in Delays, ResponseDelay(r, d)
      PROVE  \/ pc' = [pc EXCEPT ![r] = "leaving"] /\ due' = due
             \/ /\ pc' \in {[pc EXCEPT ![r] = "delaying"], [pc EXCEPT ![r] = "handling"]}
                /\ \E t \in now .. MaxTime + Longest : due' = [due EXCEPT ![r] = t]
  <2>1. d \in Int /\ MaxDuration \in Nat
    BY ServerAssumption
  <2>2. CASE d < 0 \/ d > MaxDuration
    BY <1>2, <2>1, <2>2 DEF ResponseDelay, Reply
  <2>3. CASE d = 0
    <3>1. StartHandler(r)
      BY <1>2, <2>1, <2>3 DEF ResponseDelay
    <3> QED
      BY <3>1, HandlerTimer
  <2>4. CASE ~(d < 0 \/ d > MaxDuration) /\ d # 0
    <3>1. StartDelay(r, d)
      BY <1>2, <2>4 DEF ResponseDelay
    <3>2. now + d \in now .. MaxTime + Longest
      <4>1. /\ now \in 0 .. MaxTime /\ MaxTime \in Nat /\ Longest \in Nat
            /\ MaxDuration <= Longest
        BY ServerAssumption, LongestType DEF TypeOK
      <4> QED
        BY <2>1, <2>4, <4>1
    <3>3. pc' = [pc EXCEPT ![r] = "delaying"] /\ due' = [due EXCEPT ![r] = now + d]
      BY <3>1 DEF StartDelay
    <3>4. \E t \in now .. MaxTime + Longest : due' = [due EXCEPT ![r] = t]
      BY <3>2, <3>3
    <3> QED
      BY <3>3, <3>4
  <2> QED
    BY <2>2, <2>3, <2>4
<1> QED
  BY <1>1, <1>2 DEF Admitted

(* Every step of a request is a move, its entry into the semaphore, or its end.*)
LEMMA StepServer == ServerInv /\ [Next]_vars => ServerInv'
<1> SUFFICES ASSUME ServerInv, [Next]_vars PROVE ServerInv'
  OBVIOUS
<1>0. /\ TypeOK
      /\ credit \in [Clients -> 0 .. Burst]
      /\ began \in [Reqs -> 0 .. MaxTime]
      /\ due \in [Reqs -> 0 .. MaxTime + Longest]
      /\ status \in [Reqs -> Codes]
      /\ gone \subseteq Reqs
      /\ now \in 0 .. MaxTime
  BY DEF ServerInv, TypeOK, Codes
<1>1. ASSUME NEW r \in Reqs, Arrive(r) PROVE ServerInv'
  <2>1. /\ pc[r] = "idle" /\ pc' = [pc EXCEPT ![r] = "limiting"]
        /\ began' = [began EXCEPT ![r] = now]
        /\ UNCHANGED <<limiterVars, due, gone, status, panicked, observed, sem, processVars>>
    BY <1>1 DEF Arrive
  <2>2. r \notin panicked
    BY <2>1 DEF ServerInv, Reported
  <2>3. began' \in [Reqs -> 0 .. MaxTime]
    BY <1>0, <2>1
  <2>4. UNCHANGED <<now, credit>>
    BY <2>1 DEF limiterVars
  <2>5. /\ ~Inside(r) /\ "limiting" \in Places \ {"done"} /\ "limiting" \notin InsidePlaces
    BY <2>1 DEF Inside, Places, InsidePlaces
  <2> QED
    BY <1>0, <2>1, <2>2, <2>3, <2>4, <2>5, Moves
<1>2. ASSUME NEW r \in Reqs, Limit(r) PROVE ServerInv'
  <2>1. /\ pc[r] = "limiting" /\ Limiter!Serve(ClientOf[r])
        /\ UNCHANGED <<began, due, gone, panicked, observed, sem, processVars>>
    BY <1>2 DEF Limit
  <2>2. PICK next \in {"entering", "observing"} : pc' = [pc EXCEPT ![r] = next]
    BY <1>2 DEF Limit
  <2>3. status' \in [Reqs -> Codes]
    BY <1>0, <1>2 DEF Limit, Codes
  <2>4. r \notin panicked
    BY <2>1 DEF ServerInv, Reported
  <2>5. now' = now /\ credit' \in [Clients -> 0 .. Burst]
    BY <1>0, <2>1, CreditTyped
  <2>6. ~Inside(r) /\ next \in Places \ {"done"} /\ next \notin InsidePlaces
    BY <2>1 DEF Inside, Places, InsidePlaces
  <2> QED
    BY <1>0, <2>1, <2>2, <2>3, <2>4, <2>5, <2>6, Moves
<1>3. ASSUME NEW r \in Reqs, OutsidePrefix(r) PROVE ServerInv'
  <2>1. /\ pc[r] = "limiting" /\ pc' = [pc EXCEPT ![r] = "observing"]
        /\ status' = [status EXCEPT ![r] = 404]
        /\ UNCHANGED <<limiterVars, began, due, gone, panicked, observed, sem, processVars>>
    BY <1>3 DEF OutsidePrefix
  <2>2. r \notin panicked
    BY <2>1 DEF ServerInv, Reported
  <2>3. status' \in [Reqs -> Codes]
    BY <1>0, <2>1 DEF Codes
  <2>4. UNCHANGED <<now, credit>>
    BY <2>1 DEF limiterVars
  <2>5. /\ ~Inside(r) /\ "observing" \in Places \ {"done"} /\ "observing" \notin InsidePlaces
    BY <2>1 DEF Inside, Places, InsidePlaces
  <2> QED
    BY <1>0, <2>1, <2>2, <2>3, <2>4, <2>5, Moves
<1>4. ASSUME NEW r \in Reqs, Enter(r) PROVE ServerInv'
  <2>1. /\ pc[r] = "entering"
        /\ UNCHANGED <<limiterVars, began, gone, panicked, observed, processVars>>
    BY <1>4 DEF Enter
  <2>2. r \notin panicked /\ ~Inside(r)
    BY <2>1 DEF ServerInv, Reported, Inside
  <2>3. UNCHANGED <<now, credit>>
    BY <2>1 DEF limiterVars
  <2>4. CASE sem < Slots
    <3>1. sem' = sem + 1 /\ Admitted(r)
      BY <1>4, <2>4 DEF Enter
    <3>2. PICK next \in InsidePlaces : pc' = [pc EXCEPT ![r] = next]
      BY <3>1 DEF Admitted, ResponseDelay, Reply, StartHandler, StartDelay, InsidePlaces
    <3>3. status' \in [Reqs -> Codes]
      BY <1>0, <3>1 DEF Admitted, ResponseDelay, Reply, StartHandler, StartDelay, Codes
    <3>4. due' \in [Reqs -> 0 .. MaxTime + Longest]
      <4>1. due' = due \/ \E t \in now .. MaxTime + Longest : due' = [due EXCEPT ![r] = t]
        BY <1>0, <3>1, AdmittedTimer
      <4> QED
        BY <1>0, <4>1, DueTyped
    <3>5. Cardinality(Occupants') = Cardinality(Occupants) + 1
      BY <1>0, <2>2, <3>2, OccupantsEnter
    <3>6. sem' \in 0 .. Slots /\ Balanced'
      BY <2>4, <3>1, <3>5, ServerAssumption DEF ServerInv, Balanced, TypeOK
    <3>7. pc' \in [Reqs -> Places]
      BY <1>0, <3>2 DEF TypeOK, Places, InsidePlaces
    <3>8. TypeOK'
      <4>1. UNCHANGED <<phase, stopper, deadline, doneCh>>
        BY <2>1 DEF processVars
      <4> QED
        BY <1>0, <2>1, <2>3, <3>3, <3>4, <3>6, <3>7, <4>1 DEF TypeOK, Places, Codes
    <3>9. Reported' /\ ObservedUnlessPanicked'
      BY <1>0, <2>1, <2>2, <3>2 DEF ServerInv, TypeOK, Reported, ObservedUnlessPanicked, InsidePlaces
    <3> QED
      BY <3>6, <3>8, <3>9 DEF ServerInv
  <2>5. CASE ~(sem < Slots)
    <3>1. /\ pc' = [pc EXCEPT ![r] = "observing"] /\ status' = [status EXCEPT ![r] = 503]
          /\ UNCHANGED <<due, sem>>
      BY <1>4, <2>5 DEF Enter, Reply
    <3>2. status' \in [Reqs -> Codes]
      BY <1>0, <3>1 DEF Codes
    <3>3. "observing" \in Places \ {"done"} /\ "observing" \notin InsidePlaces
      BY DEF Places, InsidePlaces
    <3> QED
      BY <1>0, <2>1, <2>2, <2>3, <3>1, <3>2, <3>3, Moves
  <2> QED
    BY <2>4, <2>5
<1>5. ASSUME NEW r \in Reqs, DelayOver(r) PROVE ServerInv'
  <2>1. /\ pc[r] = "delaying" /\ StartHandler(r)
        /\ UNCHANGED <<limiterVars, began, gone, panicked, observed, sem, processVars>>
    BY <1>5 DEF DelayOver
  <2>2. r \notin panicked
    BY <2>1 DEF ServerInv, Reported
  <2>3. pc' = [pc EXCEPT ![r] = "handling"] /\ status' \in [Reqs -> Codes]
    BY <1>0, <2>1 DEF StartHandler, Codes
  <2>4. due' \in [Reqs -> 0 .. MaxTime + Longest]
    BY <1>0, <2>1, DueTyped, HandlerTimer
  <2>5. UNCHANGED <<now, credit>>
    BY <2>1 DEF limiterVars
  <2>6. Inside(r) /\ "handling" \in Places \ {"done"} /\ "handling" \in InsidePlaces
    BY <2>1 DEF Inside, Places, InsidePlaces
  <2> QED
    BY <1>0, <2>1, <2>2, <2>3, <2>4, <2>5, <2>6, Moves
<1>6. ASSUME NEW r \in Reqs, NEW code \in Codes, pc[r] \in {"delaying", "handling"},
             Reply(r, code, "leaving"),
             panicked' \in {panicked, panicked \cup {r}},
             UNCHANGED <<limiterVars, began, gone, observed, sem, processVars>>
      PROVE  ServerInv'
  <2>1. /\ pc' = [pc EXCEPT ![r] = "leaving"] /\ status' = [status EXCEPT ![r] = code]
        /\ due' = due
    BY <1>6 DEF Reply
  <2>2. status' \in [Reqs -> Codes]
    BY <1>0, <2>1
  <2>3. UNCHANGED <<now, credit>>
    BY <1>6 DEF limiterVars
  <2>4. Inside(r) /\ "leaving" \in Places \ {"done"} /\ "leaving" \in InsidePlaces
    BY <1>6 DEF Inside, Places, InsidePlaces
  <2> QED
    BY <1>0, <1>6, <2>1, <2>2, <2>3, <2>4, Moves
<1>7. ASSUME NEW r \in Reqs, DelayCancelled(r) \/ Finish(r) \/ FinishCancelled(r)
      PROVE  ServerInv'
  <2>1. PICK code \in Codes : Reply(r, code, "leaving")
    <3>1. status[r] \in Codes
      BY <1>0
    <3> QED
      BY <1>7, <3>1 DEF DelayCancelled, Finish, FinishCancelled, Codes
  <2>2. /\ pc[r] \in {"delaying", "handling"}
        /\ panicked' \in {panicked, panicked \cup {r}}
        /\ UNCHANGED <<limiterVars, began, gone, observed, sem, processVars>>
    BY <1>7 DEF DelayCancelled, Finish, FinishCancelled
  <2> QED
    BY <1>6, <2>1, <2>2
<1>8. ASSUME NEW r \in Reqs, Leave(r) PROVE ServerInv'
  <2>1. /\ pc[r] = "leaving" /\ sem' = sem - 1 /\ Unwind(r) /\ Inside(r)
        /\ UNCHANGED <<limiterVars, panicked, observed, processVars>>
    BY <1>8 DEF Leave, Inside
  <2>2. CASE r \in panicked
    <3>1. Forget(r)
      BY <2>1, <2>2 DEF Unwind
    <3>2. observed[r] = 0
      BY <2>1 DEF ServerInv, Reported
    <3>3. observed' = [observed EXCEPT ![r] = IF r \in panicked THEN 0 ELSE 1]
      BY <1>0, <2>1, <2>2, <3>2 DEF TypeOK
    <3> QED
      BY <2>1, <3>1, <3>3, Ends
  <2>3. CASE r \notin panicked
    <3>1. pc' = [pc EXCEPT ![r] = "observing"] /\ UNCHANGED <<began, due, gone, status>>
      BY <2>1, <2>3 DEF Unwind
    <3>2. Cardinality(Occupants') = Cardinality(Occupants) - 1 /\ Cardinality(Occupants) > 0
      BY <1>0, <2>1, <3>1, OccupantsLeave DEF Places, InsidePlaces
    <3>3. sem' \in 0 .. Slots /\ Balanced'
      BY <2>1, <3>2, ServerAssumption DEF ServerInv, Balanced, TypeOK
    <3>4. pc' \in [Reqs -> Places]
      BY <1>0, <3>1 DEF TypeOK, Places
    <3>5. UNCHANGED <<now, credit, phase, stopper, deadline, doneCh>>
      BY <2>1 DEF limiterVars, processVars
    <3>6. TypeOK'
      BY <1>0, <2>1, <3>1, <3>3, <3>4, <3>5 DEF TypeOK, Places
    <3>7. Reported' /\ ObservedUnlessPanicked'
      BY <1>0, <2>1, <2>3, <3>1 DEF ServerInv, TypeOK, Reported, ObservedUnlessPanicked
    <3> QED
      BY <3>3, <3>6, <3>7 DEF ServerInv
  <2> QED
    BY <2>2, <2>3
<1>9. ASSUME NEW r \in Reqs, Observe(r) PROVE ServerInv'
  <2>1. /\ pc[r] = "observing" /\ Forget(r) /\ ~Inside(r)
        /\ observed' = [observed EXCEPT ![r] = observed[r] + 1]
        /\ UNCHANGED <<limiterVars, panicked, sem, processVars>>
    BY <1>9 DEF Observe, Inside
  <2>2. observed[r] = 0 /\ r \notin panicked
    BY <2>1 DEF ServerInv, Reported
  <2>3. observed' = [observed EXCEPT ![r] = IF r \in panicked THEN 0 ELSE 1]
    BY <2>1, <2>2
  <2>4. sem' = sem - (IF Inside(r) THEN 1 ELSE 0)
    BY <1>0, <2>1 DEF TypeOK
  <2> QED
    BY <2>1, <2>3, <2>4, Ends
<1>10. ASSUME NEW r \in Reqs, Disconnect(r) PROVE ServerInv'
  <2>1. /\ gone' = gone \cup {r}
        /\ UNCHANGED <<limiterVars, pc, began, due, status, panicked, observed, sem, processVars>>
    BY <1>10 DEF Disconnect
  <2>2. TypeOK'
    BY <1>0, <2>1 DEF TypeOK, limiterVars, processVars
  <2>3. Occupants' = Occupants
    BY <2>1 DEF Occupants, Inside
  <2> QED
    BY <2>1, <2>2, <2>3 DEF ServerInv, Balanced, Reported, ObservedUnlessPanicked
<1>11. ASSUME \/ Signal \/ CloseListeners \/ Drained \/ DrainTimeout
              \/ ListenError \/ ListenReturns \/ Return
       PROVE  ServerInv'
  <2>1. UNCHANGED <<limiterVars, requestVars>>
    BY <1>11 DEF ListenError, Signal, CloseListeners, Drained, DrainTimeout, ListenReturns, Return
  <2>2. phase' \in {"serving", "waiting", "exit0", "exit1", "failed"}
    BY <1>0, <1>11
    DEF TypeOK, ListenError, Signal, CloseListeners, Drained, DrainTimeout, ListenReturns, Return
  <2>3. /\ stopper' \in {"idle", "signalled", "polling", "returned"}
        /\ doneCh' \in {"empty", "nil", "expired"}
    BY <1>0, <1>11
    DEF TypeOK, ListenError, Signal, CloseListeners, Drained, DrainTimeout, ListenReturns, Return
  <2>4. deadline' \in {deadline, now + MaxDuration + 1}
    BY <1>11 DEF ListenError, Signal, CloseListeners, Drained, DrainTimeout, ListenReturns, Return
  <2>5. now + MaxDuration + 1 \in 0 .. MaxTime + MaxDuration + 1
    BY <1>0, ServerAssumption
  <2>6. TypeOK'
    BY <1>0, <2>1, <2>2, <2>3, <2>4, <2>5 DEF TypeOK, limiterVars, requestVars
  <2> QED
    BY <2>1, <2>6, Apart
<1>12. ASSUME Tick PROVE ServerInv'
  <2>1. Limiter!Advance /\ UNCHANGED <<requestVars, processVars>>
    BY <1>12 DEF Tick
  <2>2. now' \in 0 .. MaxTime /\ credit' \in [Clients -> 0 .. Burst]
    BY <1>0, <2>1, CreditTyped
  <2>3. TypeOK'
    BY <1>0, <2>1, <2>2 DEF TypeOK, requestVars, processVars
  <2> QED
    BY <2>1, <2>3, Apart
<1>13. CASE Exited \/ UNCHANGED vars
  <2>1. UNCHANGED <<limiterVars, requestVars, processVars>>
    BY <1>13 DEF Exited, vars
  <2>2. TypeOK'
    BY <1>0, <2>1 DEF TypeOK, limiterVars, requestVars, processVars
  <2> QED
    BY <2>1, <2>2, Apart
<1> QED
  BY <1>1, <1>2, <1>3, <1>4, <1>5, <1>7, <1>8, <1>9, <1>10, <1>11, <1>12, <1>13 DEF Next, Step

(* Types: the semaphore stays within its capacity and no request is reported   *)
(* to the observer twice.                                                      *)
THEOREM TypeCorrect == Spec => []TypeOK
  BY InitServer, StepServer, PTL DEF Spec, ServerInv

(* maxConcurrent's channel holds one item per request inside it and at most    *)
(* Slots requests are inside, in every order of returns, panics, cancellations *)
(* and refusals.                                                               *)
THEOREM SlotsAreBalanced == Spec => []SlotsBalanced
<1>1. ServerInv => SlotsBalanced
  BY ServerAssumption DEF ServerInv, Balanced, Occupants, SlotsBalanced, TypeOK
<1> QED
  BY <1>1, InitServer, StepServer, PTL DEF Spec

(* Every request that has ended was reported once, or panicked.                *)
THEOREM EachObserved == Spec => []ObservedUnlessPanicked
  BY InitServer, StepServer, PTL DEF Spec, ServerInv

-----------------------------------------------------------------------------
(* Shutdown.                                                                   *)

(* Once Shutdown has found the connections idle and sent nil, they stay so     *)
(* until mainImpl returns: the listeners are closed, and a connection that a   *)
(* handler has hijacked does not come back.                                    *)
Settled ==
    /\ \A r \in Reqs : pc[r] \in {"idle", "limiting", "entering", "delaying"} => ~Hijacked(r)
    /\ doneCh = "nil" \/ phase = "exit0" =>
           stopper = "returned" /\ \A r \in Reqs : ~Active(r)

(* The steps of a request neither take it out of a hijacked connection nor     *)
(* start it.                                                                   *)
LEMMA StepSettled == TypeOK /\ Settled /\ [Next]_vars => Settled'
<1> SUFFICES ASSUME TypeOK, Settled, [Next]_vars PROVE Settled'
  OBVIOUS
<1>0. pc \in [Reqs -> Places] /\ status \in [Reqs -> Codes]
  BY DEF TypeOK, Places, Codes
<1>1. ASSUME NEW r \in Reqs, Arrive(r) PROVE Settled'
  <2>1. /\ stopper \in {"idle", "signalled"} /\ pc[r] = "idle"
        /\ pc' = [pc EXCEPT ![r] = "limiting"]
        /\ UNCHANGED <<status, phase, stopper, doneCh>>
    BY <1>1 DEF Arrive, processVars
  <2> QED
    BY <1>0, <2>1 DEF Settled, Hijacked
<1>2. ASSUME NEW r \in Reqs, Active(r), NEW next \in Places, NEW code \in Codes,
             next \in {"idle", "limiting", "entering", "delaying"} => code # 101,
             pc' = [pc EXCEPT ![r] = next], status' = [status EXCEPT ![r] = code],
             UNCHANGED <<phase, stopper, doneCh>>
      PROVE  Settled'
  BY <1>0, <1>2 DEF Settled, Hijacked
<1>3. ASSUME NEW r \in Reqs, Step(r), pc[r] \in {"limiting", "entering", "delaying"}
      PROVE  Settled'
  <2>1. Active(r) /\ status[r] \in Codes /\ status[r] # 101
    BY <1>0, <1>3 DEF Settled, Active, InFlight, Hijacked
  <2>2. status = [status EXCEPT ![r] = status[r]]
    BY <1>0
  <2>3. ASSUME StartHandler(r)
        PROVE  \E next \in Places, code \in Codes :
                   /\ next \in {"idle", "limiting", "entering", "delaying"} => code # 101
                   /\ pc' = [pc EXCEPT ![r] = next] /\ status' = [status EXCEPT ![r] = code]
    <3>1. PICK code \in {0, 101} : status' = [status EXCEPT ![r] = code]
      BY <2>3 DEF StartHandler
    <3>2. pc' = [pc EXCEPT ![r] = "handling"]
      BY <2>3 DEF StartHandler
    <3>3. "handling" \in Places /\ code \in Codes
      BY DEF Places, Codes
    <3> QED
      BY <3>1, <3>2, <3>3
  <2>4. \E next \in Places, code \in Codes :
           /\ next \in {"idle", "limiting", "entering", "delaying"} => code # 101
           /\ pc' = [pc EXCEPT ![r] = next] /\ status' = [status EXCEPT ![r] = code]
    <3>1. CASE OutsidePrefix(r) \/ Limit(r)
      BY <2>1, <2>2, <3>1 DEF OutsidePrefix, Limit, Places, Codes
    <3>2. CASE Enter(r)
      <4>1. CASE Reply(r, 503, "observing")
        BY <4>1 DEF Reply, Places, Codes
      <4>2. CASE Admitted(r)
        <5>1. CASE Reply(r, 200, "leaving") \/ Reply(r, 400, "leaving")
          BY <5>1 DEF Reply, Places, Codes
        <5>2. CASE StartHandler(r)
          BY <2>3, <5>2
        <5>3. ASSUME NEW d \in Delays, StartDelay(r, d)
              PROVE  pc' = [pc EXCEPT ![r] = "delaying"] /\ status' = status
          BY <5>3 DEF StartDelay
        <5>4. "delaying" \in Places
          BY DEF Places
        <5> QED
          BY <2>1, <2>2, <4>2, <5>1, <5>2, <5>3, <5>4 DEF Admitted, ResponseDelay
      <4> QED
        BY <3>2, <4>1, <4>2 DEF Enter
    <3>3. CASE DelayOver(r)
      BY <2>3, <3>3 DEF DelayOver
    <3>4. CASE DelayCancelled(r)
      BY <2>1, <3>4 DEF DelayCancelled, Reply, Places
    <3> QED
      BY <1>3, <3>1, <3>2, <3>3, <3>4
      DEF Step, Finish, FinishCancelled, Leave, Observe
  <2>5. UNCHANGED <<phase, stopper, doneCh>>
    BY <1>3 DEF Step, OutsidePrefix, Limit, Enter, DelayOver, DelayCancelled, Finish,
                FinishCancelled, Leave, Observe, processVars
  <2> QED
    BY <1>2, <2>1, <2>4, <2>5
<1>4. ASSUME NEW r \in Reqs, Step(r), pc[r] \notin {"limiting", "entering", "delaying"}
      PROVE  Settled'
  <2>1. /\ pc[r] \in {"handling", "leaving", "observing"}
        /\ UNCHANGED <<phase, stopper, doneCh>>
    BY <1>4 DEF Step, OutsidePrefix, Limit, Enter, DelayOver, DelayCancelled, Finish,
                FinishCancelled, Leave, Observe, processVars
  <2>2. CASE Finish(r) \/ FinishCancelled(r)
    <3>1. /\ pc' = [pc EXCEPT ![r] = "leaving"]
          /\ \/ status' = [status EXCEPT ![r] = status[r]]
             \/ ~Hijacked(r) /\ status' = [status EXCEPT ![r] = 200]
             \/ ~Hijacked(r) /\ status' = [status EXCEPT ![r] = 499]
             \/ Hijacked(r) /\ status' = [status EXCEPT ![r] = 101]
      BY <2>2 DEF Finish, FinishCancelled, Reply
    <3> QED
      BY <1>0, <2>1, <3>1 DEF Settled, Active, InFlight, Hijacked
  <2>3. ASSUME Forget(r) PROVE Settled'
    BY <1>0, <2>1, <2>3 DEF Forget, Settled, Active, InFlight, Hijacked
  <2>4. ASSUME pc' = [pc EXCEPT ![r] = "observing"], status' = status PROVE Settled'
    BY <1>0, <2>1, <2>4 DEF Settled, Active, InFlight, Hijacked
  <2> QED
    BY <1>4, <2>2, <2>3, <2>4
    DEF Step, OutsidePrefix, Limit, Enter, DelayOver, DelayCancelled, Leave, Unwind, Observe
<1>5. ASSUME UNCHANGED <<pc, status, phase, stopper, doneCh>> PROVE Settled'
  BY <1>5 DEF Settled, Active, InFlight, Hijacked
<1>6. ASSUME NEW r \in Reqs, Disconnect(r) PROVE Settled'
  BY <1>5, <1>6 DEF Disconnect, processVars
<1>7. ASSUME UNCHANGED <<pc, status>>, doneCh' = "nil" => doneCh = "nil",
             phase' = "exit0" => phase = "exit0" \/ doneCh = "nil",
             stopper = "returned" => stopper' = "returned"
      PROVE  Settled'
  BY <1>7 DEF Settled, Active, InFlight, Hijacked
<1>8. ASSUME Drained PROVE Settled'
  BY <1>8 DEF Drained, requestVars, Settled, Active, InFlight, Hijacked
<1>9. ASSUME \/ Signal \/ CloseListeners \/ DrainTimeout
             \/ ListenError \/ ListenReturns \/ Return
      PROVE  Settled'
  BY <1>7, <1>9
  DEF Signal, CloseListeners, DrainTimeout, ListenError, ListenReturns, Return, requestVars
<1>10. CASE Tick \/ Exited \/ UNCHANGED vars
  BY <1>5, <1>10 DEF Tick, Exited, vars, requestVars, processVars
<1> QED
  BY <1>1, <1>3, <1>4, <1>6, <1>8, <1>9, <1>10 DEF Next

(* A process that exits with status 0 leaves no request unanswered, in every   *)
(* order of the steps of its two goroutines and of the requests.               *)
THEOREM ExitsGracefully == Spec => []GracefulExit
<1>1. Init => Settled
  BY DEF Init, Settled, Hijacked
<1>2. Settled => GracefulExit
  BY DEF Settled, GracefulExit
<1> QED
  BY <1>1, <1>2, TypeCorrect, StepSettled, PTL DEF Spec

(* A goroutine that is not waiting for a timer has used no time, one that is   *)
(* waiting has not passed its timer, Shutdown's deadline is MaxDuration plus   *)
(* one tick after any request it waits for arrived, those that arrive while    *)
(* the listeners are still open included, and Shutdown gives up at its deadline*)
(* and not before.                                                             *)
Timely ==
    /\ \A r \in Reqs :
           /\ InFlight(r) => began[r] <= now
           /\ pc[r] \in {"limiting", "entering"} => now = began[r]
           /\ pc[r] \in {"delaying", "handling"} => now <= due[r]
           /\ pc[r] \in {"leaving", "observing"} => now <= began[r] \/ now <= due[r]
           /\ stopper # "idle" /\ InFlight(r) => began[r] + MaxDuration + 1 <= deadline
    /\ stopper = "signalled" => deadline = now + MaxDuration + 1
    /\ doneCh = "expired" \/ phase = "exit1" => stopper = "returned" /\ deadline <= now

(* Timely is kept: a step of a goroutine takes no time, and the clock waits    *)
(* for every goroutine and every timer that is due.                            *)
LEMMA StepTimely == TypeOK /\ Timely /\ [Next]_vars => Timely'
<1> SUFFICES ASSUME TypeOK, Timely, [Next]_vars PROVE Timely'
  OBVIOUS
<1>0. /\ now \in Nat /\ deadline \in Nat /\ MaxDuration \in Nat
      /\ pc \in [Reqs -> Places] /\ began \in [Reqs -> Nat] /\ due \in [Reqs -> Nat]
  <2>1. now \in Nat /\ deadline \in Nat /\ MaxDuration \in Nat /\ MaxTime \in Nat
    BY ServerAssumption DEF TypeOK
  <2>2. Longest \in Nat
    BY LongestType
  <2> QED
    BY <2>1, <2>2 DEF TypeOK, Places
<1>1. ASSUME NEW r \in Reqs, Arrive(r) PROVE Timely'
  <2>1. /\ stopper \in {"idle", "signalled"} /\ pc' = [pc EXCEPT ![r] = "limiting"]
        /\ began' = [began EXCEPT ![r] = now]
        /\ UNCHANGED <<limiterVars, due, processVars>>
    BY <1>1 DEF Arrive
  <2> QED
    BY <1>0, <2>1 DEF Timely, InFlight, limiterVars, processVars
<1>2. ASSUME NEW r \in Reqs, pc[r] \in {"limiting", "entering"},
             NEW next \in {"entering", "leaving", "observing"},
             next = "entering" => pc[r] = "limiting",
             pc' = [pc EXCEPT ![r] = next],
             UNCHANGED <<now, began, due, processVars>>
      PROVE  Timely'
  BY <1>0, <1>2 DEF Timely, InFlight, processVars
<1>3. ASSUME NEW r \in Reqs, Limit(r) PROVE Timely'
  <2>1. now' = now /\ UNCHANGED <<began, due, processVars>>
    BY <1>3, CreditTyped DEF Limit, processVars
  <2> QED
    BY <1>2, <1>3, <2>1 DEF Limit
<1>4. ASSUME NEW r \in Reqs, OutsidePrefix(r) PROVE Timely'
  BY <1>2, <1>4 DEF OutsidePrefix, limiterVars, processVars
<1>5. ASSUME NEW r \in Reqs, pc[r] \in {"entering", "delaying"},
             NEW next \in {"delaying", "handling"}, pc' = [pc EXCEPT ![r] = next],
             NEW t \in now .. MaxTime + Longest, due' = [due EXCEPT ![r] = t],
             UNCHANGED <<now, began, processVars>>
      PROVE  Timely'
  BY <1>0, <1>5 DEF Timely, InFlight, processVars
<1>6. ASSUME NEW r \in Reqs, Enter(r) PROVE Timely'
  <2>1. pc[r] = "entering" /\ UNCHANGED <<now, began, processVars>>
    BY <1>6 DEF Enter, limiterVars, processVars
  <2>2. CASE Admitted(r)
    BY <1>2, <1>5, <2>1, <2>2, AdmittedTimer
  <2>3. CASE Reply(r, 503, "observing")
    BY <1>2, <2>1, <2>3 DEF Reply
  <2> QED
    BY <1>6, <2>2, <2>3 DEF Enter
<1>7. ASSUME NEW r \in Reqs, DelayOver(r) PROVE Timely'
  <2>1. pc[r] = "delaying" /\ UNCHANGED <<now, began, processVars>>
    BY <1>7 DEF DelayOver, limiterVars, processVars
  <2> QED
    BY <1>5, <1>7, <2>1, HandlerTimer DEF DelayOver
<1>8. ASSUME NEW r \in Reqs, DelayCancelled(r) \/ Finish(r) \/ FinishCancelled(r)
      PROVE  Timely'
  <2>1. /\ pc[r] \in {"delaying", "handling"} /\ pc' = [pc EXCEPT ![r] = "leaving"]
        /\ UNCHANGED <<now, began, due, processVars>>
    BY <1>8 DEF DelayCancelled, Finish, FinishCancelled, Reply, limiterVars, processVars
  <2> QED
    BY <1>0, <2>1 DEF Timely, InFlight, processVars
<1>9. ASSUME NEW r \in Reqs, Forget(r), UNCHANGED <<now, processVars>> PROVE Timely'
  <2>1. /\ pc' = [pc EXCEPT ![r] = "done"] /\ began' = [began EXCEPT ![r] = 0]
        /\ due' = [due EXCEPT ![r] = 0]
    BY <1>9 DEF Forget
  <2> QED
    BY <1>0, <1>9, <2>1 DEF Timely, InFlight, processVars
<1>10. ASSUME NEW r \in Reqs, Leave(r) PROVE Timely'
  <2>1. pc[r] = "leaving" /\ Unwind(r) /\ UNCHANGED <<now, processVars>>
    BY <1>10 DEF Leave, limiterVars, processVars
  <2>2. CASE r \in panicked
    BY <1>9, <2>1, <2>2 DEF Unwind
  <2>3. CASE r \notin panicked
    <3>1. pc' = [pc EXCEPT ![r] = "observing"] /\ UNCHANGED <<began, due>>
      BY <2>1, <2>3 DEF Unwind
    <3> QED
      BY <1>0, <2>1, <3>1 DEF Timely, InFlight, processVars
  <2> QED
    BY <2>2, <2>3
<1>11. ASSUME NEW r \in Reqs, Observe(r) PROVE Timely'
  BY <1>9, <1>11 DEF Observe, limiterVars, processVars
<1>12. ASSUME NEW r \in Reqs, Disconnect(r) PROVE Timely'
  BY <1>12 DEF Disconnect, limiterVars, processVars, Timely, InFlight
<1>13. ASSUME Signal PROVE Timely'
  <2>1. /\ deadline' = now + MaxDuration + 1 /\ stopper = "idle" /\ stopper' = "signalled"
        /\ UNCHANGED <<now, pc, began, due, phase, doneCh>>
    BY <1>13 DEF Signal, limiterVars, requestVars
  <2> QED
    BY <1>0, <2>1 DEF Timely, InFlight, processVars
<1>14. ASSUME \/ CloseListeners \/ Drained \/ DrainTimeout
              \/ ListenError \/ ListenReturns \/ Return
       PROVE  Timely'
  <2>1. /\ UNCHANGED <<now, pc, began, due, deadline>>
        /\ stopper' # "idle" => stopper # "idle"
        /\ stopper' = "signalled" => stopper = "signalled"
    BY <1>14
    DEF CloseListeners, Drained, DrainTimeout, ListenError, ListenReturns, Return,
        limiterVars, requestVars
  <2>2. doneCh' = "expired" \/ phase' = "exit1" => stopper' = "returned" /\ deadline <= now
    <3>1. CASE DrainTimeout
      BY <1>0, <3>1 DEF DrainTimeout
    <3>2. CASE CloseListeners \/ Drained \/ ListenError \/ ListenReturns \/ Return
      BY <3>2 DEF Timely, CloseListeners, Drained, ListenError, ListenReturns, Return, TypeOK
    <3> QED
      BY <1>14, <3>1, <3>2
  <2> QED
    BY <2>1, <2>2 DEF Timely, InFlight, processVars
<1>15. ASSUME Tick PROVE Timely'
  <2>1. now' = now + 1 /\ UNCHANGED <<pc, began, due, processVars>>
    BY <1>15, CreditTyped DEF Tick, requestVars, processVars
  <2>2. \A r \in Reqs : /\ pc[r] \notin {"limiting", "entering", "leaving", "observing"}
                        /\ pc[r] \in {"delaying", "handling"} => ~(now >= due[r])
    BY <1>15 DEF Tick, Urgent
  <2>3. stopper # "signalled"
    BY <1>15 DEF Tick, Urgent
  <2> QED
    BY <1>0, <2>1, <2>2, <2>3 DEF Timely, InFlight, processVars
<1>16. CASE Exited \/ UNCHANGED vars
  <2>1. UNCHANGED <<now, pc, began, due, processVars>>
    BY <1>16 DEF Exited, vars, limiterVars, requestVars, processVars
  <2> QED
    BY <2>1 DEF Timely, InFlight, processVars
<1> QED
  BY <1>1, <1>3, <1>4, <1>6, <1>7, <1>8, <1>10, <1>11, <1>12, <1>13, <1>14, <1>15, <1>16
  DEF Next, Step

(* Shutdown never gives up on a request that is through within MaxDuration of  *)
(* its arrival, whenever the signal comes and however long other requests take.*)
THEOREM GraceSuffices == Spec => []GivesUpOnlyOnLong
<1>1. Init => Timely
  BY DEF Init, Timely, InFlight
<1>2. TypeOK /\ Timely => GivesUpOnlyOnLong
  <2> SUFFICES ASSUME TypeOK, Timely, NEW r \in Reqs, stopper # "idle",
                      Active(r), due[r] <= began[r] + MaxDuration
               PROVE  now < deadline /\ doneCh # "expired" /\ phase # "exit1"
    BY DEF GivesUpOnlyOnLong
  <2>1. /\ now \in Nat /\ deadline \in Nat /\ MaxDuration \in Nat
        /\ began[r] \in Nat /\ due[r] \in Nat
    BY ServerAssumption, LongestType DEF TypeOK
  <2>2. InFlight(r) /\ pc[r] \in {"limiting", "entering", "delaying", "handling",
                                  "leaving", "observing"}
    BY DEF Active, InFlight, TypeOK
  <2>3. now <= began[r] + MaxDuration
    BY <2>1, <2>2 DEF Timely
  <2>4. now < deadline
    BY <2>1, <2>2, <2>3 DEF Timely
  <2> QED
    BY <2>1, <2>4 DEF Timely
<1> QED
  BY <1>1, <1>2, TypeCorrect, StepTimely, PTL DEF Spec
=============================================================================
