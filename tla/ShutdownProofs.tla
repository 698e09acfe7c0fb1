----------------------------- MODULE ShutdownProofs -----------------------------
(* For any number of sweeps or requests: which queries may meet a closed pool.   *)
EXTENDS Shutdown, TLAPS

\* The teardown runs the waiting step first and the pool second, in both processes.
LEMMA StepOrder ==
  ASSUME role \in {"worker", "api"}
  PROVE  /\ role = "worker" =>
              Len(Steps) = 2 /\ Steps[1] = "scheduler" /\ Steps[2] = "pool"
         /\ role = "api" =>
              Len(Steps) = 3 /\ Steps[1] = "http" /\ Steps[2] = "pool" /\ Steps[3] = "redis"
BY DEF Steps

-------------------------------------------------------------------------------
\* The scheduler's map holds the one run there is, and stop() has seen it.
Tracked ==
  role = "worker" =>
    /\ up
    /\ \A s \in Slots : work[s] # "none" => inFlight = s
    /\ step >= 1 => ~timer
    /\ step = 1 /\ inFlight # None => awaited = inFlight

\* The pool is open until the second step begins.
Ordered ==
  /\ role = "api" => ~timer
  /\ step <= 1 => pool = "open"

\* By then no sweep is in progress, and no request with its client still there unless
\* the first step failed.
Drained ==
  step >= 2 =>
    \A s \in Slots : work[s] # "none" =>
      role = "api" /\ (s \in left \/ "http" \in failed)

IInv == TypeOK /\ Tracked /\ Ordered /\ Drained /\ NothingTornOut

LEMMA InitIInv == Init => IInv
<1> SUFFICES ASSUME Init PROVE IInv
  OBVIOUS
<1>1. step = 0 /\ Len(Steps) \in {2, 3}
  BY StepOrder DEF Init
<1>2. step \in 0 .. Len(Steps)
  BY <1>1
<1>3. up \in BOOLEAN /\ timer \in BOOLEAN /\ (role = "worker" => up) /\ (role = "api" => ~timer)
  BY DEF Init
<1>4. work = [s \in Slots |-> "none"] /\ inFlight = None /\ awaited = None
  BY DEF Init
<1>5. \A s \in Slots : work[s] = "none"
  BY <1>4
<1>6. TypeOK
  <2>1. work \in [Slots -> {"none", "first", "between", "second"}]
    BY <1>4
  <2>2. code \in {-1, 0, 1}
    BY DEF Init
  <2>3. QED BY <1>2, <1>3, <1>4, <2>1, <2>2 DEF Init, TypeOK
<1>7. Tracked
  BY <1>1, <1>3, <1>5 DEF Tracked
<1>8. Ordered /\ Drained
  BY <1>1, <1>3 DEF Init, Ordered, Drained
<1>9. NothingTornOut
  BY DEF Init, NothingTornOut
<1>10. QED BY <1>6, <1>7, <1>8, <1>9 DEF IInv

\* When the first step has ended, what is still in progress is an orphan, or a request
\* that a failed close() did not wait for.
LEMMA FirstStepDrains ==
  ASSUME IInv, NEW ok \in BOOLEAN, StepEnds(ok), step = 1, NEW s \in Slots, work[s] # "none"
  PROVE  role = "api" /\ (s \in left \/ "http" \in failed')
<1>1. CASE role = "worker"
  <2>1. awaited # None => work[awaited] = "none"
    BY <1>1, StepOrder DEF StepEnds, Settled
  <2>2. inFlight = s /\ awaited = s
    BY <1>1, ShutdownAssumption DEF IInv, Tracked
  <2>3. QED BY <2>1, <2>2, ShutdownAssumption
<1>2. CASE role = "api"
  <2>1. Steps[1] = "http" BY <1>2, StepOrder
  <2>2. CASE ok BY <1>2, <2>1, <2>2 DEF StepEnds, Settled
  <2>3. CASE ~ok BY <1>2, <2>1, <2>3 DEF StepEnds
  <2>4. QED BY <2>2, <2>3
<1>3. QED BY <1>1, <1>2 DEF IInv, TypeOK

LEMMA NextIInv == IInv /\ [Next]_vars => IInv'
<1> SUFFICES ASSUME IInv, [Next]_vars PROVE IInv'
  OBVIOUS
<1> USE ShutdownAssumption
<1>0. /\ step \in Int /\ step >= 0
      /\ role \in {"worker", "api"}
      /\ role = "worker" =>
           Len(Steps) = 2 /\ Steps[1] = "scheduler" /\ Steps[2] = "pool" /\ step <= 2
      /\ role = "api" =>
           /\ Len(Steps) = 3 /\ Steps[1] = "http" /\ Steps[2] = "pool" /\ Steps[3] = "redis"
           /\ step <= 3
  <2>1. role \in {"worker", "api"} /\ step \in 0 .. Len(Steps) BY DEF IInv, TypeOK
  <2>2. Len(Steps) \in {2, 3} BY <2>1, StepOrder
  <2>3. step \in Int /\ step >= 0 /\ step <= Len(Steps) BY <2>1, <2>2
  <2>4. QED BY <2>1, <2>3, StepOrder
<1>1. CASE Listen
  <2>1. role' = role /\ Steps' = Steps BY <1>1 DEF Listen, Steps
  <2>2. QED BY <1>1, <2>1 DEF Listen, IInv, TypeOK, Tracked, Ordered, Drained, NothingTornOut
<1>2. CASE ListenFails
  <2>1. role' = role /\ Steps' = Steps BY <1>2 DEF ListenFails, Steps
  <2>2. QED BY <1>2, <2>1 DEF ListenFails, IInv, TypeOK, Tracked, Ordered, Drained, NothingTornOut
<1>3. CASE Deadline
  <2>1. role' = role /\ Steps' = Steps BY <1>3 DEF Deadline, Steps
  <2>2. QED BY <1>3, <2>1 DEF Deadline, IInv, TypeOK, Tracked, Ordered, Drained, NothingTornOut
<1>4. ASSUME NEW s \in Slots, Tick(s) PROVE IInv'
  <2>1. role' = role /\ Steps' = Steps BY <1>4 DEF Tick, Steps
  <2>2. role = "worker" /\ step = 0 /\ pool = "open"
    BY <1>0, <1>4 DEF Tick, IInv, Tracked, Ordered
  <2>3. inFlight = None /\ \A r \in Slots : work[r] = "none"
    BY <1>4, <2>2 DEF Tick, Skips, IInv, Tracked
  <2>4. work' = [work EXCEPT ![s] = "first"] /\ torn' = torn /\ left' = left
    BY <1>4, <2>2 DEF Tick, Issue, IInv, TypeOK
  <2>5. \A r \in Slots : work'[r] # "none" => r = s
    BY <2>3, <2>4 DEF IInv, TypeOK
  <2>6. QED
    BY <1>4, <2>1, <2>2, <2>4, <2>5
       DEF Tick, IInv, TypeOK, Tracked, Ordered, Drained, NothingTornOut
<1>5. ASSUME NEW s \in Slots, Request(s) PROVE IInv'
  <2>1. role' = role /\ Steps' = Steps /\ role = "api" BY <1>5 DEF Request, Steps
  <2>2. step = 0 /\ pool = "open"
    <3>1. step < 1 BY <1>0, <1>5, <2>1 DEF Request, Stopping
    <3>2. QED BY <1>0, <3>1 DEF IInv, Ordered
  <2>3. work' = [work EXCEPT ![s] = "first"] /\ torn' = torn /\ left' = left
    BY <1>5, <2>2 DEF Request, Issue, IInv, TypeOK
  <2>4. QED BY <1>5, <2>1, <2>2, <2>3
          DEF Request, IInv, TypeOK, Tracked, Ordered, Drained, NothingTornOut
<1>6. ASSUME NEW s \in Slots, SecondQuery(s) PROVE IInv'
  <2>1. role' = role /\ Steps' = Steps BY <1>6 DEF SecondQuery, Steps
  <2>2. CASE pool = "open"
    <3>1. /\ work' = [work EXCEPT ![s] = "second"] /\ torn' = torn /\ left' = left
          /\ inFlight' = inFlight
      BY <1>6, <2>2 DEF SecondQuery, Issue, IInv, TypeOK
    <3>2. \A r \in Slots : work'[r] # "none" <=> work[r] # "none"
      BY <1>6, <3>1 DEF SecondQuery, IInv, TypeOK
    <3>3. QED BY <1>0, <1>6, <2>1, <2>2, <3>1, <3>2
            DEF SecondQuery, IInv, TypeOK, Tracked, Ordered, Drained, NothingTornOut
  <2>3. CASE pool # "open"
    <3>1. /\ work' = [work EXCEPT ![s] = "none"] /\ left' = left \ {s}
          /\ torn' = torn \cup {Asker(s)} /\ work[s] # "none"
      BY <1>6, <2>3 DEF SecondQuery, Issue
    <3>2. inFlight' = None
      BY <1>6, <3>1 DEF SecondQuery, IInv, TypeOK
    <3>3. step >= 2 /\ role = "api" /\ (s \in left \/ "http" \in failed)
      BY <1>0, <2>3, <3>1 DEF IInv, Ordered, Drained
    <3>4. Asker(s) \in {"request", "orphan"} /\ (Asker(s) = "request" => "http" \in failed)
      BY <3>3 DEF Asker
    <3>5. \A r \in Slots : work'[r] # "none" => work[r] # "none" /\ r # s
      BY <3>1 DEF IInv, TypeOK
    <3>6. \A r \in Slots : r # s => work'[r] = work[r]
      BY <3>1 DEF IInv, TypeOK
    <3>7. TypeOK'
      BY <1>6, <2>1, <3>1, <3>2, <3>4, <3>6 DEF SecondQuery, IInv, TypeOK
    <3>8. Tracked' /\ Ordered' /\ Drained'
      BY <1>6, <2>1, <3>1, <3>3, <3>5 DEF SecondQuery, IInv, Tracked, Ordered, Drained
    <3>9. NothingTornOut'
      BY <1>6, <3>1, <3>4 DEF SecondQuery, IInv, NothingTornOut
    <3>10. QED BY <3>7, <3>8, <3>9 DEF IInv
  <2>4. QED BY <2>2, <2>3
<1>7. ASSUME NEW s \in Slots, Ends(s) PROVE IInv'
  <2>1. role' = role /\ Steps' = Steps BY <1>7 DEF Ends, Steps
  <2>2. \A r \in Slots : work'[r] # "none" => work[r] # "none" /\ r # s
    BY <1>7 DEF Ends, IInv, TypeOK
  <2>3. role = "worker" => \A r \in Slots : work'[r] = "none"
    BY <1>7, <2>2 DEF Ends, IInv, Tracked
  <2>4. \A r \in Slots : r # s => work'[r] = work[r]
    BY <1>7 DEF Ends, IInv, TypeOK
  <2>5. QED BY <1>7, <2>1, <2>2, <2>3, <2>4
          DEF Ends, IInv, TypeOK, Tracked, Ordered, Drained, NothingTornOut
<1>8. ASSUME NEW s \in Slots, Disconnect(s) PROVE IInv'
  <2>1. role' = role /\ Steps' = Steps BY <1>8 DEF Disconnect, Steps
  <2>2. QED BY <1>8, <2>1
          DEF Disconnect, IInv, TypeOK, Tracked, Ordered, Drained, NothingTornOut
<1>9. ASSUME NEW s \in Slots, FirstAnswered(s) PROVE IInv'
  <2>1. role' = role /\ Steps' = Steps BY <1>9 DEF FirstAnswered, Steps
  <2>2. \A r \in Slots : work'[r] # "none" <=> work[r] # "none"
    BY <1>9 DEF FirstAnswered, IInv, TypeOK
  <2>3. QED BY <1>9, <2>1, <2>2
          DEF FirstAnswered, IInv, TypeOK, Tracked, Ordered, Drained, NothingTornOut
<1>10. CASE Signal
  <2>1. role' = role /\ Steps' = Steps BY <1>10 DEF Signal, Steps
  <2>2. step = 0 /\ step' = 1 /\ pool' = pool /\ pool = "open"
    BY <1>0, <1>10 DEF Signal, Begin, IInv, Ordered
  <2>3. /\ timer' = IF role = "worker" THEN FALSE ELSE timer
        /\ awaited' = IF role = "worker" THEN inFlight ELSE awaited
    BY <1>0, <1>10 DEF Signal, Begin
  <2>4. step' \in 0 .. Len(Steps) BY <1>0, <2>2
  <2>5. timer' \in BOOLEAN /\ awaited' \in Slots \cup {None}
    BY <2>3 DEF IInv, TypeOK
  <2>6. TypeOK' BY <1>10, <2>1, <2>2, <2>4, <2>5 DEF Signal, Armed, IInv, TypeOK
  <2>7. Tracked' BY <1>10, <2>1, <2>2, <2>3 DEF Signal, IInv, Tracked
  <2>8. Ordered' /\ Drained' BY <2>1, <2>2, <2>3 DEF IInv, Ordered, Drained
  <2>9. torn' = torn /\ failed' = failed BY <1>10 DEF Signal
  <2>10. QED BY <2>6, <2>7, <2>8, <2>9 DEF IInv, NothingTornOut
<1>11. ASSUME NEW ok \in BOOLEAN, StepEnds(ok) PROVE IInv'
  <2>1. /\ role' = role /\ Steps' = Steps /\ work' = work /\ inFlight' = inFlight
        /\ torn' = torn /\ left' = left /\ up' = up
    BY <1>11 DEF StepEnds, Steps
  <2>2. failed \subseteq failed' /\ failed' \subseteq {"http", "pool", "redis"}
    <3>1. step \in {1, 2, 3} /\ (role = "worker" => step \in {1, 2})
      BY <1>0, <1>11 DEF StepEnds
    <3>2. Steps[step] \in {"scheduler", "http", "pool", "redis"}
      BY <1>0, <3>1
    <3>3. failed \subseteq {"http", "pool", "redis"} BY DEF IInv, TypeOK
    <3>4. QED BY <1>11, <3>2, <3>3 DEF StepEnds
  <2>3. \A s \in Slots : work[s] # "none" =>
          role = "api" /\ (s \in left \/ "http" \in failed')
    <3>1. CASE step = 1 BY <1>11, <3>1, FirstStepDrains
    <3>2. CASE step >= 2 BY <2>2, <3>2 DEF IInv, Drained
    <3>3. QED BY <1>0, <1>11, <3>1, <3>2 DEF StepEnds
  <2>4. Drained' BY <2>1, <2>3 DEF Drained
  <2>5. NothingTornOut' BY <2>1, <2>2 DEF IInv, NothingTornOut
  <2>6. CASE step < Len(Steps)
    <3>1. step' = step + 1 /\ step' >= 2 /\ deadline' = deadline /\ code' = code
      BY <1>0, <1>11, <2>6 DEF StepEnds, Begin
    <3>2. timer' \in BOOLEAN /\ (timer' => timer)
      BY <1>0, <1>11, <2>6 DEF StepEnds, Begin, IInv, TypeOK
    <3>3. awaited' \in Slots \cup {None} /\ pool' \in {"open", "ending"}
      BY <1>0, <1>11, <2>6 DEF StepEnds, Begin, IInv, TypeOK
    <3>4. step' \in 0 .. Len(Steps)
      BY <1>0, <2>6, <3>1
    <3>5. TypeOK' BY <2>1, <2>2, <3>1, <3>2, <3>3, <3>4 DEF IInv, TypeOK
    <3>6. Tracked' BY <1>0, <1>11, <2>1, <2>3, <3>1, <3>2 DEF IInv, Tracked, StepEnds
    <3>7. Ordered' BY <1>0, <2>1, <3>1, <3>2 DEF IInv, Ordered
    <3>8. QED BY <2>4, <2>5, <3>5, <3>6, <3>7 DEF IInv
  <2>7. CASE ~(step < Len(Steps))
    <3>1. /\ step' = step /\ timer' = timer /\ awaited' = awaited /\ pool' = pool
          /\ deadline' = FALSE /\ code' \in {0, 1}
      BY <1>11, <2>7 DEF StepEnds
    <3>2. TypeOK' BY <2>1, <2>2, <3>1 DEF IInv, TypeOK
    <3>3. Tracked' /\ Ordered' BY <2>1, <3>1 DEF IInv, Tracked, Ordered
    <3>4. QED BY <2>4, <2>5, <3>2, <3>3 DEF IInv
  <2>8. QED BY <2>6, <2>7
<1>12. CASE UNCHANGED vars
  <2>1. Steps' = Steps BY <1>12 DEF vars, Steps
  <2>2. QED BY <1>12, <2>1 DEF vars, IInv, TypeOK, Tracked, Ordered, Drained, NothingTornOut
<1>13. QED
  BY <1>1, <1>2, <1>3, <1>4, <1>5, <1>6, <1>7, <1>8, <1>9, <1>10,
     <1>11, <1>12 DEF Next

-------------------------------------------------------------------------------
\* The process's state is always of its type (scheduler.ts, shutdown.ts).
THEOREM ShutdownTypeCorrect == Spec => []TypeOK
<1>1. IInv => TypeOK BY DEF IInv
<1>2. QED BY <1>1, InitIInv, NextIInv, PTL DEF Spec

\* Whatever the number of runs and requests and whenever the signal, the pool is closed
\* under no sweep, and under no request whose client still waits unless the step that
\* drains them failed (scheduler.ts:85-93, shutdown.ts:69-80).
THEOREM PoolOutlivesWork == Spec => []NothingTornOut
<1>1. IInv => NothingTornOut BY DEF IInv
<1>2. QED BY <1>1, InitIInv, NextIInv, PTL DEF Spec
=================================================================================
