-------------------------------- MODULE Shutdown --------------------------------
(* A server process from its start to its exit: the worker, with the scheduler   *)
(* that runs the expiry sweep, and the API, with the requests it serves.  On a   *)
(* signal both run the same orchestration: ordered teardown steps under one      *)
(* force-exit deadline.  What a sweep does to the rows is in LinkStore; here it  *)
(* is two queries on the shared pool, as is a request.                           *)
EXTENDS Integers, Sequences

CONSTANTS
  Slots,   \* sweeps or requests that may be in progress at once
  None     \* "no run"

ASSUME ShutdownAssumption == None \notin Slots

VARIABLES
  role,       \* "worker" or "api"; never changes
  up,         \* the API listens; the worker does at once
  timer,      \* the interval of the sweep is set
  work,       \* the query each sweep or request is in
  inFlight,   \* the scheduler's entry for its one job
  step,       \* teardown steps begun; 0 before a signal
  awaited,    \* the run that scheduler.stop waits for
  pool,       \* the pg pool: "open", or "ending" since its end() was called
  deadline,   \* the force-exit timer is armed
  failed,     \* the teardown steps that failed: hadError when there is one
  code,       \* the exit code; -1 while the process lives
  left,       \* requests whose client has hung up while their handler goes on
  torn        \* whose queries an ended pool has refused

vars ==
  <<role, up, timer, work, inFlight, step, awaited, pool, deadline, failed, code, left, torn>>

Alive == code = -1

\* The scheduler waits for its sweep, and the server for its requests, before the
\* pool is closed under them.
Steps == IF role = "worker" THEN <<"scheduler", "pool">> ELSE <<"http", "pool", "redis">>

Stopping(name) == \E k \in 1 .. Len(Steps) : Steps[k] = name /\ k <= step

\* The worker: an interval of 0 disables the job; it may run on start.
Init ==
  /\ role \in {"worker", "api"}
  /\ up = (role = "worker")
  /\ timer \in IF role = "worker" THEN BOOLEAN ELSE {FALSE}
  /\ work = [s \in Slots |-> "none"]
  /\ inFlight = None
  /\ step = 0 /\ awaited = None
  /\ pool = "open"
  /\ deadline = FALSE /\ failed = {}
  /\ code = -1
  /\ left = {} /\ torn = {}

-------------------------------------------------------------------------------
\* Who asks: the sweep, a request with its client still there, or one without.
Asker(s) == IF role = "worker" THEN "sweep" ELSE IF s \in left THEN "orphan" ELSE "request"

\* A query of slot s is issued.  An ended pool refuses it, and the run or handler
\* rejects with it.
Issue(s, query) ==
  IF pool = "open"
  THEN work' = [work EXCEPT ![s] = query] /\ UNCHANGED <<left, torn>>
  ELSE /\ work' = [work EXCEPT ![s] = "none"]
       /\ left' = left \ {s}
       /\ torn' = torn \cup {Asker(s)}

\* execute, on the interval or on start; a run in flight makes it skip.
StacksUp(s) == inFlight # s     \* mutant: a slow run stacks with the next tick
Skips(s) == inFlight = None

Tick(s) ==
  /\ Alive /\ timer
  /\ work[s] = "none" /\ Skips(s)
  /\ inFlight' = s
  /\ Issue(s, "first")
  /\ UNCHANGED <<role, up, timer, step, awaited, pool, deadline, failed, code>>

\* listen: refused once the server closes.
Listen ==
  /\ Alive /\ ~up /\ ~Stopping("http")
  /\ up' = TRUE
  /\ UNCHANGED <<role, timer, work, inFlight, step, awaited, pool, deadline, failed, code>>
  /\ UNCHANGED <<left, torn>>

ListenFails ==
  /\ Alive /\ ~up
  /\ code' = 1
  /\ UNCHANGED <<role, up, timer, work, inFlight, step, awaited, pool, deadline, failed>>
  /\ UNCHANGED <<left, torn>>

\* A route hands a request to its handler, up to the handler's first query.
Request(s) ==
  /\ Alive /\ role = "api" /\ up /\ ~Stopping("http")
  /\ work[s] = "none"
  /\ Issue(s, "first")
  /\ UNCHANGED <<role, up, timer, inFlight, step, awaited, pool, deadline, failed, code>>

\* The client of request s hangs up: nothing cancels its handler.
Disconnect(s) ==
  /\ Alive /\ role = "api" /\ work[s] # "none" /\ s \notin left
  /\ left' = left \cup {s}
  /\ UNCHANGED <<role, up, timer, work, inFlight, step, awaited, pool, deadline, failed, code>>
  /\ UNCHANGED torn

\* The first query is answered, and its client given back to the pool.
FirstAnswered(s) ==
  /\ Alive /\ work[s] = "first"
  /\ work' = [work EXCEPT ![s] = "between"]
  /\ UNCHANGED <<role, up, timer, inFlight, step, awaited, pool, deadline, failed, code>>
  /\ UNCHANGED <<left, torn>>

SecondQuery(s) ==
  /\ Alive /\ work[s] = "between"
  /\ Issue(s, "second")
  /\ inFlight' = IF work'[s] = "none" THEN None ELSE inFlight
  /\ UNCHANGED <<role, up, timer, step, awaited, pool, deadline, failed, code>>

\* The run or handler completes, or a query fails: either way the job's entry is
\* deleted, by name.
Ends(s) ==
  /\ Alive /\ work[s] # "none"
  /\ work' = [work EXCEPT ![s] = "none"]
  /\ inFlight' = None
  /\ left' = left \ {s}
  /\ UNCHANGED <<role, up, timer, step, awaited, pool, deadline, failed, code, torn>>

-------------------------------------------------------------------------------
\* The synchronous part of teardown step k: stop() clears the interval and takes the
\* run in flight; end() refuses queries from now on.
BeginNext(k) == step' = k + 1 /\ UNCHANGED <<timer, awaited, pool>>     \* mutant: off by one
Begin(k) ==
  /\ step' = k
  /\ timer' = IF Steps[k] = "scheduler" THEN FALSE ELSE timer
  /\ awaited' = IF Steps[k] = "scheduler" THEN inFlight ELSE awaited
  /\ pool' = IF Steps[k] = "pool" THEN "ending" ELSE pool

\* The first signal; later ones are ignored.
ArmedLate == deadline' = FALSE     \* mutant: the deadline is armed after the first step
Armed == deadline' = TRUE

Signal ==
  /\ Alive /\ step = 0
  /\ Armed
  /\ Begin(1)
  /\ UNCHANGED <<role, up, work, inFlight, failed, code, left, torn>>

\* What a step that succeeds has waited for: stop(), its run; close(), the connections
\* of the requests; end(), the queries in progress; quit(), Redis alone.
Settled(name) ==
  CASE name = "scheduler" -> awaited # None => work[awaited] = "none"
    [] name = "http" -> \A s \in Slots : work[s] # "none" => s \in left
    [] name = "pool" -> \A s \in Slots : work[s] \in {"none", "between"}
    [] OTHER -> TRUE

\* The step resolves, or rejects whatever is still in progress; the loop goes on to the
\* next in both cases.  The scheduler's stop never rejects: it settles all its runs.
StepEnds(ok) ==
  /\ Alive /\ step # 0
  /\ IF ok THEN Settled(Steps[step]) ELSE Steps[step] # "scheduler"
  /\ failed' = IF ok THEN failed ELSE failed \cup {Steps[step]}
  /\ IF step < Len(Steps)
     THEN /\ Begin(step + 1)
          /\ UNCHANGED <<deadline, code>>
     ELSE /\ deadline' = FALSE
          /\ code' = IF failed' = {} THEN 0 ELSE 1
          /\ UNCHANGED <<step, timer, awaited, pool>>
  /\ UNCHANGED <<role, up, work, inFlight, left, torn>>

Deadline ==
  /\ Alive /\ deadline
  /\ code' = 1
  /\ UNCHANGED <<role, up, timer, work, inFlight, step, awaited, pool, deadline, failed>>
  /\ UNCHANGED <<left, torn>>

Next ==
  \/ Listen \/ ListenFails \/ Signal \/ Deadline
  \/ \E s \in Slots :
       Tick(s) \/ Request(s) \/ Disconnect(s) \/ FirstAnswered(s) \/ SecondQuery(s) \/ Ends(s)
  \/ \E ok \in BOOLEAN : StepEnds(ok)

Spec == Init /\ [][Next]_vars

\* Only the deadline is sure to come: a query may hang for ever.
FairSpec == Spec /\ WF_vars(Deadline)

-------------------------------------------------------------------------------
TypeOK ==
  /\ role \in {"worker", "api"} /\ up \in BOOLEAN /\ timer \in BOOLEAN
  /\ work \in [Slots -> {"none", "first", "between", "second"}]
  /\ inFlight \in Slots \cup {None} /\ awaited \in Slots \cup {None}
  /\ step \in 0 .. Len(Steps)
  /\ pool \in {"open", "ending"}
  /\ deadline \in BOOLEAN
  /\ failed \subseteq {"http", "pool", "redis"}
  /\ left \subseteq {s \in Slots : work[s] # "none"}
  /\ torn \subseteq {"sweep", "request", "orphan"}
  /\ code \in {-1, 0, 1}

\* A redeploy never makes a sweep fail because its pool was closed under it: no run
\* starts after the scheduler's stop has looked at what is in flight, and nothing is in
\* flight that it has not seen (scheduler.ts:85-93).  Nor a request whose client still
\* waits for the answer, unless the step that drains them failed: the loop then goes on
\* to the pool (shutdown.ts:69-80).  A handler whose client has hung up is not waited
\* for by app.close() and may meet the ended pool.
NothingTornOut == "sweep" \notin torn /\ ("request" \in torn => "http" \in failed)

\* After a signal the process exits, also when a sweep, a request or a teardown
\* step hangs (shutdown.ts:63-68).
AlwaysExits == step # 0 ~> code # -1
=================================================================================
