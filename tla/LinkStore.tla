------------------------------- MODULE LinkStore -------------------------------
(* The server side of a link: the links and link_ciphertexts tables of the     *)
(* production (Postgres) store, the API handlers that are suspended between    *)
(* their statements, the expiry worker's three-statement sweep, and the        *)
(* operator's purge.  One action per statement or transaction: everything      *)
(* else may run between two of them.                                           *)
EXTENDS Integers, FiniteSets

CONSTANTS
  Ids,            \* link ids a client can name
  Creates,        \* POST /messages requests; each names its ciphertext and its token
  Opens,          \* POST /messages/:id/open requests
  Workers,        \* processes running the expiry sweep
  Budgets,        \* the maxOpens values clients choose (-1: unlimited)
  LegacyBudget,   \* max_opens of the rows written before tokens existed
  MaxLifetime,    \* the retention ceiling on expiresAt - now
  Retention,      \* how long a terminal row is kept
  MaxTime,        \* bound on the clock
  None            \* "no link", "no ciphertext", "no token"

\* A link's identity: the create request that made its row or, for a legacy
\* row (NULL token hash), the id itself.
Gens == Creates \cup Ids

Unlimited == -1
NullTime == -1

ASSUME StoreAssumption ==
  /\ None \notin Gens
  /\ Creates \cap Ids = {}
  /\ IsFiniteSet(Opens)
  /\ Budgets \subseteq (Nat \ {0}) \cup {Unlimited}
  /\ LegacyBudget \in Budgets
  /\ MaxLifetime \in Nat \ {0}
  /\ Retention \in Nat
  /\ MaxTime \in Nat

VARIABLES
  now,      \* the clock of database, API and worker
  rows,     \* the links table
  blobs,    \* the link_ciphertexts table
  creates,  \* create handlers: where each is suspended, and its body
  opens,    \* open handlers: where each is suspended, and what it holds
  sweep,    \* the statement each worker's sweep has finished last
  purged    \* links the purge command reported as purged while active

vars == <<now, rows, blobs, creates, opens, sweep, purged>>

-------------------------------------------------------------------------------
Terminal == {"revoked", "expired"}

Row == [gen : Gens \cup {None}, status : {"absent", "active", "revoked", "expired"},
        expiresAt : Int, maxOpens : Int, opens : Nat, terminalAt : Int]

Absent == [gen |-> None, status |-> "absent", expiresAt |-> NullTime,
           maxOpens |-> Unlimited, opens |-> 0, terminalAt |-> NullTime]

NewRow(g, e, m) == [gen |-> g, status |-> "active", expiresAt |-> e,
                    maxOpens |-> m, opens |-> 0, terminalAt |-> NullTime]

\* "refused": 409, 500 or no answer, and no row; "orphaned": a row but no answer.
CreateReq == [pc : {"idle", "checked", "stored", "created", "refused", "orphaned"},
              id : Ids \cup {None}, expiresAt : Int, maxOpens : Int]

NoCreate(pc) == [pc |-> pc, id |-> None, expiresAt |-> NullTime, maxOpens |-> Unlimited]

\* "gone": 410 or no answer.  won: the link whose open the request consumed.
OpenReq == [pc : {"idle", "read", "won", "delivered", "gone"},
            id : Ids \cup {None}, blob : Gens \cup {None}, won : Gens \cup {None}]

NoOpen(pc, g) == [pc |-> pc, id |-> None, blob |-> None, won |-> g]

\* rows whose revocation_token_hash is not NULL
Tokened(i) == rows[i].gen \in Creates

\* expires_at <= now()
PastDue(i) == rows[i].expiresAt <= now

\* The opens that consumed link g, answered or not.
Winners(g) == {o \in Opens : opens[o].won = g}

\* The row was inserted, whether or not the client learned of it.
Stored(c) == creates[c].pc \in {"stored", "created", "orphaned"}

-------------------------------------------------------------------------------
\* Any set of ids may carry a live row from before the token migration.
Init ==
  /\ now = 0
  /\ \E L \in SUBSET Ids : \E e \in [L -> 1..MaxLifetime] :
       /\ rows = [i \in Ids |-> IF i \in L THEN NewRow(i, e[i], LegacyBudget) ELSE Absent]
       /\ blobs = [i \in Ids |-> IF i \in L THEN i ELSE None]
  /\ creates = [c \in Creates |-> NoCreate("idle")]
  /\ opens = [o \in Opens |-> NoOpen("idle", None)]
  /\ sweep = [w \in Workers |-> "idle"]
  /\ purged = {}

Tick ==
  /\ now < MaxTime
  /\ now' = now + 1
  /\ UNCHANGED <<rows, blobs, creates, opens, sweep, purged>>

-------------------------------------------------------------------------------
\* The create handler up to its existence check: 409 if the id has a row.
CreateCheck(c, i, e, m) ==
  /\ creates[c].pc = "idle"
  /\ e > now
  /\ e - now <= MaxLifetime
  /\ creates' = [creates EXCEPT ![c] =
       IF rows[i].status = "absent"
       THEN [pc |-> "checked", id |-> i, expiresAt |-> e, maxOpens |-> m]
       ELSE NoCreate("refused")]
  /\ UNCHANGED <<now, rows, blobs, opens, sweep, purged>>

\* Both tables have the id as primary key.
KeyFreeAlways(i) == TRUE    \* mutant: INSERT becomes an upsert
KeyFree(i) == rows[i].status = "absent"

\* createWithCiphertext: both INSERTs commit, or a duplicate key rolls back (500).
CreateInsert(c) ==
  LET r == creates[c] IN
  /\ r.pc = "checked"
  /\ IF KeyFree(r.id)
     THEN /\ rows' = [rows EXCEPT ![r.id] = NewRow(c, r.expiresAt, r.maxOpens)]
          /\ blobs' = [blobs EXCEPT ![r.id] = c]
          /\ creates' = [creates EXCEPT ![c].pc = "stored"]
     ELSE /\ creates' = [creates EXCEPT ![c] = NoCreate("refused")]
          /\ UNCHANGED <<rows, blobs>>
  /\ UNCHANGED <<now, opens, sweep, purged>>

\* The only 201 that ever carries the link's revocation token.
CreateRespond(c) ==
  /\ creates[c].pc = "stored"
  /\ creates' = [creates EXCEPT ![c].pc = "created"]
  /\ UNCHANGED <<now, rows, blobs, opens, sweep, purged>>

\* The API process dies, a statement throws, or the connection drops, before or
\* after the commit.
LoseCreate(c) ==
  /\ creates[c].pc \in {"checked", "stored"}
  /\ creates' = [creates EXCEPT ![c] = IF @.pc = "checked" THEN NoCreate("refused")
                                        ELSE [@ EXCEPT !.pc = "orphaned"]]
  /\ UNCHANGED <<now, rows, blobs, opens, sweep, purged>>

-------------------------------------------------------------------------------
\* The open handler reads the ciphertext before it consumes the open ...
OpenReadBlob(o, i) ==
  /\ opens[o].pc = "idle"
  /\ opens' = [opens EXCEPT ![o] = [pc |-> "read", id |-> i, blob |-> blobs[i], won |-> None]]
  /\ UNCHANGED <<now, rows, blobs, creates, sweep, purged>>

\* incrementOpens, one statement: its WHERE clause ...
OpenableByStatus(i) == rows[i].status = "active"    \* mutant: no expires_at > now()
Openable(i) == rows[i].status = "active" /\ ~PastDue(i)

\* ... and its SET clause, on row r at time t.
Closed(r, t, last, n) ==
  [r EXCEPT !.opens = n,
            !.status = IF last THEN "expired" ELSE @,
            !.terminalAt = IF last THEN t ELSE @]

\* mutants: counting down; the cap compared one too late; the last open not counted
ConsumedDown(r, t) ==
  Closed(r, t, r.maxOpens # Unlimited /\ r.opens + 1 >= r.maxOpens, r.opens - 1)
ConsumedLate(r, t) ==
  Closed(r, t, r.maxOpens # Unlimited /\ r.opens + 1 > r.maxOpens, r.opens + 1)
ConsumedLastFree(r, t) ==
  LET last == r.maxOpens # Unlimited /\ r.opens + 1 >= r.maxOpens
  IN  Closed(r, t, last, IF last THEN r.opens ELSE r.opens + 1)
Consumed(r, t) ==
  Closed(r, t, r.maxOpens # Unlimited /\ r.opens + 1 >= r.maxOpens, r.opens + 1)

\* ... then consumes one; the last one allowed also deletes the ciphertext.
OpenIncrement(o) ==
  LET i == opens[o].id IN
  /\ opens[o].pc = "read"
  /\ IF Openable(i)
     THEN /\ rows' = [rows EXCEPT ![i] = Consumed(@, now)]
          /\ blobs' = [blobs EXCEPT ![i] =
                        IF Consumed(rows[i], now).status = "expired" THEN None ELSE @]
          /\ opens' = [opens EXCEPT ![o].pc = "won", ![o].won = rows[i].gen]
     ELSE /\ opens' = [opens EXCEPT ![o] = NoOpen("gone", None)]
          /\ UNCHANGED <<rows, blobs>>
  /\ UNCHANGED <<now, creates, sweep, purged>>

\* 200 with the ciphertext read earlier, or 410 when there was none.
OpenRespond(o) ==
  /\ opens[o].pc = "won"
  /\ opens' = [opens EXCEPT ![o] = IF @.blob = None THEN NoOpen("gone", @.won)
                                    ELSE [@ EXCEPT !.pc = "delivered"]]
  /\ UNCHANGED <<now, rows, blobs, creates, sweep, purged>>

LoseOpen(o) ==
  /\ opens[o].pc \in {"read", "won"}
  /\ opens' = [opens EXCEPT ![o] = NoOpen("gone", @.won)]
  /\ UNCHANGED <<now, rows, blobs, creates, sweep, purged>>

-------------------------------------------------------------------------------
\* mutants: the ciphertext left to the sweep; terminal_at not stamped
WithdrawKeepingBlob(i) ==
  /\ rows' = [rows EXCEPT ![i].status = "revoked", ![i].terminalAt = now]
  /\ UNCHANGED blobs
WithdrawUnstamped(i) ==
  /\ rows' = [rows EXCEPT ![i].status = "revoked"]
  /\ blobs' = [blobs EXCEPT ![i] = None]

\* A row leaves "active" as revoked and its ciphertext goes in the same transaction.
Withdraw(i) ==
  /\ rows' = [rows EXCEPT ![i].status = "revoked", ![i].terminalAt = now]
  /\ blobs' = [blobs EXCEPT ![i] = None]

\* The tokens a client may present: none (or a made-up one), or any it was told.
Tokens == {None} \cup {c \in Creates : creates[c].pc = "created"}

\* A tokened row needs its own token, a legacy row needs none.
AuthorizedUntokened(i, t) ==    \* mutant: no token passes as for a legacy row
  Tokened(i) => t \in {None, rows[i].gen}
Authorized(i, t) == Tokened(i) => t = rows[i].gen

Revoke(i, t) ==
  /\ rows[i].status = "active"
  /\ Authorized(i, t)
  /\ Withdraw(i)
  /\ UNCHANGED <<now, creates, opens, sweep, purged>>

\* adminPurge: no token; an already terminal row only loses a leftover ciphertext.
AdminPurge(i) ==
  /\ rows[i].status # "absent"
  /\ IF rows[i].status = "active"
     THEN /\ Withdraw(i)
          /\ purged' = purged \cup {rows[i].gen}
     ELSE /\ blobs' = [blobs EXCEPT ![i] = None]
          /\ UNCHANGED <<rows, purged>>
  /\ UNCHANGED <<now, creates, opens, sweep>>

-------------------------------------------------------------------------------
\* expirePastDue is three statements, each its own transaction.  First, past-due
\* rows become terminal:
SweepExpire(w) ==
  /\ sweep[w] = "idle"
  /\ rows' = [i \in Ids |-> IF rows[i].status = "active" /\ PastDue(i)
                            THEN [rows[i] EXCEPT !.status = "expired", !.terminalAt = now]
                            ELSE rows[i]]
  /\ sweep' = [sweep EXCEPT ![w] = "expired"]
  /\ UNCHANGED <<now, blobs, creates, opens, purged>>

\* then the ciphertext of every terminal row goes:
ErasableByTime(i) == PastDue(i)                       \* mutant: not the status
ErasableRevoked(i) == rows[i].status = "revoked"      \* mutant: expired rows missed
Erasable(i) == rows[i].status \in Terminal

SweepErase(w) ==
  /\ sweep[w] = "expired"
  /\ blobs' = [i \in Ids |-> IF Erasable(i) THEN None ELSE blobs[i]]
  /\ sweep' = [sweep EXCEPT ![w] = "erased"]
  /\ UNCHANGED <<now, rows, creates, opens, purged>>

\* and last pruneTerminal(now - retention), whose DELETE cascades to the ciphertexts.
PrunableOnTheDot(i) ==    \* mutant: terminal_at <= before
  rows[i].status \in Terminal /\ rows[i].terminalAt <= now - Retention
Prunable(i) ==
  /\ rows[i].status \in Terminal
  /\ rows[i].terminalAt # NullTime
  /\ rows[i].terminalAt < now - Retention

SweepPrune(w) ==
  /\ sweep[w] = "erased"
  /\ rows' = [i \in Ids |-> IF Prunable(i) THEN Absent ELSE rows[i]]
  /\ blobs' = [i \in Ids |-> IF Prunable(i) THEN None ELSE blobs[i]]
  /\ sweep' = [sweep EXCEPT ![w] = "idle"]
  /\ UNCHANGED <<now, creates, opens, purged>>

\* The worker dies, or a statement throws and the sweep ends there.
SweepAbort(w) ==
  /\ sweep[w] # "idle"
  /\ sweep' = [sweep EXCEPT ![w] = "idle"]
  /\ UNCHANGED <<now, rows, blobs, creates, opens, purged>>

-------------------------------------------------------------------------------
CreateStep(c) ==
  \/ \E i \in Ids, e \in 1..(MaxTime + MaxLifetime), m \in Budgets : CreateCheck(c, i, e, m)
  \/ CreateInsert(c)
  \/ CreateRespond(c)
  \/ LoseCreate(c)

OpenStep(o) ==
  \/ \E i \in Ids : OpenReadBlob(o, i)
  \/ OpenIncrement(o)
  \/ OpenRespond(o)
  \/ LoseOpen(o)

Sweep(w) == SweepExpire(w) \/ SweepErase(w) \/ SweepPrune(w)

Next ==
  \/ Tick
  \/ \E c \in Creates : CreateStep(c)
  \/ \E o \in Opens : OpenStep(o)
  \/ \E i \in Ids : AdminPurge(i) \/ \E t \in Tokens : Revoke(i, t)
  \/ \E w \in Workers : Sweep(w) \/ SweepAbort(w)

Spec == Init /\ [][Next]_vars

\* Time passes; the worker process is restarted, its scheduler fires on start and
\* at every interval, and no statement of the sweep fails for ever.  Clients,
\* handlers and the operator owe nothing.
Fairness ==
  /\ WF_vars(Tick)
  /\ \A w \in Workers : /\ WF_vars(Sweep(w))
                        /\ SF_vars(SweepErase(w))
                        /\ SF_vars(SweepPrune(w))

FairSpec == Spec /\ Fairness

-------------------------------------------------------------------------------
\* Every variable keeps the shape its table or handler gives it.
TypeOK ==
  /\ now \in 0..MaxTime
  /\ rows \in [Ids -> Row]
  /\ blobs \in [Ids -> Gens \cup {None}]
  /\ creates \in [Creates -> CreateReq]
  /\ opens \in [Opens -> OpenReq]
  /\ sweep \in [Workers -> {"idle", "expired", "erased"}]
  /\ purged \subseteq Gens

\* opens_count is the number of opens the link granted, however the concurrent
\* opens, lost answers and sweeps interleaved (incrementOpens).
OpensAccounted ==
  \A i \in Ids : rows[i].status # "absent" =>
                   rows[i].opens = Cardinality(Winners(rows[i].gen))

\* A bounded link is opened at most maxOpens times over its whole history, also
\* after its row is pruned and its id taken again (incrementOpens, the CASE).
WithinBudget ==
  \A c \in Creates : creates[c].maxOpens # Unlimited =>
                       Cardinality(Winners(c)) <= creates[c].maxOpens

\* "This pre-fetched blob is delivered ONLY when THIS request won the atomic open"
\* (messages-handler.ts:278): the ciphertext of a bounded link leaves the server at most
\* maxOpens times, unless its id was pruned and taken again between read and consumption.
Delivered(c) == {o \in Opens : opens[o].pc = "delivered" /\ opens[o].blob = c}
Reused(c) == \E d \in Creates \ {c} : Stored(d) /\ creates[d].id = creates[c].id
CiphertextRationed ==
  \A c \in Creates : creates[c].maxOpens # Unlimited /\ ~Reused(c) =>
                       Cardinality(Delivered(c)) <= creates[c].maxOpens

\* "Never an orphan live-but-empty link" (createWithCiphertext): whoever wins an
\* active link finds its own ciphertext stored, and no ciphertext lacks its row.
NeverLiveButEmpty ==
  \A i \in Ids : /\ rows[i].status = "active" => blobs[i] = rows[i].gen
                 /\ blobs[i] # None => blobs[i] = rows[i].gen

\* The only terminal rows that still hold a ciphertext are those that went
\* terminal by time; the last open, a revocation and a purge leave none behind.
OnlyPastDueAwaitsErasure ==
  \A i \in Ids : rows[i].status \in Terminal /\ blobs[i] # None =>
                   /\ rows[i].status = "expired"
                   /\ PastDue(i)
                   /\ rows[i].opens # rows[i].maxOpens

\* A tokened link is revoked only after its creator was told the token, or by the
\* operator (revoke's authorization check, adminPurge's audit output).
RevokedByRightHolder ==
  \A i \in Ids : rows[i].status = "revoked" /\ Tokened(i) =>
                   \/ creates[rows[i].gen].pc = "created"
                   \/ rows[i].gen \in purged

\* While a row exists it stays the same link with the same expiry and budget, which
\* the sealed message's AAD binds: a duplicate create that passed the stale
\* existence check must not overwrite it.
RowKeepsIdentity ==
  [][\A i \in Ids : rows[i].status # "absent" /\ rows'[i].status # "absent" =>
        /\ rows'[i].gen = rows[i].gen
        /\ rows'[i].expiresAt = rows[i].expiresAt
        /\ rows'[i].maxOpens = rows[i].maxOpens]_vars

\* A terminal row never changes again, and disappears only after the retention
\* window, together with any ciphertext it still had (pruneTerminal, the cascade).
TerminalIsFinal ==
  [][\A i \in Ids : rows[i].status \in Terminal =>
        \/ rows'[i] = rows[i]
        \/ /\ rows'[i].status = "absent"
           /\ blobs'[i] = None
           /\ rows[i].terminalAt + Retention < now]_vars

\* An open that read the ciphertext in time still gains nothing once the link was
\* revoked, exhausted, expired or pruned meanwhile.
NoLateOpen ==
  [][\A g \in Gens : Winners(g)' # Winners(g) =>
        \E i \in Ids : rows[i].gen = g /\ rows[i].status = "active" /\ ~PastDue(i)]_vars

\* A link past its expiry loses its ciphertext, whatever crashes (expirePastDue).
PastDueErased ==
  \A i \in Ids, g \in Gens : blobs[i] = g /\ PastDue(i) ~> blobs[i] # g

\* A terminal row is eventually forgotten (the clock runs to MaxTime).
TerminalForgotten ==
  \A i \in Ids, g \in Gens :
    rows[i].gen = g /\ rows[i].status \in Terminal /\ rows[i].terminalAt + Retention < MaxTime
      ~> rows[i].gen # g

-------------------------------------------------------------------------------
\* What each create request's link looks like to the abstract specification.
Phase(c) ==
  IF ~Stored(c) THEN "unsent"
  ELSE IF \E i \in Ids : rows[i].gen = c /\ rows[i].status = "active" THEN "live"
  ELSE IF \E i \in Ids : blobs[i] = c THEN "closed"
  ELSE "erased"

Promise == INSTANCE LinkPromise WITH
  Links <- Creates,
  Opens <- Opens,
  phase <- [c \in Creates |-> Phase(c)],
  budget <- [c \in Creates |-> IF Stored(c) THEN creates[c].maxOpens ELSE 0],
  used <- [c \in Creates |-> Winners(c)]

\* The store keeps the promise: each statement is a step of LinkPromise or none.
KeepsPromise == Promise!PromiseSpec

-------------------------------------------------------------------------------
\* docs/security-model.md:197-200: the ciphertext is purged the moment a link goes
\* terminal, transactionally with the status flip.
TerminalHasNoCiphertext ==
  \A i \in Ids : rows[i].status \in Terminal => blobs[i] = None
================================================================================
