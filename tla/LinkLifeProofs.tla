----------------------------- MODULE LinkLifeProofs -----------------------------
(* The life of a link's row and of its ciphertext, from the transaction that   *)
(* writes both to the prune that forgets them, for every value of the          *)
(* constants; and that LinkStore implements LinkPromise.                       *)
EXTENDS LinkStoreProofs

-------------------------------------------------------------------------------
\* The seven things a step can do to the row of an id and its ciphertext.
SameLink(i) ==
  /\ rows'[i].gen = rows[i].gen
  /\ rows'[i].expiresAt = rows[i].expiresAt
  /\ rows'[i].maxOpens = rows[i].maxOpens

Stays(i) == rows'[i] = rows[i] /\ blobs'[i] = blobs[i]

Born(i) ==
  \E c \in Creates :
    /\ rows[i].status = "absent" /\ ~Stored(c) /\ creates[c].id = i
    /\ rows'[i].gen = c /\ rows'[i].status = "active"
    /\ blobs'[i] = c

Spends(i) ==
  /\ rows[i].status = "active" /\ ~PastDue(i)
  /\ SameLink(i)
  /\ rows'[i].opens = rows[i].opens + 1
  /\ IF rows[i].maxOpens # Unlimited /\ rows[i].opens + 1 >= rows[i].maxOpens
     THEN rows'[i].status = "expired" /\ blobs'[i] = None
     ELSE rows'[i].status = "active" /\ blobs'[i] = blobs[i]

Withdrawn(i) ==
  /\ rows[i].status = "active"
  /\ SameLink(i)
  /\ rows'[i].status = "revoked" /\ blobs'[i] = None
  /\ \/ rows[i].gen \in Creates => creates[rows[i].gen].pc = "created"
     \/ rows[i].gen \in purged'

TimesOut(i) ==
  /\ rows[i].status = "active" /\ PastDue(i)
  /\ SameLink(i) /\ rows'[i].opens = rows[i].opens
  /\ rows'[i].status = "expired" /\ blobs'[i] = blobs[i]

Erases(i) == rows[i].status \in Terminal /\ rows'[i] = rows[i] /\ blobs'[i] = None

Forgets(i) == Prunable(i) /\ rows'[i] = Absent /\ blobs'[i] = None

RowMoves(i) ==
  \/ Stays(i) \/ Born(i) \/ Spends(i) \/ Withdrawn(i)
  \/ TimesOut(i) \/ Erases(i) \/ Forgets(i)

-------------------------------------------------------------------------------
\* The one id an insert writes.
LEMMA InsertMoves ==
  ASSUME IInv, NEW c \in Creates, CreateInsert(c), NEW i \in Ids
  PROVE  Stays(i) \/ (i = creates[c].id /\ Born(i))
<1>1. TypeOK /\ creates[c].id \in Ids /\ ~Stored(c)
  BY DEF IInv, RequestsOK, CreateInsert, Stored
<1>2. CASE KeyFree(creates[c].id) /\ i = creates[c].id
  <2>1. /\ rows'[i] = NewRow(c, creates[c].expiresAt, creates[c].maxOpens)
        /\ blobs'[i] = c /\ rows[i].status = "absent"
    BY <1>1, <1>2 DEF CreateInsert, TypeOK, KeyFree
  <2>. QED  BY <1>1, <1>2, <2>1 DEF Born, NewRow
<1>3. CASE ~(KeyFree(creates[c].id) /\ i = creates[c].id)
  BY <1>1, <1>3 DEF CreateInsert, TypeOK, Stays
<1>. QED  BY <1>2, <1>3

\* The one id an open consumes.
LEMMA OpenMoves ==
  ASSUME IInv, NEW o \in Opens, OpenIncrement(o), NEW i \in Ids
  PROVE  \/ Stays(i)
         \/ i = opens[o].id /\ Spends(i)
<1>1. TypeOK /\ opens[o].id \in Ids /\ rows[i] \in Row
  BY DEF IInv, TypeOK, RequestsOK, OpenIncrement
<1>2. CASE Openable(opens[o].id) /\ i = opens[o].id
  <2>1. /\ rows'[i] = Consumed(rows[i], now)
        /\ blobs'[i] = IF Consumed(rows[i], now).status = "expired" THEN None ELSE blobs[i]
        /\ rows[i].status = "active" /\ ~PastDue(i)
    BY <1>1, <1>2 DEF OpenIncrement, TypeOK, Openable
  <2>2. /\ SameLink(i) /\ rows'[i].opens = rows[i].opens + 1
        /\ rows'[i].status = IF rows[i].maxOpens # Unlimited
                                /\ rows[i].opens + 1 >= rows[i].maxOpens
                             THEN "expired" ELSE "active"
    BY <1>1, <2>1 DEF Consumed, Closed, Row, SameLink
  <2>. QED  BY <1>2, <2>1, <2>2 DEF Spends
<1>3. CASE ~(Openable(opens[o].id) /\ i = opens[o].id)
  BY <1>1, <1>3 DEF OpenIncrement, TypeOK, Stays
<1>. QED  BY <1>2, <1>3

\* The one id a revocation or a purge closes.
LEMMA WithdrawMoves ==
  ASSUME IInv, NEW j \in Ids, AdminPurge(j) \/ \E t \in Tokens : Revoke(j, t), NEW i \in Ids
  PROVE  Stays(i) \/ (i = j /\ (Withdrawn(i) \/ Erases(i)))
<1>1. TypeOK /\ rows[i] \in Row
  BY DEF IInv, TypeOK
<1>2. CASE i # j
  BY <1>1, <1>2 DEF AdminPurge, Revoke, Withdraw, TypeOK, Stays
<1>3. CASE i = j /\ rows[j].status # "active"
  BY <1>1, <1>3 DEF AdminPurge, Revoke, TypeOK, Erases, Row, Terminal
<1>4. CASE i = j /\ rows[j].status = "active"
  <2>1. /\ rows'[i] = [rows[i] EXCEPT !.status = "revoked", !.terminalAt = now]
        /\ blobs'[i] = None
    BY <1>1, <1>4 DEF AdminPurge, Revoke, Withdraw, TypeOK
  <2>2. SameLink(i) /\ rows'[i].status = "revoked"
    BY <1>1, <2>1 DEF Row, SameLink
  <2>3. \/ rows[i].gen \in Creates => creates[rows[i].gen].pc = "created"
        \/ rows[i].gen \in purged'
    <3>1. CASE AdminPurge(j)
      BY <1>4, <3>1 DEF AdminPurge
    <3>2. ASSUME NEW t \in Tokens, Revoke(j, t), rows[i].gen \in Creates
          PROVE  creates[rows[i].gen].pc = "created"
      <4>1. t = rows[i].gen
        BY <1>4, <3>2 DEF Revoke, Authorized, Tokened
      <4>2. t # None
        BY <3>2, <4>1, StoreAssumption DEF StoreAssumption, Gens
      <4>. QED  BY <4>1, <4>2 DEF Tokens
    <3>. QED  BY <3>1, <3>2
  <2>. QED  BY <1>4, <2>1, <2>2, <2>3 DEF Withdrawn
<1>. QED  BY <1>2, <1>3, <1>4

\* What each statement of the sweep does to an id.
LEMMA SweepMoves ==
  ASSUME IInv, NEW w \in Workers, NEW i \in Ids
  PROVE  /\ SweepExpire(w) => Stays(i) \/ TimesOut(i)
         /\ SweepErase(w) => Stays(i) \/ Erases(i)
         /\ SweepPrune(w) => Stays(i) \/ Forgets(i)
<1>1. TypeOK /\ rows[i] \in Row
  BY DEF IInv, TypeOK
<1>2. ASSUME SweepExpire(w)
      PROVE  Stays(i) \/ TimesOut(i)
  <2>1. CASE rows[i].status = "active" /\ PastDue(i)
    <3>1. rows'[i] = [rows[i] EXCEPT !.status = "expired", !.terminalAt = now]
      BY <1>2, <2>1 DEF SweepExpire
    <3>2. /\ SameLink(i) /\ rows'[i].opens = rows[i].opens
          /\ rows'[i].status = "expired"
      BY <1>1, <3>1 DEF Row, SameLink
    <3>. QED  BY <1>2, <2>1, <3>2 DEF SweepExpire, TimesOut
  <2>2. CASE ~(rows[i].status = "active" /\ PastDue(i))
    BY <1>2, <2>2 DEF SweepExpire, Stays
  <2>. QED  BY <2>1, <2>2
<1>3. ASSUME SweepErase(w)
      PROVE  Stays(i) \/ Erases(i)
  BY <1>3 DEF SweepErase, Stays, Erases, Erasable
<1>4. ASSUME SweepPrune(w)
      PROVE  Stays(i) \/ Forgets(i)
  BY <1>4 DEF SweepPrune, Stays, Forgets
<1>. QED  BY <1>2, <1>3, <1>4

\* Every step moves every id in one of the seven ways.
LEMMA EveryRowMoves ==
  ASSUME IInv, [Next]_vars, NEW i \in Ids
  PROVE  RowMoves(i)
<1>1. CASE UNCHANGED <<rows, blobs>>
  BY <1>1 DEF Stays, RowMoves
<1>2. ASSUME NEW c \in Creates, CreateInsert(c)
      PROVE  RowMoves(i)
  BY <1>2, InsertMoves DEF RowMoves
<1>3. ASSUME NEW o \in Opens, OpenIncrement(o)
      PROVE  RowMoves(i)
  BY <1>3, OpenMoves DEF RowMoves
<1>4. ASSUME NEW j \in Ids, AdminPurge(j) \/ \E t \in Tokens : Revoke(j, t)
      PROVE  RowMoves(i)
  BY <1>4, WithdrawMoves DEF RowMoves
<1>5. ASSUME NEW w \in Workers, Sweep(w)
      PROVE  RowMoves(i)
  BY <1>5, SweepMoves DEF RowMoves, Sweep
<1>6. ASSUME NEW c \in Creates, CreateStep(c), ~CreateInsert(c)
      PROVE  UNCHANGED <<rows, blobs>>
  BY <1>6 DEF CreateStep, CreateCheck, CreateRespond, LoseCreate
<1>7. ASSUME NEW o \in Opens, OpenStep(o), ~OpenIncrement(o)
      PROVE  UNCHANGED <<rows, blobs>>
  BY <1>7 DEF OpenStep, OpenReadBlob, OpenRespond, LoseOpen
<1>8. ASSUME UNCHANGED vars \/ Tick \/ \E w \in Workers : SweepAbort(w)
      PROVE  UNCHANGED <<rows, blobs>>
  BY <1>8 DEF vars, Tick, SweepAbort
<1>. QED  BY <1>1, <1>2, <1>3, <1>4, <1>5, <1>6, <1>7, <1>8 DEF Next

-------------------------------------------------------------------------------
\* The told token is never untold, and the operator's audit output only grows.
LEMMA ToldForEver ==
  ASSUME TypeOK, [Next]_vars
  PROVE  /\ \A c \in Creates : creates[c].pc = "created" => creates'[c].pc = "created"
         /\ purged \subseteq purged'
<1>1. ASSUME NEW d \in Creates, CreateStep(d), NEW c \in Creates, creates[c].pc = "created"
      PROVE  creates'[c].pc = "created" /\ purged' = purged
  BY <1>1 DEF CreateStep, CreateCheck, CreateInsert, CreateRespond, LoseCreate,
              NoCreate, TypeOK, CreateReq
<1>2. ASSUME NEW o \in Opens, OpenStep(o)
      PROVE  UNCHANGED <<creates, purged>>
  BY <1>2 DEF OpenStep, OpenReadBlob, OpenIncrement, OpenRespond, LoseOpen
<1>3. ASSUME NEW w \in Workers, Sweep(w) \/ SweepAbort(w)
      PROVE  UNCHANGED <<creates, purged>>
  BY <1>3 DEF Sweep, SweepExpire, SweepErase, SweepPrune, SweepAbort
<1>4. ASSUME NEW i \in Ids, AdminPurge(i) \/ \E t \in Tokens : Revoke(i, t)
      PROVE  creates' = creates /\ purged \subseteq purged'
  BY <1>4 DEF AdminPurge, Revoke
<1>5. ASSUME UNCHANGED vars \/ Tick
      PROVE  UNCHANGED <<creates, purged>>
  BY <1>5 DEF vars, Tick
<1>6. ASSUME NEW d \in Creates, CreateStep(d)
      PROVE  purged' = purged
  BY <1>6 DEF CreateStep, CreateCheck, CreateInsert, CreateRespond, LoseCreate
<1>. QED  BY <1>1, <1>2, <1>3, <1>4, <1>5, <1>6 DEF Next

\* The clock does not go back.
LEMMA ClockForward ==
  ASSUME TypeOK, [Next]_vars
  PROVE  now' \in Nat /\ now <= now'
<1>1. now' = now \/ now' = now + 1
  <2>1. ASSUME NEW c \in Creates, CreateStep(c)
        PROVE  now' = now
    BY <2>1 DEF CreateStep, CreateCheck, CreateInsert, CreateRespond, LoseCreate
  <2>2. ASSUME NEW o \in Opens, OpenStep(o)
        PROVE  now' = now
    BY <2>2 DEF OpenStep, OpenReadBlob, OpenIncrement, OpenRespond, LoseOpen
  <2>3. ASSUME NEW w \in Workers, Sweep(w) \/ SweepAbort(w)
        PROVE  now' = now
    BY <2>3 DEF Sweep, SweepExpire, SweepErase, SweepPrune, SweepAbort
  <2>4. ASSUME NEW i \in Ids, AdminPurge(i) \/ \E t \in Tokens : Revoke(i, t)
        PROVE  now' = now
    BY <2>4 DEF AdminPurge, Revoke
  <2>5. ASSUME UNCHANGED vars \/ Tick
        PROVE  now' = now \/ now' = now + 1
    BY <2>5 DEF vars, Tick
  <2>. QED  BY <2>1, <2>2, <2>3, <2>4, <2>5 DEF Next
<1>. QED  BY <1>1, StoreAssumption DEF TypeOK, StoreAssumption

-------------------------------------------------------------------------------
\* What IInv lacks: where the ciphertexts are, and who closed what.
LifeInv ==
  /\ IInv
  /\ NeverLiveButEmpty
  /\ OnlyPastDueAwaitsErasure
  /\ RevokedByRightHolder

LEMMA InitLife ==
  ASSUME Init
  PROVE  LifeInv
<1>1. IInv
  BY InitIInv
<1>2. \A i \in Ids : /\ rows[i].status \notin Terminal
                     /\ blobs[i] = rows[i].gen
  BY DEF Init, NewRow, Absent, Terminal
<1>. QED  BY <1>1, <1>2
     DEF LifeInv, NeverLiveButEmpty, OnlyPastDueAwaitsErasure, RevokedByRightHolder, Terminal

\* A row is born with its ciphertext and loses it with its life.
LEMMA KeepsFilled ==
  ASSUME LifeInv, [Next]_vars
  PROVE  NeverLiveButEmpty'
<1>. SUFFICES ASSUME NEW i \in Ids
              PROVE  /\ rows'[i].status = "active" => blobs'[i] = rows'[i].gen
                     /\ blobs'[i] # None => blobs'[i] = rows'[i].gen
  BY DEF NeverLiveButEmpty
<1>1. /\ rows[i].status = "active" => blobs[i] = rows[i].gen
      /\ blobs[i] # None => blobs[i] = rows[i].gen
  BY DEF LifeInv, NeverLiveButEmpty
<1>2. RowMoves(i)
  BY EveryRowMoves DEF LifeInv
<1>3. CASE Stays(i) \/ Born(i)
  BY <1>1, <1>3 DEF Stays, Born
<1>4. CASE Spends(i) \/ TimesOut(i)
  BY <1>1, <1>4 DEF Spends, TimesOut, SameLink
<1>5. CASE Withdrawn(i) \/ Erases(i) \/ Forgets(i)
  BY <1>5 DEF Withdrawn, Erases, Forgets, Terminal, Absent
<1>. QED  BY <1>2, <1>3, <1>4, <1>5 DEF RowMoves

\* The one way to close without erasing is the sweep's first statement, on a row
\* whose budget is not spent.
LEMMA KeepsErased ==
  ASSUME LifeInv, [Next]_vars
  PROVE  OnlyPastDueAwaitsErasure'
<1>. SUFFICES ASSUME NEW i \in Ids, rows'[i].status \in Terminal, blobs'[i] # None
              PROVE  /\ rows'[i].status = "expired"
                     /\ rows'[i].expiresAt <= now'
                     /\ rows'[i].opens # rows'[i].maxOpens
  BY DEF OnlyPastDueAwaitsErasure, PastDue
<1>1. rows[i].status \in Terminal /\ blobs[i] # None =>
        /\ rows[i].status = "expired" /\ PastDue(i) /\ rows[i].opens # rows[i].maxOpens
  BY DEF LifeInv, OnlyPastDueAwaitsErasure
<1>2. RowMoves(i)
  BY EveryRowMoves DEF LifeInv
<1>3. rows[i].expiresAt <= now => rows[i].expiresAt <= now'
  BY ClockForward, StoreAssumption DEF LifeInv, IInv, TypeOK, Row, StoreAssumption
<1>4. CASE Stays(i)
  BY <1>1, <1>3, <1>4 DEF Stays, PastDue
<1>5. CASE Born(i) \/ Spends(i) \/ Withdrawn(i) \/ Erases(i) \/ Forgets(i)
  BY <1>5 DEF Born, Spends, Withdrawn, Erases, Forgets, Terminal
<1>6. CASE TimesOut(i)
  <2>1. rows[i].opens # rows[i].maxOpens
    BY <1>6 DEF LifeInv, IInv, BudgetLeft, TypeOK, Row, TimesOut, Unlimited
  <2>. QED  BY <1>3, <1>6, <2>1 DEF TimesOut, SameLink, PastDue
<1>. QED  BY <1>2, <1>4, <1>5, <1>6 DEF RowMoves

\* A revocation found its token among those that were told.
LEMMA KeepsRightful ==
  ASSUME LifeInv, [Next]_vars
  PROVE  RevokedByRightHolder'
<1>. SUFFICES ASSUME NEW i \in Ids, rows'[i].status = "revoked", rows'[i].gen \in Creates
              PROVE  \/ creates'[rows'[i].gen].pc = "created"
                     \/ rows'[i].gen \in purged'
  BY DEF RevokedByRightHolder, Tokened
<1>1. rows[i].status = "revoked" /\ rows[i].gen \in Creates =>
        creates[rows[i].gen].pc = "created" \/ rows[i].gen \in purged
  BY DEF LifeInv, RevokedByRightHolder, Tokened
<1>2. RowMoves(i) /\ TypeOK
  BY EveryRowMoves DEF LifeInv, IInv
<1>3. CASE Stays(i) \/ Erases(i)
  BY <1>1, <1>2, <1>3, ToldForEver DEF Stays, Erases
<1>4. CASE Withdrawn(i)
  BY <1>2, <1>4, ToldForEver DEF Withdrawn, SameLink
<1>5. CASE Born(i) \/ Spends(i) \/ TimesOut(i) \/ Forgets(i)
  BY <1>5 DEF Born, Spends, TimesOut, Forgets, Absent
<1>. QED  BY <1>2, <1>3, <1>4, <1>5 DEF RowMoves

LEMMA StepLife ==
  ASSUME LifeInv, [Next]_vars
  PROVE  LifeInv'
<1>1. IInv'
  BY StepIInv DEF LifeInv
<1>. QED  BY <1>1, KeepsFilled, KeepsErased, KeepsRightful DEF LifeInv

\* The invariant holds in every reachable state.
THEOREM LifeInvariant == Spec => []LifeInv
<1>. QED  BY InitLife, StepLife, PTL DEF Spec

\* A live row always has its own ciphertext, and no ciphertext outlives its row
\* (createWithCiphertext, incrementOpens, pruneTerminal's cascade).
THEOREM LiveNeverEmpty == Spec => []NeverLiveButEmpty
<1>1. LifeInv => NeverLiveButEmpty
  BY DEF LifeInv
<1>. QED  BY <1>1, LifeInvariant, PTL

\* Only a link that closed by time keeps its ciphertext until the sweep's second
\* statement (expirePastDue).
THEOREM ErasedOnClosing == Spec => []OnlyPastDueAwaitsErasure
<1>1. LifeInv => OnlyPastDueAwaitsErasure
  BY DEF LifeInv
<1>. QED  BY <1>1, LifeInvariant, PTL

\* Nobody but the creator who was told the token, or the operator, revokes a
\* tokened link (the revoke transaction, adminPurge).
THEOREM RevocationRightful == Spec => []RevokedByRightHolder
<1>1. LifeInv => RevokedByRightHolder
  BY DEF LifeInv
<1>. QED  BY <1>1, LifeInvariant, PTL

-------------------------------------------------------------------------------
\* A row keeps its link, expiry and budget (createWithCiphertext's primary key).
THEOREM RowNeverReplaced == Spec => RowKeepsIdentity
<1>1. ASSUME IInv, [Next]_vars, NEW i \in Ids,
             rows[i].status # "absent", rows'[i].status # "absent"
      PROVE  SameLink(i)
  <2>1. RowMoves(i)
    BY <1>1, EveryRowMoves
  <2>. QED  BY <1>1, <2>1 DEF RowMoves, Stays, Born, Spends, Withdrawn, TimesOut, Erases,
                              Forgets, Absent, SameLink
<1>2. IInv /\ [Next]_vars =>
        [\A i \in Ids : rows[i].status # "absent" /\ rows'[i].status # "absent" =>
           /\ rows'[i].gen = rows[i].gen
           /\ rows'[i].expiresAt = rows[i].expiresAt
           /\ rows'[i].maxOpens = rows[i].maxOpens]_vars
  BY <1>1 DEF SameLink
<1>. QED  BY <1>2, InvariantHolds, PTL DEF Spec, RowKeepsIdentity

\* A terminal row is final until the retention window has passed (pruneTerminal).
THEOREM ClosedStaysClosed == Spec => TerminalIsFinal
<1>1. ASSUME IInv, [Next]_vars, NEW i \in Ids, rows[i].status \in Terminal
      PROVE  \/ rows'[i] = rows[i]
             \/ /\ rows'[i].status = "absent"
                /\ blobs'[i] = None
                /\ rows[i].terminalAt + Retention < now
  <2>1. RowMoves(i)
    BY <1>1, EveryRowMoves
  <2>2. CASE Forgets(i)
    <3>1. rows[i].terminalAt < now - Retention
      BY <2>2 DEF Forgets, Prunable
    <3>2. rows[i].terminalAt \in Int /\ now \in Int /\ Retention \in Int
      BY <1>1, StoreAssumption DEF IInv, TypeOK, Row, StoreAssumption
    <3>. QED  BY <2>2, <3>1, <3>2 DEF Forgets, Absent
  <2>. QED  BY <1>1, <2>1, <2>2 DEF RowMoves, Stays, Born, Spends, Withdrawn, TimesOut,
                                    Erases, Terminal
<1>2. IInv /\ [Next]_vars =>
        [\A i \in Ids : rows[i].status \in Terminal =>
           \/ rows'[i] = rows[i]
           \/ /\ rows'[i].status = "absent"
              /\ blobs'[i] = None
              /\ rows[i].terminalAt + Retention < now]_vars
  BY <1>1
<1>. QED  BY <1>2, InvariantHolds, PTL DEF Spec, TerminalIsFinal

\* Only a successful incrementOpens adds a win: that of one open, to the link whose
\* row it updated.
LEMMA WinMoves ==
  ASSUME IInv, [Next]_vars
  PROVE  \/ \A g : Winners(g)' = Winners(g)
         \/ \E o \in Opens : OpenIncrement(o) /\ Openable(opens[o].id)
<1>1. ASSUME NEW c \in Creates, CreateStep(c)
      PROVE  opens' = opens
  BY <1>1 DEF CreateStep, CreateCheck, CreateInsert, CreateRespond, LoseCreate
<1>2. ASSUME NEW w \in Workers, Sweep(w) \/ SweepAbort(w)
      PROVE  opens' = opens
  BY <1>2 DEF Sweep, SweepExpire, SweepErase, SweepPrune, SweepAbort
<1>3. ASSUME NEW i \in Ids, AdminPurge(i) \/ \E t \in Tokens : Revoke(i, t)
      PROVE  opens' = opens
  BY <1>3 DEF AdminPurge, Revoke
<1>4. ASSUME UNCHANGED vars \/ Tick
      PROVE  opens' = opens
  BY <1>4 DEF vars, Tick
<1>5. ASSUME NEW o \in Opens, OpenStep(o), ~(OpenIncrement(o) /\ Openable(opens[o].id))
      PROVE  \A p \in Opens : opens'[p].won = opens[p].won
  BY <1>5 DEF IInv, TypeOK, RequestsOK, OpenStep, OpenReadBlob, OpenIncrement, OpenRespond,
              LoseOpen, NoOpen, OpenReq
<1>6. (\A p \in Opens : opens'[p].won = opens[p].won) => \A g : Winners(g)' = Winners(g)
  BY DEF Winners
<1>. QED  BY <1>1, <1>2, <1>3, <1>4, <1>5, <1>6 DEF Next, OpenStep

LEMMA WinOne ==
  ASSUME IInv, NEW o \in Opens, OpenIncrement(o), Openable(opens[o].id)
  PROVE  /\ opens[o].id \in Ids
         /\ rows[opens[o].id].gen \in Gens
         /\ \A g \in Gens : o \notin Winners(g)
         /\ \A g \in Gens : Winners(g)' =
              IF g = rows[opens[o].id].gen THEN Winners(g) \cup {o} ELSE Winners(g)
<1>. DEFINE i == opens[o].id
<1>1. TypeOK /\ i \in Ids /\ opens[o].won = None
  BY DEF IInv, RequestsOK, OpenIncrement
<1>2. rows[i].gen \in Gens
  BY <1>1 DEF IInv, TypeOK, RowsOwned, Openable, Row
<1>3. \A p \in Opens : opens'[p].won = IF p = o THEN rows[i].gen ELSE opens[p].won
  BY <1>1 DEF OpenIncrement, TypeOK, OpenReq
<1>4. None \notin Gens
  BY StoreAssumption DEF StoreAssumption
<1>. QED  BY <1>1, <1>2, <1>3, <1>4 DEF Winners

\* An open that read the ciphertext in time gains nothing once the link was revoked,
\* exhausted, expired or pruned (incrementOpens, its WHERE clause).
THEOREM LateOpenGainsNothing == Spec => NoLateOpen
<1>1. ASSUME IInv, [Next]_vars, NEW g \in Gens, Winners(g)' # Winners(g)
      PROVE  \E i \in Ids : rows[i].gen = g /\ rows[i].status = "active" /\ ~PastDue(i)
  <2>1. PICK o \in Opens : OpenIncrement(o) /\ Openable(opens[o].id)
    BY <1>1, WinMoves
  <2>2. opens[o].id \in Ids /\ g = rows[opens[o].id].gen
    BY <1>1, <2>1, WinOne
  <2>. QED  BY <2>1, <2>2 DEF Openable
<1>2. IInv /\ [Next]_vars =>
        [\A g \in Gens : Winners(g)' # Winners(g) =>
           \E i \in Ids : rows[i].gen = g /\ rows[i].status = "active" /\ ~PastDue(i)]_vars
  BY <1>1
<1>. QED  BY <1>2, InvariantHolds, PTL DEF Spec, NoLateOpen

-------------------------------------------------------------------------------
\* The abstract specification's view of a create's link.
PhaseBar == [c \in Creates |-> Phase(c)]
BudgetBar == [c \in Creates |-> IF Stored(c) THEN creates[c].maxOpens ELSE 0]
UsedBar == [c \in Creates |-> Winners(c)]

\* A stored link's phase can be read off the one id its create named.
PhaseAt(c, i) ==
  IF rows[i].gen = c /\ rows[i].status = "active" THEN "live"
  ELSE IF blobs[i] = c THEN "closed" ELSE "erased"

PhasesLocal ==
  \A c \in Creates : Stored(c) => /\ creates[c].id \in Ids
                                  /\ Phase(c) = PhaseAt(c, creates[c].id)

LEMMA PhaseById == LifeInv => PhasesLocal
<1>. SUFFICES ASSUME LifeInv, NEW c \in Creates, Stored(c)
              PROVE  creates[c].id \in Ids /\ Phase(c) = PhaseAt(c, creates[c].id)
  BY DEF PhasesLocal
<1>1. creates[c].id \in Ids
  BY DEF LifeInv, IInv, RequestsOK, Stored
<1>2. \A j \in Ids : rows[j].gen = c => j = creates[c].id
  BY DEF LifeInv, IInv, RowsOwned
<1>3. c # None
  BY StoreAssumption DEF StoreAssumption, Gens
<1>4. \A j \in Ids : blobs[j] = c => rows[j].gen = c
  BY <1>3 DEF LifeInv, NeverLiveButEmpty
<1>. QED  BY <1>1, <1>2, <1>4 DEF Phase, PhaseAt

\* The same after a step.
LEMMA PhaseByIdNext == LifeInv' => PhasesLocal'
<1>. QED  BY PhaseById, PTL

\* How each move of its row moves the phase of a stored link.
LEMMA PhaseMoves ==
  ASSUME LifeInv, [Next]_vars, NEW c \in Creates, Stored(c), Stored(c)',
         creates'[c].id = creates[c].id, NEW i, i = creates[c].id
  PROVE  /\ i \in Ids
         /\ Stays(i) \/ Born(i) => Phase(c)' = Phase(c)
         /\ Spends(i) \/ Withdrawn(i) =>
              IF rows[i].gen = c
              THEN /\ Phase(c) = "live"
                   /\ Phase(c)' = IF rows'[i].status = "active" THEN "live" ELSE "erased"
              ELSE Phase(c)' = Phase(c)
         /\ TimesOut(i) => \/ Phase(c)' = Phase(c)
                           \/ Phase(c) = "live" /\ Phase(c)' = "closed"
         /\ Erases(i) \/ Forgets(i) => \/ Phase(c)' = Phase(c)
                                       \/ Phase(c) = "closed" /\ Phase(c)' = "erased"
<1>1. /\ i \in Ids
      /\ Phase(c) = PhaseAt(c, i)
      /\ Phase(c)' = IF rows'[i].gen = c /\ rows'[i].status = "active" THEN "live"
                     ELSE IF blobs'[i] = c THEN "closed" ELSE "erased"
  BY PhaseById, PhaseByIdNext, StepLife DEF PhasesLocal, PhaseAt
<1>2. /\ c # None
      /\ rows[i].status = "active" => blobs[i] = rows[i].gen
      /\ blobs[i] # None => blobs[i] = rows[i].gen
      /\ rows[i].status = "absent" => rows[i].gen = None
  BY <1>1, StoreAssumption
  DEF LifeInv, IInv, RowsOwned, NeverLiveButEmpty, StoreAssumption, Gens
<1>3. Stays(i) => Phase(c)' = Phase(c)
  BY <1>1 DEF Stays, PhaseAt
<1>4. Born(i) => Phase(c)' = Phase(c)
  BY <1>1, <1>2 DEF Born, PhaseAt
<1>5. ASSUME Spends(i)
      PROVE  IF rows[i].gen = c
             THEN /\ Phase(c) = "live"
                  /\ Phase(c)' = IF rows'[i].status = "active" THEN "live" ELSE "erased"
             ELSE Phase(c)' = Phase(c)
  BY <1>1, <1>2, <1>5 DEF Spends, SameLink, PhaseAt
<1>6. ASSUME Withdrawn(i)
      PROVE  IF rows[i].gen = c
             THEN /\ Phase(c) = "live"
                  /\ Phase(c)' = IF rows'[i].status = "active" THEN "live" ELSE "erased"
             ELSE Phase(c)' = Phase(c)
  BY <1>1, <1>2, <1>6 DEF Withdrawn, SameLink, PhaseAt
<1>7. TimesOut(i) => Phase(c)' = Phase(c) \/ (Phase(c) = "live" /\ Phase(c)' = "closed")
  BY <1>1, <1>2 DEF TimesOut, SameLink, PhaseAt
<1>8. Erases(i) => Phase(c)' = Phase(c) \/ (Phase(c) = "closed" /\ Phase(c)' = "erased")
  BY <1>1, <1>2 DEF Erases, Terminal, PhaseAt
<1>9. Forgets(i) => Phase(c)' = Phase(c) \/ (Phase(c) = "closed" /\ Phase(c)' = "erased")
  BY <1>1, <1>2 DEF Forgets, Prunable, Terminal, Absent, PhaseAt
<1>. QED  BY <1>1, <1>3, <1>4, <1>5, <1>6, <1>7, <1>8, <1>9

\* The abstract steps, stated on the three mapped functions.
LEMMA MapsToStutter ==
  ASSUME PhaseBar' = PhaseBar, BudgetBar' = BudgetBar, UsedBar' = UsedBar
  PROVE  UNCHANGED Promise!pvars
<1>. QED  BY DEF Promise!pvars, PhaseBar, BudgetBar, UsedBar

LEMMA MapsToSweep ==
  ASSUME BudgetBar' = BudgetBar, UsedBar' = UsedBar, NEW from, NEW to,
         \/ from = "live" /\ to = "closed"
         \/ from = "closed" /\ to = "erased",
         \A c \in Creates : Phase(c)' = Phase(c) \/ (Phase(c) = from /\ Phase(c)' = to)
  PROVE  Promise!PromiseNext
<1>. DEFINE S == {c \in Creates : Phase(c) = from /\ Phase(c)' = to}
<1>1. PhaseBar' = [c \in Creates |-> IF c \in S THEN to ELSE PhaseBar[c]]
  BY DEF PhaseBar
<1>2. \A c \in S : PhaseBar[c] = from
  BY DEF PhaseBar
<1>3. CASE from = "live" /\ to = "closed"
  <2>1. Promise!Expire(S)
    BY <1>1, <1>2, <1>3 DEF Promise!Expire, PhaseBar, BudgetBar, UsedBar
  <2>. QED  BY <2>1 DEF Promise!PromiseNext
<1>4. CASE from = "closed" /\ to = "erased"
  <2>1. Promise!Erase(S)
    BY <1>1, <1>2, <1>4 DEF Promise!Erase, PhaseBar, BudgetBar, UsedBar
  <2>. QED  BY <2>1 DEF Promise!PromiseNext
<1>. QED  BY <1>3, <1>4

\* What an insert, a lost create and the rest leave of the stored creates.
LEMMA StoredStays ==
  ASSUME IInv, [Next]_vars, NEW c \in Creates
  PROVE  /\ Stored(c) => /\ Stored(c)' /\ creates'[c].id = creates[c].id
                         /\ creates'[c].maxOpens = creates[c].maxOpens
         /\ Stored(c)' /\ ~Stored(c) => CreateInsert(c)
<1>1. ASSUME NEW d \in Creates, CreateStep(d)
      PROVE  /\ Stored(c) => /\ Stored(c)' /\ creates'[c].id = creates[c].id
                             /\ creates'[c].maxOpens = creates[c].maxOpens
             /\ Stored(c)' /\ ~Stored(c) => CreateInsert(c)
  BY <1>1 DEF IInv, CreateStep, CreateCheck, CreateInsert, CreateRespond, LoseCreate,
              NoCreate, Stored, TypeOK, CreateReq
<1>2. ASSUME creates' = creates
      PROVE  /\ Stored(c)' <=> Stored(c)
             /\ creates'[c] = creates[c]
  BY <1>2 DEF Stored
<1>3. ASSUME NEW o \in Opens, OpenStep(o)
      PROVE  creates' = creates
  BY <1>3 DEF OpenStep, OpenReadBlob, OpenIncrement, OpenRespond, LoseOpen
<1>4. ASSUME NEW w \in Workers, Sweep(w) \/ SweepAbort(w)
      PROVE  creates' = creates
  BY <1>4 DEF Sweep, SweepExpire, SweepErase, SweepPrune, SweepAbort
<1>5. ASSUME NEW i \in Ids, AdminPurge(i) \/ \E t \in Tokens : Revoke(i, t)
      PROVE  creates' = creates
  BY <1>5 DEF AdminPurge, Revoke
<1>6. ASSUME UNCHANGED vars \/ Tick
      PROVE  creates' = creates
  BY <1>6 DEF vars, Tick
<1>. QED  BY <1>1, <1>2, <1>3, <1>4, <1>5, <1>6 DEF Next

\* A step that inserts no row leaves the budgets; one that grants no open the wins.
LEMMA BarsStay ==
  ASSUME IInv, [Next]_vars
  PROVE  /\ (\A c \in Creates : Stored(c)' => Stored(c)) => BudgetBar' = BudgetBar
         /\ (\A g : Winners(g)' = Winners(g)) => UsedBar' = UsedBar
<1>1. ASSUME \A c \in Creates : Stored(c)' => Stored(c)
      PROVE  BudgetBar' = BudgetBar
  BY <1>1, StoredStays DEF BudgetBar
<1>. QED  BY <1>1 DEF UsedBar

\* A step under which every row stays is invisible, unless it stores a create.
LEMMA RowsStayPhase ==
  ASSUME LifeInv, [Next]_vars, \A i \in Ids : Stays(i),
         \A c \in Creates : Stored(c)' => Stored(c)
  PROVE  PhaseBar' = PhaseBar
<1>1. ASSUME NEW c \in Creates, Stored(c)
      PROVE  Phase(c)' = Phase(c)
  <2>1. Stored(c)' /\ creates'[c].id = creates[c].id
    BY <1>1, StoredStays DEF LifeInv
  <2>2. creates[c].id \in Ids
    BY <1>1 DEF LifeInv, IInv, RequestsOK, Stored
  <2>. QED  BY <1>1, <2>1, <2>2, PhaseMoves
<1>2. ASSUME NEW c \in Creates, ~Stored(c)
      PROVE  Phase(c)' = Phase(c)
  BY <1>2 DEF Phase
<1>. QED  BY <1>1, <1>2 DEF PhaseBar

\* The transaction that stores a link is the abstract Send.
LEMMA InsertRefines ==
  ASSUME LifeInv, [Next]_vars, NEW c \in Creates, CreateInsert(c), KeyFree(creates[c].id)
  PROVE  Promise!Send(c)
<1>. DEFINE i == creates[c].id
<1>1. /\ TypeOK /\ i \in Ids /\ ~Stored(c) /\ creates[c].maxOpens \in Int
  BY StoreAssumption
  DEF LifeInv, IInv, RequestsOK, CreateInsert, Stored, TypeOK, CreateReq
<1>2. /\ creates' = [creates EXCEPT ![c].pc = "stored"]
      /\ rows' = [rows EXCEPT ![i] = NewRow(c, creates[c].expiresAt, creates[c].maxOpens)]
      /\ opens' = opens
  BY DEF CreateInsert
<1>3. Stored(c)' /\ \A d \in Creates \ {c} : creates'[d] = creates[d] /\ (Stored(d)' <=> Stored(d))
  BY <1>1, <1>2 DEF Stored, TypeOK, CreateReq
<1>4. /\ Phase(c) = "unsent"
      /\ Phase(c)' = "live"
  <2>1. rows'[i].gen = c /\ rows'[i].status = "active"
    BY <1>1, <1>2 DEF TypeOK, NewRow
  <2>. QED  BY <1>1, <1>3, <2>1 DEF Phase
<1>5. ASSUME NEW d \in Creates \ {c}
      PROVE  Phase(d)' = Phase(d)
  <2>1. CASE Stored(d)
    <3>1. creates[d].id \in Ids /\ Stored(d)' /\ creates'[d].id = creates[d].id
      BY <1>3, <2>1 DEF LifeInv, IInv, RequestsOK, Stored
    <3>2. Stays(creates[d].id) \/ Born(creates[d].id)
      BY <3>1, InsertMoves DEF LifeInv
    <3>. QED  BY <2>1, <3>1, <3>2, PhaseMoves
  <2>2. CASE ~Stored(d)
    BY <1>3, <2>2 DEF Phase
  <2>. QED  BY <2>1, <2>2
<1>6. PhaseBar[c] = "unsent" /\ PhaseBar' = [PhaseBar EXCEPT ![c] = "live"]
  BY <1>4, <1>5 DEF PhaseBar
<1>7. /\ BudgetBar' \in [Creates -> Int]
      /\ \A d \in Creates \ {c} : BudgetBar'[d] = BudgetBar[d]
  <2>1. \A d \in Creates : creates'[d].maxOpens \in Int
    BY <1>1, <1>2 DEF TypeOK, CreateReq
  <2>. QED  BY <1>3, <2>1 DEF BudgetBar
<1>8. UsedBar' = UsedBar
  BY <1>2 DEF UsedBar, Winners
<1>. QED  BY <1>6, <1>7, <1>8 DEF Promise!Send, PhaseBar, BudgetBar, UsedBar

\* The abstract specification counts as LinkStore does.
LEMMA SameCount ==
  ASSUME NEW S
  PROVE  Promise!Cardinality(S) = Cardinality(S)
<1>. QED  BY Zenon DEF Promise!Cardinality, Cardinality

\* incrementOpens on a tokened link is the abstract Consume; on a legacy one,
\* which no create of the model made, it is invisible.
LEMMA OpenRefines ==
  ASSUME LifeInv, [Next]_vars, NEW o \in Opens, OpenIncrement(o), Openable(opens[o].id)
  PROVE  Promise!PromiseNext \/ UNCHANGED Promise!pvars
<1>0. opens[o].id \in Ids /\ rows[opens[o].id].gen \in Gens
  BY WinOne DEF LifeInv
<1>. PICK i \in Ids, g \in Gens : i = opens[o].id /\ g = rows[i].gen
  BY <1>0
<1>1. /\ IInv /\ TypeOK /\ creates' = creates
      /\ rows[i] \in Row /\ rows[i].status = "active"
      /\ \A h \in Gens : o \notin Winners(h)
      /\ \A h \in Gens : Winners(h)' = IF h = g THEN Winners(h) \cup {o} ELSE Winners(h)
  BY WinOne DEF LifeInv, IInv, TypeOK, OpenIncrement, Openable
<1>2. Spends(i) /\ \A j \in Ids \ {i} : Stays(j)
  <2>1. \A j \in Ids : Stays(j) \/ (j = i /\ Spends(j))
    BY <1>1, OpenMoves
  <2>2. ~Stays(i)
    <3>1. rows'[i] = Consumed(rows[i], now)
      BY <1>1 DEF OpenIncrement, TypeOK
    <3>2. rows'[i].opens = rows[i].opens + 1 /\ rows[i].opens \in Nat
      BY <1>1, <3>1 DEF Consumed, Closed, Row
    <3>. QED  BY <3>2 DEF Stays
  <2>. QED  BY <1>1, <2>1, <2>2
<1>3. BudgetBar' = BudgetBar
  BY <1>1 DEF BudgetBar, Stored
<1>4. ASSUME NEW c \in Creates, c # g
      PROVE  Phase(c)' = Phase(c)
  <2>1. CASE Stored(c)
    <3>1. creates[c].id \in Ids /\ Stored(c)'
      BY <1>1, <2>1 DEF IInv, RequestsOK, Stored
    <3>2. Stays(creates[c].id) \/ (creates[c].id = i /\ Spends(creates[c].id))
      BY <1>2, <3>1
    <3>. QED  BY <1>1, <1>4, <2>1, <3>1, <3>2, PhaseMoves
  <2>2. CASE ~Stored(c)
    BY <1>1, <2>2 DEF Phase, Stored
  <2>. QED  BY <2>1, <2>2
<1>5. CASE g \notin Creates
  <2>1. PhaseBar' = PhaseBar
    BY <1>4, <1>5 DEF PhaseBar
  <2>2. UsedBar' = UsedBar
    BY <1>1, <1>5 DEF UsedBar, Gens
  <2>. QED  BY <1>3, <2>1, <2>2, MapsToStutter
<1>6. CASE g \in Creates
  <2>1. /\ Stored(g) /\ Stored(g)' /\ creates[g].id = i
        /\ creates[g].maxOpens = rows[i].maxOpens
        /\ rows[i].opens = Cardinality(Winners(g))
        /\ rows[i].maxOpens # Unlimited => rows[i].opens < rows[i].maxOpens
    BY <1>1, <1>6 DEF IInv, RowsOwned, OpensAccounted, BudgetLeft, Stored
  <2>2. /\ Phase(g) = "live"
        /\ Phase(g)' = IF rows'[i].status = "active" THEN "live" ELSE "erased"
    <3>1. creates'[g].id = creates[g].id
      BY <1>1
    <3>. QED  BY <1>2, <1>6, <2>1, <3>1, PhaseMoves
  <2>3. rows'[i].status = "active" <=> rows[i].opens + 1 # rows[i].maxOpens
    BY <1>1, <1>2, <2>1 DEF Spends, Row, Unlimited
  <2>4. PhaseBar' = [PhaseBar EXCEPT ![g] = IF Cardinality(UsedBar[g]) + 1 = BudgetBar[g]
                                             THEN "erased" ELSE @]
    BY <1>4, <1>6, <2>1, <2>2, <2>3 DEF PhaseBar, UsedBar, BudgetBar
  <2>5. UsedBar' = [UsedBar EXCEPT ![g] = @ \cup {o}]
    BY <1>1, <1>6 DEF UsedBar, Gens
  <2>6. /\ PhaseBar[g] = "live" /\ \A c \in Creates : o \notin UsedBar[c]
        /\ BudgetBar[g] # -1 => Cardinality(UsedBar[g]) + 1 <= BudgetBar[g]
    BY <1>1, <1>6, <2>1, <2>2 DEF PhaseBar, UsedBar, BudgetBar, Gens, Row, Unlimited
  <2>7. Promise!Consume(g, o)
    BY <1>3, <1>6, <2>4, <2>5, <2>6, SameCount DEF Promise!Consume, PhaseBar, UsedBar, BudgetBar
  <2>. QED  BY <1>6, <2>7 DEF Promise!PromiseNext
<1>. QED  BY <1>5, <1>6

\* revoke and adminPurge are the abstract Withdraw; on a row already closed, an
\* Erase; on a legacy row they are invisible.
LEMMA WithdrawRefines ==
  ASSUME LifeInv, [Next]_vars, NEW j \in Ids, AdminPurge(j) \/ \E t \in Tokens : Revoke(j, t)
  PROVE  Promise!PromiseNext \/ UNCHANGED Promise!pvars
<1>1. /\ IInv /\ TypeOK /\ creates' = creates
      /\ UNCHANGED <<creates, opens>>
  BY DEF LifeInv, IInv, AdminPurge, Revoke
<1>2. BudgetBar' = BudgetBar /\ UsedBar' = UsedBar
  BY <1>1 DEF BudgetBar, UsedBar, Stored, Winners
<1>3. ASSUME NEW c \in Creates, ~Stored(c)
      PROVE  Phase(c)' = Phase(c)
  BY <1>1, <1>3 DEF Phase, Stored
<1>4. ASSUME NEW c \in Creates, Stored(c)
      PROVE  /\ creates[c].id \in Ids /\ Stored(c)' /\ creates'[c].id = creates[c].id
             /\ \/ Stays(creates[c].id)
                \/ creates[c].id = j /\ (Withdrawn(j) \/ Erases(j))
  <2>1. creates[c].id \in Ids /\ Stored(c)'
    BY <1>1, <1>4 DEF IInv, RequestsOK, Stored
  <2>. QED  BY <1>1, <2>1, WithdrawMoves
<1>5. CASE \E c \in Creates : Stored(c) /\ creates[c].id = j /\ rows[j].gen = c /\ Withdrawn(j)
  <2>1. PICK c \in Creates : Stored(c) /\ creates[c].id = j /\ rows[j].gen = c /\ Withdrawn(j)
    BY <1>5
  <2>2. Phase(c) = "live" /\ Phase(c)' = "erased"
    BY <1>4, <2>1, PhaseMoves DEF Withdrawn
  <2>3. ASSUME NEW d \in Creates \ {c}, Stored(d)
        PROVE  Phase(d)' = Phase(d)
    <3>1. CASE creates[d].id = j
      BY <1>4, <2>1, <2>3, <3>1, PhaseMoves
    <3>2. CASE creates[d].id # j
      BY <1>4, <2>3, <3>2, PhaseMoves
    <3>. QED  BY <3>1, <3>2
  <2>4. PhaseBar[c] = "live" /\ PhaseBar' = [PhaseBar EXCEPT ![c] = "erased"]
    BY <1>3, <2>2, <2>3 DEF PhaseBar
  <2>5. Promise!Withdraw(c)
    BY <1>2, <2>4 DEF Promise!Withdraw, PhaseBar, BudgetBar, UsedBar
  <2>. QED  BY <2>5 DEF Promise!PromiseNext
<1>6. CASE ~\E c \in Creates : Stored(c) /\ creates[c].id = j /\ rows[j].gen = c /\ Withdrawn(j)
  <2>1. ASSUME NEW c \in Creates, Stored(c)
        PROVE  Phase(c)' = Phase(c) \/ (Phase(c) = "closed" /\ Phase(c)' = "erased")
    BY <1>4, <1>6, <2>1, PhaseMoves
  <2>2. \A c \in Creates :
          Phase(c)' = Phase(c) \/ (Phase(c) = "closed" /\ Phase(c)' = "erased")
    BY <1>3, <2>1
  <2>. QED  BY <1>2, <2>2, MapsToSweep
<1>. QED  BY <1>5, <1>6

\* The sweep's first statement is an Expire, its second and third are an Erase.
LEMMA SweepRefines ==
  ASSUME LifeInv, [Next]_vars, NEW w \in Workers, Sweep(w)
  PROVE  Promise!PromiseNext
<1>1. UNCHANGED <<creates, opens>>
  BY DEF Sweep, SweepExpire, SweepErase, SweepPrune
<1>2. BudgetBar' = BudgetBar /\ UsedBar' = UsedBar
  BY <1>1 DEF BudgetBar, UsedBar, Stored, Winners
<1>3. ASSUME NEW c \in Creates
      PROVE  /\ ~Stored(c) => Phase(c)' = Phase(c)
             /\ Stored(c) => creates[c].id \in Ids /\ Stored(c)' /\ creates'[c].id = creates[c].id
  BY <1>1 DEF Phase, Stored, LifeInv, IInv, RequestsOK
<1>4. CASE SweepExpire(w)
  <2>1. ASSUME NEW c \in Creates, Stored(c)
        PROVE  Phase(c)' = Phase(c) \/ (Phase(c) = "live" /\ Phase(c)' = "closed")
    <3>1. Stays(creates[c].id) \/ TimesOut(creates[c].id)
      BY <1>3, <1>4, <2>1, SweepMoves DEF LifeInv
    <3>. QED  BY <1>3, <2>1, <3>1, PhaseMoves
  <2>2. \A c \in Creates : Phase(c)' = Phase(c) \/ (Phase(c) = "live" /\ Phase(c)' = "closed")
    BY <1>3, <2>1
  <2>. QED  BY <1>2, <2>2, MapsToSweep
<1>5. CASE SweepErase(w) \/ SweepPrune(w)
  <2>1. ASSUME NEW c \in Creates, Stored(c)
        PROVE  Phase(c)' = Phase(c) \/ (Phase(c) = "closed" /\ Phase(c)' = "erased")
    <3>1. Stays(creates[c].id) \/ Erases(creates[c].id) \/ Forgets(creates[c].id)
      BY <1>3, <1>5, <2>1, SweepMoves DEF LifeInv
    <3>. QED  BY <1>3, <2>1, <3>1, PhaseMoves
  <2>2. \A c \in Creates : Phase(c)' = Phase(c) \/ (Phase(c) = "closed" /\ Phase(c)' = "erased")
    BY <1>3, <2>1
  <2>. QED  BY <1>2, <2>2, MapsToSweep
<1>. QED  BY <1>4, <1>5 DEF Sweep

\* Every step of the store is a step of the promise or invisible to it.
LEMMA StepRefines ==
  ASSUME LifeInv, [Next]_vars
  PROVE  Promise!PromiseNext \/ UNCHANGED Promise!pvars
<1>1. CASE /\ \A i \in Ids : Stays(i)
           /\ \A c \in Creates : Stored(c)' => Stored(c)
           /\ \A g : Winners(g)' = Winners(g)
  BY <1>1, RowsStayPhase, BarsStay, MapsToStutter DEF LifeInv
<1>2. ASSUME NEW c \in Creates, CreateInsert(c), KeyFree(creates[c].id)
      PROVE  Promise!PromiseNext
  BY <1>2, InsertRefines DEF Promise!PromiseNext
<1>3. ASSUME NEW o \in Opens, OpenIncrement(o), Openable(opens[o].id)
      PROVE  Promise!PromiseNext \/ UNCHANGED Promise!pvars
  BY <1>3, OpenRefines
<1>4. ASSUME NEW i \in Ids, AdminPurge(i) \/ \E t \in Tokens : Revoke(i, t)
      PROVE  Promise!PromiseNext \/ UNCHANGED Promise!pvars
  BY <1>4, WithdrawRefines
<1>5. ASSUME NEW w \in Workers, Sweep(w)
      PROVE  Promise!PromiseNext \/ UNCHANGED Promise!pvars
  BY <1>5, SweepRefines
<1>6. ASSUME NEW c \in Creates, CreateStep(c), ~(CreateInsert(c) /\ KeyFree(creates[c].id))
      PROVE  /\ UNCHANGED <<rows, blobs, opens>>
             /\ \A d \in Creates : Stored(d)' => Stored(d)
  BY <1>6 DEF LifeInv, IInv, TypeOK, CreateReq, CreateStep, CreateCheck, CreateInsert,
              CreateRespond, LoseCreate, NoCreate, Stored
<1>7. ASSUME NEW o \in Opens, OpenStep(o), ~(OpenIncrement(o) /\ Openable(opens[o].id))
      PROVE  /\ UNCHANGED <<rows, blobs, creates>>
             /\ \A g : Winners(g)' = Winners(g)
  <2>1. UNCHANGED <<rows, blobs, creates>>
    BY <1>7 DEF OpenStep, OpenReadBlob, OpenIncrement, OpenRespond, LoseOpen
  <2>2. \A p \in Opens : opens'[p].won = opens[p].won
    BY <1>7 DEF LifeInv, IInv, TypeOK, RequestsOK, OpenStep, OpenReadBlob, OpenIncrement,
                OpenRespond, LoseOpen, NoOpen, OpenReq
  <2>. QED  BY <2>1, <2>2 DEF Winners
<1>8. ASSUME UNCHANGED vars \/ Tick \/ \E w \in Workers : SweepAbort(w)
      PROVE  UNCHANGED <<rows, blobs, creates, opens>>
  BY <1>8 DEF vars, Tick, SweepAbort
<1>9. /\ UNCHANGED <<rows, blobs>> => \A i \in Ids : Stays(i)
      /\ creates' = creates => \A c \in Creates : Stored(c)' => Stored(c)
      /\ opens' = opens => \A g : Winners(g)' = Winners(g)
  BY DEF Stays, Stored, Winners
<1>10. ASSUME NEW c \in Creates, CreateStep(c), ~(CreateInsert(c) /\ KeyFree(creates[c].id))
       PROVE  Promise!PromiseNext \/ UNCHANGED Promise!pvars
  BY <1>1, <1>6, <1>9, <1>10
<1>11. ASSUME NEW o \in Opens, OpenStep(o), ~(OpenIncrement(o) /\ Openable(opens[o].id))
       PROVE  Promise!PromiseNext \/ UNCHANGED Promise!pvars
  BY <1>1, <1>7, <1>9, <1>11
<1>12. ASSUME UNCHANGED vars \/ Tick \/ \E w \in Workers : SweepAbort(w)
       PROVE  Promise!PromiseNext \/ UNCHANGED Promise!pvars
  BY <1>1, <1>8, <1>9, <1>12
<1>. QED
  BY <1>2, <1>3, <1>4, <1>5, <1>10, <1>11, <1>12 DEF Next

LEMMA InitRefines ==
  ASSUME Init
  PROVE  Promise!PromiseInit
<1>1. /\ \A c \in Creates : ~Stored(c)
      /\ \A c \in Creates : Winners(c) = {}
  BY StoreAssumption DEF Init, NoCreate, NoOpen, Stored, Winners, StoreAssumption, Gens
<1>. QED  BY <1>1 DEF Promise!PromiseInit, Phase

\* The store's statements, interleaved in any way with the sweep, the operator and
\* the death of handlers, implement what is promised about each link.
THEOREM StoreKeepsPromise == Spec => KeepsPromise
<1>1. Init => Promise!PromiseInit
  BY InitRefines
<1>2. LifeInv /\ [Next]_vars => [Promise!PromiseNext]_(Promise!pvars)
  BY StepRefines
<1>. QED  BY <1>1, <1>2, LifeInvariant, PTL DEF Spec, KeepsPromise, Promise!PromiseSpec
-------------------------------------------------------------------------------
\* What LifeInv lacks to follow a ciphertext from its reading to its delivery: an open
\* handler holds the ciphertext, and wins the link, of the id it named; and a legacy
\* row does not come back once a create has taken its id.
Named(c, id) == c \in Creates /\ Stored(c) /\ creates[c].id = id
Handed ==
  /\ \A c \in Creates : Stored(c) => rows[creates[c].id].gen \notin Ids
  /\ \A o \in Opens : opens[o].blob \in Creates =>
       /\ Named(opens[o].blob, opens[o].id)
       /\ opens[o].won # None => Named(opens[o].won, opens[o].id)
  /\ \A o \in Opens : opens[o].pc \in {"won", "delivered"} => opens[o].won # None

\* A stored link stays stored under its id, and is stored by its insert alone.
LEMMA StoredForEver ==
  ASSUME LifeInv, [Next]_vars, NEW c \in Creates
  PROVE  /\ Stored(c) => Stored(c)' /\ creates'[c].id = creates[c].id
         /\ Stored(c)' /\ ~Stored(c) =>
              creates'[c].id = creates[c].id /\ creates[c].id \in Ids
                /\ rows'[creates[c].id].gen = c
<1>1. TypeOK /\ RequestsOK
  BY DEF LifeInv, IInv
<1>2. ASSUME NEW d \in Creates, CreateStep(d), ~CreateInsert(d)
      PROVE  /\ Stored(c)' = Stored(c)
             /\ Stored(c) => creates'[c].id = creates[c].id
  BY <1>1, <1>2 DEF CreateStep, CreateCheck, CreateRespond, LoseCreate, NoCreate, Stored,
                    TypeOK, CreateReq
<1>3. ASSUME NEW d \in Creates, CreateInsert(d), ~(d = c /\ KeyFree(creates[c].id))
      PROVE  /\ Stored(c)' = Stored(c)
             /\ Stored(c) => creates'[c].id = creates[c].id
  BY <1>1, <1>3 DEF CreateInsert, NoCreate, Stored, TypeOK
<1>4. ASSUME CreateInsert(c), KeyFree(creates[c].id)
      PROVE  /\ ~Stored(c) /\ creates'[c].id = creates[c].id /\ creates[c].id \in Ids
             /\ rows'[creates[c].id].gen = c
  BY <1>1, <1>4 DEF CreateInsert, NewRow, Stored, TypeOK, CreateReq, RequestsOK
<1>5. ASSUME UNCHANGED creates
      PROVE  Stored(c)' = Stored(c) /\ creates'[c].id = creates[c].id
  BY <1>5 DEF Stored
<1>6. \/ UNCHANGED creates
      \/ \E d \in Creates : CreateStep(d)
  <2>1. ASSUME NEW o \in Opens, OpenStep(o)
        PROVE  UNCHANGED creates
    BY <2>1 DEF OpenStep, OpenReadBlob, OpenIncrement, OpenRespond, LoseOpen
  <2>2. ASSUME NEW w \in Workers, Sweep(w) \/ SweepAbort(w)
        PROVE  UNCHANGED creates
    BY <2>2 DEF Sweep, SweepExpire, SweepErase, SweepPrune, SweepAbort
  <2>3. ASSUME NEW i \in Ids, AdminPurge(i) \/ \E t \in Tokens : Revoke(i, t)
        PROVE  UNCHANGED creates
    BY <2>3 DEF AdminPurge, Revoke
  <2>4. ASSUME UNCHANGED vars \/ Tick
        PROVE  UNCHANGED creates
    BY <2>4 DEF vars, Tick
  <2>. QED  BY <2>1, <2>2, <2>3, <2>4 DEF Next
<1>. QED  BY <1>2, <1>3, <1>4, <1>5, <1>6

\* A handler of an open is changed only by its own steps.
LEMMA OwnSteps ==
  ASSUME TypeOK, [Next]_vars, NEW o \in Opens, opens'[o] # opens[o]
  PROVE  OpenStep(o)
<1>1. ASSUME NEW c \in Creates, CreateStep(c)
      PROVE  UNCHANGED opens
  BY <1>1 DEF CreateStep, CreateCheck, CreateInsert, CreateRespond, LoseCreate
<1>2. ASSUME NEW w \in Workers, Sweep(w) \/ SweepAbort(w)
      PROVE  UNCHANGED opens
  BY <1>2 DEF Sweep, SweepExpire, SweepErase, SweepPrune, SweepAbort
<1>3. ASSUME NEW i \in Ids, AdminPurge(i) \/ \E t \in Tokens : Revoke(i, t)
      PROVE  UNCHANGED opens
  BY <1>3 DEF AdminPurge, Revoke
<1>4. ASSUME UNCHANGED vars \/ Tick
      PROVE  UNCHANGED opens
  BY <1>4 DEF vars, Tick
<1>5. ASSUME NEW p \in Opens, OpenStep(p)
      PROVE  p = o
  BY <1>5 DEF OpenStep, OpenReadBlob, OpenIncrement, OpenRespond, LoseOpen, TypeOK
<1>. QED  BY <1>1, <1>2, <1>3, <1>4, <1>5 DEF Next

\* What they do to it, while it holds a ciphertext: read, keep, win.
LEMMA HandlerMoves ==
  ASSUME LifeInv, [Next]_vars, NEW o \in Opens, opens'[o] # opens[o],
         opens'[o].blob \in Creates
  PROVE  \/ \E i \in Ids : /\ opens'[o].id = i /\ opens'[o].blob = blobs[i]
                           /\ opens'[o].won = None
         \/ /\ opens'[o].blob = opens[o].blob /\ opens'[o].id = opens[o].id
            /\ opens'[o].won = opens[o].won
         \/ /\ opens'[o].blob = opens[o].blob /\ opens'[o].id = opens[o].id
            /\ opens[o].id \in Ids
            /\ opens'[o].won = rows[opens[o].id].gen
<1>1. TypeOK /\ RequestsOK /\ None \notin Creates
  BY StoreAssumption DEF LifeInv, IInv, StoreAssumption, Gens
<1>3. OpenStep(o)
  BY <1>1, OwnSteps
<1>4. ASSUME NEW i \in Ids, OpenReadBlob(o, i)
      PROVE  opens'[o].id = i /\ opens'[o].blob = blobs[i] /\ opens'[o].won = None
  BY <1>1, <1>4 DEF OpenReadBlob, TypeOK
<1>5. ASSUME OpenIncrement(o)
      PROVE  /\ opens'[o].blob = opens[o].blob /\ opens'[o].id = opens[o].id
             /\ opens[o].id \in Ids
             /\ opens'[o].won = rows[opens[o].id].gen
  BY <1>1, <1>5 DEF OpenIncrement, TypeOK, OpenReq, RequestsOK, NoOpen
<1>6. ASSUME OpenRespond(o) \/ LoseOpen(o)
      PROVE  /\ opens'[o].blob = opens[o].blob /\ opens'[o].id = opens[o].id
             /\ opens'[o].won = opens[o].won
  BY <1>1, <1>6 DEF OpenRespond, LoseOpen, TypeOK, OpenReq, NoOpen
<1>. QED  BY <1>3, <1>4, <1>5, <1>6 DEF OpenStep

\* An open is answered with a ciphertext only once it has won a link.
LEMMA AnsweredHasWon ==
  ASSUME LifeInv, Handed, [Next]_vars, NEW o \in Opens, opens'[o].pc \in {"won", "delivered"}
  PROVE  opens'[o].won # None
<1>1. TypeOK /\ RequestsOK /\ RowsOwned
  BY DEF LifeInv, IInv
<1>2. CASE opens'[o] = opens[o]
  BY <1>2 DEF Handed
<1>4. CASE OpenIncrement(o)
  BY <1>1, <1>4 DEF OpenIncrement, TypeOK, OpenReq, RequestsOK, NoOpen, Openable, RowsOwned
<1>5. CASE OpenRespond(o) \/ LoseOpen(o) \/ \E i \in Ids : OpenReadBlob(o, i)
  BY <1>1, <1>5 DEF OpenRespond, LoseOpen, OpenReadBlob, TypeOK, OpenReq, NoOpen, Handed
<1>. QED  BY <1>1, <1>2, <1>4, <1>5, OwnSteps DEF OpenStep

LEMMA InitHanded ==
  ASSUME Init
  PROVE  Handed
<1>1. /\ creates = [c \in Creates |-> NoCreate("idle")]
      /\ opens = [o \in Opens |-> NoOpen("idle", None)]
  BY DEF Init
<1>2. None \notin Creates
  BY StoreAssumption DEF StoreAssumption, Gens
<1>. QED  BY <1>1, <1>2 DEF Handed, Named, Stored, NoCreate, NoOpen

LEMMA StepHanded ==
  ASSUME LifeInv, Handed, [Next]_vars
  PROVE  Handed'
<1>1. /\ IInv /\ TypeOK /\ RowsOwned /\ NeverLiveButEmpty
      /\ None \notin Gens /\ Creates \cap Ids = {}
  BY StoreAssumption DEF LifeInv, IInv, StoreAssumption
<1>2. ASSUME NEW c \in Creates, Stored(c)'
      PROVE  rows'[creates'[c].id].gen \notin Ids
  <2>1. CASE Stored(c)
    <3>1. creates'[c].id = creates[c].id /\ creates[c].id \in Ids
      BY <2>1, StoredForEver DEF LifeInv, IInv, RequestsOK, Stored
    <3>2. rows[creates[c].id].gen \notin Ids
      BY <2>1 DEF Handed
    <3>3. RowMoves(creates[c].id)
      BY <1>1, <3>1, EveryRowMoves
    <3>. QED  BY <1>1, <3>1, <3>2, <3>3 DEF RowMoves, Stays, Born, Spends, Withdrawn,
                TimesOut, Erases, Forgets, SameLink, Absent, Gens
  <2>2. CASE ~Stored(c)
    BY <1>1, <1>2, <2>2, StoredForEver
  <2>. QED  BY <2>1, <2>2
<1>3. ASSUME NEW o \in Opens, opens'[o].blob \in Creates,
             NEW b, b = opens'[o].blob, NEW w, w = opens'[o].won, NEW i, i = opens'[o].id
      PROVE  Named(b, i)' /\ (w # None => Named(w, i)')
  <2>0. \A c : Named(c, i) => Named(c, i)'
    BY StoredForEver DEF Named
  <2>1. CASE opens'[o].blob = opens[o].blob /\ opens'[o].id = opens[o].id
               /\ opens'[o].won = opens[o].won
    BY <1>3, <2>0, <2>1 DEF Handed
  <2>2. CASE i \in Ids /\ b = blobs[i] /\ w = None
    <3>1. rows[i].gen = b
      BY <1>1, <1>3, <2>2 DEF NeverLiveButEmpty, Gens
    <3>2. Named(b, i)
      BY <1>1, <1>3, <2>2, <3>1 DEF RowsOwned, Named
    <3>. QED  BY <2>0, <2>2, <3>2
  <2>3. CASE /\ opens'[o].blob = opens[o].blob /\ opens'[o].id = opens[o].id
             /\ opens[o].id \in Ids
             /\ opens'[o].won = rows[opens[o].id].gen
    <3>0. i \in Ids /\ w = rows[i].gen /\ b \in Creates
      BY <1>3, <2>3
    <3>1. Named(b, i)
      BY <1>3, <2>3 DEF Handed
    <3>2. rows[i].gen \notin Ids
      BY <3>1 DEF Handed, Named
    <3>3. rows[i].gen \in Creates \cup {None}
      BY <1>1, <3>0, <3>2 DEF TypeOK, Row, Gens
    <3>4. w # None => Named(w, i)
      BY <1>1, <3>0, <3>3 DEF RowsOwned, Named
    <3>. QED  BY <2>0, <3>1, <3>4
  <2>. QED
    <3>1. CASE opens'[o] = opens[o]
      BY <2>1, <3>1
    <3>2. CASE opens'[o] # opens[o]
      BY <1>3, <2>1, <2>2, <2>3, <3>2, HandlerMoves
    <3>. QED  BY <3>1, <3>2
<1>4. \A c \in Creates : Stored(c)' => rows'[creates'[c].id].gen \notin Ids
  BY <1>2
<1>5. \A o \in Opens : opens'[o].pc \in {"won", "delivered"} => opens'[o].won # None
  BY AnsweredHasWon
<1>6. \A o \in Opens : opens'[o].blob \in Creates =>
        LET b == opens'[o].blob  w == opens'[o].won  past == {"stored", "created", "orphaned"} IN
        /\ b \in Creates /\ creates'[b].pc \in past /\ creates'[b].id = opens'[o].id
        /\ w # None => w \in Creates /\ creates'[w].pc \in past /\ creates'[w].id = opens'[o].id
  BY <1>3 DEF Named, Stored
<1>. QED  BY <1>4, <1>5, <1>6 DEF Handed, Named, Stored

\* Whoever is handed a link's ciphertext has spent one of its opens, unless another
\* create has had its id.
LEMMA HandedIsSpent ==
  ASSUME Handed, NEW c \in Creates, ~Reused(c)
  PROVE  Delivered(c) \subseteq Winners(c)
<1>. SUFFICES ASSUME NEW o \in Opens, opens[o].pc = "delivered", opens[o].blob = c
              PROVE  opens[o].won = c
  BY DEF Delivered, Winners
<1>1. /\ opens[o].won \in Creates /\ Stored(opens[o].won)
      /\ creates[opens[o].won].id = creates[c].id
  BY DEF Handed, Named
<1>. QED  BY <1>1 DEF Reused

\* The ciphertext of a bounded link leaves the server at most maxOpens times: the early
\* read of the open handler gives nothing away that its consumption does not pay for.
THEOREM NoCiphertextUnpaid == Spec => []CiphertextRationed
<1>1. Init => LifeInv /\ Handed
  BY InitLife, InitHanded
<1>2. LifeInv /\ Handed /\ [Next]_vars => LifeInv' /\ Handed'
  BY StepLife, StepHanded
<1>3. ASSUME LifeInv, Handed
      PROVE  CiphertextRationed
  <2>. SUFFICES ASSUME NEW c \in Creates, creates[c].maxOpens # Unlimited, ~Reused(c)
                PROVE  Cardinality(Delivered(c)) <= creates[c].maxOpens
    BY DEF CiphertextRationed
  <2>1. Delivered(c) \subseteq Winners(c)
    BY <1>3, HandedIsSpent
  <2>2. Cardinality(Delivered(c)) <= Cardinality(Winners(c)) /\ Cardinality(Delivered(c)) \in Nat
    BY <2>1, WinnersFinite, FS_Subset, FS_CardinalityType
  <2>3. Cardinality(Winners(c)) <= creates[c].maxOpens /\ creates[c].maxOpens \in Int
    BY <1>3 DEF LifeInv, IInv, WithinBudget, TypeOK, CreateReq
  <2>. QED  BY <2>2, <2>3, WinnersFinite
<1>. QED  BY <1>1, <1>2, <1>3, PTL DEF Spec
================================================================================
