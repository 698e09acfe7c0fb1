---------------------------- MODULE LinkStoreProofs ----------------------------
(* The safety properties of LinkStore for every number of ids, requests and    *)
(* workers, every budget, lifetime, retention window and clock bound.          *)
EXTENDS LinkStore, FiniteSetTheorems, TLAPS

-------------------------------------------------------------------------------
\* What a handler remembers: an id only while it still needs one, a budget only
\* for a link that is, or is about to be, stored.
RequestsOK ==
  /\ \A c \in Creates :
       /\ creates[c].pc \in {"checked", "stored", "created", "orphaned"} =>
            creates[c].id \in Ids /\ creates[c].maxOpens \in Budgets
       /\ ~Stored(c) => \A o \in Opens : opens[o].won # c
       /\ creates[c].pc \in {"idle", "refused"} => creates[c].maxOpens = Unlimited
  /\ \A o \in Opens :
       /\ opens[o].pc = "read" => opens[o].id \in Ids
       /\ opens[o].pc \in {"idle", "read"} => opens[o].won = None

\* A row belongs to the one stored create that named its id, or is that id's
\* legacy row: so no two rows share a link.
RowsOwned ==
  \A i \in Ids :
    /\ rows[i].status = "absent" <=> rows[i].gen = None
    /\ rows[i].gen \in Ids => rows[i].gen = i
    /\ rows[i].gen \in Creates =>
         /\ Stored(rows[i].gen)
         /\ creates[rows[i].gen].id = i
         /\ creates[rows[i].gen].maxOpens = rows[i].maxOpens

\* An active bounded row has budget left; no row has spent more than its budget.
BudgetLeft ==
  \A i \in Ids : rows[i].status # "absent" /\ rows[i].maxOpens # Unlimited =>
    /\ rows[i].opens <= rows[i].maxOpens
    /\ rows[i].status = "active" => rows[i].opens < rows[i].maxOpens

\* WithinBudget says nothing of a pruned link's row, and OpensAccounted nothing of
\* whose row it is: only together, with the ownership of rows, are they inductive.
IInv ==
  /\ TypeOK
  /\ RequestsOK
  /\ RowsOwned
  /\ BudgetLeft
  /\ OpensAccounted
  /\ WithinBudget

-------------------------------------------------------------------------------
\* The opens that won a link are finitely many.
LEMMA WinnersFinite ==
  ASSUME NEW g
  PROVE  IsFiniteSet(Winners(g)) /\ Cardinality(Winners(g)) \in Nat
<1>1. Winners(g) \subseteq Opens  BY DEF Winners
<1>2. IsFiniteSet(Opens)  BY StoreAssumption DEF StoreAssumption
<1>. QED  BY <1>1, <1>2, FS_Subset, FS_CardinalityType

\* The row edits of the UPDATE statements stay within the table's columns.
LEMMA RowEdits ==
  ASSUME NEW r \in Row, NEW t \in Int, NEW n \in Nat
  PROVE  /\ [r EXCEPT !.status = "revoked", !.terminalAt = t] \in Row
         /\ [r EXCEPT !.status = "expired", !.terminalAt = t] \in Row
         /\ \A last \in BOOLEAN : Closed(r, t, last, n) \in Row
<1>1. [r EXCEPT !.status = "revoked", !.terminalAt = t] \in Row
  BY Zenon DEF Row
<1>2. [r EXCEPT !.status = "expired", !.terminalAt = t] \in Row
  BY Zenon DEF Row
<1>3. Closed(r, t, TRUE, n) \in Row
  <2>1. Closed(r, t, TRUE, n) = [r EXCEPT !.opens = n, !.status = "expired", !.terminalAt = t]
    BY DEF Closed
  <2>2. [r EXCEPT !.opens = n, !.status = "expired", !.terminalAt = t] \in Row
    BY Zenon DEF Row
  <2>. QED  BY <2>1, <2>2
<1>4. Closed(r, t, FALSE, n) \in Row
  BY Zenon DEF Closed, Row
<1>. QED  BY <1>1, <1>2, <1>3, <1>4

\* Init satisfies the invariant: no open has won yet, and live legacy rows have
\* their whole budget.
LEMMA InitIInv ==
  ASSUME Init
  PROVE  IInv
<1>. USE StoreAssumption DEF StoreAssumption
<1>13. PICK L \in SUBSET Ids : \E e \in [L -> 1..MaxLifetime] :
        /\ rows = [i \in Ids |-> IF i \in L THEN NewRow(i, e[i], LegacyBudget) ELSE Absent]
        /\ blobs = [i \in Ids |-> IF i \in L THEN i ELSE None]
  BY DEF Init
<1>14. PICK e \in [L -> 1..MaxLifetime] :
        /\ rows = [i \in Ids |-> IF i \in L THEN NewRow(i, e[i], LegacyBudget) ELSE Absent]
        /\ blobs = [i \in Ids |-> IF i \in L THEN i ELSE None]
  BY <1>13
<1>1. /\ now = 0 /\ sweep = [w \in Workers |-> "idle"] /\ purged = {}
      /\ creates = [c \in Creates |-> NoCreate("idle")]
      /\ opens = [o \in Opens |-> NoOpen("idle", None)]
  BY DEF Init
<1>2. \A i \in L : rows[i] = NewRow(i, e[i], LegacyBudget) /\ e[i] \in Nat
  BY <1>14
<1>11. \A i \in Ids \ L : rows[i] = Absent
  BY <1>14
<1>12. \A i \in Ids : /\ rows[i].opens = 0
                      /\ \/ /\ rows[i].status = "absent"
                            /\ rows[i].gen = None
                            /\ rows[i].maxOpens = Unlimited
                         \/ /\ rows[i].status = "active"
                            /\ rows[i].gen = i
                            /\ rows[i].maxOpens = LegacyBudget
  <2>1. ASSUME NEW i \in L PROVE /\ rows[i].opens = 0 /\ rows[i].status = "active"
                                 /\ rows[i].gen = i /\ rows[i].maxOpens = LegacyBudget
    <3>1. rows[i] = NewRow(i, e[i], LegacyBudget)  BY <1>2
    <3>. QED  BY <3>1 DEF NewRow
  <2>2. ASSUME NEW i \in Ids \ L PROVE /\ rows[i].opens = 0 /\ rows[i].status = "absent"
                                       /\ rows[i].gen = None /\ rows[i].maxOpens = Unlimited
    BY <1>11 DEF Absent
  <2>. QED  BY <2>1, <2>2
<1>3. rows \in [Ids -> Row]
  <2>1. \A i \in L : NewRow(i, e[i], LegacyBudget) \in Row
    BY <1>2, SMT DEF NewRow, Row, Gens, NullTime, Unlimited
  <2>2. Absent \in Row
    BY DEF Absent, Row, NullTime, Unlimited
  <2>. QED  BY <1>14, <2>1, <2>2
<1>4. TypeOK
  <2>1. blobs \in [Ids -> Gens \cup {None}]  BY <1>14 DEF Gens
  <2>2. creates \in [Creates -> CreateReq]
    BY <1>1 DEF NoCreate, CreateReq, NullTime, Unlimited
  <2>3. opens \in [Opens -> OpenReq]  BY <1>1 DEF NoOpen, OpenReq
  <2>. QED  BY <1>1, <1>3, <2>1, <2>2, <2>3 DEF TypeOK
<1>5. \A g \in Gens : Winners(g) = {}
  BY <1>1 DEF Winners, NoOpen
<1>6. RequestsOK
  BY <1>1 DEF RequestsOK, NoCreate, NoOpen, Stored, Gens
<1>7. RowsOwned
  BY <1>12 DEF RowsOwned, Gens
<1>8. BudgetLeft
  BY <1>12 DEF BudgetLeft, Unlimited
<1>9. OpensAccounted
  BY <1>12, <1>5, FS_EmptySet DEF OpensAccounted, Gens
<1>10. WithinBudget
  BY <1>1 DEF WithinBudget, NoCreate
<1>. QED  BY <1>4, <1>6, <1>7, <1>8, <1>9, <1>10 DEF IInv

-------------------------------------------------------------------------------
\* Every step keeps the types.  A handler's id is a real id where it indexes a row.
LEMMA TypeStep ==
  ASSUME TypeOK, RequestsOK, RowsOwned, [Next]_vars
  PROVE  TypeOK'
<1>. USE StoreAssumption DEF StoreAssumption
<1>. USE DEF TypeOK, NullTime, Unlimited, Gens
<1>1. CASE UNCHANGED vars
  BY <1>1 DEF vars
<1>2. CASE Tick
  BY <1>2 DEF Tick
<1>3. ASSUME NEW c \in Creates, NEW i \in Ids, NEW e \in 1..(MaxTime + MaxLifetime),
             NEW m \in Budgets, CreateCheck(c, i, e, m)
      PROVE  TypeOK'
  BY <1>3 DEF CreateCheck, CreateReq, NoCreate
<1>4. ASSUME NEW c \in Creates, CreateInsert(c)
      PROVE  TypeOK'
  <2>1. creates[c].id \in Ids /\ creates[c] \in CreateReq
    BY <1>4 DEF CreateInsert, RequestsOK
  <2>2. NewRow(c, creates[c].expiresAt, creates[c].maxOpens) \in Row
    BY <2>1 DEF NewRow, Row, CreateReq
  <2>. QED  BY <1>4, <2>1, <2>2 DEF CreateInsert, CreateReq, NoCreate
<1>5. ASSUME NEW c \in Creates, CreateRespond(c) \/ LoseCreate(c)
      PROVE  TypeOK'
  BY <1>5 DEF CreateRespond, LoseCreate, CreateReq, NoCreate
<1>6. ASSUME NEW o \in Opens, NEW i \in Ids, OpenReadBlob(o, i)
      PROVE  TypeOK'
  BY <1>6 DEF OpenReadBlob, OpenReq
<1>7. ASSUME NEW o \in Opens, OpenIncrement(o)
      PROVE  TypeOK'
  <2>1. opens[o].id \in Ids /\ opens[o] \in OpenReq /\ rows[opens[o].id] \in Row
    BY <1>7 DEF OpenIncrement, RequestsOK
  <2>2. Consumed(rows[opens[o].id], now) \in Row
    <3>1. rows[opens[o].id].opens + 1 \in Nat /\ now \in Int
      BY <2>1 DEF Row
    <3>. QED  BY <2>1, <3>1, RowEdits DEF Consumed
  <2>. QED  BY <1>7, <2>1, <2>2 DEF OpenIncrement, OpenReq, NoOpen, Row
<1>8. ASSUME NEW o \in Opens, OpenRespond(o) \/ LoseOpen(o)
      PROVE  TypeOK'
  BY <1>8 DEF OpenRespond, LoseOpen, OpenReq, NoOpen
<1>9. ASSUME NEW i \in Ids, AdminPurge(i) \/ \E t \in Tokens : Revoke(i, t)
      PROVE  TypeOK'
  <2>1. Withdraw(i) => rows' \in [Ids -> Row] /\ blobs' \in [Ids -> Gens \cup {None}]
    <3>1. rows[i] \in Row /\ now \in Int
      OBVIOUS
    <3>2. [rows[i] EXCEPT !.status = "revoked", !.terminalAt = now] \in Row
      BY <3>1, RowEdits, Zenon
    <3>. QED  BY <3>2 DEF Withdraw
  <2>2. rows[i].status = "active" /\ RowsOwned => rows[i].gen \in Gens
    BY DEF RowsOwned, Row
  <2>. QED  BY <1>9, <2>1, <2>2 DEF AdminPurge, Revoke
<1>10. ASSUME NEW w \in Workers, Sweep(w) \/ SweepAbort(w)
       PROVE  TypeOK'
  <2>1. CASE SweepExpire(w)
    <3>1. ASSUME NEW i \in Ids
          PROVE  [rows[i] EXCEPT !.status = "expired", !.terminalAt = now] \in Row
      <4>1. rows[i] \in Row /\ now \in Int
        OBVIOUS
      <4>. QED  BY <4>1, RowEdits, Zenon
    <3>. QED  BY <2>1, <3>1 DEF SweepExpire
  <2>2. CASE SweepErase(w) \/ SweepAbort(w)
    BY <2>2 DEF SweepErase, SweepAbort
  <2>3. CASE SweepPrune(w)
    <3>1. Absent \in Row  BY DEF Absent, Row
    <3>. QED  BY <2>3, <3>1 DEF SweepPrune
  <2>. QED  BY <1>10, <2>1, <2>2, <2>3 DEF Sweep
<1>. QED
  BY <1>1, <1>2, <1>3, <1>4, <1>5, <1>6, <1>7, <1>8, <1>9, <1>10 DEF Next, CreateStep, OpenStep

-------------------------------------------------------------------------------
\* A step that leaves the rows, the wins and every stored create's body alone
\* keeps the invariant, whatever else the handlers do.
LEMMA HandlerFrame ==
  ASSUME IInv, TypeOK', RequestsOK',
         rows' = rows,
         \A o \in Opens : opens'[o].won = opens[o].won,
         \A c \in Creates : /\ Stored(c)' <=> Stored(c)
                            /\ Stored(c) => /\ creates'[c].id = creates[c].id
                                            /\ creates'[c].maxOpens = creates[c].maxOpens
  PROVE  IInv'
<1>. USE StoreAssumption DEF StoreAssumption
<1>1. \A g : Winners(g)' = Winners(g)
  BY DEF Winners
<1>2. RowsOwned' /\ BudgetLeft'
  BY DEF IInv, RowsOwned, BudgetLeft, Stored
<1>3. OpensAccounted'
  BY <1>1 DEF IInv, OpensAccounted
<1>4. WithinBudget'
  <2>. SUFFICES ASSUME NEW c \in Creates, creates'[c].maxOpens # Unlimited
                PROVE  Cardinality(Winners(c)') <= creates'[c].maxOpens
    BY DEF WithinBudget
  <2>1. CASE Stored(c)
    BY <1>1, <2>1 DEF IInv, WithinBudget
  <2>2. CASE ~Stored(c)
    <3>1. Winners(c)' = {}
      BY <1>1, <2>2 DEF IInv, RequestsOK, Winners
    <3>2. creates'[c].maxOpens \in Budgets
      BY <2>2 DEF RequestsOK, TypeOK, CreateReq, Stored
    <3>3. Cardinality(Winners(c)') = 0
      BY <3>1, FS_EmptySet
    <3>4. creates'[c].maxOpens \in Nat
      BY <3>2 DEF Unlimited
    <3>. QED  BY <3>3, <3>4
  <2>. QED  BY <2>1, <2>2
<1>. QED  BY <1>2, <1>3, <1>4 DEF IInv

\* A step that only closes or deletes rows keeps the invariant.
LEMMA RowFrame ==
  ASSUME IInv, TypeOK', creates' = creates, opens' = opens,
         \A i \in Ids : \/ rows'[i] = rows[i]
                        \/ rows'[i].gen = None /\ rows'[i].status = "absent"
                        \/ /\ rows'[i].gen = rows[i].gen
                           /\ rows'[i].maxOpens = rows[i].maxOpens
                           /\ rows'[i].opens = rows[i].opens
                           /\ rows[i].status # "absent"
                           /\ rows'[i].status \in Terminal
  PROVE  IInv'
<1>. USE StoreAssumption DEF StoreAssumption
<1>1. \A g : Winners(g)' = Winners(g)
  BY DEF Winners
<1>2. RequestsOK' /\ WithinBudget'
  BY <1>1 DEF IInv, RequestsOK, WithinBudget, Stored
<1>3. RowsOwned'
  BY DEF IInv, RowsOwned, Stored, Terminal, Gens
<1>4. BudgetLeft'
  BY DEF IInv, BudgetLeft, Terminal
<1>5. OpensAccounted'
  BY <1>1 DEF IInv, OpensAccounted, Terminal
<1>. QED  BY <1>2, <1>3, <1>4, <1>5 DEF IInv

\* Every step keeps the invariant: the frames above, and the two statements that
\* create a row or count an open.
LEMMA StepIInv ==
  ASSUME IInv, [Next]_vars
  PROVE  IInv'
<1>. USE StoreAssumption DEF StoreAssumption
<1>0. TypeOK /\ TypeOK'
  BY TypeStep DEF IInv
<1>1. CASE UNCHANGED vars \/ Tick
  <2>1. UNCHANGED <<rows, creates, opens>>
    BY <1>1 DEF vars, Tick
  <2>. QED  BY <1>0, <2>1, RowFrame
<1>2. ASSUME NEW c \in Creates, NEW i \in Ids, NEW e \in 1..(MaxTime + MaxLifetime),
             NEW m \in Budgets, CreateCheck(c, i, e, m)
      PROVE  IInv'
  <2>1. RequestsOK'
    BY <1>0, <1>2 DEF IInv, TypeOK, RequestsOK, CreateCheck, NoCreate, Stored, CreateReq
  <2>2. \A d \in Creates : /\ Stored(d)' <=> Stored(d)
                           /\ Stored(d) => creates'[d] = creates[d]
    BY <1>0, <1>2 DEF TypeOK, CreateCheck, NoCreate, Stored, CreateReq
  <2>. QED  BY <1>0, <1>2, <2>1, <2>2, HandlerFrame DEF CreateCheck
<1>3. ASSUME NEW c \in Creates, CreateRespond(c) \/ LoseCreate(c)
      PROVE  IInv'
  <2>1. RequestsOK'
    BY <1>0, <1>3 DEF IInv, TypeOK, RequestsOK, CreateRespond, LoseCreate, NoCreate, Stored, CreateReq
  <2>2. \A d \in Creates : /\ Stored(d)' <=> Stored(d)
                           /\ Stored(d) => /\ creates'[d].id = creates[d].id
                                           /\ creates'[d].maxOpens = creates[d].maxOpens
    BY <1>0, <1>3 DEF TypeOK, CreateRespond, LoseCreate, NoCreate, Stored, CreateReq
  <2>. QED  BY <1>0, <1>3, <2>1, <2>2, HandlerFrame DEF CreateRespond, LoseCreate
<1>4. ASSUME NEW o \in Opens,
             \/ \E i \in Ids : OpenReadBlob(o, i)
             \/ OpenRespond(o) \/ LoseOpen(o)
      PROVE  IInv'
  <2>1. RequestsOK'
    BY <1>0, <1>4 DEF IInv, TypeOK, RequestsOK, OpenReadBlob, OpenRespond, LoseOpen, NoOpen, Stored, OpenReq
  <2>2. \A p \in Opens : opens'[p].won = opens[p].won
    BY <1>0, <1>4 DEF IInv, TypeOK, RequestsOK, OpenReadBlob, OpenRespond, LoseOpen, NoOpen, OpenReq
  <2>. QED  BY <1>0, <1>4, <2>1, <2>2, HandlerFrame DEF OpenReadBlob, OpenRespond, LoseOpen, Stored
<1>5. ASSUME NEW i \in Ids, AdminPurge(i) \/ \E t \in Tokens : Revoke(i, t)
      PROVE  IInv'
  <2>1. \A j \in Ids : \/ rows'[j] = rows[j]
                       \/ /\ rows'[j].gen = rows[j].gen
                          /\ rows'[j].maxOpens = rows[j].maxOpens
                          /\ rows'[j].opens = rows[j].opens
                          /\ rows[j].status # "absent"
                          /\ rows'[j].status \in Terminal
    BY <1>0, <1>5 DEF TypeOK, AdminPurge, Revoke, Withdraw, Row, Terminal
  <2>. QED  BY <1>0, <1>5, <2>1, RowFrame DEF AdminPurge, Revoke
<1>6. ASSUME NEW w \in Workers, Sweep(w) \/ SweepAbort(w)
      PROVE  IInv'
  <2>1. \A j \in Ids : \/ rows'[j] = rows[j]
                       \/ rows'[j].gen = None /\ rows'[j].status = "absent"
                       \/ /\ rows'[j].gen = rows[j].gen
                          /\ rows'[j].maxOpens = rows[j].maxOpens
                          /\ rows'[j].opens = rows[j].opens
                          /\ rows[j].status # "absent"
                          /\ rows'[j].status \in Terminal
    <3>1. CASE SweepExpire(w)
      <4>. TAKE j \in Ids
      <4>1. rows[j] \in Row
        BY <1>0 DEF TypeOK
      <4>2. CASE rows[j].status = "active" /\ PastDue(j)
        <5>1. rows'[j] = [rows[j] EXCEPT !.status = "expired", !.terminalAt = now]
          BY <3>1, <4>2 DEF SweepExpire
        <5>. QED  BY <4>1, <4>2, <5>1 DEF Row, Terminal
      <4>3. CASE ~(rows[j].status = "active" /\ PastDue(j))
        BY <3>1, <4>3 DEF SweepExpire
      <4>. QED  BY <4>2, <4>3
    <3>2. CASE SweepErase(w) \/ SweepAbort(w)
      BY <3>2 DEF SweepErase, SweepAbort
    <3>3. CASE SweepPrune(w)
      <4>1. Absent.gen = None /\ Absent.status = "absent"
        BY DEF Absent
      <4>2. \A j \in Ids : rows'[j] = rows[j] \/ rows'[j] = Absent
        BY <3>3 DEF SweepPrune
      <4>. QED  BY <4>1, <4>2
    <3>. QED  BY <1>6, <3>1, <3>2, <3>3 DEF Sweep
  <2>. QED  BY <1>0, <1>6, <2>1, RowFrame DEF Sweep, SweepExpire, SweepErase, SweepPrune, SweepAbort
<1>7. ASSUME NEW c \in Creates, CreateInsert(c)
      PROVE  IInv'
  <2> DEFINE i == creates[c].id
  <2>1. /\ i \in Ids /\ creates[c].maxOpens \in Budgets
        /\ ~Stored(c)
        /\ Winners(c) = {}
    BY <1>7 DEF IInv, RequestsOK, CreateInsert, Stored, Winners
  <2>5. creates[c].maxOpens # Unlimited =>
          creates[c].maxOpens \in Nat /\ creates[c].maxOpens # 0
    BY <2>1 DEF Unlimited
  <2>2. RequestsOK'
    BY <1>0, <1>7 DEF IInv, TypeOK, RequestsOK, CreateInsert, NoCreate, Stored, CreateReq
  <2>3. CASE ~KeyFree(i)
    <3>1. \A d \in Creates : /\ Stored(d)' <=> Stored(d)
                             /\ Stored(d) => creates'[d] = creates[d]
      BY <1>0, <1>7, <2>3 DEF TypeOK, CreateInsert, NoCreate, Stored, CreateReq
    <3>. QED  BY <1>0, <1>7, <2>2, <2>3, <3>1, HandlerFrame DEF CreateInsert
  <2>4. CASE KeyFree(i)
    <3>1. /\ rows' = [rows EXCEPT ![i] = NewRow(c, creates[c].expiresAt, creates[c].maxOpens)]
          /\ creates' = [creates EXCEPT ![c].pc = "stored"]
          /\ opens' = opens
      BY <1>7, <2>4 DEF CreateInsert
    <3>2. /\ rows'[i].gen = c /\ rows'[i].status = "active" /\ rows'[i].opens = 0
          /\ rows'[i].maxOpens = creates[c].maxOpens
      BY <1>0, <2>1, <3>1 DEF TypeOK, NewRow
    <3>3. \A j \in Ids \ {i} : rows'[j] = rows[j] /\ rows[j].gen # c
      BY <1>0, <2>1, <3>1 DEF IInv, TypeOK, RowsOwned
    <3>4. /\ \A d \in Creates : Stored(d)' <=> Stored(d) \/ d = c
          /\ \A d \in Creates : /\ creates'[d].id = creates[d].id
                                /\ creates'[d].maxOpens = creates[d].maxOpens
      BY <1>0, <3>1 DEF TypeOK, Stored, CreateReq
    <3>5. \A g : Winners(g)' = Winners(g)
      BY <3>1 DEF Winners
    <3>6. RowsOwned'
      <4>. SUFFICES ASSUME NEW j \in Ids PROVE RowsOwned!(j)'
        BY DEF RowsOwned
      <4>1. CASE j = i
        BY <3>2, <3>4, <4>1, <2>1 DEF Gens
      <4>2. CASE j # i
        BY <3>3, <3>4, <4>2 DEF IInv, RowsOwned
      <4>. QED  BY <4>1, <4>2
    <3>7. BudgetLeft'
      <4>1. rows'[i].maxOpens # Unlimited =>
              rows'[i].opens <= rows'[i].maxOpens /\ rows'[i].opens < rows'[i].maxOpens
        BY <2>5, <3>2
      <4>. QED  BY <3>3, <4>1 DEF IInv, BudgetLeft
    <3>8. OpensAccounted'
      BY <2>1, <3>2, <3>3, <3>5, FS_EmptySet DEF IInv, OpensAccounted
    <3>9. WithinBudget'
      <4>1. Cardinality(Winners(c)') = 0
        BY <2>1, <3>5, FS_EmptySet
      <4>. QED  BY <2>5, <3>4, <3>5, <4>1 DEF IInv, WithinBudget
    <3>. QED  BY <1>0, <2>2, <3>6, <3>7, <3>8, <3>9 DEF IInv
  <2>. QED  BY <2>3, <2>4
<1>8. ASSUME NEW o \in Opens, OpenIncrement(o)
      PROVE  IInv'
  <2>0. opens[o].id \in Ids /\ opens[o].won = None
    BY <1>8 DEF IInv, RequestsOK, OpenIncrement
  <2>1. PICK i \in Ids : i = opens[o].id
    BY <2>0
  <2>2. CASE ~Openable(i)
    <3>1. RequestsOK' /\ \A p \in Opens : opens'[p].won = opens[p].won
      BY <1>0, <1>8, <2>0, <2>1, <2>2
      DEF IInv, TypeOK, RequestsOK, OpenIncrement, NoOpen, Stored, OpenReq
    <3>. QED  BY <1>0, <1>8, <2>1, <2>2, <3>1, HandlerFrame DEF OpenIncrement, Stored
  <2>3. CASE Openable(i)
    <3>14. /\ rows[i] \in Row /\ rows[i].status = "active"
           /\ rows[i].gen \in Gens
      BY <1>0, <2>1, <2>3 DEF IInv, TypeOK, RowsOwned, Openable, Row
    <3>15. PICK g \in Gens : g = rows[i].gen
      BY <3>14
    <3>2. /\ rows[i] \in Row /\ rows[i].status = "active"
          /\ g \in Gens /\ g = rows[i].gen
      BY <3>14, <3>15
    <3>1. /\ rows' = [rows EXCEPT ![i] = Consumed(rows[i], now)]
          /\ opens' = [opens EXCEPT ![o].pc = "won", ![o].won = g]
          /\ creates' = creates
      BY <1>8, <2>1, <2>3, <3>2 DEF OpenIncrement
    <3>3. /\ rows'[i].gen = g /\ rows'[i].maxOpens = rows[i].maxOpens
          /\ rows'[i].opens = rows[i].opens + 1
          /\ rows'[i].status = IF rows[i].maxOpens # Unlimited
                                  /\ rows[i].opens + 1 >= rows[i].maxOpens
                               THEN "expired" ELSE "active"
      BY <1>0, <2>1, <3>1, <3>2 DEF TypeOK, Consumed, Closed, Row
    <3>4. \A j \in Ids \ {i} : rows'[j] = rows[j]
      BY <1>0, <2>1, <3>1 DEF TypeOK
    <3>5. \A j \in Ids \ {i} : rows[j].gen # g
      BY <2>1, <3>2 DEF IInv, RowsOwned, Gens
    <3>6. o \notin Winners(g) /\ Winners(g)' = Winners(g) \cup {o}
      BY <1>0, <2>0, <3>1, <3>2 DEF TypeOK, Winners, OpenReq, Gens
    <3>7. \A h : h # g => Winners(h)' = Winners(h) \/ h = None
      BY <1>0, <2>0, <3>1 DEF TypeOK, Winners, OpenReq
    <3>8. Cardinality(Winners(g)') = Cardinality(Winners(g)) + 1
      BY <3>6, WinnersFinite, FS_AddElement
    <3>9. RequestsOK'
      BY <1>0, <2>0, <2>1, <3>1, <3>2 DEF IInv, TypeOK, RequestsOK, RowsOwned, Stored, OpenReq
    <3>10. RowsOwned'
      BY <2>1, <3>1, <3>2, <3>3, <3>4 DEF IInv, RowsOwned, Stored
    <3>11. BudgetLeft'
      BY <2>1, <3>2, <3>3, <3>4 DEF IInv, BudgetLeft, Row
    <3>12. OpensAccounted'
      <4>. SUFFICES ASSUME NEW j \in Ids, NEW h \in Gens, h = rows'[j].gen,
                           rows'[j].status # "absent"
                    PROVE  rows'[j].opens = Cardinality(Winners(h)')
        BY <1>0, <3>10 DEF OpensAccounted, TypeOK, RowsOwned, Row
      <4>1. CASE j = i
        <5>1. rows[i].opens = Cardinality(Winners(g))
          BY <3>2 DEF IInv, OpensAccounted
        <5>. QED  BY <3>3, <3>8, <4>1, <5>1
      <4>2. CASE j # i
        <5>1. h = rows[j].gen /\ h # g /\ h # None /\ rows[j].status # "absent"
          BY <3>4, <3>5, <4>2 DEF Gens
        <5>2. Winners(h)' = Winners(h)
          BY <3>7, <5>1
        <5>3. rows[j].opens = Cardinality(Winners(h))
          BY <5>1 DEF IInv, OpensAccounted
        <5>. QED  BY <3>4, <4>2, <5>2, <5>3
      <4>. QED  BY <4>1, <4>2
    <3>13. WithinBudget'
      <4>. SUFFICES ASSUME NEW c \in Creates, creates[c].maxOpens # Unlimited
                    PROVE  Cardinality(Winners(c)') <= creates[c].maxOpens
        BY <3>1 DEF WithinBudget
      <4>1. CASE c # g
        BY <3>7, <4>1 DEF IInv, WithinBudget, Gens
      <4>2. CASE c = g
        <5>1. creates[c].maxOpens = rows[i].maxOpens
          BY <3>2, <4>2 DEF IInv, RowsOwned
        <5>2. rows[i].opens = Cardinality(Winners(g))
          BY <3>2 DEF IInv, OpensAccounted
        <5>3. rows[i].opens < rows[i].maxOpens
          BY <3>2, <5>1 DEF IInv, BudgetLeft
        <5>4. rows[i].maxOpens \in Int /\ rows[i].opens \in Nat
          BY <3>2 DEF Row
        <5>5. Cardinality(Winners(g)') <= creates[c].maxOpens
          BY <3>8, <5>1, <5>2, <5>3, <5>4
        <5>. QED  BY <4>2, <5>5
      <4>. QED  BY <4>1, <4>2
    <3>. QED  BY <1>0, <3>9, <3>10, <3>11, <3>12, <3>13 DEF IInv
  <2>. QED  BY <2>2, <2>3
<1>. QED
  BY <1>1, <1>2, <1>3, <1>4, <1>5, <1>6, <1>7, <1>8 DEF Next, CreateStep, OpenStep

-------------------------------------------------------------------------------
\* The invariant holds in every reachable state.
THEOREM InvariantHolds == Spec => []IInv
<1>1. Init => IInv
  BY InitIInv
<1>2. IInv /\ [Next]_vars => IInv'
  BY StepIInv
<1>. QED  BY <1>1, <1>2, PTL DEF Spec

\* Every variable keeps its type: no handler is left holding an id that names no
\* row, and no sweep leaves a row outside the table's columns.
THEOREM TypeCorrect == Spec => []TypeOK
<1>1. IInv => TypeOK
  BY DEF IInv
<1>. QED  BY <1>1, InvariantHolds, PTL

\* A bounded link is opened at most maxOpens times in its whole history, however
\* opens, revocations, sweeps, prunes and re-creations of its id interleave.
THEOREM BudgetNeverExceeded == Spec => []WithinBudget
<1>1. IInv => WithinBudget
  BY DEF IInv
<1>. QED  BY <1>1, InvariantHolds, PTL

\* opens_count equals the number of opens that were granted (incrementOpens).
THEOREM OpensCountExact == Spec => []OpensAccounted
<1>1. IInv => OpensAccounted
  BY DEF IInv
<1>. QED  BY <1>1, InvariantHolds, PTL
================================================================================
