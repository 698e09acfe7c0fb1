------------------------- MODULE IdentityMachineProofs -------------------------
(* The identity machine's types for every number of overlapping calls, and the *)
(* safety of its keys for every number of keys when calls do not overlap.      *)
EXTENDS IdentityMachine, TLAPS

-------------------------------------------------------------------------------
\* What a call needs to hold by the time its next step uses it.
Shaped(c, r) ==
  /\ r.pc \in {"create", "persist", "adopt", "retain", "flip", "publish"} => r.fresh \in Keys
  /\ \/ r.pc \in {"persist", "adopt", "unwrap", "enter", "rewrap",
                  "load", "retain", "flip", "publish"}
     \/ c \in Rotates /\ r.pc = "prompt"
     => r.held \in Wrapped

CallsShaped == \A c \in Calls : Shaped(c, calls[c])

\* TypeOK alone lets a call write a key it does not hold.
ShapeInv == TypeOK /\ CallsShaped

-------------------------------------------------------------------------------
\* The awaits a call may be suspended at.
PCs == {"idle", "create", "persist", "adopt", "prompt", "unwrap", "enter",
        "rewrap", "load", "retain", "flip", "publish",
        "dropActive", "dropRetired", "dropSecret", "dropBlobs", "leave"}

Lists == SUBSET [key : Keys, secret : Secrets]

\* Editing a call's fields leaves a call.
LEMMA CallEdits ==
  ASSUME NEW r \in Call, NEW p \in PCs
  PROVE  /\ [r EXCEPT !.pc = p] \in Call
         /\ \A b \in BOOLEAN : [r EXCEPT !.prompted = b] \in Call
         /\ \A h \in Wrapped \cup {NoEnvelope} : [r EXCEPT !.pc = p, !.held = h] \in Call
         /\ \A k \in Keys \cup {None} : [r EXCEPT !.pc = p, !.fresh = k] \in Call
         /\ \A h \in Wrapped \cup {NoEnvelope}, S \in SUBSET Keys :
           [r EXCEPT !.pc = p, !.held = h, !.older = S] \in Call
         /\ \A b \in BOOLEAN : [r EXCEPT !.pc = p, !.prompted = b] \in Call
         /\ \A S \in SUBSET Keys : [r EXCEPT !.pc = p, !.older = S] \in Call
         /\ \A h \in Wrapped \cup {NoEnvelope}, b \in BOOLEAN :
           [r EXCEPT !.pc = p, !.held = h, !.prompted = b] \in Call
         /\ \A k \in Keys \cup {None}, L \in Lists :
           [r EXCEPT !.pc = p, !.fresh = k, !.list = L] \in Call
<1>1. [r EXCEPT !.pc = p] \in Call
  BY DEF Call, PCs, Lists
<1>2. \A b \in BOOLEAN : [r EXCEPT !.prompted = b] \in Call
  BY DEF Call, PCs, Lists
<1>3. \A h \in Wrapped \cup {NoEnvelope} : [r EXCEPT !.pc = p, !.held = h] \in Call
  BY DEF Call, PCs, Lists
<1>4. \A k \in Keys \cup {None} : [r EXCEPT !.pc = p, !.fresh = k] \in Call
  BY DEF Call, PCs, Lists
<1>5. \A h \in Wrapped \cup {NoEnvelope}, S \in SUBSET Keys : [r EXCEPT !.pc = p, !.held = h, !.older = S] \in Call
  BY DEF Call, PCs, Lists
<1>6. \A b \in BOOLEAN : [r EXCEPT !.pc = p, !.prompted = b] \in Call
  BY DEF Call, PCs, Lists
<1>7. \A S \in SUBSET Keys : [r EXCEPT !.pc = p, !.older = S] \in Call
  BY DEF Call, PCs, Lists
<1>8. \A h \in Wrapped \cup {NoEnvelope}, b \in BOOLEAN : [r EXCEPT !.pc = p, !.held = h, !.prompted = b] \in Call
  BY DEF Call, PCs, Lists
<1>9. \A k \in Keys \cup {None}, L \in Lists : [r EXCEPT !.pc = p, !.fresh = k, !.list = L] \in Call
  BY DEF Call, PCs, Lists
<1>. QED  BY <1>1, <1>2, <1>3, <1>4, <1>5, <1>6, <1>7, <1>8, <1>9

\* A suspended call's fields have their types; so does a call at rest.
LEMMA CallFields ==
  ASSUME NEW r \in Call
  PROVE  /\ r.pc \in PCs
         /\ r.held \in Wrapped \cup {NoEnvelope}
         /\ r.fresh \in Keys \cup {None}
         /\ r.list \in Lists
         /\ r.older \in SUBSET Keys
         /\ r.prompted \in BOOLEAN
  BY DEF Call, PCs, Lists

LEMMA RestingIsCall == Resting \in Call /\ \A c \in Calls : Shaped(c, Resting)
<1>1. Resting \in Call
  BY DEF Resting, Call
<1>. QED  BY <1>1 DEF Resting, Shaped

\* A step of one call that leaves it shaped leaves all of them shaped.
LEMMA OneCallMoves ==
  ASSUME ShapeInv, NEW c \in Calls, NEW n \in Call, Shaped(c, n),
         calls' = [calls EXCEPT ![c] = n]
  PROVE  calls' \in [Calls -> Call] /\ CallsShaped'
<1>1. calls' \in [Calls -> Call]
  BY DEF ShapeInv, TypeOK
<1>2. \A d \in Calls : calls'[d] = IF d = c THEN n ELSE calls[d]
  BY DEF ShapeInv, TypeOK
<1>3. ASSUME NEW d \in Calls PROVE Shaped(d, calls'[d])
  <2>1. CASE d = c
    BY <1>2, <2>1
  <2>2. CASE d # c
    BY <1>2, <2>2 DEF ShapeInv, CallsShaped
  <2>. QED  BY <2>1, <2>2
<1>. QED  BY <1>1, <1>3 DEF CallsShaped, Shaped

LEMMA SettleShape ==
  ASSUME ShapeInv, NEW c \in Calls, Settle(c)
  PROVE  calls' \in [Calls -> Call] /\ CallsShaped'
  BY OneCallMoves, RestingIsCall DEF Settle

\* The history of the keys keeps its type.
LEMMA AnnounceType ==
  ASSUME TypeOK, NEW k \in Keys, Announce(k)
  PROVE  fate' \in [Keys -> {"unmade", "made", "kept", "doomed", "wiped"}]
  BY DEF TypeOK, Announce

\* The session records the machine publishes.
LEMMA Sessions ==
  /\ \A s \in {"loading", "no_identity", "locked"} : Without(s) \in Session
  /\ \A k \in Keys, S \in SUBSET Keys : Unlocked(k, S) \in Session
  /\ \A u \in Session : u.status = "unlocked" => u.active \in Keys /\ u.older \in SUBSET Keys
<1>1. ASSUME NEW u \in Session, u.status = "unlocked"
      PROVE  u.active \in Keys /\ u.older \in SUBSET Keys
  <2>1. ASSUME NEW s \in {"loading", "no_identity", "locked"}, u = Without(s)
        PROVE  FALSE
    BY <1>1, <2>1 DEF Without
  <2>2. PICK k \in Keys, S \in SUBSET Keys : u = Unlocked(k, S)
    BY <2>1 DEF Session
  <2>. QED  BY <2>2 DEF Unlocked
<1>2. \A s \in {"loading", "no_identity", "locked"} : Without(s) \in Session
  BY DEF Session
<1>3. \A k \in Keys, S \in SUBSET Keys : Unlocked(k, S) \in Session
  BY DEF Session
<1>. QED  BY <1>1, <1>2, <1>3

-------------------------------------------------------------------------------
LEMMA InitShape == Init => ShapeInv
<1>. SUFFICES ASSUME Init PROVE ShapeInv
  OBVIOUS
<1>1. calls \in [Calls -> Call] /\ CallsShaped
  BY RestingIsCall DEF Init, CallsShaped
<1>2. 0 \in Secrets /\ 1 \in Secrets
  BY MachineAssumption DEF MachineAssumption, Secrets
<1>3. CASE /\ envelope = NoEnvelope
           /\ fate = [k \in Keys |-> "unmade"]
  <2>1. secret = 0 /\ minted = 0
    BY <1>3 DEF Init, NoEnvelope
  <2>. QED  BY <1>1, <1>2, <1>3, <2>1, Sessions DEF Init, ShapeInv, TypeOK
<1>4. ASSUME NEW k \in Keys, NEW h \in Heavy,
             envelope = [key |-> k, secret |-> 1, heavy |-> h],
             fate = [j \in Keys |-> IF j = k THEN "kept" ELSE "unmade"]
      PROVE  ShapeInv
  <2>1. envelope \in Wrapped
    BY <1>2, <1>4, MachineAssumption DEF MachineAssumption, Wrapped
  <2>2. secret = 1 /\ minted = 1
    BY <1>4 DEF Init
  <2>. QED  BY <1>1, <1>2, <1>4, <2>1, <2>2, Sessions DEF Init, ShapeInv, TypeOK
<1>. QED  BY <1>3, <1>4 DEF Init

-------------------------------------------------------------------------------
\* The parts of TypeOK outside the calls.
RestOK ==
  /\ envelope \in Wrapped \cup {NoEnvelope}
  /\ retired \subseteq [key : Keys, secret : Secrets]
  /\ secret \in Secrets
  /\ blobs \in BOOLEAN
  /\ session \in Session
  /\ minted \in Secrets
  /\ fate \in [Keys -> {"unmade", "made", "kept", "doomed", "wiped"}]

LEMMA ShapeParts == ShapeInv <=> RestOK /\ calls \in [Calls -> Call] /\ CallsShaped
  BY DEF ShapeInv, TypeOK, RestOK

\* A setup's steps.
LEMMA SetupShape ==
  ASSUME ShapeInv, NEW c \in Setups, SetupStep(c)
  PROVE  ShapeInv'
<1>. DEFINE r == calls[c]
<1>0. /\ RestOK /\ c \in Calls /\ r \in Call /\ Shaped(c, r)
      /\ calls \in [Calls -> Call] /\ 0 \in Secrets
  BY MachineAssumption DEF ShapeInv, TypeOK, RestOK, CallsShaped, Calls, MachineAssumption, Secrets
<1>1. ASSUME NEW k \in Keys, SetupStart(c, k) PROVE ShapeInv'
  <2>. DEFINE n == [Resting EXCEPT !.pc = "create", !.fresh = k]
  <2>1. n \in Call
    BY RestingIsCall, CallEdits DEF PCs
  <2>2. Shaped(c, n)
    BY DEF Shaped, Resting
  <2>3. calls' = [calls EXCEPT ![c] = n]
    BY <1>0, <1>1 DEF SetupStart
  <2>4. calls' \in [Calls -> Call] /\ CallsShaped'
    <3>. HIDE DEF n
    <3>. QED  BY <1>0, <2>1, <2>2, <2>3, OneCallMoves
  <2>5. RestOK'
    BY <1>0, <1>1 DEF RestOK, SetupStart, disk
  <2>. QED  BY <2>4, <2>5 DEF ShapeInv, TypeOK, RestOK
<1>2. ASSUME SetupSecret(c) PROVE ShapeInv'
  <2>. DEFINE n == [calls[c] EXCEPT !.pc = "persist",
             !.held = [key |-> r.fresh, secret |-> minted', heavy |-> FALSE]]
  <2>0. /\ minted' \in Secrets
        /\ [key |-> r.fresh, secret |-> minted', heavy |-> FALSE] \in Wrapped
    <3>1. minted' \in Secrets
      BY <1>0, <1>2, MachineAssumption DEF SetupSecret, RestOK, Secrets, MachineAssumption
    <3>2. r.fresh \in Keys
      BY <1>0, <1>2 DEF SetupSecret, At, Shaped
    <3>. QED  BY <3>1, <3>2 DEF Wrapped
  <2>1. n \in Call
    BY <1>0, <2>0, CallEdits DEF PCs
  <2>2. Shaped(c, n)
    BY <1>0, <1>2, <2>0, CallFields DEF Shaped, SetupSecret, At, Call
  <2>3. calls' = [calls EXCEPT ![c] = n]
    BY <1>0, <1>2 DEF SetupSecret
  <2>4. calls' \in [Calls -> Call] /\ CallsShaped'
    <3>. HIDE DEF n
    <3>. QED  BY <1>0, <2>1, <2>2, <2>3, OneCallMoves
  <2>5. RestOK'
    BY <1>0, <1>2, <2>0 DEF RestOK, SetupSecret
  <2>. QED  BY <2>4, <2>5 DEF ShapeInv, TypeOK, RestOK
<1>3. ASSUME SetupPersist(c) PROVE ShapeInv'
  <2>. DEFINE n == [calls[c] EXCEPT !.pc = "adopt"]
  <2>1. n \in Call
    BY <1>0, CallEdits DEF PCs
  <2>2. Shaped(c, n)
    BY <1>0, <1>3 DEF Shaped, SetupPersist, At, Call
  <2>3. calls' = [calls EXCEPT ![c] = n]
    BY <1>0, <1>3 DEF SetupPersist
  <2>4. calls' \in [Calls -> Call] /\ CallsShaped'
    <3>. HIDE DEF n
    <3>. QED  BY <1>0, <2>1, <2>2, <2>3, OneCallMoves
  <2>5. RestOK'
    BY <1>0, <1>3 DEF RestOK, SetupPersist, At, Shaped
  <2>. QED  BY <2>4, <2>5 DEF ShapeInv, TypeOK, RestOK
<1>4. ASSUME SetupFinish(c) PROVE ShapeInv'
  <2>1. calls' \in [Calls -> Call] /\ CallsShaped'
    BY <1>0, <1>4, SettleShape DEF SetupFinish
  <2>2. RestOK'
    BY <1>0, <1>4, Sessions, AnnounceType DEF ShapeInv, RestOK, SetupFinish, disk, At, Shaped
  <2>. QED  BY <2>1, <2>2 DEF ShapeInv, TypeOK, RestOK
<1>. QED  BY <1>1, <1>2, <1>3, <1>4 DEF SetupStep

\* What an envelope may be rewritten to.
LEMMA LightEnvelope ==
  ASSUME NEW w \in Wrapped
  PROVE  /\ [w EXCEPT !.heavy = FALSE] \in Wrapped
         /\ \A k \in Keys : [w EXCEPT !.key = k] \in Wrapped
         /\ \A d \in Secrets : [w EXCEPT !.secret = d] \in Wrapped
<1>1. [w EXCEPT !.heavy = FALSE] \in Wrapped
  BY DEF Wrapped
<1>2. \A k \in Keys : [w EXCEPT !.key = k] \in Wrapped
  BY DEF Wrapped
<1>3. \A d \in Secrets : [w EXCEPT !.secret = d] \in Wrapped
  BY DEF Wrapped
<1>. QED  BY <1>1, <1>2, <1>3

\* An unlock's steps.
LEMMA UnlockShape ==
  ASSUME ShapeInv, NEW c \in Unlocks, UnlockStep(c)
  PROVE  ShapeInv'
<1>. DEFINE r == calls[c]
<1>0. /\ RestOK /\ c \in Calls /\ r \in Call /\ Shaped(c, r)
      /\ calls \in [Calls -> Call] /\ 0 \in Secrets
  BY MachineAssumption DEF ShapeInv, TypeOK, RestOK, CallsShaped, Calls, MachineAssumption, Secrets
<1>1. ASSUME UnlockStart(c) PROVE ShapeInv'
  <2>. DEFINE n == [Resting EXCEPT !.pc = "prompt", !.held = envelope]
  <2>1. n \in Call
    BY <1>0, RestingIsCall, CallEdits DEF PCs, RestOK
  <2>2. Shaped(c, n)
    BY MachineAssumption DEF Shaped, Resting, MachineAssumption
  <2>3. calls' = [calls EXCEPT ![c] = n]
    BY <1>0, <1>1 DEF UnlockStart
  <2>4. calls' \in [Calls -> Call] /\ CallsShaped'
    <3>. HIDE DEF n
    <3>. QED  BY <1>0, <2>1, <2>2, <2>3, OneCallMoves
  <2>5. RestOK'
    BY <1>0, <1>1 DEF RestOK, UnlockStart, disk
  <2>. QED  BY <2>4, <2>5 DEF ShapeInv, TypeOK, RestOK
<1>2. ASSUME UnlockNothing(c) PROVE ShapeInv'
  <2>1. calls' \in [Calls -> Call] /\ CallsShaped'
    BY <1>0, <1>2, SettleShape DEF UnlockNothing
  <2>2. RestOK'
    BY <1>0, <1>2, Sessions DEF RestOK, UnlockNothing, disk
  <2>. QED  BY <2>1, <2>2 DEF ShapeInv, TypeOK, RestOK
<1>3. ASSUME UnlockPrompt(c) PROVE ShapeInv'
  <2>. DEFINE n == [calls[c] EXCEPT !.pc = "unwrap", !.prompted = TRUE]
  <2>1. n \in Call
    BY <1>0, CallEdits DEF PCs
  <2>2. Shaped(c, n)
    BY <1>0, <1>3, CallFields DEF Shaped, UnlockPrompt, At, Call
  <2>3. calls' = [calls EXCEPT ![c] = n]
    BY <1>0, <1>3 DEF UnlockPrompt
  <2>4. calls' \in [Calls -> Call] /\ CallsShaped'
    <3>. HIDE DEF n
    <3>. QED  BY <1>0, <2>1, <2>2, <2>3, OneCallMoves
  <2>5. RestOK'
    BY <1>0, <1>3 DEF RestOK, UnlockPrompt, disk
  <2>. QED  BY <2>4, <2>5 DEF ShapeInv, TypeOK, RestOK
<1>4. ASSUME UnlockRetired(c) PROVE ShapeInv'
  <2>. DEFINE n == [calls[c] EXCEPT !.pc = "enter",
             !.older = {e.key : e \in {f \in RetiredExcludingActive(r.held.key) :
                                            f.secret = r.held.secret}}]
  <2>0. {e.key : e \in {f \in RetiredExcludingActive(r.held.key) : f.secret = r.held.secret}}
           \in SUBSET Keys
    BY <1>0 DEF RestOK, RetiredExcludingActive
  <2>1. n \in Call
    BY <1>0, <2>0, CallEdits DEF PCs
  <2>2. Shaped(c, n)
    BY <1>0, <1>4 DEF Shaped, UnlockRetired, At, Call
  <2>3. calls' = [calls EXCEPT ![c] = n]
    BY <1>0, <1>4 DEF UnlockRetired
  <2>4. calls' \in [Calls -> Call] /\ CallsShaped'
    <3>. HIDE DEF n
    <3>. QED  BY <1>0, <2>1, <2>2, <2>3, OneCallMoves
  <2>5. RestOK'
    BY <1>0, <1>4 DEF RestOK, UnlockRetired, disk
  <2>. QED  BY <2>4, <2>5 DEF ShapeInv, TypeOK, RestOK
<1>5. ASSUME UnlockFinish(c) PROVE ShapeInv'
  <2>. DEFINE n == [calls[c] EXCEPT !.pc = "rewrap"]
  <2>1. RestOK'
    <3>1. r.held.key \in Keys /\ r.older \in SUBSET Keys
      BY <1>0, <1>5, CallFields DEF UnlockFinish, At, Shaped, Wrapped
    <3>. QED  BY <1>0, <1>5, <3>1, Sessions, AnnounceType DEF ShapeInv, RestOK, UnlockFinish, disk
  <2>2. CASE r.held.heavy
    <3>1. n \in Call
      BY <1>0, CallEdits DEF PCs
    <3>2. Shaped(c, n)
      BY <1>0, <1>5 DEF Shaped, UnlockFinish, At, Call
    <3>3. calls' = [calls EXCEPT ![c] = n]
      BY <1>0, <1>5, <2>2 DEF UnlockFinish
    <3>4. calls' \in [Calls -> Call] /\ CallsShaped'
      <4>. HIDE DEF n
      <4>. QED  BY <1>0, <3>1, <3>2, <3>3, OneCallMoves
    <3>. QED  BY <2>1, <3>4 DEF ShapeInv, TypeOK, RestOK
  <2>3. CASE ~r.held.heavy
    <3>1. calls' \in [Calls -> Call] /\ CallsShaped'
      BY <1>0, <1>5, <2>3, SettleShape DEF UnlockFinish
    <3>. QED  BY <2>1, <3>1 DEF ShapeInv, TypeOK, RestOK
  <2>. QED  BY <2>2, <2>3
<1>6. ASSUME UnlockRewrap(c) PROVE ShapeInv'
  <2>1. calls' \in [Calls -> Call] /\ CallsShaped'
    BY <1>0, <1>6, SettleShape DEF UnlockRewrap
  <2>2. [r.held EXCEPT !.heavy = FALSE] \in Wrapped
    <3>1. r.held \in Wrapped
      BY <1>0, <1>6 DEF UnlockRewrap, At, Shaped
    <3>. QED  BY <3>1, LightEnvelope
  <2>3. RestOK'
    BY <1>0, <1>6, <2>2 DEF RestOK, UnlockRewrap
  <2>. QED  BY <2>1, <2>3 DEF ShapeInv, TypeOK, RestOK
<1>. QED  BY <1>1, <1>2, <1>3, <1>4, <1>5, <1>6 DEF UnlockStep

\* A rotation's steps.
LEMMA RotateShape ==
  ASSUME ShapeInv, NEW c \in Rotates, RotateStep(c)
  PROVE  ShapeInv'
<1>. DEFINE r == calls[c]
<1>0. /\ RestOK /\ c \in Calls /\ r \in Call /\ Shaped(c, r)
      /\ calls \in [Calls -> Call] /\ 0 \in Secrets
  BY MachineAssumption DEF ShapeInv, TypeOK, RestOK, CallsShaped, Calls, MachineAssumption, Secrets
<1>1. ASSUME RotateStart(c) PROVE ShapeInv'
  <2>. DEFINE n == [Resting EXCEPT !.pc = "prompt",
             !.held = [key |-> session.active, secret |-> 0, heavy |-> FALSE],
             !.older = session.older]
  <2>0. /\ [key |-> session.active, secret |-> 0, heavy |-> FALSE] \in Wrapped
        /\ session.older \in SUBSET Keys
    BY <1>0, <1>1, Sessions DEF RestOK, RotateStart, Wrapped
  <2>1. n \in Call
    BY <2>0, RestingIsCall, CallEdits DEF PCs
  <2>2. Shaped(c, n)
    BY <2>0 DEF Shaped, Resting
  <2>3. calls' = [calls EXCEPT ![c] = n]
    BY <1>0, <1>1 DEF RotateStart
  <2>4. calls' \in [Calls -> Call] /\ CallsShaped'
    <3>. HIDE DEF n
    <3>. QED  BY <1>0, <2>1, <2>2, <2>3, OneCallMoves
  <2>5. RestOK'
    BY <1>0, <1>1 DEF RestOK, RotateStart, disk
  <2>. QED  BY <2>4, <2>5 DEF ShapeInv, TypeOK, RestOK
<1>2. ASSUME RotatePrompt(c) PROVE ShapeInv'
  <2>. DEFINE n == [calls[c] EXCEPT !.pc = "load", !.held = [r.held EXCEPT !.secret = secret], !.prompted = TRUE]
  <2>0. [r.held EXCEPT !.secret = secret] \in Wrapped
    <3>1. r.held \in Wrapped
      BY <1>0, <1>2 DEF RotatePrompt, At, Shaped
    <3>. QED  BY <1>0, <3>1, LightEnvelope DEF RestOK
  <2>1. n \in Call
    BY <1>0, <2>0, CallEdits DEF PCs
  <2>2. Shaped(c, n)
    BY <1>0, <1>2, <2>0 DEF Shaped, RotatePrompt, At, Call
  <2>3. calls' = [calls EXCEPT ![c] = n]
    BY <1>0, <1>2 DEF RotatePrompt
  <2>4. calls' \in [Calls -> Call] /\ CallsShaped'
    <3>. HIDE DEF n
    <3>. QED  BY <1>0, <2>1, <2>2, <2>3, OneCallMoves
  <2>5. RestOK'
    BY <1>0, <1>2 DEF RestOK, RotatePrompt, disk
  <2>. QED  BY <2>4, <2>5 DEF ShapeInv, TypeOK, RestOK
<1>3. ASSUME NEW k \in Keys, RotateLoad(c, k) PROVE ShapeInv'
  <2>. DEFINE n == [calls[c] EXCEPT !.pc = "retain", !.fresh = k,
             !.list = PrependRetired([key |-> r.held.key, secret |-> r.held.secret])]
  <2>0. /\ PrependRetired([key |-> r.held.key, secret |-> r.held.secret]) \in Lists
        /\ r.held \in Wrapped
    BY <1>0, <1>3 DEF RotateLoad, At, Shaped, Wrapped, RestOK, PrependRetired, Lists
  <2>1. n \in Call
    BY <1>0, <2>0, CallEdits DEF PCs
  <2>2. Shaped(c, n)
    BY <1>0, <1>3, <2>0 DEF Shaped, RotateLoad, At, Call
  <2>3. calls' = [calls EXCEPT ![c] = n]
    BY <1>0, <1>3 DEF RotateLoad
  <2>4. calls' \in [Calls -> Call] /\ CallsShaped'
    <3>. HIDE DEF n
    <3>. QED  BY <1>0, <2>1, <2>2, <2>3, OneCallMoves
  <2>5. RestOK'
    BY <1>0, <1>3 DEF RestOK, RotateLoad, disk
  <2>. QED  BY <2>4, <2>5 DEF ShapeInv, TypeOK, RestOK
<1>4. ASSUME RotateWrite(c) PROVE ShapeInv'
  <2>. DEFINE q == IF r.pc = "retain" THEN "flip" ELSE "publish"
              n == [calls[c] EXCEPT !.pc = q]
  <2>0. /\ q \in PCs
        /\ r.held \in Wrapped
        /\ r.fresh \in Keys
        /\ r.list \in Lists
    BY <1>0, <1>4, CallFields DEF RotateWrite, Shaped, PCs
  <2>1. n \in Call
    <3>. HIDE DEF q
    <3>. QED  BY <1>0, <2>0, CallEdits
  <2>2. Shaped(c, n)
    BY <1>0, <2>0 DEF Shaped, Call
  <2>3. calls' = [calls EXCEPT ![c] = n]
    BY <1>0, <1>4 DEF RotateWrite
  <2>4. calls' \in [Calls -> Call] /\ CallsShaped'
    <3>. HIDE DEF n
    <3>. QED  BY <1>0, <2>1, <2>2, <2>3, OneCallMoves
  <2>5. [r.held EXCEPT !.key = r.fresh] \in Wrapped
    BY <2>0, LightEnvelope
  <2>6. RestOK'
    BY <1>0, <1>4, <2>0, <2>5 DEF RestOK, RotateWrite, Write, Lists
  <2>. QED  BY <2>4, <2>6 DEF ShapeInv, TypeOK, RestOK
<1>5. ASSUME RotateFinish(c) PROVE ShapeInv'
  <2>0. /\ r.fresh \in Keys
        /\ {r.held.key} \cup r.older \in SUBSET Keys
    BY <1>0, <1>5, CallFields DEF RotateFinish, At, Shaped, Wrapped
  <2>1. calls' \in [Calls -> Call] /\ CallsShaped'
    BY <1>0, <1>5, SettleShape DEF RotateFinish
  <2>2. RestOK'
    BY <1>0, <1>5, <2>0, Sessions, AnnounceType DEF ShapeInv, RestOK, RotateFinish, disk
  <2>. QED  BY <2>1, <2>2 DEF ShapeInv, TypeOK, RestOK
<1>. QED  BY <1>1, <1>2, <1>3, <1>4, <1>5 DEF RotateStep

\* A wipe's steps.
LEMMA WipeShape ==
  ASSUME ShapeInv, NEW c \in Wipes, WipeStep(c)
  PROVE  ShapeInv'
<1>. DEFINE r == calls[c]
<1>0. /\ RestOK /\ c \in Calls /\ r \in Call /\ Shaped(c, r)
      /\ calls \in [Calls -> Call] /\ 0 \in Secrets
  BY MachineAssumption DEF ShapeInv, TypeOK, RestOK, CallsShaped, Calls, MachineAssumption, Secrets
<1>1. ASSUME WipeStart(c) PROVE ShapeInv'
  <2>. DEFINE n == [Resting EXCEPT !.pc = "dropActive"]
  <2>1. n \in Call
    BY RestingIsCall, CallEdits DEF PCs
  <2>2. Shaped(c, n)
    BY MachineAssumption DEF Shaped, Resting
  <2>3. calls' = [calls EXCEPT ![c] = n]
    BY <1>0, <1>1 DEF WipeStart
  <2>4. calls' \in [Calls -> Call] /\ CallsShaped'
    <3>. HIDE DEF n
    <3>. QED  BY <1>0, <2>1, <2>2, <2>3, OneCallMoves
  <2>5. RestOK'
    BY <1>0, <1>1 DEF RestOK, WipeStart, disk
  <2>. QED  BY <2>4, <2>5 DEF ShapeInv, TypeOK, RestOK
<1>2. ASSUME WipeActive(c) PROVE ShapeInv'
  <2>. DEFINE n == [calls[c] EXCEPT !.pc = "dropRetired"]
  <2>1. n \in Call
    BY <1>0, CallEdits DEF PCs
  <2>2. Shaped(c, n)
    BY <1>0 DEF Shaped, Call
  <2>3. calls' = [calls EXCEPT ![c] = n]
    BY <1>0, <1>2 DEF WipeActive
  <2>4. calls' \in [Calls -> Call] /\ CallsShaped'
    <3>. HIDE DEF n
    <3>. QED  BY <1>0, <2>1, <2>2, <2>3, OneCallMoves
  <2>5. RestOK'
    BY <1>0, <1>2 DEF RestOK, WipeActive
  <2>. QED  BY <2>4, <2>5 DEF ShapeInv, TypeOK, RestOK
<1>3. ASSUME WipeRetired(c) PROVE ShapeInv'
  <2>. DEFINE n == [calls[c] EXCEPT !.pc = "dropSecret"]
  <2>1. n \in Call
    BY <1>0, CallEdits DEF PCs
  <2>2. Shaped(c, n)
    BY <1>0 DEF Shaped, Call
  <2>3. calls' = [calls EXCEPT ![c] = n]
    BY <1>0, <1>3 DEF WipeRetired
  <2>4. calls' \in [Calls -> Call] /\ CallsShaped'
    <3>. HIDE DEF n
    <3>. QED  BY <1>0, <2>1, <2>2, <2>3, OneCallMoves
  <2>5. RestOK'
    BY <1>0, <1>3 DEF RestOK, WipeRetired
  <2>. QED  BY <2>4, <2>5 DEF ShapeInv, TypeOK, RestOK
<1>4. ASSUME WipeSecret(c) PROVE ShapeInv'
  <2>. DEFINE n == [calls[c] EXCEPT !.pc = "dropBlobs"]
  <2>1. n \in Call
    BY <1>0, CallEdits DEF PCs
  <2>2. Shaped(c, n)
    BY <1>0 DEF Shaped, Call
  <2>3. calls' = [calls EXCEPT ![c] = n]
    BY <1>0, <1>4 DEF WipeSecret
  <2>4. calls' \in [Calls -> Call] /\ CallsShaped'
    <3>. HIDE DEF n
    <3>. QED  BY <1>0, <2>1, <2>2, <2>3, OneCallMoves
  <2>5. RestOK'
    BY <1>0, <1>4 DEF RestOK, WipeSecret
  <2>. QED  BY <2>4, <2>5 DEF ShapeInv, TypeOK, RestOK
<1>5. ASSUME WipeStorage(c) PROVE ShapeInv'
  <2>. DEFINE n == [calls[c] EXCEPT !.pc = "leave"]
  <2>1. n \in Call
    BY <1>0, CallEdits DEF PCs
  <2>2. Shaped(c, n)
    BY <1>0 DEF Shaped, Call
  <2>3. calls' = [calls EXCEPT ![c] = n]
    BY <1>0, <1>5 DEF WipeStorage
  <2>4. calls' \in [Calls -> Call] /\ CallsShaped'
    <3>. HIDE DEF n
    <3>. QED  BY <1>0, <2>1, <2>2, <2>3, OneCallMoves
  <2>5. RestOK'
    BY <1>0, <1>5 DEF RestOK, WipeStorage
  <2>. QED  BY <2>4, <2>5 DEF ShapeInv, TypeOK, RestOK
<1>6. ASSUME WipeFinish(c) PROVE ShapeInv'
  <2>1. calls' \in [Calls -> Call] /\ CallsShaped'
    BY <1>0, <1>6, SettleShape DEF WipeFinish
  <2>2. RestOK'
    BY <1>0, <1>6, Sessions DEF RestOK, WipeFinish, AfterWipe, disk
  <2>. QED  BY <2>1, <2>2 DEF ShapeInv, TypeOK, RestOK
<1>. QED  BY <1>1, <1>2, <1>3, <1>4, <1>5, <1>6 DEF WipeStep

-------------------------------------------------------------------------------
\* A lock only makes calls forget their prompt.
LEMMA LockShape == ShapeInv /\ Lock => ShapeInv'
<1>. SUFFICES ASSUME ShapeInv, Lock PROVE ShapeInv'
  OBVIOUS
<1>1. ASSUME NEW c \in Calls
      PROVE  calls'[c] \in Call /\ Shaped(c, calls'[c])
  <2>1. calls[c] \in Call /\ Shaped(c, calls[c])
    BY DEF ShapeInv, TypeOK, CallsShaped
  <2>2. calls'[c] = [calls[c] EXCEPT !.prompted = FALSE]
    BY DEF Lock
  <2>3. [calls[c] EXCEPT !.prompted = FALSE] \in Call
    BY <2>1, CallEdits DEF PCs
  <2>4. Shaped(c, [calls[c] EXCEPT !.prompted = FALSE])
    BY <2>1 DEF Shaped, Call
  <2>. QED  BY <2>2, <2>3, <2>4
<1>2. calls' \in [Calls -> Call] /\ CallsShaped'
  <2>1. calls' = [c \in Calls |-> calls'[c]]
    BY DEF Lock
  <2>. QED  BY <1>1, <2>1 DEF CallsShaped, Shaped
<1>3. RestOK'
  BY Sessions DEF ShapeInv, TypeOK, RestOK, Lock, disk
<1>. QED  BY <1>2, <1>3 DEF ShapeInv, TypeOK, RestOK

LEMMA ShapeStep == ShapeInv /\ [Next]_vars => ShapeInv'
<1>. SUFFICES ASSUME ShapeInv, [Next]_vars PROVE ShapeInv'
  OBVIOUS
<1>1. CASE Probe
  BY <1>1, Sessions DEF Probe, ShapeInv, TypeOK, CallsShaped, Shaped, disk
<1>2. CASE Lock
  BY <1>2, LockShape
<1>3. CASE UseApp
  BY <1>3 DEF UseApp, ShapeInv, TypeOK, CallsShaped, Shaped
<1>4. CASE Crash
  <2>1. calls' \in [Calls -> Call] /\ CallsShaped'
    BY <1>4, RestingIsCall DEF Crash, CallsShaped, Shaped
  <2>. QED  BY <1>4, <2>1, Sessions DEF Crash, ShapeInv, TypeOK, disk
<1>5. ASSUME NEW c \in Setups, SetupStep(c) PROVE ShapeInv'
  BY <1>5, SetupShape
<1>6. ASSUME NEW c \in Unlocks, UnlockStep(c) PROVE ShapeInv'
  BY <1>6, UnlockShape
<1>7. ASSUME NEW c \in Rotates, RotateStep(c) PROVE ShapeInv'
  BY <1>7, RotateShape
<1>8. ASSUME NEW c \in Wipes, WipeStep(c) PROVE ShapeInv'
  BY <1>8, WipeShape
<1>9. ASSUME NEW c \in Calls, CallFails(c) PROVE ShapeInv'
  <2>1. calls' \in [Calls -> Call] /\ CallsShaped'
    BY <1>9, SettleShape DEF CallFails
  <2>. QED  BY <1>9, <2>1 DEF CallFails, ShapeInv, TypeOK, disk
<1>10. CASE UNCHANGED vars
  BY <1>10 DEF vars, ShapeInv, TypeOK, CallsShaped, Shaped
<1>. QED
  BY <1>1, <1>2, <1>3, <1>4, <1>5, <1>6, <1>7, <1>8, <1>9, <1>10 DEF Next

\* The keychain items, the machine's state and every suspended call keep their
\* types, however many calls overlap: no step writes or publishes a missing key.
THEOREM ShapeHolds == Spec => []ShapeInv
<1>. QED  BY InitShape, ShapeStep, PTL DEF Spec

THEOREM MachineTypeCorrect == Spec => []TypeOK
<1>1. ShapeInv => TypeOK
  BY DEF ShapeInv
<1>. QED  BY <1>1, ShapeHolds, PTL
================================================================================
