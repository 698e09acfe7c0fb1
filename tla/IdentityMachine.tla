---------------------------- MODULE IdentityMachine ----------------------------
(* The mobile app's identity: three keychain items (the active envelope, the   *)
(* retired keys, the device secret), the encrypted storage, the machine's      *)
(* in-memory state, and the calls suspended at one of their awaits.  One       *)
(* action per stretch of code between two awaits; any other call, a background *)
(* or idle lock, or the death of the process may come between two of them.     *)
EXTENDS Naturals

CONSTANTS
  Keys,       \* identity keypairs
  Setups, Unlocks, Rotates, Wipes,   \* calls of setupNew/importIdentity, unlock, ...
  Overlap,    \* FALSE: the user waits for each call to settle before the next
  Heavy,      \* whether the envelope found on disk may carry the heavy KDF
  MaxSecret,  \* bound on the device secrets ever created
  None        \* "no key"

Calls == Setups \cup Unlocks \cup Rotates \cup Wipes

ASSUME MachineAssumption ==
  /\ None \notin Keys
  /\ Unlocks \cap Rotates = {}
  /\ Overlap \in BOOLEAN
  /\ Heavy \subseteq BOOLEAN
  /\ MaxSecret \in Nat \ {0}

VARIABLES
  envelope,   \* aesmsg.wrapped-identity: the active key, wrapped
  retired,    \* aesmsg.retired-identities: the retired keys, wrapped
  secret,     \* the device secret's keychain slot (0: empty)
  blobs,      \* whether the encrypted storage holds anything
  session,    \* the machine's IdentityState
  calls,      \* where each call is suspended, and its locals
  minted,     \* how many device secrets were created
  fate        \* history: what became of each key

disk == <<envelope, retired, secret, blobs>>
vars == <<envelope, retired, secret, blobs, session, calls, minted, fate>>

-------------------------------------------------------------------------------
Secrets == 0..MaxSecret

Wrapped == [key : Keys, secret : Secrets, heavy : BOOLEAN]
NoEnvelope == [key |-> None, secret |-> 0, heavy |-> FALSE]

Without(status) == [status |-> status, active |-> None, older |-> {}]
Unlocked(k, S) == [status |-> "unlocked", active |-> k, older |-> S]

Session == {Without(s) : s \in {"loading", "no_identity", "locked"}}
             \cup {Unlocked(k, S) : k \in Keys, S \in SUBSET Keys}

\* held: the envelope loaded by unlock, or the key rotate retires; fresh: the key
\* being set up; list: the retired list to write; older: the keypairs beside the
\* active one; prompted (history): the biometric gate opened since the last lock.
Call == [pc : {"idle", "create", "persist", "adopt", "prompt", "unwrap", "enter",
               "rewrap", "load", "retain", "flip", "publish",
               "dropActive", "dropRetired", "dropSecret", "dropBlobs", "leave"},
         held : Wrapped \cup {NoEnvelope}, fresh : Keys \cup {None},
         list : SUBSET [key : Keys, secret : Secrets], older : SUBSET Keys,
         prompted : BOOLEAN]

Resting == [pc |-> "idle", held |-> NoEnvelope, fresh |-> None,
            list |-> {}, older |-> {}, prompted |-> FALSE]

\* The screens never offer two setups at once; otherwise calls overlap freely.
MayStart(c) == /\ calls[c].pc = "idle"
               /\ Overlap \/ \A d \in Calls : calls[d].pc = "idle"

At(c, pc) == calls[c].pc = pc
Settle(c) == calls' = [calls EXCEPT ![c] = Resting]

\* A key the user has seen as the identity: others may seal to it from now on.
Announce(k) == fate' = [fate EXCEPT ![k] = IF @ = "made" THEN "kept" ELSE @]

-------------------------------------------------------------------------------
\* A first launch, or one that finds an identity from earlier sessions.
Init ==
  /\ \/ /\ envelope = NoEnvelope
        /\ fate = [k \in Keys |-> "unmade"]
     \/ \E k \in Keys, h \in Heavy :
          /\ envelope = [key |-> k, secret |-> 1, heavy |-> h]
          /\ fate = [j \in Keys |-> IF j = k THEN "kept" ELSE "unmade"]
  /\ retired = {}
  /\ secret = envelope.secret
  /\ minted = envelope.secret
  /\ blobs = (envelope # NoEnvelope)
  /\ session = Without("loading")
  /\ calls = [c \in Calls |-> Resting]

\* machine.init
Probe ==
  /\ session.status = "loading"
  /\ session' = Without(IF envelope = NoEnvelope THEN "no_identity" ELSE "locked")
  /\ UNCHANGED <<disk, calls, minted, fate>>

-------------------------------------------------------------------------------
\* setupNew (a generated key) and importIdentity (one restored from a backup).
SettableUnlessOpen == session.status \in {"no_identity", "locked"}   \* mutant: weaker guard
Settable == session.status = "no_identity"

SetupStart(c, k) ==
  /\ Settable
  /\ MayStart(c)
  /\ \A d \in Setups : At(d, "idle")
  /\ fate[k] \in {"unmade", "doomed", "wiped"}
  /\ fate' = [fate EXCEPT ![k] = "made"]
  /\ calls' = [calls EXCEPT ![c] = [Resting EXCEPT !.pc = "create", !.fresh = k]]
  /\ UNCHANGED <<disk, session, minted>>

\* createDeviceSecret overwrites the slot.
SetupSecret(c) ==
  /\ At(c, "create")
  /\ minted < MaxSecret
  /\ minted' = minted + 1
  /\ secret' = minted'
  /\ calls' = [calls EXCEPT ![c].pc = "persist",
                            ![c].held = [key |-> calls[c].fresh, secret |-> minted', heavy |-> FALSE]]
  /\ UNCHANGED <<envelope, retired, blobs, session, fate>>

SetupPersist(c) ==
  /\ At(c, "persist")
  /\ envelope' = calls[c].held
  /\ calls' = [calls EXCEPT ![c].pc = "adopt"]
  /\ UNCHANGED <<retired, secret, blobs, session, minted, fate>>

SetupFinish(c) ==
  /\ At(c, "adopt")
  /\ session' = Unlocked(calls[c].fresh, {})
  /\ Announce(calls[c].fresh)
  /\ Settle(c)
  /\ UNCHANGED <<disk, minted>>

-------------------------------------------------------------------------------
UnlockStart(c) ==
  /\ session.status = "locked"
  /\ MayStart(c)
  /\ calls' = [calls EXCEPT ![c] = [Resting EXCEPT !.pc = "prompt", !.held = envelope]]
  /\ UNCHANGED <<disk, session, minted, fate>>

\* Nothing stored: straight to no_identity, from whatever state that is by now.
UnlockNothing(c) ==
  /\ c \in Unlocks
  /\ At(c, "prompt")
  /\ calls[c].held = NoEnvelope
  /\ session' = Without("no_identity")
  /\ Settle(c)
  /\ UNCHANGED <<disk, minted, fate>>

\* The biometric read of the device secret; the envelope unwraps only under it.
UnlockPrompt(c) ==
  /\ c \in Unlocks
  /\ At(c, "prompt")
  /\ calls[c].held # NoEnvelope
  /\ secret = calls[c].held.secret
  /\ calls' = [calls EXCEPT ![c].pc = "unwrap", ![c].prompted = TRUE]
  /\ UNCHANGED <<disk, session, minted, fate>>

ExcludingNone(k) == retired                           \* mutant: no deduplication
RetiredExcludingActive(k) == {e \in retired : e.key # k}

\* Retired entries that do not unwrap are skipped.
UnlockRetired(c) ==
  LET w == calls[c].held IN
  /\ At(c, "unwrap")
  /\ calls' = [calls EXCEPT ![c].pc = "enter",
       ![c].older = {e.key : e \in {f \in RetiredExcludingActive(w.key) : f.secret = w.secret}}]
  /\ UNCHANGED <<disk, session, minted, fate>>

\* setState unlocked, whatever happened during the awaits; then the lazy rewrap.
UnlockFinish(c) ==
  /\ At(c, "enter")
  /\ session' = Unlocked(calls[c].held.key, calls[c].older)
  /\ Announce(calls[c].held.key)
  /\ IF calls[c].held.heavy THEN calls' = [calls EXCEPT ![c].pc = "rewrap"] ELSE Settle(c)
  /\ UNCHANGED <<disk, minted>>

UnlockRewrap(c) ==
  /\ At(c, "rewrap")
  /\ envelope' = IF session.status = "unlocked" THEN [calls[c].held EXCEPT !.heavy = FALSE]
                                                ELSE envelope
  /\ Settle(c)
  /\ UNCHANGED <<retired, secret, blobs, session, minted, fate>>

-------------------------------------------------------------------------------
\* rotate takes its snapshot of the machine's state before its first await.
RotateStart(c) ==
  /\ session.status = "unlocked"
  /\ MayStart(c)
  /\ calls' = [calls EXCEPT ![c] = [Resting EXCEPT !.pc = "prompt",
       !.held = [key |-> session.active, secret |-> 0, heavy |-> FALSE],
       !.older = session.older]]
  /\ UNCHANGED <<disk, session, minted, fate>>

RotatePrompt(c) ==
  /\ c \in Rotates
  /\ At(c, "prompt")
  /\ secret # 0
  /\ calls' = [calls EXCEPT ![c].pc = "load", ![c].held.secret = secret, ![c].prompted = TRUE]
  /\ UNCHANGED <<disk, session, minted, fate>>

\* mutant: the entry goes in without the secret it needs
PrependUnwrapped(e) == {[e EXCEPT !.secret = None]} \cup retired
PrependRetired(e) == {e} \cup {f \in retired : f.key # e.key}

\* Wrap the old key, generate the new one, read the retired list.
RotateLoad(c, k) ==
  LET w == calls[c].held IN
  /\ At(c, "load")
  /\ fate[k] = "unmade"
  /\ fate' = [fate EXCEPT ![k] = "made"]
  /\ calls' = [calls EXCEPT ![c].pc = "retain", ![c].fresh = k,
       ![c].list = PrependRetired([key |-> w.key, secret |-> w.secret])]
  /\ UNCHANGED <<disk, session, minted>>

\* The retired list is written before the active envelope is replaced.
WriteLate(c) ==                                       \* mutant: flipped first
  /\ retired' = IF At(c, "flip") THEN calls[c].list ELSE retired
  /\ envelope' = IF At(c, "retain")
                 THEN [calls[c].held EXCEPT !.key = calls[c].fresh] ELSE envelope
Write(c) ==
  /\ retired' = IF At(c, "retain") THEN calls[c].list ELSE retired
  /\ envelope' = IF At(c, "flip")
                 THEN [calls[c].held EXCEPT !.key = calls[c].fresh] ELSE envelope

RotateWrite(c) ==
  /\ calls[c].pc \in {"retain", "flip"}
  /\ Write(c)
  /\ calls' = [calls EXCEPT ![c].pc = IF @ = "retain" THEN "flip" ELSE "publish"]
  /\ UNCHANGED <<secret, blobs, session, minted, fate>>

\* setState unlocked, whatever happened during the awaits.
RotateFinish(c) ==
  /\ At(c, "publish")
  /\ session' = Unlocked(calls[c].fresh, {calls[c].held.key} \cup calls[c].older)
  /\ Announce(calls[c].fresh)
  /\ Settle(c)
  /\ UNCHANGED <<disk, minted>>

-------------------------------------------------------------------------------
\* revokeAllThenWipe is asked for while unlocked; its revoke pass precedes the
\* first deletion by any length of time.
WipeStart(c) ==
  /\ session.status = "unlocked"
  /\ MayStart(c)
  /\ calls' = [calls EXCEPT ![c] = [Resting EXCEPT !.pc = "dropActive"]]
  /\ UNCHANGED <<disk, session, minted, fate>>

WipeActive(c) ==
  /\ At(c, "dropActive")
  /\ envelope' = NoEnvelope
  /\ fate' = [k \in Keys |-> IF fate[k] \in {"made", "kept"} THEN "doomed" ELSE fate[k]]
  /\ calls' = [calls EXCEPT ![c].pc = "dropRetired"]
  /\ UNCHANGED <<retired, secret, blobs, session, minted>>

WipeRetired(c) ==
  /\ At(c, "dropRetired")
  /\ retired' = {}
  /\ calls' = [calls EXCEPT ![c].pc = "dropSecret"]
  /\ UNCHANGED <<envelope, secret, blobs, session, minted, fate>>

WipeSecret(c) ==
  /\ At(c, "dropSecret")
  /\ secret' = 0
  /\ calls' = [calls EXCEPT ![c].pc = "dropBlobs"]
  /\ UNCHANGED <<envelope, retired, blobs, session, minted, fate>>

WipeStorage(c) ==
  /\ At(c, "dropBlobs")
  /\ blobs' = FALSE
  /\ calls' = [calls EXCEPT ![c].pc = "leave"]
  /\ UNCHANGED <<envelope, retired, secret, session, minted, fate>>

LeftInMemory == session                               \* mutant: setState forgotten
AfterWipe == Without("no_identity")

WipeFinish(c) ==
  /\ At(c, "leave")
  /\ session' = AfterWipe
  /\ fate' = [k \in Keys |-> IF fate[k] = "doomed" THEN "wiped" ELSE fate[k]]
  /\ Settle(c)
  /\ UNCHANGED <<disk, minted>>

-------------------------------------------------------------------------------
\* A background transition or the idle timer; a no-op unless unlocked.
Lock ==
  /\ session' = IF session.status = "unlocked" THEN Without("locked") ELSE session
  /\ calls' = [c \in Calls |-> [calls[c] EXCEPT !.prompted = FALSE]]
  /\ UNCHANGED <<disk, minted, fate>>

\* Links, contacts and drafts are stored while unlocked.
UseApp ==
  /\ session.status = "unlocked"
  /\ blobs' = TRUE
  /\ UNCHANGED <<envelope, retired, secret, session, calls, minted, fate>>

\* A prompt is cancelled, an unwrap fails, or a keychain operation throws.
CallFails(c) ==
  /\ calls[c].pc \notin {"idle", "adopt", "enter", "publish", "leave"}
  /\ Settle(c)
  /\ UNCHANGED <<disk, session, minted, fate>>

\* The process dies; the next launch starts over from the disk.
Crash ==
  /\ session' = Without("loading")
  /\ calls' = [c \in Calls |-> Resting]
  /\ UNCHANGED <<disk, minted, fate>>

SetupStep(c) == \/ \E k \in Keys : SetupStart(c, k)
                \/ SetupSecret(c) \/ SetupPersist(c) \/ SetupFinish(c)
UnlockStep(c) == \/ UnlockStart(c) \/ UnlockNothing(c) \/ UnlockPrompt(c)
                 \/ UnlockRetired(c) \/ UnlockFinish(c) \/ UnlockRewrap(c)
RotateStep(c) == \/ RotateStart(c) \/ RotatePrompt(c)
                 \/ \E k \in Keys : RotateLoad(c, k)
                 \/ RotateWrite(c) \/ RotateFinish(c)
WipeStep(c) == \/ WipeStart(c) \/ WipeActive(c) \/ WipeRetired(c)
               \/ WipeSecret(c) \/ WipeStorage(c) \/ WipeFinish(c)

Next ==
  \/ Probe \/ Lock \/ UseApp \/ Crash
  \/ \E c \in Setups : SetupStep(c)
  \/ \E c \in Unlocks : UnlockStep(c)
  \/ \E c \in Rotates : RotateStep(c)
  \/ \E c \in Wipes : WipeStep(c)
  \/ \E c \in Calls : CallFails(c)

Spec == Init /\ [][Next]_vars

-------------------------------------------------------------------------------
\* Every keychain item, the state and every suspended call keep their shape.
TypeOK ==
  /\ envelope \in Wrapped \cup {NoEnvelope}
  /\ retired \subseteq [key : Keys, secret : Secrets]
  /\ secret \in Secrets
  /\ blobs \in BOOLEAN
  /\ session \in Session
  /\ calls \in [Calls -> Call]
  /\ minted \in Secrets
  /\ fate \in [Keys -> {"unmade", "made", "kept", "doomed", "wiped"}]

\* What a relaunch and one biometric prompt bring back.
Recoverable ==
  IF envelope = NoEnvelope \/ envelope.secret # secret THEN {}
  ELSE {envelope.key} \cup {e.key : e \in {f \in retired : f.secret = secret}}

\* No key that was ever the identity, active or retired, is lost before a wipe is
\* asked for: links sealed to it must still open (rotate's crash safety).
KeysRetained == \A k \in Keys : fate[k] = "kept" => k \in Recoverable

\* With no call in flight, the keypairs the reader tries are exactly those the
\* next unlock would yield, unless a wipe stopped half-way.
MemoryMatchesDisk ==
  session.status = "unlocked" /\ (\A c \in Calls : At(c, "idle")) =>
    LET held == {session.active} \cup session.older IN
    \/ \E k \in held : fate[k] = "doomed"
    \/ /\ session.active = envelope.key
       /\ session.active \notin session.older
       /\ held = Recoverable

\* After a completed wipe no later launch, unlock or late step of another call
\* brings a key of the wiped identity back (wipe, unless the user imports it).
WipeIrreversible ==
  \A k \in Keys : fate[k] = "wiped" =>
    k \notin Recoverable \cup {session.active} \cup session.older

\* A stored private key is only ever replaced by a rewrap of itself, by a wipe, or
\* once the retired list on disk already holds it: never by setup or import.
NeverOverwritten ==
  [][envelope'.key # envelope.key /\ envelope # NoEnvelope =>
       \/ envelope' = NoEnvelope
       \/ [key |-> envelope.key, secret |-> envelope.secret] \in retired]_vars

-------------------------------------------------------------------------------
\* identity-context.tsx:117, identity-machine.ts:21: after a lock, the keys come
\* back only through a new biometric prompt.
LockHolds ==
  [][session.status = "locked" /\ session'.status = "unlocked" =>
       \E c \in Calls : calls[c].prompted /\ calls[c] # calls'[c]]_vars
================================================================================
