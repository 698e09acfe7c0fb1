------------------------------ MODULE WebIdentity ------------------------------
(* The browser's identity (apps/webapp/src/identity/identity-context.tsx): one *)
(* record and one blob of retired keys in IndexedDB, the keys in the tab's     *)
(* memory, and the calls suspended at one of their awaits.  An epoch, advanced *)
(* by lock and wipe, tells a late call that its keys are no longer wanted.     *)
(* IndexedDB runs transactions in the order they are issued, so an action has  *)
(* the effect of the transaction it issues.                                    *)
EXTENDS Naturals, FiniteSets

CONSTANTS
  Keys,       \* identity keypairs
  Phrases,    \* passphrases the user may choose
  Setups, Unlocks, Rotates, Wipes,   \* calls of setupNew/importIdentity, unlock, ...
  MaxEpoch,   \* bound: no lock and no wipe starts from this epoch on
  MaxSlips,   \* bound on the kinds of slip in one behaviour
  None        \* "no key", "no passphrase"

Calls == Setups \cup Unlocks \cup Rotates \cup Wipes

\* Two keys and a passphrase: an identity that was rotated before can be there at first.
ASSUME WebAssumption ==
  /\ None \notin Keys \cup Phrases /\ MaxEpoch \in Nat /\ MaxSlips \in Nat
  /\ Phrases # {} /\ \E j, k \in Keys : j # k

\* What may go wrong, remembered once it has:
\*   setup       a setup runs over a stored identity, an open session, or another
\*               call (the onboarding page is not gated by the state)
\*   twice       a rotation starts before an earlier one has ended
\*   late        a wipe begins while a rotation is past its last epoch check
\*   stale       a rotation is written when an unlock holds, or has adopted, the older record
\*   broken      a wipe breaks off when something is deleted already
\*   unreadable  reading the storage, or one retired key, fails softly
Slips == {"setup", "twice", "late", "stale", "broken", "unreadable"}

VARIABLES
  stored,     \* IDENTITY_STORE: the active key, wrapped
  retired,    \* RETIRED_STORE: the retired keys, wrapped
  tab,        \* the context's memory: status, active key, retired keys
  epoch,      \* epochRef
  calls,      \* where each call is suspended, and its locals
  slips,      \* history: the kinds of slip so far
  fate        \* history: what became of each key

vars == <<stored, retired, tab, epoch, calls, slips, fate>>

Wrapped == [key : Keys, phrase : Phrases]
NoRecord == [key |-> None, phrase |-> None]

Without(status) == [status |-> status, active |-> None, older |-> {}]
Unlocked(k, S) == [status |-> "unlocked", active |-> k, older |-> S]
Tab == [status : {"loading", "no_identity", "locked"}, active : {None}, older : SUBSET Keys]
         \cup [status : {"unlocked"}, active : Keys, older : SUBSET Keys]

\* held: the record the call has loaded or will write; fresh: the key it makes;
\* list: retired entries to unwrap or to write; since (history): no lock or wipe since it began.
Call == [pc : {"idle", "save", "adopt", "unwrap", "older", "verify", "put", "flip",
               "revoke", "purge", "bump", "drop", "leave"},
         epoch : Nat, held : Wrapped \cup {NoRecord}, fresh : Keys \cup {None},
         list : SUBSET Wrapped, since : BOOLEAN]
Resting == [pc |-> "idle", epoch |-> 0, held |-> NoRecord, fresh |-> None, list |-> {},
            since |-> FALSE]
Begun(pc) == [Resting EXCEPT !.pc = pc, !.epoch = epoch, !.since = TRUE]

At(c, pc) == calls[c].pc = pc
Busy(C) == \E c \in C : ~At(c, "idle")
Settle(c) == calls' = [calls EXCEPT ![c] = Resting]
Current(c) == calls[c].epoch = epoch

Slip(S) == slips' = slips \cup S /\ Cardinality(slips') <= MaxSlips

\* A key the user has seen as the identity: others may seal to it from now on.
Announce(k) == fate' = [fate EXCEPT ![k] = IF @ = "made" THEN "kept" ELSE @]
\* Every deletion of a wipe dooms what is there.
Doom == fate' = [k \in Keys |-> IF fate[k] \in {"made", "kept"} THEN "doomed" ELSE fate[k]]

-------------------------------------------------------------------------------
\* Which of the keys is immaterial, as long as it is an unused one.
First == CHOOSE w \in Wrapped : TRUE
Other == CHOOSE k \in Keys \ {First.key} : TRUE
New == CHOOSE k \in Keys : fate[k] = "unmade"
KeysLeft == \E k \in Keys : fate[k] = "unmade"

\* A first visit, or one that finds an identity, perhaps rotated before.
Init ==
  /\ \/ stored = NoRecord /\ retired = {}
     \/ /\ stored = First
        /\ retired \in {{}, {[First EXCEPT !.key = Other]}}
  /\ fate = [k \in Keys |-> IF \E w \in retired \cup {stored} : w.key = k THEN "kept" ELSE "unmade"]
  /\ tab = Without("loading")
  /\ epoch = 0
  /\ calls = [c \in Calls |-> Resting]
  /\ slips = {}

\* The mount effect; a storage that cannot be read counts as no identity.
Probe ==
  /\ tab.status = "loading"
  /\ \/ /\ tab' = Without(IF stored = NoRecord THEN "no_identity" ELSE "locked")
        /\ UNCHANGED slips
     \/ /\ Slip({"unreadable"})
        /\ tab' = Without("no_identity")
  /\ UNCHANGED <<stored, retired, epoch, calls, fate>>

-------------------------------------------------------------------------------
\* setupNew asks nothing; importIdentity asks for no_identity.  The key is new, or
\* imported from another device.
SetupStart(c, p) ==
  /\ At(c, "idle")
  /\ KeysLeft
  /\ fate' = [fate EXCEPT ![New] = "made"]
  /\ Slip(IF stored # NoRecord \/ tab.status # "no_identity" \/ Busy(Calls)
          THEN {"setup"} ELSE {})
  /\ calls' = [calls EXCEPT ![c] = [Begun("save") EXCEPT !.held = [key |-> New, phrase |-> p]]]
  /\ UNCHANGED <<stored, retired, tab, epoch>>

SetupSave(c) ==
  /\ At(c, "save")
  /\ stored' = calls[c].held
  /\ calls' = [calls EXCEPT ![c].pc = "adopt"]
  /\ UNCHANGED <<retired, tab, epoch, slips, fate>>

SetupFinish(c) ==
  /\ At(c, "adopt")
  /\ tab' = Unlocked(calls[c].held.key, {})
  /\ Announce(calls[c].held.key)
  /\ Settle(c)
  /\ UNCHANGED <<stored, retired, epoch, slips>>

-------------------------------------------------------------------------------
\* The unlock screen submits once at a time.  Which of the idle calls is immaterial.
UnlockStart(c) ==
  /\ tab.status = "locked"
  /\ At(c, "idle") /\ c = CHOOSE u \in Unlocks : At(u, "idle")
  /\ \A u \in Unlocks : ~(At(u, "unwrap") /\ Current(u))
  /\ calls' = [calls EXCEPT ![c] = [Begun("unwrap") EXCEPT !.held = stored]]
  /\ Slip(IF Busy(Setups) THEN {"setup"} ELSE {})
  /\ UNCHANGED <<stored, retired, tab, epoch, fate>>

UnlockNothing(c) ==
  /\ At(c, "unwrap")
  /\ calls[c].held = NoRecord
  /\ tab' = IF Current(c) THEN Without("no_identity") ELSE tab
  /\ Settle(c)
  /\ UNCHANGED <<stored, retired, epoch, slips, fate>>

\* mutant: the filter the wrong way round
OnlyActive(k) == {w \in retired : w.key = k}
RetiredExcludingActive(k) == {w \in retired : w.key # k}

WantedAlways(c) == TRUE                               \* mutant: the epoch is not looked at
Wanted(c) == Current(c)

\* The active key is there at once; the retired ones follow in the background.
UnlockFinish(c) ==
  /\ At(c, "unwrap")
  /\ calls[c].held # NoRecord
  /\ IF Wanted(c)
     THEN /\ tab' = Unlocked(calls[c].held.key, {})
          /\ Announce(calls[c].held.key)
          /\ \/ /\ calls' = [calls EXCEPT ![c].pc = "older",
                                          ![c].list = RetiredExcludingActive(calls[c].held.key)]
                /\ UNCHANGED slips
             \/ Slip({"unreadable"}) /\ Settle(c)
     ELSE Settle(c) /\ UNCHANGED <<tab, slips, fate>>
  /\ UNCHANGED <<stored, retired, epoch>>

\* One retired key unwraps, if it opens under this passphrase.
UnlockOlder(c, w) ==
  /\ At(c, "older")
  /\ w \in calls[c].list
  /\ IF Current(c)
     THEN /\ calls' = [calls EXCEPT ![c].list = @ \ {w}]
          /\ \/ /\ tab' = IF w.phrase = calls[c].held.phrase
                          THEN [tab EXCEPT !.older = @ \cup {w.key}] ELSE tab
                /\ UNCHANGED slips
             \/ Slip({"unreadable"}) /\ UNCHANGED tab
     ELSE Settle(c) /\ UNCHANGED <<tab, slips>>
  /\ UNCHANGED <<stored, retired, epoch, fate>>

UnlockDone(c) ==
  /\ At(c, "older")
  /\ calls[c].list = {}
  /\ Settle(c)
  /\ UNCHANGED <<stored, retired, tab, epoch, slips, fate>>

-------------------------------------------------------------------------------
\* rotate takes the epoch and the active key, and loads the record.
RotateStart(c) ==
  /\ tab.status = "unlocked"
  /\ At(c, "idle")
  /\ stored # NoRecord
  /\ Slip(IF Busy(Rotates) THEN {"twice"} ELSE {})
  /\ calls' = [calls EXCEPT ![c] = [Begun("verify") EXCEPT !.held = stored, !.fresh = tab.active]]
  /\ UNCHANGED <<stored, retired, tab, epoch, fate>>

\* mutant: the entry keeps no passphrase
PrependUnwrapped(w, list) == {[w EXCEPT !.phrase = None]} \cup list
PrependRetired(w, list) == {w} \cup {v \in list : v.key # w.key}

\* Passphrase checked, new key generated and wrapped; the epoch is looked at for
\* the last time, then the retired blob is read.  fresh was the old active key and
\* is now the new one; the old one stays first in the list.
RotateCheck(c) ==
  /\ At(c, "verify")
  /\ Current(c)
  /\ KeysLeft
  /\ fate' = [fate EXCEPT ![New] = "made"]
  /\ \E unreadable \in BOOLEAN :
       /\ Slip(IF unreadable THEN {"unreadable"} ELSE {})
       /\ calls' = [calls EXCEPT ![c].pc = "put",
            ![c].list = PrependRetired(calls[c].held, IF unreadable THEN {} ELSE retired),
            ![c].held.key = New]
  /\ UNCHANGED <<stored, retired, tab, epoch>>

RotateAbort(c) ==
  /\ At(c, "verify")
  /\ ~Current(c)
  /\ Settle(c)
  /\ UNCHANGED <<stored, retired, tab, epoch, slips, fate>>

\* One transaction over both stores.
BothActiveOnly(c) == stored' = calls[c].held /\ UNCHANGED retired    \* mutant: one of the two
Both(c) == stored' = calls[c].held /\ retired' = calls[c].list
RotatePut(c) ==
  /\ At(c, "put")
  /\ Both(c)
  /\ Slip(IF ~Current(c) \/ \E u \in Unlocks : At(u, "unwrap") THEN {"stale"} ELSE {})
  /\ calls' = [calls EXCEPT ![c].pc = "flip"]
  /\ UNCHANGED <<tab, epoch, fate>>

\* The caller learns the new key in any case; memory follows unless locked meanwhile.
RotateFlip(c) ==
  /\ At(c, "flip")
  /\ tab' = IF Wanted(c) THEN Unlocked(calls[c].held.key, {calls[c].fresh} \cup tab.older) ELSE tab
  /\ Announce(calls[c].held.key)
  /\ Settle(c)
  /\ UNCHANGED <<stored, retired, epoch, slips>>

-------------------------------------------------------------------------------
\* The idle timer, armed only while unlocked (AutoLockController), or the button of the
\* identity screen, there only while unlocked.
Lock ==
  /\ tab.status = "unlocked"
  /\ epoch < MaxEpoch
  /\ epoch' = epoch + 1
  /\ tab' = Without("locked")
  /\ calls' = [c \in Calls |-> [calls[c] EXCEPT !.since = FALSE]]
  /\ UNCHANGED <<stored, retired, slips, fate>>

\* From an unlocked screen: the revocations, every store, then wipe.
WipeStart(c) ==
  /\ tab.status = "unlocked"
  /\ At(c, "idle")
  /\ epoch < MaxEpoch
  /\ Slip(IF Busy(Setups) THEN {"setup"} ELSE {})
  /\ calls' = [calls EXCEPT ![c] = Begun("revoke")]
  /\ UNCHANGED <<stored, retired, tab, epoch, fate>>

\* wipeAllLocalStores, in the order of its deletions.
Purge(c) ==
  /\ \/ /\ At(c, "revoke")
        /\ stored' = NoRecord
        /\ calls' = [calls EXCEPT ![c].pc = "purge"]
        /\ UNCHANGED retired
     \/ /\ At(c, "purge")
        /\ retired' = {}
        /\ calls' = [calls EXCEPT ![c].pc = "bump"]
        /\ UNCHANGED stored
  /\ Doom
  /\ UNCHANGED <<tab, epoch, slips>>

\* wipe is called: by the unlock screen at once, by an unlocked one after its deletions.
WipeCalled(c) == \/ At(c, "bump")
                 \/ At(c, "idle") /\ tab.status = "locked" /\ epoch < MaxEpoch

\* wipe: the epoch first, so that what is still running gives up; in the same breath the
\* deletion is issued.
NextEpochNone == epoch                                \* mutant: not advanced
NextEpoch == epoch + 1
WipeActive(c) ==
  /\ WipeCalled(c)
  /\ epoch' = NextEpoch
  /\ stored' = NoRecord
  /\ Doom
  /\ Slip({x \in {"late"} : \E r \in Rotates : At(r, "put")}
            \cup {x \in {"setup"} : Busy(Setups)})
  /\ calls' = [d \in Calls |-> [calls[d] EXCEPT !.pc = IF d = c THEN "drop" ELSE @, !.since = FALSE]]
  /\ UNCHANGED <<retired, tab>>

\* ... the deletion fails, the epoch has been advanced.
WipeFails(c) ==
  /\ WipeCalled(c)
  /\ epoch' = NextEpoch
  /\ Slip({x \in {"broken"} : At(c, "bump")} \cup {x \in {"setup"} : Busy(Setups)})
  /\ calls' = [d \in Calls |-> IF d = c THEN Resting ELSE [calls[d] EXCEPT !.since = FALSE]]
  /\ UNCHANGED <<stored, retired, tab, fate>>

WipeRetired(c) ==
  /\ At(c, "drop")
  /\ retired' = {}
  /\ Doom
  /\ calls' = [calls EXCEPT ![c].pc = "leave"]
  /\ UNCHANGED <<stored, tab, epoch, slips>>

WipeFinish(c) ==
  /\ At(c, "leave")
  /\ tab' = Without("no_identity")
  /\ fate' = [k \in Keys |-> IF fate[k] = "doomed" THEN "wiped" ELSE fate[k]]
  /\ Settle(c)
  /\ UNCHANGED <<stored, retired, epoch, slips>>

-------------------------------------------------------------------------------
Broken == IF \E k \in Keys : fate[k] = "doomed" THEN {"broken"} ELSE {}

\* A wrong passphrase, a failing key derivation or a failing transaction.
CallFails(c) ==
  /\ calls[c].pc \notin {"idle", "older", "adopt", "flip", "bump", "leave"}
  /\ Slip(IF c \in Wipes THEN Broken ELSE {})
  /\ Settle(c)
  /\ UNCHANGED <<stored, retired, tab, epoch, fate>>

\* The tab is closed or reloaded.
Reload ==
  /\ tab' = Without("loading")
  /\ calls' = [c \in Calls |-> Resting]
  /\ Slip(Broken)
  /\ UNCHANGED <<stored, retired, epoch, fate>>

SetupStep(c) == \/ \E p \in Phrases : SetupStart(c, p)
                \/ SetupSave(c) \/ SetupFinish(c)
Background(c) == UnlockDone(c) \/ \E w \in Wrapped : UnlockOlder(c, w)
UnlockStep(c) == UnlockStart(c) \/ UnlockNothing(c) \/ UnlockFinish(c) \/ Background(c)
RotateStep(c) == \/ RotateStart(c) \/ RotateCheck(c) \/ RotateAbort(c)
                 \/ RotatePut(c) \/ RotateFlip(c)
WipeStep(c) == \/ WipeStart(c) \/ Purge(c)
               \/ WipeActive(c) \/ WipeFails(c) \/ WipeRetired(c) \/ WipeFinish(c)

Next ==
  \/ Probe \/ Lock \/ Reload
  \/ \E c \in Setups : SetupStep(c)
  \/ \E c \in Unlocks : UnlockStep(c)
  \/ \E c \in Rotates : RotateStep(c)
  \/ \E c \in Wipes : WipeStep(c)
  \/ \E c \in Calls : CallFails(c)

Spec == Init /\ [][Next]_vars

\* The browser's own work goes on; the user owes nothing.
FairSpec == /\ Spec
            /\ \A c \in Unlocks : WF_vars(Background(c))
            /\ \A c \in Rotates : WF_vars(RotateFlip(c))

-------------------------------------------------------------------------------
TypeOK ==
  /\ stored \in Wrapped \cup {NoRecord}
  /\ retired \subseteq Wrapped
  /\ tab \in Tab
  /\ epoch \in Nat
  /\ calls \in [Calls -> Call]
  /\ slips \subseteq Slips
  /\ fate \in [Keys -> {"unmade", "made", "kept", "doomed", "wiped"}]

\* What a reload and the passphrase bring back.
Recoverable == IF stored = NoRecord THEN {}
               ELSE {stored.key} \cup {w.key : w \in {v \in retired : v.phrase = stored.phrase}}
Held == {k \in Keys : k = tab.active \/ k \in tab.older}

\* No key that was ever the identity is lost before a wipe, whatever locks, reloads,
\* fails or overlaps, but for setups over an identity, overlapping rotations and a
\* retired list that could not be read (rotate: "never bricked").
KeysRetained ==
  slips \cap {"setup", "twice", "unreadable"} = {} =>
    \A k \in Keys : fate[k] = "kept" => k \in Recoverable

\* A wiped key comes back neither on disk nor in memory, whatever was still running,
\* but for a rotation past its last epoch check (wipe: "cannot resurrect the key").
WipeIrreversible ==
  slips \cap {"setup", "late"} = {} =>
    \A k \in Keys : fate[k] = "wiped" => k \notin Recoverable \cup Held

\* With nothing running, the reader tries exactly the keys the disk holds.
MemoryMatchesDisk ==
  slips = {} /\ tab.status = "unlocked" /\ ~Busy(Calls) =>
    tab.active = stored.key /\ tab.active \notin tab.older /\ Held = Recoverable

\* After a lock or a wipe no key enters memory but through a call made since: not by
\* a late unlock, a late rotation or the background loop (epochRef).
LockHolds ==
  [][Held' \subseteq Held \/ "setup" \in slips \/ \E c \in Calls : calls[c].since /\ calls'[c] # calls[c]]_vars

\* An open session gets its retired keys in the end, so that older links open.
Calm == slips = {} /\ tab.status = "unlocked" /\ ~Busy(Wipes)
RetiredArrive == Calm ~> Recoverable \subseteq Held \/ ~Calm
================================================================================
