---------------------------- MODULE WebIdentityProofs --------------------------
(* The safety properties of WebIdentity for every number of keys, passphrases  *)
(* and calls, and whatever may go wrong.                                       *)
EXTENDS WebIdentity, TLAPS

-------------------------------------------------------------------------------
SetupPcs == {"save", "adopt"}
RotatePcs == {"verify", "put", "flip"}
WipePcs == {"revoke", "purge", "bump", "drop", "leave"}
Active(c) == ~At(c, "idle") /\ Current(c)

\* TypeOK, which call is suspended where, what its locals are there, and that an
\* epoch still current means that no lock and no wipe has come since.
ShapeOf(c, call) ==
  /\ call.pc \in SetupPcs => c \in Setups
  /\ call.pc \in {"unwrap", "older"} => c \in Unlocks
  /\ call.pc \in RotatePcs => c \in Rotates
  /\ call.pc \in WipePcs => c \in Wipes
  /\ call.pc \in SetupPcs \cup RotatePcs \cup {"older"} => call.held \in Wrapped
  /\ call.pc \in RotatePcs => call.fresh \in Keys
  /\ call.epoch <= epoch
  /\ call.pc # "idle" /\ call.epoch = epoch => call.since
Shape == TypeOK /\ \A c \in Calls : ShapeOf(c, calls[c])

\* No key on disk, in memory or in a call is one still to be made.
MadeOf(call) ==
  /\ call.held # NoRecord => fate[call.held.key] # "unmade"
  /\ call.fresh # None => fate[call.fresh] # "unmade"
  /\ \A w \in call.list : fate[w.key] # "unmade"
Made ==
  /\ stored # NoRecord => fate[stored.key] # "unmade"
  /\ \A w \in retired : fate[w.key] # "unmade"
  /\ \A k \in Held : fate[k] # "unmade"
  /\ \A c \in Calls : MadeOf(calls[c])

\* A setup that slips over nothing runs alone, on an empty disk.
AloneOf(c) ==
  calls[c].pc \in SetupPcs =>
    /\ \A d \in Calls \ {c} : At(d, "idle")
    /\ tab.status = "no_identity"
    /\ calls[c].since
    /\ stored = IF At(c, "save") THEN NoRecord ELSE calls[c].held
SetupAlone ==
  "setup" \notin slips =>
    /\ tab.status = "loading" => \A c \in Calls : At(c, "idle")
    /\ \A c \in Calls : AloneOf(c)

\* Keys a call will show, or write.
Carried(call) ==
  {k \in Keys : \/ call.held # NoRecord /\ k = call.held.key
                \/ call.pc \in RotatePcs /\ k = call.fresh
                \/ \E w \in call.list : k = w.key}
\* ... and that it is still going to.
Carries(call) == \/ call.pc # "idle" /\ call.epoch = epoch
                 \/ call.pc \in {"put", "save", "adopt"}

\* A wiped key is nowhere, and a wipe past its epoch leaves no call that carries any.
CleanDisk == /\ stored # NoRecord => fate[stored.key] # "wiped"
             /\ \A w \in retired : fate[w.key] # "wiped"
             /\ \A k \in Held : fate[k] # "wiped"
CleanOf(call) == Carries(call) => \A k \in Carried(call) : fate[k] # "wiped"
LeavesNothing(call) ==
  call.pc \in {"drop", "leave"} =>
    /\ stored = NoRecord /\ (call.pc = "leave" => retired = {})
    /\ \A d \in Calls : Carries(calls[d]) => Carried(calls[d]) = {}
Late == slips \cap {"setup", "late"} # {}
WipeClean ==
  Late \/ (CleanDisk /\ \A c \in Calls : CleanOf(calls[c]) /\ LeavesNothing(calls[c]))

\* Keys a wipe has not doomed.
Alive(k) == fate[k] \in {"made", "kept"}

\* The kept keys are on disk, and so is each key that is about to be kept; a rotation
\* writes over the record it has read, or over the remains of a wipe.
KeepsOf(call) ==
  /\ call.pc \in {"unwrap", "flip"} /\ call.held # NoRecord /\ Alive(call.held.key) =>
       call.held.key \in Recoverable
  /\ call.pc = "verify" => stored = call.held \/ \A k \in Keys : ~Alive(k)
  /\ call.pc = "put" =>
       \/ /\ stored # NoRecord
          /\ call.held.phrase = stored.phrase
          /\ call.list = PrependRetired(stored, retired)
       \/ \A k \in Keys : Alive(k) => k = call.held.key
OneRotation ==
  \A c, d \in Calls : calls[c].pc \in RotatePcs /\ calls[d].pc \in RotatePcs => c = d
KeptOnDisk == \A k \in Keys : fate[k] = "kept" => k \in Recoverable
Risky == slips \cap {"setup", "twice", "unreadable"} # {}
KeepsKeys == Risky \/ (KeptOnDisk /\ OneRotation /\ \A c \in Calls : KeepsOf(calls[c]))

\* The keys the background loop, and a rotation about to end, will add to memory.
Brings(call) == {k \in Keys : /\ call.pc = "older" /\ call.epoch = epoch
                              /\ \E w \in call.list : w.key = k /\ w.phrase = call.held.phrase}
Shows(call) == {k \in Keys : call.pc = "flip" /\ call.epoch = epoch /\ k = call.held.key}
Coming == {k \in Keys : \E c \in Calls : k \in Brings(calls[c])}
About == {k \in Keys : \E c \in Calls : k \in Shows(calls[c])}

\* Memory and disk while calls are under way.  A wipe that began excuses everything
\* until it ends.
Doomed == \E k \in Keys : fate[k] = "doomed"
Wiping == \E c \in Calls : calls[c].pc \in WipePcs
Unlocking(call) == call.pc = "unwrap" /\ call.epoch = epoch
OneUnlock == \A c, d \in Calls : Unlocking(calls[c]) /\ Unlocking(calls[d]) => c = d
Admits(call) ==
  call.epoch = epoch =>
    /\ call.pc \in {"older"} \cup RotatePcs => tab.status = "unlocked"
    /\ call.pc = "unwrap" => tab.status # "unlocked"
Fits(call) ==
  call.epoch = epoch =>
    /\ call.pc = "unwrap" => call.held = stored
    /\ call.pc = "older" => stored # NoRecord /\ call.held.phrase = stored.phrase
    /\ call.pc \in RotatePcs => call.fresh = tab.active
    /\ call.pc \in {"verify", "flip"} => call.held = stored
    /\ call.pc = "put" => /\ stored # NoRecord /\ call.held.phrase = stored.phrase
                          /\ call.list = PrependRetired(stored, retired)
                          /\ call.held.key \notin Recoverable
Empty ==
  /\ stored = NoRecord => retired = {}
  /\ \A c \in Calls : calls[c].pc \in SetupPcs => retired = {}
Agrees ==
  tab.status = "unlocked" =>
    /\ stored # NoRecord
    /\ Held \cup Coming \cup About = Recoverable
    /\ tab.active \notin tab.older \cup Coming
    /\ About \cap (Held \cup Coming) = {}
    /\ tab.active = stored.key \/ About # {}
Matches ==
  \/ slips # {}
  \/ /\ (Doomed => Wiping) /\ OneUnlock /\ \A c \in Calls : Admits(calls[c])
     /\ Doomed \/ (Empty /\ Agrees /\ \A c \in Calls : Fits(calls[c]))

WebInv == Shape /\ Made /\ SetupAlone /\ WipeClean /\ KeepsKeys /\ Matches

-------------------------------------------------------------------------------
LEMMA NoRecordFacts ==
  NoRecord \notin Wrapped /\ NoRecord.key = None
BY WebAssumption DEF WebAssumption, NoRecord, Wrapped

\* The call at its start and at its end.
LEMMA RestingFacts ==
  /\ Resting \in Call
  /\ Resting.pc = "idle" /\ Resting.epoch = 0
  /\ Resting.held = NoRecord /\ Resting.fresh = None /\ Resting.list = {}
BY DEF Resting, Call

LEMMA BegunFacts ==
  ASSUME epoch \in Nat,
         NEW pc \in {"idle", "save", "adopt", "unwrap", "older", "verify", "put", "flip",
                     "revoke", "purge", "bump", "drop", "leave"},
         NEW r \in Wrapped \cup {NoRecord}, NEW k \in Keys \cup {None}
  PROVE  /\ [Begun(pc) EXCEPT !.held = r, !.fresh = k] \in Call
         /\ [Begun(pc) EXCEPT !.held = r, !.fresh = k].pc = pc
         /\ [Begun(pc) EXCEPT !.held = r, !.fresh = k].epoch = epoch
         /\ [Begun(pc) EXCEPT !.held = r, !.fresh = k].held = r
         /\ [Begun(pc) EXCEPT !.held = r, !.fresh = k].fresh = k
         /\ [Begun(pc) EXCEPT !.held = r, !.fresh = k].list = {}
         /\ [Begun(pc) EXCEPT !.held = r, !.fresh = k].since = TRUE
BY DEF Begun, Resting, Call, NoRecord

LEMMA CallFacts ==
  ASSUME Shape, NEW c \in Calls
  PROVE  /\ calls[c] \in Call /\ calls \in [Calls -> Call]
         /\ calls[c].held \in Wrapped \cup {NoRecord} /\ calls[c].fresh \in Keys \cup {None}
         /\ calls[c].list \subseteq Wrapped /\ calls[c].epoch \in Nat /\ calls[c].since \in BOOLEAN
         /\ epoch \in Nat /\ tab \in Tab /\ retired \subseteq Wrapped
         /\ stored \in Wrapped \cup {NoRecord}
         /\ fate \in [Keys -> {"unmade", "made", "kept", "doomed", "wiped"}]
BY DEF Shape, TypeOK, Call

LEMMA NewFacts ==
  ASSUME KeysLeft
  PROVE  New \in Keys /\ fate[New] = "unmade"
BY DEF KeysLeft, New

LEMMA AnnounceFacts ==
  ASSUME fate \in [Keys -> {"unmade", "made", "kept", "doomed", "wiped"}], NEW k \in Keys,
  Announce(k)
  PROVE  /\ fate' \in [Keys -> {"unmade", "made", "kept", "doomed", "wiped"}]
         /\ \A j \in Keys : fate'[j] = IF j = k /\ fate[k] = "made" THEN "kept" ELSE fate[j]
BY DEF Announce

LEMMA DoomFacts ==
  ASSUME fate \in [Keys -> {"unmade", "made", "kept", "doomed", "wiped"}], Doom
  PROVE  /\ fate' \in [Keys -> {"unmade", "made", "kept", "doomed", "wiped"}]
         /\ \A j \in Keys : fate'[j] = IF Alive(j) THEN "doomed" ELSE fate[j]
BY DEF Doom, Alive

\* What the tab holds in each of its states.
LEMMA TabFacts ==
  ASSUME tab \in Tab
  PROVE  /\ tab.active \in Keys \cup {None} /\ tab.older \subseteq Keys
         /\ tab.status = "unlocked" <=> tab.active # None
         /\ tab.status \in {"loading", "no_identity", "locked", "unlocked"}
BY WebAssumption DEF WebAssumption, Tab

LEMMA WithoutFacts ==
  ASSUME NEW status \in {"loading", "no_identity", "locked"}
  PROVE  /\ Without(status) \in Tab /\ Without(status).status = status
         /\ Without(status).active = None /\ Without(status).older = {}
BY DEF Without, Tab

LEMMA UnlockedFacts ==
  ASSUME NEW k \in Keys, NEW S \in SUBSET Keys
  PROVE  /\ Unlocked(k, S) \in Tab /\ Unlocked(k, S).status = "unlocked"
         /\ Unlocked(k, S).active = k /\ Unlocked(k, S).older = S
BY DEF Unlocked, Tab

LEMMA HeldFacts ==
  ASSUME tab \in Tab
  PROVE  /\ tab.active # None => tab.active \in Held
         /\ tab.older \subseteq Held
         /\ tab.active = None /\ tab.older = {} => Held = {}
BY TabFacts, WebAssumption DEF WebAssumption, Held

-------------------------------------------------------------------------------
\* What each step does, the call that takes it becoming n.
\* setupNew, importIdentity: a new key, over nothing unless it slips.
SetupStarts(c, n, k) ==
  /\ calls' = [calls EXCEPT ![c] = n] /\ At(c, "idle")
  /\ n.pc = "save" /\ n.epoch = epoch /\ n.since
  /\ n.held \in Wrapped /\ n.held.key = k /\ n.fresh = None /\ n.list = {}
  /\ fate[k] = "unmade" /\ fate' = [fate EXCEPT ![k] = "made"]
  /\ UNCHANGED <<stored, retired, tab, epoch>>
  /\ slips \subseteq slips'
  /\ "setup" \notin slips' =>
       /\ stored = NoRecord /\ tab.status = "no_identity"
       /\ \A d \in Calls : At(d, "idle")

\* ... its record written
SetupSaves(c, n) ==
  /\ calls' = [calls EXCEPT ![c] = n] /\ At(c, "save")
  /\ n.pc = "adopt" /\ n.epoch = calls[c].epoch /\ n.since = calls[c].since
  /\ n.held = calls[c].held /\ n.fresh = calls[c].fresh /\ n.list = calls[c].list
  /\ n.held \in Wrapped /\ stored' = n.held
  /\ UNCHANGED <<retired, tab, epoch, slips, fate>>

\* unlock: the record read
UnlockStarts(c, n) ==
  /\ calls' = [calls EXCEPT ![c] = n] /\ At(c, "idle")
  /\ n.pc = "unwrap" /\ n.epoch = epoch /\ n.since
  /\ n.held = stored /\ n.fresh = None /\ n.list = {}
  /\ tab.status = "locked"
  /\ \A u \in Unlocks : ~(At(u, "unwrap") /\ Current(u))
  /\ UNCHANGED <<stored, retired, tab, epoch, fate>>
  /\ slips \subseteq slips'

\* ... the active key shown, the retired ones fetched
UnlockShows(c, n) ==
  /\ calls' = [calls EXCEPT ![c] = n] /\ At(c, "unwrap") /\ Current(c)
  /\ calls[c].held \in Wrapped
  /\ tab' = Unlocked(calls[c].held.key, {})
  /\ Announce(calls[c].held.key)
  /\ UNCHANGED <<stored, retired, epoch>>
  /\ \/ /\ n.pc = "older" /\ n.epoch = epoch /\ n.since = calls[c].since
        /\ n.held = calls[c].held /\ n.fresh = calls[c].fresh
        /\ n.list = RetiredExcludingActive(calls[c].held.key)
        /\ UNCHANGED slips
     \/ n = Resting /\ slips \subseteq slips' /\ slips' # {}

\* ... one retired key more
UnlockAdds(c, n, w) ==
  /\ calls' = [calls EXCEPT ![c] = n] /\ At(c, "older") /\ Current(c)
  /\ w \in calls[c].list
  /\ n.pc = "older" /\ n.epoch = calls[c].epoch /\ n.since = calls[c].since
  /\ n.held = calls[c].held /\ n.fresh = calls[c].fresh /\ n.list = calls[c].list \ {w}
  /\ UNCHANGED <<stored, retired, epoch, fate>>
  /\ \/ /\ w.phrase = calls[c].held.phrase /\ tab' = [tab EXCEPT !.older = @ \cup {w.key}]
        /\ UNCHANGED slips
     \/ w.phrase # calls[c].held.phrase /\ UNCHANGED <<tab, slips>>
     \/ slips \subseteq slips' /\ slips' # {} /\ UNCHANGED tab

\* rotate: the record and the active key read
RotateStarts(c, n) ==
  /\ calls' = [calls EXCEPT ![c] = n] /\ At(c, "idle")
  /\ n.pc = "verify" /\ n.epoch = epoch /\ n.since
  /\ n.held = stored /\ n.fresh = tab.active /\ n.list = {}
  /\ tab.status = "unlocked" /\ stored \in Wrapped /\ tab.active \in Keys
  /\ UNCHANGED <<stored, retired, tab, epoch, fate>>
  /\ slips \subseteq slips'
  /\ "twice" \notin slips' => \A r \in Rotates : At(r, "idle")

\* ... the new key made, the list put together
RotateChecks(c, n, k) ==
  /\ calls' = [calls EXCEPT ![c] = n] /\ At(c, "verify") /\ Current(c)
  /\ calls[c].held \in Wrapped
  /\ n.pc = "put" /\ n.epoch = calls[c].epoch /\ n.since = calls[c].since
  /\ n.held \in Wrapped /\ n.held.key = k /\ n.held.phrase = calls[c].held.phrase
  /\ n.fresh = calls[c].fresh
  /\ fate[k] = "unmade" /\ fate' = [fate EXCEPT ![k] = "made"]
  /\ UNCHANGED <<stored, retired, tab, epoch>>
  /\ slips \subseteq slips'
  /\ n.list \subseteq PrependRetired(calls[c].held, retired)
  /\ "unreadable" \notin slips' => n.list = PrependRetired(calls[c].held, retired)

\* ... both written
RotatePuts(c, n) ==
  /\ calls' = [calls EXCEPT ![c] = n] /\ At(c, "put")
  /\ n.pc = "flip" /\ n.epoch = calls[c].epoch /\ n.since = calls[c].since
  /\ n.held = calls[c].held /\ n.fresh = calls[c].fresh /\ n.list = calls[c].list
  /\ n.held \in Wrapped /\ stored' = n.held /\ retired' = n.list
  /\ UNCHANGED <<tab, epoch, fate>>
  /\ slips \subseteq slips'
  /\ "stale" \notin slips' => Current(c) /\ \A u \in Unlocks : ~At(u, "unwrap")

\* wipe
WipeStarts(c, n) ==
  /\ calls' = [calls EXCEPT ![c] = n] /\ At(c, "idle")
  /\ n.pc = "revoke" /\ n.epoch = epoch /\ n.since
  /\ n.held = NoRecord /\ n.fresh = None /\ n.list = {}
  /\ tab.status = "unlocked"
  /\ UNCHANGED <<stored, retired, tab, epoch, fate>>
  /\ slips \subseteq slips'

\* ... one of its deletions
WipeDeletes(c, n) ==
  /\ calls' = [calls EXCEPT ![c] = n]
  /\ n.epoch = calls[c].epoch /\ n.since = calls[c].since
  /\ n.held = calls[c].held /\ n.fresh = calls[c].fresh /\ n.list = calls[c].list
  /\ \/ At(c, "revoke") /\ n.pc = "purge" /\ stored' = NoRecord /\ retired' = retired
     \/ At(c, "purge") /\ n.pc = "bump" /\ stored' = stored /\ retired' = {}
     \/ At(c, "drop") /\ n.pc = "leave" /\ stored' = stored /\ retired' = {}
  /\ Doom
  /\ UNCHANGED <<tab, epoch, slips>>

\* Lock, and the wipe's own step of the epoch, whether or not its deletion fails: no call
\* is current any more.
EpochMoves == Lock \/ \E c \in Wipes : WipeActive(c) \/ WipeFails(c)
EpochSteps ==
  /\ calls' \in [Calls -> Call]
  /\ epoch' = epoch + 1 /\ epoch' \in Nat
  /\ slips \subseteq slips'
  /\ UNCHANGED retired
  /\ \A d \in Calls :
       /\ \/ calls'[d] = Resting /\ (At(d, "idle") \/ d \in Wipes)
          \/ /\ calls'[d].epoch = calls[d].epoch /\ calls'[d].held = calls[d].held
             /\ calls'[d].fresh = calls[d].fresh /\ calls'[d].list = calls[d].list
             /\ \/ calls'[d].pc = calls[d].pc
                \/ d \in Wipes /\ WipeActive(d) /\ calls'[d].pc = "drop"
       /\ ~Active(d)'

\* A call that gives up, or is done, and shows nothing.
Ends(c) ==
  /\ calls' = [calls EXCEPT ![c] = Resting]
  /\ At(c, "older") => ~Current(c) \/ calls[c].list = {}
  /\ ~At(c, "flip")
  /\ UNCHANGED <<stored, retired, epoch, fate>>
  /\ \/ UNCHANGED tab
     \/ tab' = Without("no_identity") /\ At(c, "unwrap") /\ Active(c)
  /\ slips \subseteq slips'
  /\ slips' = {} /\ calls[c].pc \in WipePcs => ~Doomed

LEMMA SetupStartDoes ==
  ASSUME Shape, NEW c \in Setups, NEW p \in Phrases, SetupStart(c, p)
  PROVE  \E n \in Call, k \in Keys : SetupStarts(c, n, k)
<1>1. New \in Keys /\ fate[New] = "unmade"
  BY NewFacts DEF SetupStart
<1> DEFINE r == [key |-> New, phrase |-> p]
           n == [Begun("save") EXCEPT !.held = r]
<1>2. r \in Wrapped /\ r.key = New
  BY <1>1 DEF Wrapped
<1>3. calls' = [calls EXCEPT ![c] = n]
  BY DEF SetupStart
<1> HIDE DEF r
<1>4. /\ n \in Call /\ n.pc = "save" /\ n.epoch = epoch /\ n.since = TRUE
      /\ n.held = r /\ n.fresh = None /\ n.list = {}
  BY <1>2 DEF Begun, Resting, Call, Shape, TypeOK, NoRecord
<1> HIDE DEF n
<1>5. /\ fate' = [fate EXCEPT ![New] = "made"] /\ At(c, "idle")
      /\ UNCHANGED <<stored, retired, tab, epoch>>
  BY DEF SetupStart
<1>6. /\ slips \subseteq slips'
      /\ "setup" \notin slips' => /\ stored = NoRecord /\ tab.status = "no_identity"
                                  /\ \A d \in Calls : At(d, "idle")
  BY DEF SetupStart, Slip, Busy
<1>7. QED BY <1>1, <1>2, <1>3, <1>4, <1>5, <1>6 DEF SetupStarts

LEMMA SetupSaveDoes ==
  ASSUME Shape, NEW c \in Setups, SetupSave(c)
  PROVE  \E n \in Call : SetupSaves(c, n)
<1> DEFINE n == [calls[c] EXCEPT !.pc = "adopt"]
<1>1. c \in Calls
  BY DEF Calls
<1>2. /\ n \in Call
      /\ n.pc = "adopt" /\ n.epoch = calls[c].epoch /\ n.since = calls[c].since
      /\ n.held = calls[c].held /\ n.fresh = calls[c].fresh /\ n.list = calls[c].list
  BY <1>1, CallFacts DEF Call
<1>3. calls' = [calls EXCEPT ![c] = n]
  BY DEF SetupSave
<1> HIDE DEF n
<1>4. At(c, "save") /\ calls[c].held \in Wrapped
  BY <1>1 DEF SetupSave, Shape, ShapeOf, SetupPcs, At
<1>5. QED BY <1>2, <1>3, <1>4 DEF SetupSave, SetupSaves

LEMMA UnlockStartDoes ==
  ASSUME Shape, NEW c \in Unlocks, UnlockStart(c)
  PROVE  \E n \in Call : UnlockStarts(c, n)
<1> DEFINE n == [Begun("unwrap") EXCEPT !.held = stored]
<1>1. /\ n \in Call /\ n.pc = "unwrap" /\ n.epoch = epoch /\ n.since = TRUE
      /\ n.held = stored /\ n.fresh = None /\ n.list = {}
  BY DEF Begun, Resting, Call, Shape, TypeOK
<1>2. calls' = [calls EXCEPT ![c] = n]
  BY DEF UnlockStart
<1> HIDE DEF n
<1>3. QED BY <1>1, <1>2 DEF UnlockStart, Slip, UnlockStarts

LEMMA UnlockFinishDoes ==
  ASSUME Shape, NEW c \in Unlocks, UnlockFinish(c), Current(c)
  PROVE  \E n \in Call : UnlockShows(c, n)
<1>1. c \in Calls
  BY DEF Calls
<1>2. /\ At(c, "unwrap") /\ calls[c].held \in Wrapped
      /\ tab' = Unlocked(calls[c].held.key, {})
      /\ Announce(calls[c].held.key)
      /\ UNCHANGED <<stored, retired, epoch>>
  BY <1>1, CallFacts DEF UnlockFinish, Wanted
<1>3. CASE /\ calls' = [calls EXCEPT ![c].pc = "older",
                                     ![c].list = RetiredExcludingActive(calls[c].held.key)]
           /\ UNCHANGED slips
  <2> DEFINE n == [calls[c] EXCEPT !.pc = "older",
                                   !.list = RetiredExcludingActive(calls[c].held.key)]
  <2>1. RetiredExcludingActive(calls[c].held.key) \subseteq Wrapped
    BY <1>1, CallFacts DEF RetiredExcludingActive
  <2>2. /\ n \in Call
        /\ n.pc = "older" /\ n.epoch = calls[c].epoch /\ n.since = calls[c].since
        /\ n.held = calls[c].held /\ n.fresh = calls[c].fresh
        /\ n.list = RetiredExcludingActive(calls[c].held.key)
    BY <1>1, <2>1, CallFacts DEF Call
  <2>3. calls' = [calls EXCEPT ![c] = n]
    BY <1>1, <1>3, CallFacts
  <2> HIDE DEF n
  <2>4. n.epoch = epoch
    BY <2>2 DEF Current
  <2>5. UnlockShows(c, n)
    BY <1>2, <1>3, <2>2, <2>3, <2>4 DEF UnlockShows
  <2>6. QED BY <2>2, <2>5
<1>4. CASE Slip({"unreadable"}) /\ Settle(c)
  <2>1. slips \subseteq slips' /\ slips' # {} /\ calls' = [calls EXCEPT ![c] = Resting]
    BY <1>4 DEF Slip, Settle
  <2>2. UnlockShows(c, Resting)
    BY <1>2, <2>1 DEF UnlockShows
  <2>3. QED BY <2>2, RestingFacts
<1>5. QED BY <1>3, <1>4 DEF UnlockFinish, Wanted

LEMMA UnlockOlderDoes ==
  ASSUME Shape, NEW c \in Unlocks, NEW w \in Wrapped, UnlockOlder(c, w), Current(c)
  PROVE  \E n \in Call : UnlockAdds(c, n, w)
<1> DEFINE n == [calls[c] EXCEPT !.list = calls[c].list \ {w}]
<1>1. c \in Calls
  BY DEF Calls
<1>2. At(c, "older") /\ w \in calls[c].list
  BY DEF UnlockOlder
<1>3. /\ n \in Call
      /\ n.pc = "older" /\ n.epoch = calls[c].epoch /\ n.since = calls[c].since
      /\ n.held = calls[c].held /\ n.fresh = calls[c].fresh /\ n.list = calls[c].list \ {w}
  BY <1>1, <1>2, CallFacts DEF Call, At
<1>4. calls' = [calls EXCEPT ![c] = n]
  BY DEF UnlockOlder
<1> HIDE DEF n
<1>5. /\ UNCHANGED <<stored, retired, epoch, fate>>
      /\ \/ /\ w.phrase = calls[c].held.phrase /\ tab' = [tab EXCEPT !.older = @ \cup {w.key}]
            /\ UNCHANGED slips
         \/ w.phrase # calls[c].held.phrase /\ UNCHANGED <<tab, slips>>
         \/ slips \subseteq slips' /\ slips' # {} /\ UNCHANGED tab
  BY DEF UnlockOlder, Slip
<1>6. QED BY <1>2, <1>3, <1>4, <1>5 DEF UnlockAdds

LEMMA RotateStartDoes ==
  ASSUME Shape, NEW c \in Rotates, RotateStart(c)
  PROVE  \E n \in Call : RotateStarts(c, n)
<1> DEFINE n == [Begun("verify") EXCEPT !.held = stored, !.fresh = tab.active]
<1>1. tab.status = "unlocked" /\ stored \in Wrapped /\ tab.active \in Keys
  BY TabFacts DEF RotateStart, Shape, TypeOK
<1>2. /\ n \in Call /\ n.pc = "verify" /\ n.epoch = epoch /\ n.since = TRUE
      /\ n.held = stored /\ n.fresh = tab.active /\ n.list = {}
  BY <1>1 DEF Begun, Resting, Call, Shape, TypeOK
<1>3. calls' = [calls EXCEPT ![c] = n]
  BY DEF RotateStart
<1> HIDE DEF n
<1>4. /\ UNCHANGED <<stored, retired, tab, epoch, fate>> /\ At(c, "idle")
      /\ slips \subseteq slips'
      /\ "twice" \notin slips' => \A r \in Rotates : At(r, "idle")
  BY DEF RotateStart, Slip, Busy
<1>5. QED BY <1>1, <1>2, <1>3, <1>4 DEF RotateStarts

LEMMA RotateCheckDoes ==
  ASSUME Shape, NEW c \in Rotates, RotateCheck(c)
  PROVE  \E n \in Call, k \in Keys : RotateChecks(c, n, k)
<1>1. c \in Calls /\ New \in Keys /\ fate[New] = "unmade"
  BY NewFacts DEF RotateCheck, Calls
<1>2. At(c, "verify") /\ Current(c) /\ calls[c].held \in Wrapped
  BY <1>1 DEF RotateCheck, Shape, ShapeOf, RotatePcs, At
<1>3. PICK unreadable \in BOOLEAN :
        /\ Slip(IF unreadable THEN {"unreadable"} ELSE {})
        /\ calls' = [calls EXCEPT ![c].pc = "put",
             ![c].list = PrependRetired(calls[c].held, IF unreadable THEN {} ELSE retired),
             ![c].held.key = New]
  BY DEF RotateCheck
<1>4. PICK list : list = PrependRetired(calls[c].held, IF unreadable THEN {} ELSE retired)
  OBVIOUS
<1>5. list \subseteq Wrapped /\ list \subseteq PrependRetired(calls[c].held, retired)
  BY <1>1, <1>2, <1>4, CallFacts DEF PrependRetired
<1> DEFINE r == [calls[c].held EXCEPT !.key = New]
           n == [calls[c] EXCEPT !.pc = "put", !.list = list, !.held = r]
<1>6. r \in Wrapped /\ r.key = New /\ r.phrase = calls[c].held.phrase
  BY <1>1, <1>2 DEF Wrapped
<1>7. calls' = [calls EXCEPT ![c] = n]
  BY <1>1, <1>3, <1>4, CallFacts DEF Call
<1> HIDE DEF r
<1>8. /\ n \in Call /\ n.pc = "put" /\ n.epoch = calls[c].epoch /\ n.since = calls[c].since
      /\ n.held = r /\ n.fresh = calls[c].fresh /\ n.list = list
  BY <1>1, <1>5, <1>6, CallFacts DEF Call
<1> HIDE DEF n
<1>9. /\ slips \subseteq slips'
      /\ "unreadable" \notin slips' => list = PrependRetired(calls[c].held, retired)
  BY <1>3, <1>4 DEF Slip
<1>10. fate' = [fate EXCEPT ![New] = "made"] /\ UNCHANGED <<stored, retired, tab, epoch>>
  BY DEF RotateCheck
<1>11. QED BY <1>1, <1>2, <1>5, <1>6, <1>7, <1>8, <1>9, <1>10 DEF RotateChecks

LEMMA RotatePutDoes ==
  ASSUME Shape, NEW c \in Rotates, RotatePut(c)
  PROVE  \E n \in Call : RotatePuts(c, n)
<1> DEFINE n == [calls[c] EXCEPT !.pc = "flip"]
<1>1. c \in Calls
  BY DEF Calls
<1>2. At(c, "put") /\ calls[c].held \in Wrapped
  BY <1>1 DEF RotatePut, Shape, ShapeOf, RotatePcs, At
<1>3. /\ n \in Call
      /\ n.pc = "flip" /\ n.epoch = calls[c].epoch /\ n.since = calls[c].since
      /\ n.held = calls[c].held /\ n.fresh = calls[c].fresh /\ n.list = calls[c].list
  BY <1>1, CallFacts DEF Call
<1>4. calls' = [calls EXCEPT ![c] = n]
  BY DEF RotatePut
<1> HIDE DEF n
<1>5. /\ stored' = calls[c].held /\ retired' = calls[c].list
      /\ UNCHANGED <<tab, epoch, fate>>
      /\ slips \subseteq slips'
      /\ "stale" \notin slips' => Current(c) /\ \A u \in Unlocks : ~At(u, "unwrap")
  BY DEF RotatePut, Both, Slip
<1>6. QED BY <1>2, <1>3, <1>4, <1>5 DEF RotatePuts

LEMMA WipeStartDoes ==
  ASSUME Shape, NEW c \in Wipes, WipeStart(c)
  PROVE  \E n \in Call : WipeStarts(c, n)
<1> DEFINE n == Begun("revoke")
<1>1. /\ n \in Call /\ n.pc = "revoke" /\ n.epoch = epoch /\ n.since = TRUE
      /\ n.held = NoRecord /\ n.fresh = None /\ n.list = {}
  BY DEF Begun, Resting, Call, Shape, TypeOK
<1>2. calls' = [calls EXCEPT ![c] = n]
  BY DEF WipeStart
<1> HIDE DEF n
<1>3. QED BY <1>1, <1>2 DEF WipeStart, Slip, WipeStarts

\* The deletions before and after the epoch's step.
LEMMA WipeStepDoes ==
  ASSUME Shape, NEW c \in Wipes, Purge(c) \/ WipeRetired(c)
  PROVE  \E n \in Call : WipeDeletes(c, n)
<1>1. c \in Calls
  BY DEF Calls
<1>2. PICK pc \in {"purge", "bump", "leave"} :
        /\ calls' = [calls EXCEPT ![c].pc = pc]
        /\ \/ At(c, "revoke") /\ pc = "purge" /\ stored' = NoRecord /\ retired' = retired
           \/ At(c, "purge") /\ pc = "bump" /\ stored' = stored /\ retired' = {}
           \/ At(c, "drop") /\ pc = "leave" /\ stored' = stored /\ retired' = {}
  BY DEF Purge, WipeRetired
<1> DEFINE n == [calls[c] EXCEPT !.pc = pc]
<1>3. /\ n \in Call
      /\ n.pc = pc /\ n.epoch = calls[c].epoch /\ n.since = calls[c].since
      /\ n.held = calls[c].held /\ n.fresh = calls[c].fresh /\ n.list = calls[c].list
  BY <1>1, CallFacts DEF Call
<1>4. calls' = [calls EXCEPT ![c] = n]
  BY <1>2
<1> HIDE DEF n
<1>5. Doom /\ UNCHANGED <<tab, epoch, slips>>
  BY DEF Purge, WipeRetired
<1>6. QED BY <1>2, <1>3, <1>4, <1>5 DEF WipeDeletes

LEMMA EpochStepDoes ==
  ASSUME Shape, EpochMoves
  PROVE  EpochSteps
<1>1. \A d \in Calls : calls[d] \in Call /\ calls[d].epoch \in Nat /\ epoch \in Nat
  BY CallFacts
<1>2. epoch' = epoch + 1 /\ UNCHANGED retired /\ slips \subseteq slips'
  BY DEF EpochMoves, Lock, WipeActive, WipeFails, NextEpoch, Slip
<1>3. \A d \in Calls : calls[d].epoch <= epoch
  BY DEF Shape, ShapeOf
<1>4. CASE Lock
  <2>1. /\ calls' \in [Calls -> Call]
        /\ \A d \in Calls :
             /\ calls'[d].epoch = calls[d].epoch /\ calls'[d].held = calls[d].held
             /\ calls'[d].fresh = calls[d].fresh /\ calls'[d].list = calls[d].list
             /\ calls'[d].pc = calls[d].pc
    BY <1>1, <1>4 DEF Lock, Call
  <2>2. \A d \in Calls : ~Active(d)'
    BY <1>1, <1>2, <1>3, <2>1 DEF Active, At, Current
  <2>3. QED BY <1>1, <1>2, <2>1, <2>2 DEF EpochSteps, Shape, TypeOK
<1>5. ASSUME NEW c \in Wipes, WipeActive(c) PROVE EpochSteps
  <2>1. ASSUME NEW d \in Calls
        PROVE  /\ calls'[d] \in Call
               /\ calls'[d].epoch = calls[d].epoch /\ calls'[d].held = calls[d].held
               /\ calls'[d].fresh = calls[d].fresh /\ calls'[d].list = calls[d].list
               /\ calls'[d].pc = IF d = c THEN "drop" ELSE calls[d].pc
    <3>1. calls'[d] = [calls[d] EXCEPT !.pc = IF d = c THEN "drop" ELSE @, !.since = FALSE]
      BY <1>5 DEF WipeActive
    <3>2. CASE d = c
      BY <1>1, <3>1, <3>2 DEF Call
    <3>3. CASE d # c
      BY <1>1, <3>1, <3>3 DEF Call
    <3>4. QED BY <3>2, <3>3
  <2>2. calls' \in [Calls -> Call]
    <3>1. calls' = [d \in Calls |-> calls'[d]]
      BY <1>5 DEF WipeActive
    <3>2. QED BY <2>1, <3>1
  <2>3. \A d \in Calls : \/ calls'[d].pc = calls[d].pc
                         \/ d \in Wipes /\ WipeActive(d) /\ calls'[d].pc = "drop"
    BY <1>5, <2>1
  <2>4. epoch' \in Nat /\ \A d \in Calls : ~Active(d)'
    BY <1>1, <1>2, <1>3, <2>1 DEF Shape, TypeOK, Active, At, Current
  <2>5. QED BY <1>2, <2>1, <2>2, <2>3, <2>4 DEF EpochSteps
<1>6. ASSUME NEW c \in Wipes, WipeFails(c) PROVE EpochSteps
  <2>1. ASSUME NEW d \in Calls
        PROVE  /\ calls'[d] \in Call
               /\ d = c => calls'[d] = Resting
               /\ d # c => /\ calls'[d].epoch = calls[d].epoch /\ calls'[d].held = calls[d].held
                           /\ calls'[d].fresh = calls[d].fresh /\ calls'[d].list = calls[d].list
                           /\ calls'[d].pc = calls[d].pc
    <3>1. calls'[d] = IF d = c THEN Resting ELSE [calls[d] EXCEPT !.since = FALSE]
      BY <1>6 DEF WipeFails
    <3>2. CASE d = c
      BY <3>1, <3>2, RestingFacts
    <3>3. CASE d # c
      BY <1>1, <3>1, <3>3 DEF Call
    <3>4. QED BY <3>2, <3>3
  <2>2. calls' \in [Calls -> Call]
    <3>1. calls' = [d \in Calls |-> calls'[d]]
      BY <1>6 DEF WipeFails
    <3>2. QED BY <2>1, <3>1
  <2>3. epoch' \in Nat /\ \A d \in Calls : ~Active(d)'
    BY <1>1, <1>2, <1>3, <2>1, RestingFacts DEF Shape, TypeOK, Active, At, Current
  <2>4. QED BY <1>2, <1>6, <2>1, <2>2, <2>3 DEF EpochSteps
<1>7. QED BY <1>4, <1>5, <1>6 DEF EpochMoves

\* Every step is one of these.
Effects ==
  \/ UNCHANGED vars
  \/ Probe
  \/ Reload
  \/ EpochSteps /\ EpochMoves
  \/ \E c \in Setups, n \in Call, k \in Keys : SetupStarts(c, n, k)
  \/ \E c \in Setups, n \in Call : SetupSaves(c, n)
  \/ \E c \in Setups : SetupFinish(c)
  \/ \E c \in Unlocks, n \in Call : UnlockStarts(c, n)
  \/ \E c \in Unlocks, n \in Call : UnlockShows(c, n)
  \/ \E c \in Unlocks, n \in Call, w \in Wrapped : UnlockAdds(c, n, w)
  \/ \E c \in Rotates, n \in Call : RotateStarts(c, n)
  \/ \E c \in Rotates, n \in Call, k \in Keys : RotateChecks(c, n, k)
  \/ \E c \in Rotates, n \in Call : RotatePuts(c, n)
  \/ \E c \in Rotates : RotateFlip(c)
  \/ \E c \in Wipes, n \in Call : WipeStarts(c, n)
  \/ \E c \in Wipes, n \in Call : WipeDeletes(c, n)
  \/ \E c \in Wipes : WipeFinish(c)
  \/ \E c \in Calls : Ends(c)

LEMMA EveryStep ==
  ASSUME Shape, [Next]_vars
  PROVE  Effects
<1>1. Unlocks \subseteq Calls /\ Rotates \subseteq Calls /\ Wipes \subseteq Calls
  BY DEF Calls
<1>2. ASSUME NEW c \in Unlocks, UnlockNothing(c) PROVE Effects
  <2>1. Ends(c)
    BY <1>2 DEF UnlockNothing, Ends, Settle, At, Active, WipePcs
  <2>2. QED BY <1>1, <2>1 DEF Effects
<1>3. ASSUME NEW c \in Unlocks, UnlockFinish(c) PROVE Effects
  <2>1. CASE Current(c)
    BY <1>3, <2>1, UnlockFinishDoes DEF Effects
  <2>2. CASE ~Current(c)
    <3>1. Ends(c)
      BY <1>3, <2>2 DEF UnlockFinish, Wanted, Ends, Settle, At, WipePcs
    <3>2. QED BY <1>1, <3>1 DEF Effects
  <2>3. QED BY <2>1, <2>2
<1>4. ASSUME NEW c \in Unlocks, NEW w \in Wrapped, UnlockOlder(c, w) PROVE Effects
  <2>1. CASE Current(c)
    BY <1>4, <2>1, UnlockOlderDoes DEF Effects
  <2>2. CASE ~Current(c)
    <3>1. Ends(c)
      BY <1>4, <2>2 DEF UnlockOlder, Ends, Settle, At, WipePcs
    <3>2. QED BY <1>1, <3>1 DEF Effects
  <2>3. QED BY <2>1, <2>2
<1>5. ASSUME NEW c \in Unlocks, UnlockDone(c) PROVE Effects
  <2>1. Ends(c)
    BY <1>5 DEF UnlockDone, Ends, Settle, At, WipePcs
  <2>2. QED BY <1>1, <2>1 DEF Effects
<1>6. ASSUME NEW c \in Rotates, RotateAbort(c) PROVE Effects
  <2>1. Ends(c)
    BY <1>6 DEF RotateAbort, Ends, Settle, At, WipePcs
  <2>2. QED BY <1>1, <2>1 DEF Effects
<1>7. ASSUME NEW c \in Calls, CallFails(c) PROVE Effects
  <2>1. calls[c].pc \in WipePcs => c \in Wipes
    BY DEF Shape, ShapeOf
  <2>2. slips' = {} /\ c \in Wipes => ~Doomed
    BY <1>7 DEF CallFails, Slip, Broken, Doomed
  <2>3. Ends(c)
    BY <1>7, <2>1, <2>2 DEF CallFails, Slip, Ends, Settle, At
  <2>4. QED BY <2>3 DEF Effects
<1>8. ASSUME NEW c \in Wipes, WipeActive(c) \/ WipeFails(c) PROVE Effects
  BY <1>8, EpochStepDoes DEF EpochMoves, Effects
<1>9. CASE Lock
  BY <1>9, EpochStepDoes DEF EpochMoves, Effects
<1>10. ASSUME NEW c \in Setups, SetupStep(c) PROVE Effects
  <2>1. ASSUME NEW p \in Phrases, SetupStart(c, p) PROVE Effects
    BY <2>1, SetupStartDoes DEF Effects
  <2>2. CASE SetupSave(c)
    BY <2>2, SetupSaveDoes DEF Effects
  <2>3. CASE SetupFinish(c)
    BY <2>3 DEF Effects
  <2>4. QED BY <1>10, <2>1, <2>2, <2>3 DEF SetupStep
<1>11. ASSUME NEW c \in Unlocks, UnlockStep(c) PROVE Effects
  <2>1. CASE UnlockStart(c)
    BY <2>1, UnlockStartDoes DEF Effects
  <2>2. QED BY <1>2, <1>3, <1>4, <1>5, <1>11, <2>1 DEF UnlockStep, Background
<1>12. ASSUME NEW c \in Rotates, RotateStep(c) PROVE Effects
  <2>1. CASE RotateStart(c)
    BY <2>1, RotateStartDoes DEF Effects
  <2>2. CASE RotateCheck(c)
    BY <2>2, RotateCheckDoes DEF Effects
  <2>3. CASE RotatePut(c)
    BY <2>3, RotatePutDoes DEF Effects
  <2>4. CASE RotateFlip(c)
    BY <2>4 DEF Effects
  <2>5. QED BY <1>6, <1>12, <2>1, <2>2, <2>3, <2>4 DEF RotateStep
<1>13. ASSUME NEW c \in Wipes, WipeStep(c) PROVE Effects
  <2>1. CASE WipeStart(c)
    BY <2>1, WipeStartDoes DEF Effects
  <2>2. CASE Purge(c) \/ WipeRetired(c)
    BY <2>2, WipeStepDoes DEF Effects
  <2>3. CASE WipeFinish(c)
    BY <2>3 DEF Effects
  <2>4. QED BY <1>8, <1>13, <2>1, <2>2, <2>3 DEF WipeStep
<1>14. CASE Probe \/ Reload \/ UNCHANGED vars
  BY <1>14 DEF Effects
<1>15. QED BY <1>7, <1>9, <1>10, <1>11, <1>12, <1>13, <1>14 DEF Next

-------------------------------------------------------------------------------
\* One call moves, the others stay.
LEMMA OneMoves ==
  ASSUME Shape, NEW c \in Calls, NEW n \in Call, calls' = [calls EXCEPT ![c] = n]
  PROVE  /\ calls' \in [Calls -> Call] /\ calls'[c] = n
         /\ \A d \in Calls \ {c} : calls'[d] = calls[d]
BY DEF Shape, TypeOK

LEMMA Kinds ==
  Setups \subseteq Calls /\ Unlocks \subseteq Calls /\ Rotates \subseteq Calls /\ Wipes \subseteq Calls
BY DEF Calls

\* The slips are never forgotten.
LEMMA SlipsGrow ==
  ASSUME Shape, [Next]_vars
  PROVE  slips \subseteq slips' /\ slips' \subseteq Slips
<1>1. slips \subseteq Slips
  BY DEF Shape, TypeOK
<1>2. ASSUME NEW S \in SUBSET Slips, Slip(S) PROVE slips \subseteq slips' /\ slips' \subseteq Slips
  BY <1>1, <1>2 DEF Slip
<1>3. Broken \in SUBSET Slips
  BY DEF Broken, Slips
<1>4. CASE Probe \/ Lock \/ Reload
  BY <1>1, <1>2, <1>3, <1>4 DEF Probe, Lock, Reload, Slips
<1>5. ASSUME NEW c \in Setups, SetupStep(c) PROVE slips \subseteq slips' /\ slips' \subseteq Slips
  BY <1>1, <1>2, <1>5 DEF SetupStep, SetupStart, SetupSave, SetupFinish, Slips
<1>6. ASSUME NEW c \in Unlocks, UnlockStep(c) PROVE slips \subseteq slips' /\ slips' \subseteq Slips
  <2>1. CASE UnlockStart(c) \/ UnlockNothing(c) \/ UnlockFinish(c)
    BY <1>1, <1>2, <2>1 DEF UnlockStart, UnlockNothing, UnlockFinish, Slips
  <2>2. CASE Background(c)
    BY <1>1, <1>2, <2>2 DEF Background, UnlockOlder, UnlockDone, Slips
  <2>3. QED BY <1>6, <2>1, <2>2 DEF UnlockStep
<1>7. ASSUME NEW c \in Rotates, RotateStep(c) PROVE slips \subseteq slips' /\ slips' \subseteq Slips
  BY <1>1, <1>2, <1>7 DEF RotateStep, RotateStart, RotateCheck, RotateAbort, RotatePut,
     RotateFlip, Slips
<1>8. ASSUME NEW c \in Wipes, WipeStep(c) PROVE slips \subseteq slips' /\ slips' \subseteq Slips
  BY <1>1, <1>2, <1>8 DEF WipeStep, WipeStart, Purge, WipeActive, WipeFails,
     WipeRetired, WipeFinish, Slips
<1>9. ASSUME NEW c \in Calls, CallFails(c) PROVE slips \subseteq slips' /\ slips' \subseteq Slips
  BY <1>1, <1>2, <1>3, <1>9 DEF CallFails
<1>10. CASE UNCHANGED vars
  BY <1>1, <1>10 DEF vars
<1>11. QED BY <1>4, <1>5, <1>6, <1>7, <1>8, <1>9, <1>10 DEF Next

\* The same shape while the epoch stays and one call moves.
Typed == /\ stored \in Wrapped \cup {NoRecord} /\ retired \subseteq Wrapped /\ tab \in Tab
         /\ slips \subseteq Slips
         /\ fate \in [Keys -> {"unmade", "made", "kept", "doomed", "wiped"}]
LEMMA ShapeMoves ==
  ASSUME Shape, NEW c \in Calls, NEW n \in Call, calls' = [calls EXCEPT ![c] = n],
         UNCHANGED epoch, ShapeOf(c, n), Typed'
  PROVE  Shape'
<1>1. TypeOK'
  BY OneMoves DEF Shape, TypeOK, Typed
<1>2. \A d \in Calls : ShapeOf(d, calls[d])'
  BY OneMoves DEF Shape, ShapeOf
<1>3. QED BY <1>1, <1>2 DEF Shape

LEMMA ShapeKept ==
  ASSUME Shape, Effects, slips' \subseteq Slips
  PROVE  Shape'
<1>1. ASSUME NEW c \in Setups, NEW n \in Call, NEW k \in Keys, SetupStarts(c, n, k) PROVE Shape'
  <2>1. ShapeOf(c, n)
    BY <1>1, Kinds, CallFacts DEF SetupStarts, Shape, ShapeOf, At, Current, SetupPcs, RotatePcs,
       WipePcs
  <2>2. Typed'
    BY <1>1, Kinds, CallFacts, WithoutFacts DEF SetupStarts, Typed
  <2>3. QED BY <1>1, <2>1, <2>2, Kinds, ShapeMoves DEF SetupStarts
<1>2. ASSUME NEW c \in Setups, NEW n \in Call, SetupSaves(c, n) PROVE Shape'
  <2>1. ShapeOf(c, n)
    BY <1>2, Kinds, CallFacts DEF SetupSaves, Shape, ShapeOf, At, Current, SetupPcs, RotatePcs,
       WipePcs
  <2>2. Typed'
    BY <1>2, Kinds, CallFacts, WithoutFacts DEF SetupSaves, Typed
  <2>3. QED BY <1>2, <2>1, <2>2, Kinds, ShapeMoves DEF SetupSaves
<1>3. ASSUME NEW c \in Setups, SetupFinish(c) PROVE Shape'
  <2>1. ShapeOf(c, Resting)
    BY RestingFacts DEF Shape, TypeOK, ShapeOf, SetupPcs, RotatePcs, WipePcs
  <2>2. calls[c].held.key \in Keys
    BY <1>3, Kinds, CallFacts DEF SetupFinish, Shape, ShapeOf, At, SetupPcs, RotatePcs, Wrapped
  <2>3. Typed'
    BY <1>3, <2>2, Kinds, CallFacts, UnlockedFacts, AnnounceFacts DEF SetupFinish, Typed
  <2>4. QED BY <1>3, <2>1, <2>3, RestingFacts, Kinds, ShapeMoves DEF SetupFinish, Settle
<1>4. ASSUME NEW c \in Unlocks, NEW n \in Call, UnlockStarts(c, n) PROVE Shape'
  <2>1. ShapeOf(c, n)
    BY <1>4, Kinds, CallFacts DEF UnlockStarts, Shape, ShapeOf, At, Current, SetupPcs, RotatePcs,
       WipePcs
  <2>2. Typed'
    BY <1>4, Kinds, CallFacts, WithoutFacts DEF UnlockStarts, Typed
  <2>3. QED BY <1>4, <2>1, <2>2, Kinds, ShapeMoves DEF UnlockStarts
<1>5. ASSUME NEW c \in Unlocks, NEW n \in Call, UnlockShows(c, n) PROVE Shape'
  <2>1. ShapeOf(c, n)
    BY <1>5, Kinds, CallFacts, RestingFacts DEF UnlockShows, Shape, ShapeOf, At, Current,
       SetupPcs, RotatePcs, WipePcs
  <2>2. calls[c].held.key \in Keys /\ {} \in SUBSET Keys
    BY <1>5 DEF UnlockShows, Wrapped
  <2>3. Typed'
    BY <1>5, <2>2, Kinds, CallFacts, UnlockedFacts, AnnounceFacts DEF UnlockShows, Typed
  <2>4. QED BY <1>5, <2>1, <2>3, Kinds, ShapeMoves DEF UnlockShows
<1>6. ASSUME NEW c \in Unlocks, NEW n \in Call, NEW w \in Wrapped, UnlockAdds(c, n, w) PROVE Shape'
  <2>1. ShapeOf(c, n)
    BY <1>6, Kinds DEF UnlockAdds, Shape, ShapeOf, At, SetupPcs, RotatePcs, WipePcs
  <2>2. w.key \in Keys
    BY DEF Wrapped
  <2>3. [tab EXCEPT !.older = @ \cup {w.key}] \in Tab
    BY <2>2, Kinds, CallFacts DEF Tab
  <2>4. Typed'
    BY <1>6, <2>3, Kinds, CallFacts DEF UnlockAdds, Typed
  <2>5. QED BY <1>6, <2>1, <2>4, Kinds, ShapeMoves DEF UnlockAdds
<1>7. ASSUME NEW c \in Rotates, NEW n \in Call, RotateStarts(c, n) PROVE Shape'
  <2>1. ShapeOf(c, n)
    BY <1>7, Kinds, CallFacts DEF RotateStarts, Shape, ShapeOf, At, Current, SetupPcs, RotatePcs,
       WipePcs
  <2>2. Typed'
    BY <1>7, Kinds, CallFacts, WithoutFacts DEF RotateStarts, Typed
  <2>3. QED BY <1>7, <2>1, <2>2, Kinds, ShapeMoves DEF RotateStarts
<1>8. ASSUME NEW c \in Rotates, NEW n \in Call, NEW k \in Keys, RotateChecks(c, n, k) PROVE Shape'
  <2>1. ShapeOf(c, n)
    BY <1>8, Kinds, CallFacts DEF RotateChecks, Shape, ShapeOf, At, Current, SetupPcs, RotatePcs,
       WipePcs
  <2>2. Typed'
    BY <1>8, Kinds, CallFacts, WithoutFacts DEF RotateChecks, Typed
  <2>3. QED BY <1>8, <2>1, <2>2, Kinds, ShapeMoves DEF RotateChecks
<1>9. ASSUME NEW c \in Rotates, NEW n \in Call, RotatePuts(c, n) PROVE Shape'
  <2>1. ShapeOf(c, n)
    BY <1>9, Kinds, CallFacts DEF RotatePuts, Shape, ShapeOf, At, Current, SetupPcs, RotatePcs,
       WipePcs
  <2>2. Typed'
    BY <1>9, Kinds, CallFacts, WithoutFacts DEF RotatePuts, Typed, Call
  <2>3. QED BY <1>9, <2>1, <2>2, Kinds, ShapeMoves DEF RotatePuts
<1>10. ASSUME NEW c \in Rotates, RotateFlip(c) PROVE Shape'
  <2>1. ShapeOf(c, Resting)
    BY RestingFacts DEF Shape, TypeOK, ShapeOf, SetupPcs, RotatePcs, WipePcs
  <2>2. calls[c].held.key \in Keys /\ {calls[c].fresh} \cup tab.older \in SUBSET Keys
    BY <1>10, Kinds, CallFacts, TabFacts DEF RotateFlip, Shape, ShapeOf, At, RotatePcs, Wrapped
  <2>3. tab' \in Tab
    BY <1>10, <2>2, Kinds, CallFacts, UnlockedFacts DEF RotateFlip
  <2>4. Typed'
    BY <1>10, <2>2, <2>3, Kinds, CallFacts, AnnounceFacts DEF RotateFlip, Typed
  <2>5. QED BY <1>10, <2>1, <2>4, RestingFacts, Kinds, ShapeMoves DEF RotateFlip, Settle
<1>11. ASSUME NEW c \in Wipes, NEW n \in Call, WipeStarts(c, n) PROVE Shape'
  <2>1. ShapeOf(c, n)
    BY <1>11, Kinds, CallFacts DEF WipeStarts, Shape, ShapeOf, At, Current, SetupPcs, RotatePcs,
       WipePcs
  <2>2. Typed'
    BY <1>11, Kinds, CallFacts, WithoutFacts DEF WipeStarts, Typed
  <2>3. QED BY <1>11, <2>1, <2>2, Kinds, ShapeMoves DEF WipeStarts
<1>12. ASSUME NEW c \in Wipes, NEW n \in Call, WipeDeletes(c, n) PROVE Shape'
  <2>1. ShapeOf(c, n)
    BY <1>12, Kinds, CallFacts DEF WipeDeletes, Shape, ShapeOf, At, Current, SetupPcs, RotatePcs,
       WipePcs
  <2>2. Typed'
    BY <1>12, Kinds, CallFacts, DoomFacts DEF WipeDeletes, Typed
  <2>3. QED BY <1>12, <2>1, <2>2, Kinds, ShapeMoves DEF WipeDeletes
<1>13. ASSUME NEW c \in Wipes, WipeFinish(c) PROVE Shape'
  <2>1. ShapeOf(c, Resting)
    BY RestingFacts DEF Shape, TypeOK, ShapeOf, SetupPcs, RotatePcs, WipePcs
  <2>2. fate' \in [Keys -> {"unmade", "made", "kept", "doomed", "wiped"}]
    BY <1>13, Kinds, CallFacts DEF WipeFinish
  <2>3. Typed'
    BY <1>13, <2>2, Kinds, CallFacts, WithoutFacts DEF WipeFinish, Typed
  <2>4. QED BY <1>13, <2>1, <2>3, RestingFacts, Kinds, ShapeMoves DEF WipeFinish, Settle
<1>14. ASSUME NEW c \in Calls, Ends(c) PROVE Shape'
  <2>1. ShapeOf(c, Resting)
    BY RestingFacts DEF Shape, TypeOK, ShapeOf, SetupPcs, RotatePcs, WipePcs
  <2>2. Typed'
    BY <1>14, CallFacts, WithoutFacts DEF Ends, Typed
  <2>3. QED BY <1>14, <2>1, <2>2, RestingFacts, ShapeMoves DEF Ends
<1>15. CASE Probe
  <2>1. TypeOK'
    BY <1>15, WithoutFacts DEF Probe, Shape, TypeOK
  <2>2. QED BY <1>15, <2>1 DEF Probe, Shape, ShapeOf
<1>16. CASE Reload
  <2>1. TypeOK'
    BY <1>16, WithoutFacts, RestingFacts DEF Reload, Shape, TypeOK
  <2>2. \A d \in Calls : ShapeOf(d, calls[d])'
    BY <1>16, RestingFacts DEF Reload, Shape, TypeOK, ShapeOf, SetupPcs, RotatePcs, WipePcs
  <2>3. QED BY <2>1, <2>2 DEF Shape
<1>17. CASE UNCHANGED vars
  BY <1>17 DEF vars, Shape, ShapeOf, TypeOK
<1>18. CASE EpochSteps /\ EpochMoves
  <2>1. stored' \in Wrapped \cup {NoRecord} /\ tab' \in Tab
    BY <1>18, WithoutFacts DEF EpochMoves, Lock, WipeActive, WipeFails, Shape, TypeOK
  <2>2. fate' \in [Keys -> {"unmade", "made", "kept", "doomed", "wiped"}]
    BY <1>18, DoomFacts DEF EpochMoves, Lock, WipeActive, WipeFails, Shape, TypeOK
  <2>3. TypeOK'
    BY <1>18, <2>1, <2>2 DEF EpochSteps, Shape, TypeOK
  <2>4. ASSUME NEW d \in Calls PROVE ShapeOf(d, calls[d])'
    <3>1. /\ calls'[d].pc \in SetupPcs => d \in Setups
          /\ calls'[d].pc \in {"unwrap", "older"} => d \in Unlocks
          /\ calls'[d].pc \in RotatePcs => d \in Rotates
          /\ calls'[d].pc \in WipePcs => d \in Wipes
          /\ calls'[d].pc \in SetupPcs \cup RotatePcs \cup {"older"} => calls'[d].held \in Wrapped
          /\ calls'[d].pc \in RotatePcs => calls'[d].fresh \in Keys
      BY <1>18, RestingFacts DEF EpochSteps, Shape, ShapeOf, SetupPcs, RotatePcs, WipePcs
    <3>2. calls'[d].epoch <= epoch' /\ (calls'[d].pc # "idle" => calls'[d].epoch # epoch')
      <4>1. calls[d].epoch <= epoch
        BY DEF Shape, ShapeOf
      <4>2. QED BY <1>18, <4>1, CallFacts, RestingFacts DEF EpochSteps
    <3>3. QED BY <3>1, <3>2 DEF ShapeOf
  <2>5. QED BY <2>3, <2>4 DEF Shape
<1>19. QED BY <1>1, <1>2, <1>3, <1>4, <1>5, <1>6, <1>7, <1>8, <1>9, <1>10, <1>11, <1>12, <1>13,
   <1>14, <1>15, <1>16, <1>17, <1>18 DEF Effects

-------------------------------------------------------------------------------
\* A key that is made stays made.
StaysMade == \A k \in Keys : fate[k] # "unmade" => fate'[k] # "unmade"
MadeDisk == /\ stored # NoRecord => fate[stored.key] # "unmade"
            /\ \A w \in retired : fate[w.key] # "unmade"
            /\ \A k \in Held : fate[k] # "unmade"
LEMMA MadeMoves ==
  ASSUME Shape, Made, NEW c \in Calls, NEW n \in Call, calls' = [calls EXCEPT ![c] = n],
         StaysMade, MadeDisk', MadeOf(n)'
  PROVE  Made'
<1>1. ASSUME NEW d \in Calls PROVE MadeOf(calls[d])'
  <2>1. CASE d = c
    BY <2>1, OneMoves
  <2>2. CASE d # c
    BY <2>2, OneMoves, CallFacts DEF Made, MadeOf, StaysMade, Wrapped
  <2>3. QED BY <2>1, <2>2
<1>2. QED BY <1>1 DEF Made, MadeDisk

\* Disk and memory as they were.
LEMMA MadeDiskStays ==
  ASSUME Shape, Made, StaysMade, stored' \in {stored, NoRecord}, retired' \in {retired, {}},
         Held' \subseteq Held
  PROVE  MadeDisk'
<1>1. stored \in Wrapped \cup {NoRecord} /\ retired \subseteq Wrapped
  BY DEF Shape, TypeOK
<1>2. Held \subseteq Keys
  BY DEF Held
<1>3. QED BY <1>1, <1>2 DEF Made, MadeDisk, StaysMade, Wrapped

LEMMA TabStays ==
  ASSUME UNCHANGED tab PROVE Held' = Held
BY DEF Held

LEMMA TabEmpties ==
  ASSUME NEW status \in {"loading", "no_identity", "locked"}, tab' = Without(status)
  PROVE  Held' = {}
BY WithoutFacts, WebAssumption DEF Held, WebAssumption

LEMMA TabShows ==
  ASSUME NEW k \in Keys, NEW S \in SUBSET Keys, tab' = Unlocked(k, S)
  PROVE  Held' = {k} \cup S
BY UnlockedFacts DEF Held

LEMMA MadeKept ==
  ASSUME Shape, Made, Effects
  PROVE  Made'
<1>1. ASSUME NEW c \in Setups, NEW n \in Call, NEW k \in Keys, SetupStarts(c, n, k) PROVE Made'
  <2>1. StaysMade /\ n \in Call /\ Held' = Held
    BY <1>1, Kinds, CallFacts, TabStays DEF SetupStarts, StaysMade
  <2>2. MadeDisk'
    BY <1>1, <2>1, MadeDiskStays DEF SetupStarts
  <2>3. MadeOf(n)'
    BY <1>1, <2>1, Kinds, CallFacts DEF SetupStarts, MadeOf, Made, StaysMade, Wrapped
  <2>4. QED BY <1>1, <2>1, <2>2, <2>3, Kinds, MadeMoves DEF SetupStarts
<1>2. ASSUME NEW c \in Setups, NEW n \in Call, SetupSaves(c, n) PROVE Made'
  <2>1. StaysMade /\ n \in Call /\ Held' = Held
    BY <1>2, Kinds, CallFacts, TabStays DEF SetupSaves, StaysMade
  <2>2. MadeDisk'
    BY <1>2, <2>1, Kinds, CallFacts DEF SetupSaves, MadeDisk, Made, MadeOf, StaysMade
  <2>3. MadeOf(n)'
    BY <1>2, <2>1, Kinds, CallFacts DEF SetupSaves, MadeOf, Made, StaysMade, Wrapped
  <2>4. QED BY <1>2, <2>1, <2>2, <2>3, Kinds, MadeMoves DEF SetupSaves
<1>3. ASSUME NEW c \in Setups, SetupFinish(c) PROVE Made'
  <2>1. calls[c].held \in Wrapped /\ calls[c].held.key \in Keys /\ {} \in SUBSET Keys
    BY <1>3, Kinds DEF SetupFinish, Shape, ShapeOf, At, SetupPcs, Wrapped
  <2>2. StaysMade /\ Held' = {calls[c].held.key}
    BY <1>3, <2>1, Kinds, CallFacts, AnnounceFacts, TabShows DEF SetupFinish, StaysMade
  <2>3. MadeDisk'
    BY <1>3, <2>1, <2>2, Kinds, CallFacts, NoRecordFacts DEF SetupFinish, MadeDisk, Made, MadeOf,
       StaysMade, Wrapped
  <2>4. MadeOf(Resting)'
    BY RestingFacts DEF MadeOf
  <2>5. QED BY <1>3, <2>2, <2>3, <2>4, RestingFacts, Kinds, MadeMoves DEF SetupFinish, Settle
<1>4. ASSUME NEW c \in Unlocks, NEW n \in Call, UnlockStarts(c, n) PROVE Made'
  <2>1. StaysMade /\ n \in Call /\ Held' = Held
    BY <1>4, Kinds, CallFacts, TabStays DEF UnlockStarts, StaysMade
  <2>2. MadeDisk'
    BY <1>4, <2>1, MadeDiskStays DEF UnlockStarts
  <2>3. MadeOf(n)'
    BY <1>4, <2>1, Kinds, CallFacts DEF UnlockStarts, MadeOf, Made, StaysMade, Wrapped
  <2>4. QED BY <1>4, <2>1, <2>2, <2>3, Kinds, MadeMoves DEF UnlockStarts
<1>5. ASSUME NEW c \in Unlocks, NEW n \in Call, UnlockShows(c, n) PROVE Made'
  <2>1. calls[c].held # NoRecord /\ calls[c].held.key \in Keys /\ {} \in SUBSET Keys
    BY <1>5, NoRecordFacts DEF UnlockShows, Wrapped
  <2>2. StaysMade /\ Held' = {calls[c].held.key}
    BY <1>5, <2>1, Kinds, CallFacts, AnnounceFacts, TabShows DEF UnlockShows, StaysMade
  <2>3. MadeDisk'
    BY <1>5, <2>1, <2>2, Kinds, CallFacts, NoRecordFacts DEF UnlockShows, MadeDisk, Made, MadeOf,
       StaysMade, Wrapped
  <2>4. RetiredExcludingActive(calls[c].held.key) \subseteq retired
    BY DEF RetiredExcludingActive
  <2>5. MadeOf(n)'
    BY <1>5, <2>1, <2>2, <2>4, Kinds, CallFacts, RestingFacts DEF UnlockShows, MadeOf, Made,
       StaysMade, Wrapped
  <2>6. QED BY <1>5, <2>2, <2>3, <2>5, Kinds, MadeMoves DEF UnlockShows
<1>6. ASSUME NEW c \in Unlocks, NEW n \in Call, NEW w \in Wrapped, UnlockAdds(c, n, w) PROVE Made'
  <2>1. StaysMade
    BY <1>6 DEF UnlockAdds, StaysMade
  <2>2. Held' \subseteq Held \cup {w.key} /\ fate[w.key] # "unmade"
    BY <1>6, Kinds, CallFacts DEF UnlockAdds, Held, Tab, Made, MadeOf
  <2>3. MadeDisk'
    BY <1>6, <2>1, <2>2 DEF UnlockAdds, MadeDisk, Made
  <2>4. MadeOf(n)'
    BY <1>6, Kinds DEF UnlockAdds, MadeOf, Made
  <2>5. QED BY <1>6, <2>1, <2>3, <2>4, Kinds, MadeMoves DEF UnlockAdds
<1>7. ASSUME NEW c \in Rotates, NEW n \in Call, RotateStarts(c, n) PROVE Made'
  <2>1. StaysMade /\ n \in Call /\ Held' = Held
    BY <1>7, Kinds, CallFacts, TabStays DEF RotateStarts, StaysMade
  <2>2. MadeDisk'
    BY <1>7, <2>1, MadeDiskStays DEF RotateStarts
  <2>3. MadeOf(n)'
    BY <1>7, <2>1, Kinds, CallFacts, TabFacts, HeldFacts DEF RotateStarts, MadeOf, Made
  <2>4. QED BY <1>7, <2>1, <2>2, <2>3, Kinds, MadeMoves DEF RotateStarts
<1>8. ASSUME NEW c \in Rotates, NEW n \in Call, NEW k \in Keys, RotateChecks(c, n, k) PROVE Made'
  <2>1. StaysMade /\ n \in Call /\ Held' = Held
    BY <1>8, Kinds, CallFacts, TabStays DEF RotateChecks, StaysMade
  <2>2. MadeDisk'
    BY <1>8, <2>1, MadeDiskStays DEF RotateChecks
  <2>3. \A v \in PrependRetired(calls[c].held, retired) :
          v = calls[c].held \/ v \in retired
    BY DEF PrependRetired
  <2>4. \A v \in n.list : v.key \in Keys /\ fate'[v.key] # "unmade"
    BY <1>8, <2>1, <2>3, Kinds, CallFacts, NoRecordFacts DEF RotateChecks, MadeOf, Made,
       StaysMade, Wrapped
  <2>5. MadeOf(n)'
    BY <1>8, <2>1, <2>4, Kinds, CallFacts DEF RotateChecks, MadeOf, Made, StaysMade
  <2>6. QED BY <1>8, <2>1, <2>2, <2>5, Kinds, MadeMoves DEF RotateChecks
<1>9. ASSUME NEW c \in Rotates, NEW n \in Call, RotatePuts(c, n) PROVE Made'
  <2>1. StaysMade /\ n \in Call /\ Held' = Held
    BY <1>9, Kinds, CallFacts, TabStays DEF RotatePuts, StaysMade
  <2>2. MadeDisk'
    BY <1>9, <2>1, Kinds, CallFacts DEF RotatePuts, MadeDisk, Made, MadeOf, StaysMade
  <2>3. MadeOf(n)'
    BY <1>9, <2>1, Kinds, CallFacts DEF RotatePuts, MadeOf, Made, StaysMade, Wrapped
  <2>4. QED BY <1>9, <2>1, <2>2, <2>3, Kinds, MadeMoves DEF RotatePuts
<1>10. ASSUME NEW c \in Rotates, RotateFlip(c) PROVE Made'
  <2>1. calls[c].held \in Wrapped /\ calls[c].held.key \in Keys /\ calls[c].fresh \in Keys
    BY <1>10, Kinds DEF RotateFlip, Shape, ShapeOf, At, RotatePcs, Wrapped
  <2>2. StaysMade
    BY <1>10, <2>1, Kinds, CallFacts, AnnounceFacts DEF RotateFlip, StaysMade
  <2>3. Held' \subseteq Held \cup {calls[c].held.key, calls[c].fresh}
    <3>1. CASE Current(c)
      <4>1. tab.older \subseteq Held /\ {calls[c].fresh} \cup tab.older \in SUBSET Keys
        BY <2>1, Kinds, CallFacts, HeldFacts, TabFacts
      <4>2. QED BY <1>10, <2>1, <3>1, <4>1, TabShows DEF RotateFlip, Wanted
    <3>2. CASE ~Current(c)
      BY <1>10, <3>2, TabStays DEF RotateFlip, Wanted
    <3>3. QED BY <3>1, <3>2
  <2>4. MadeDisk'
    BY <1>10, <2>1, <2>2, <2>3, Kinds, CallFacts, NoRecordFacts, WebAssumption DEF WebAssumption,
       RotateFlip, MadeDisk, Made, MadeOf, StaysMade, Wrapped, Held
  <2>5. MadeOf(Resting)'
    BY RestingFacts DEF MadeOf
  <2>6. QED BY <1>10, <2>2, <2>4, <2>5, RestingFacts, Kinds, MadeMoves DEF RotateFlip, Settle
<1>11. ASSUME NEW c \in Wipes, NEW n \in Call, WipeStarts(c, n) PROVE Made'
  <2>1. StaysMade /\ n \in Call /\ Held' = Held
    BY <1>11, Kinds, CallFacts, TabStays DEF WipeStarts, StaysMade
  <2>2. MadeDisk'
    BY <1>11, <2>1, MadeDiskStays DEF WipeStarts
  <2>3. MadeOf(n)'
    BY <1>11, <2>1, Kinds, CallFacts DEF WipeStarts, MadeOf, Made, StaysMade, Wrapped
  <2>4. QED BY <1>11, <2>1, <2>2, <2>3, Kinds, MadeMoves DEF WipeStarts
<1>12. ASSUME NEW c \in Wipes, NEW n \in Call, WipeDeletes(c, n) PROVE Made'
  <2>1. StaysMade /\ n \in Call /\ Held' = Held
    BY <1>12, Kinds, CallFacts, TabStays, DoomFacts DEF WipeDeletes, StaysMade
  <2>2. MadeDisk'
    BY <1>12, <2>1, MadeDiskStays DEF WipeDeletes
  <2>3. MadeOf(n)'
    BY <1>12, <2>1, Kinds, CallFacts DEF WipeDeletes, MadeOf, Made, StaysMade, Wrapped
  <2>4. QED BY <1>12, <2>1, <2>2, <2>3, Kinds, MadeMoves DEF WipeDeletes
<1>13. ASSUME NEW c \in Wipes, WipeFinish(c) PROVE Made'
  <2>1. StaysMade /\ Held' = {}
    BY <1>13, Kinds, CallFacts, TabEmpties DEF WipeFinish, StaysMade
  <2>2. MadeDisk'
    BY <1>13, <2>1, MadeDiskStays DEF WipeFinish
  <2>3. MadeOf(Resting)'
    BY RestingFacts DEF MadeOf
  <2>4. QED BY <1>13, <2>1, <2>2, <2>3, RestingFacts, Kinds, MadeMoves DEF WipeFinish, Settle
<1>14. ASSUME NEW c \in Calls, Ends(c) PROVE Made'
  <2>1. StaysMade /\ Held' \subseteq Held
    BY <1>14, TabStays, TabEmpties DEF Ends, StaysMade
  <2>2. MadeDisk'
    BY <1>14, <2>1, MadeDiskStays DEF Ends
  <2>3. MadeOf(Resting)'
    BY RestingFacts DEF MadeOf
  <2>4. QED BY <1>14, <2>1, <2>2, <2>3, RestingFacts, MadeMoves DEF Ends
<1>15. CASE Probe
  <2>1. StaysMade /\ Held' = {}
    BY <1>15, TabEmpties DEF Probe, StaysMade
  <2>2. MadeDisk'
    BY <1>15, <2>1, MadeDiskStays DEF Probe
  <2>3. QED BY <1>15, <2>2 DEF Probe, Made, MadeDisk, MadeOf
<1>16. CASE Reload
  <2>1. StaysMade /\ Held' = {}
    BY <1>16, TabEmpties DEF Reload, StaysMade
  <2>2. MadeDisk'
    BY <1>16, <2>1, MadeDiskStays DEF Reload
  <2>3. QED BY <1>16, <2>2, RestingFacts DEF Reload, Made, MadeDisk, MadeOf
<1>17. CASE UNCHANGED vars
  BY <1>17 DEF vars, Made, MadeOf, Held
<1>18. CASE EpochSteps /\ EpochMoves
  <2>1. StaysMade /\ Held' \subseteq Held
    BY <1>18, DoomFacts, TabStays, TabEmpties
       DEF EpochMoves, Lock, WipeActive, WipeFails, StaysMade, Shape, TypeOK
  <2>2. stored' \in {stored, NoRecord} /\ retired' = retired
    BY <1>18 DEF EpochMoves, Lock, WipeActive, WipeFails
  <2>3. MadeDisk'
    BY <2>1, <2>2, MadeDiskStays
  <2>4. ASSUME NEW d \in Calls PROVE MadeOf(calls[d])'
    BY <1>18, <2>1, CallFacts, RestingFacts DEF EpochSteps, Made, MadeOf, StaysMade, Wrapped
  <2>5. QED BY <2>3, <2>4 DEF Made, MadeDisk
<1>19. QED BY <1>1, <1>2, <1>3, <1>4, <1>5, <1>6, <1>7, <1>8, <1>9, <1>10, <1>11, <1>12, <1>13,
   <1>14, <1>15, <1>16, <1>17, <1>18 DEF Effects

-------------------------------------------------------------------------------
\* Where another call is under way, or a tab with an identity is, no setup is.
LEMMA NoSetup ==
  ASSUME Shape, SetupAlone, "setup" \notin slips, NEW c \in Calls,
         \/ ~At(c, "idle") /\ calls[c].pc \notin SetupPcs
         \/ tab.status \in {"locked", "unlocked"}
  PROVE  /\ \A d \in Calls : calls[d].pc \notin SetupPcs
         /\ tab.status # "loading"
BY DEF SetupAlone, AloneOf, At

LEMMA AloneMoves ==
  ASSUME Shape, SetupAlone, slips \subseteq slips', NEW c \in Calls, NEW n \in Call,
         calls' = [calls EXCEPT ![c] = n], n.pc \notin SetupPcs,
         \/ ~At(c, "idle") /\ calls[c].pc \notin SetupPcs
         \/ tab.status \in {"locked", "unlocked"},
         UNCHANGED tab \/ tab'.status # "loading"
  PROVE  SetupAlone'
<1> SUFFICES ASSUME "setup" \notin slips' PROVE SetupAlone'
  BY DEF SetupAlone
<1>1. (\A d \in Calls : calls[d].pc \notin SetupPcs) /\ tab.status # "loading"
  BY NoSetup
<1>2. QED BY <1>1, OneMoves DEF SetupAlone, AloneOf

LEMMA AloneKept ==
  ASSUME Shape, SetupAlone, Effects
  PROVE  SetupAlone'
<1>1. ASSUME NEW c \in Setups, NEW n \in Call, NEW k \in Keys, SetupStarts(c, n, k)
      PROVE  SetupAlone'
  <2> SUFFICES ASSUME "setup" \notin slips' PROVE SetupAlone'
    BY DEF SetupAlone
  <2>1. /\ stored = NoRecord /\ tab.status = "no_identity" /\ \A d \in Calls : At(d, "idle")
        /\ UNCHANGED <<stored, tab>> /\ n.pc = "save" /\ n.since
        /\ calls' = [calls EXCEPT ![c] = n]
    BY <1>1 DEF SetupStarts
  <2>2. QED BY <2>1, Kinds, OneMoves DEF SetupAlone, AloneOf, At, SetupPcs
<1>2. ASSUME NEW c \in Setups, NEW n \in Call, SetupSaves(c, n) PROVE SetupAlone'
  <2>1. /\ At(c, "save") /\ n.pc = "adopt" /\ n.since = calls[c].since
        /\ n.held = calls[c].held /\ stored' = n.held /\ UNCHANGED <<tab, slips>>
        /\ calls' = [calls EXCEPT ![c] = n]
    BY <1>2 DEF SetupSaves
  <2>2. QED BY <2>1, Kinds, OneMoves DEF SetupAlone, AloneOf, At, SetupPcs
<1>3. ASSUME NEW c \in Setups, SetupFinish(c) PROVE SetupAlone'
  <2>1. /\ At(c, "adopt") /\ calls' = [calls EXCEPT ![c] = Resting] /\ UNCHANGED slips
        /\ tab'.status = "unlocked"
    BY <1>3, Kinds, UnlockedFacts DEF SetupFinish, Settle, Shape, ShapeOf, At, SetupPcs, Wrapped
  <2>2. QED BY <2>1, Kinds, OneMoves, RestingFacts DEF SetupAlone, AloneOf, At, SetupPcs
<1>4. ASSUME NEW c \in Unlocks, NEW n \in Call, UnlockStarts(c, n) PROVE SetupAlone'
  BY <1>4, Kinds, AloneMoves DEF UnlockStarts, At, SetupPcs
<1>5. ASSUME NEW c \in Unlocks, NEW n \in Call, UnlockShows(c, n) PROVE SetupAlone'
  <2>1. tab'.status # "loading"
    BY <1>5, UnlockedFacts DEF UnlockShows, Wrapped
  <2>2. n.pc \in {"older", "idle"} /\ slips \subseteq slips'
    BY <1>5, RestingFacts DEF UnlockShows
  <2>3. QED BY <1>5, <2>1, <2>2, Kinds, AloneMoves DEF UnlockShows, At, SetupPcs
<1>6. ASSUME NEW c \in Unlocks, NEW n \in Call, NEW w \in Wrapped, UnlockAdds(c, n, w)
      PROVE  SetupAlone'
  <2>1. UNCHANGED tab \/ tab'.status = tab.status
    BY <1>6, Kinds, CallFacts DEF UnlockAdds, Tab
  <2>2. tab.status # "loading" \/ "setup" \in slips
    BY <1>6, Kinds DEF UnlockAdds, SetupAlone, At
  <2>3. slips \subseteq slips' /\ ("setup" \in slips' => SetupAlone')
    BY <1>6 DEF UnlockAdds, SetupAlone
  <2>4. QED BY <1>6, <2>1, <2>2, <2>3, Kinds, AloneMoves DEF UnlockAdds, At, SetupPcs
<1>7. ASSUME NEW c \in Rotates, NEW n \in Call, RotateStarts(c, n) PROVE SetupAlone'
  BY <1>7, Kinds, AloneMoves DEF RotateStarts, At, SetupPcs
<1>8. ASSUME NEW c \in Rotates, NEW n \in Call, NEW k \in Keys, RotateChecks(c, n, k)
      PROVE  SetupAlone'
  BY <1>8, Kinds, AloneMoves DEF RotateChecks, At, SetupPcs
<1>9. ASSUME NEW c \in Rotates, NEW n \in Call, RotatePuts(c, n) PROVE SetupAlone'
  BY <1>9, Kinds, AloneMoves DEF RotatePuts, At, SetupPcs
<1>10. ASSUME NEW c \in Rotates, RotateFlip(c) PROVE SetupAlone'
  <2>1. UNCHANGED tab \/ tab'.status # "loading"
    BY <1>10 DEF RotateFlip, Unlocked
  <2>2. QED BY <1>10, <2>1, Kinds, RestingFacts, AloneMoves DEF RotateFlip, Settle, At, SetupPcs
<1>11. ASSUME NEW c \in Wipes, NEW n \in Call, WipeStarts(c, n) PROVE SetupAlone'
  BY <1>11, Kinds, AloneMoves DEF WipeStarts, At, SetupPcs
<1>12. ASSUME NEW c \in Wipes, NEW n \in Call, WipeDeletes(c, n) PROVE SetupAlone'
  <2>1. n.pc \notin SetupPcs /\ ~At(c, "idle") /\ calls[c].pc \notin SetupPcs
    BY <1>12 DEF WipeDeletes, At, SetupPcs
  <2>2. QED BY <1>12, <2>1, Kinds, AloneMoves DEF WipeDeletes
<1>13. ASSUME NEW c \in Wipes, WipeFinish(c) PROVE SetupAlone'
  <2>1. tab'.status # "loading"
    BY <1>13, WithoutFacts DEF WipeFinish
  <2>2. QED BY <1>13, <2>1, Kinds, RestingFacts, AloneMoves DEF WipeFinish, Settle, At, SetupPcs
<1>14. ASSUME NEW c \in Calls, Ends(c) PROVE SetupAlone'
  <2>1. UNCHANGED tab \/ tab'.status # "loading"
    BY <1>14, WithoutFacts DEF Ends
  <2>2. CASE ~At(c, "idle") /\ calls[c].pc \notin SetupPcs
    BY <1>14, <2>1, <2>2, RestingFacts, AloneMoves DEF Ends, SetupPcs
  <2>3. CASE At(c, "idle") \/ calls[c].pc \in SetupPcs
    <3>1. UNCHANGED <<tab, stored>> /\ slips \subseteq slips'
      BY <1>14, <2>3 DEF Ends, At, SetupPcs
    <3>2. calls'[c].pc = "idle" /\ \A d \in Calls \ {c} : calls'[d] = calls[d]
      BY <1>14, RestingFacts, OneMoves DEF Ends
    <3>3. QED BY <3>1, <3>2 DEF SetupAlone, AloneOf, At, SetupPcs
  <2>4. QED BY <2>2, <2>3
<1>15. CASE Probe
  <2>1. slips \subseteq slips' /\ UNCHANGED calls /\ tab.status = "loading"
    BY <1>15 DEF Probe, Slip
  <2>2. QED BY <2>1 DEF SetupAlone, AloneOf, At, SetupPcs
<1>16. CASE Reload
  <2>1. \A d \in Calls : calls'[d].pc = "idle"
    BY <1>16, RestingFacts DEF Reload
  <2>2. QED BY <2>1 DEF SetupAlone, AloneOf, At, SetupPcs
<1>17. CASE UNCHANGED vars
  BY <1>17 DEF vars, SetupAlone, AloneOf, At
<1>18. CASE EpochSteps /\ EpochMoves
  <2> SUFFICES ASSUME "setup" \notin slips' PROVE SetupAlone'
    BY DEF SetupAlone
  <2>1. slips \subseteq slips' /\ tab' \in {tab, Without("locked")}
    BY <1>18 DEF EpochSteps, EpochMoves, Lock, WipeActive, WipeFails
  <2>2. \/ (\A d \in Calls : calls[d].pc \notin SetupPcs) /\ tab.status # "loading"
        \/ Calls = {}
    <3>1. ASSUME NEW c \in Wipes, WipeActive(c) \/ WipeFails(c)
          PROVE (\A d \in Calls : calls[d].pc \notin SetupPcs) /\ tab.status # "loading"
      <4>1. At(c, "bump") \/ tab.status = "locked"
        BY <3>1 DEF WipeActive, WipeFails, WipeCalled
      <4>2. QED BY <2>1, <4>1, Kinds, NoSetup DEF At, SetupPcs
    <3>2. CASE Lock
      BY <2>1, <3>2, NoSetup DEF Lock
    <3>3. QED BY <1>18, <3>1, <3>2 DEF EpochMoves
  <2>3. \A d \in Calls : calls'[d].pc \notin SetupPcs
    BY <1>18, <2>2, RestingFacts DEF EpochSteps, SetupPcs
  <2>4. tab'.status # "loading" \/ Calls = {}
    BY <2>1, <2>2, WithoutFacts
  <2>5. QED BY <2>3, <2>4 DEF SetupAlone, AloneOf
<1>19. QED BY <1>1, <1>2, <1>3, <1>4, <1>5, <1>6, <1>7, <1>8, <1>9, <1>10, <1>11, <1>12, <1>13,
   <1>14, <1>15, <1>16, <1>17, <1>18 DEF Effects

-------------------------------------------------------------------------------
Past == \E d \in Calls : calls[d].pc \in {"drop", "leave"}
NoneWiped == \A k \in Keys : fate[k] # "wiped" => fate'[k] # "wiped"

\* What is carried are keys.
LEMMA CarriedFacts ==
  ASSUME NEW call \in Call
  PROVE  /\ call.held \in Wrapped => call.held.key \in Carried(call)
         /\ \A w \in call.list : w.key \in Carried(call)
         /\ call.pc \in RotatePcs /\ call.fresh \in Keys => call.fresh \in Carried(call)
         /\ call.held = NoRecord /\ call.list = {} /\ call.pc \notin RotatePcs => Carried(call) = {}
BY NoRecordFacts DEF Carried, Call, Wrapped

\* One call moves: what it now carries is clean, and nothing if a wipe is past its epoch.
LEMMA CleanMoves ==
  ASSUME Shape, WipeClean, ~Late, NoneWiped, NEW c \in Calls, NEW n \in Call,
         calls' = [calls EXCEPT ![c] = n], UNCHANGED epoch, CleanDisk', CleanOf(n)',
         n.pc \in {"drop", "leave"} =>
           calls[c].pc \in {"drop", "leave"} /\ (n.pc = "leave" => retired' = {}),
         Past => /\ stored' = NoRecord /\ retired' \in {retired, {}}
                 /\ Carries(n)' => Carried(n) = {}
  PROVE  WipeClean'
<1>1. CleanDisk /\ \A d \in Calls : CleanOf(calls[d]) /\ LeavesNothing(calls[d])
  BY DEF WipeClean
<1>2. ASSUME NEW d \in Calls PROVE CleanOf(calls[d])'
  <2>1. CASE d = c
    BY <2>1, OneMoves
  <2>2. CASE d # c
    BY <1>1, <2>2, OneMoves DEF CleanOf, Carries, Carried, NoneWiped
  <2>3. QED BY <2>1, <2>2
<1>3. ASSUME NEW d \in Calls, calls'[d].pc \in {"drop", "leave"} PROVE LeavesNothing(calls[d])'
  <2>1. calls[d].pc \in {"drop", "leave"} /\ Past
    BY <1>3, OneMoves DEF Past
  <2>2. \A e \in Calls : Carries(calls[e]) => Carried(calls[e]) = {}
    BY <1>1, <2>1 DEF LeavesNothing
  <2>3. ASSUME NEW e \in Calls, Carries(calls[e])' PROVE Carried(calls[e])' = {}
    <3>1. CASE e = c
      BY <2>1, <2>3, <3>1, OneMoves
    <3>2. CASE e # c
      BY <2>2, <2>3, <3>2, OneMoves DEF Carries
    <3>3. QED BY <3>1, <3>2
  <2>4. calls'[d].pc = "leave" => retired' = {}
    BY <1>1, <1>3, <2>1, OneMoves DEF LeavesNothing
  <2>5. QED BY <2>1, <2>3, <2>4 DEF LeavesNothing
<1>4. QED BY <1>2, <1>3 DEF WipeClean, LeavesNothing

\* Disk and memory as they were.
LEMMA CleanDiskStays ==
  ASSUME Shape, CleanDisk, NoneWiped, stored' \in {stored, NoRecord}, retired' \in {retired, {}},
         Held' \subseteq Held
  PROVE  CleanDisk'
<1>1. stored \in Wrapped \cup {NoRecord} /\ retired \subseteq Wrapped
  BY DEF Shape, TypeOK
<1>2. Held \subseteq Keys
  BY DEF Held
<1>3. QED BY <1>1, <1>2 DEF CleanDisk, NoneWiped, Wrapped

LEMMA CleanKept ==
  ASSUME Shape, Made, SetupAlone, WipeClean, Effects
  PROVE  WipeClean'
<1>1. ASSUME NEW c \in Setups, NEW n \in Call, NEW k \in Keys, SetupStarts(c, n, k) PROVE WipeClean'
  <2> SUFFICES ASSUME ~Late' PROVE WipeClean'
    BY DEF WipeClean
  <2>1. ~Late /\ CleanDisk /\ CleanOf(calls[c]) /\ (Past => stored = NoRecord)
    BY <1>1, Kinds DEF SetupStarts, WipeClean, Late, Past, LeavesNothing
  <2>2. Past => (Carries(calls[c]) => Carried(calls[c]) = {})
    BY <2>1, Kinds DEF WipeClean, Past, LeavesNothing
  <2>3. NoneWiped /\ n \in Call /\ Held' = Held
    BY <1>1, Kinds, CallFacts, TabStays DEF SetupStarts, NoneWiped
  <2>4. CleanDisk'
    BY <1>1, <2>1, <2>3, CleanDiskStays DEF SetupStarts
  <2>5. ~Past
    BY <1>1 DEF SetupStarts, Late, Past, At
  <2>6. CleanOf(n)' /\ n.pc = "save"
    BY <1>1, Kinds, CallFacts, NoRecordFacts DEF SetupStarts, CleanOf, Carried, RotatePcs
  <2>9. QED BY <1>1, <2>1, <2>3, <2>4, <2>5, <2>6, Kinds, CleanMoves DEF SetupStarts
<1>2. ASSUME NEW c \in Setups, NEW n \in Call, SetupSaves(c, n) PROVE WipeClean'
  <2> SUFFICES ASSUME ~Late' PROVE WipeClean'
    BY DEF WipeClean
  <2>1. ~Late /\ CleanDisk /\ CleanOf(calls[c]) /\ (Past => stored = NoRecord)
    BY <1>2, Kinds DEF SetupSaves, WipeClean, Late, Past, LeavesNothing
  <2>2. Past => (Carries(calls[c]) => Carried(calls[c]) = {})
    BY <2>1, Kinds DEF WipeClean, Past, LeavesNothing
  <2>3. NoneWiped /\ Held' = Held /\ Carries(calls[c]) /\ Carried(n) = Carried(calls[c])
    BY <1>2, TabStays DEF SetupSaves, NoneWiped, Carries, Carried, At, RotatePcs
  <2>4. CleanDisk'
    BY <1>2, <2>1, <2>3, CarriedFacts, Kinds, CallFacts DEF SetupSaves, CleanDisk, CleanOf
  <2>5. ~Past
    BY <1>2, <2>1, Kinds DEF SetupSaves, Late, Past, SetupAlone, AloneOf, At, SetupPcs
  <2>6. CleanOf(n)' /\ n.pc = "adopt"
    BY <1>2, <2>1, <2>3 DEF SetupSaves, CleanOf
  <2>9. QED BY <1>2, <2>1, <2>3, <2>4, <2>5, <2>6, Kinds, CleanMoves DEF SetupSaves
<1>3. ASSUME NEW c \in Setups, SetupFinish(c) PROVE WipeClean'
  <2> SUFFICES ASSUME ~Late' PROVE WipeClean'
    BY DEF WipeClean
  <2>1. ~Late /\ CleanDisk /\ CleanOf(calls[c]) /\ (Past => stored = NoRecord)
    BY <1>3, Kinds DEF SetupFinish, WipeClean, Late, Past, LeavesNothing
  <2>2. Past => (Carries(calls[c]) => Carried(calls[c]) = {})
    BY <2>1, Kinds DEF WipeClean, Past, LeavesNothing
  <2>3. /\ calls[c].held \in Wrapped /\ calls[c].held.key \in Keys
        /\ {} \in SUBSET Keys /\ Carries(calls[c])
    BY <1>3, Kinds DEF SetupFinish, Shape, ShapeOf, At, SetupPcs, Wrapped, Carries
  <2>4. NoneWiped /\ Held' = {calls[c].held.key} /\ fate[calls[c].held.key] # "wiped"
    BY <1>3, <2>1, <2>3, Kinds, CallFacts, AnnounceFacts, TabShows, CarriedFacts
       DEF SetupFinish, NoneWiped, CleanOf
  <2>5. CleanDisk'
    <3>1. \A k \in Held' : fate'[k] # "wiped"
      BY <2>3, <2>4 DEF NoneWiped
    <3>2. UNCHANGED <<stored, retired>>
      BY <1>3 DEF SetupFinish
    <3>3. QED BY <2>1, <2>4, <3>1, <3>2, Kinds, CallFacts DEF CleanDisk, NoneWiped, Wrapped
  <2>6. ~Carries(Resting)' /\ Resting.pc = "idle"
    BY RestingFacts DEF Carries
  <2>7. CleanOf(Resting)'
    BY <2>6 DEF CleanOf
  <2>8. QED BY <1>3, <2>1, <2>4, <2>5, <2>6, <2>7, RestingFacts, Kinds, CleanMoves
               DEF SetupFinish, Settle
<1>4. ASSUME NEW c \in Unlocks, NEW n \in Call, UnlockStarts(c, n) PROVE WipeClean'
  <2> SUFFICES ASSUME ~Late' PROVE WipeClean'
    BY DEF WipeClean
  <2>1. ~Late /\ CleanDisk /\ CleanOf(calls[c]) /\ (Past => stored = NoRecord)
    BY <1>4, Kinds DEF UnlockStarts, WipeClean, Late, Past, LeavesNothing
  <2>2. Past => (Carries(calls[c]) => Carried(calls[c]) = {})
    BY <2>1, Kinds DEF WipeClean, Past, LeavesNothing
  <2>3. NoneWiped /\ n \in Call /\ Held' = Held
    BY <1>4, Kinds, CallFacts, TabStays DEF UnlockStarts, NoneWiped
  <2>4. CleanDisk'
    BY <1>4, <2>1, <2>3, CleanDiskStays DEF UnlockStarts
  <2>5. Carried(n) = {k \in Keys : stored # NoRecord /\ k = stored.key} /\ n.pc = "unwrap"
    BY <1>4 DEF UnlockStarts, Carried, RotatePcs
  <2>6. CleanOf(n)' /\ (Past => Carried(n) = {})
    BY <1>4, <2>1, <2>5 DEF UnlockStarts, CleanOf, CleanDisk
  <2>9. QED BY <1>4, <2>1, <2>3, <2>4, <2>5, <2>6, Kinds, CleanMoves DEF UnlockStarts
<1>5. ASSUME NEW c \in Unlocks, NEW n \in Call, UnlockShows(c, n) PROVE WipeClean'
  <2> SUFFICES ASSUME ~Late' PROVE WipeClean'
    BY DEF WipeClean
  <2>1. ~Late /\ CleanDisk /\ CleanOf(calls[c]) /\ (Past => stored = NoRecord)
    BY <1>5, Kinds DEF UnlockShows, WipeClean, Late, Past, LeavesNothing
  <2>2. Past => (Carries(calls[c]) => Carried(calls[c]) = {})
    BY <2>1, Kinds DEF WipeClean, Past, LeavesNothing
  <2>3. /\ calls[c].held.key \in Keys /\ {} \in SUBSET Keys /\ Carries(calls[c])
        /\ calls[c].held.key \in Carried(calls[c])
    BY <1>5, Kinds, CallFacts, CarriedFacts DEF UnlockShows, Wrapped, Carries, At, Current
  <2>4. NoneWiped /\ Held' = {calls[c].held.key} /\ fate[calls[c].held.key] # "wiped" /\ ~Past
    BY <1>5, <2>1, <2>2, <2>3, Kinds, CallFacts, AnnounceFacts, TabShows
       DEF UnlockShows, NoneWiped, CleanOf
  <2>5. CleanDisk'
    <3>1. \A k \in Held' : fate'[k] # "wiped"
      BY <2>3, <2>4 DEF NoneWiped
    <3>2. UNCHANGED <<stored, retired>>
      BY <1>5 DEF UnlockShows
    <3>3. QED BY <2>1, <2>4, <3>1, <3>2, Kinds, CallFacts DEF CleanDisk, NoneWiped, Wrapped
  <2>6. CleanOf(n)' /\ n.pc \in {"older", "idle"}
    <3>1. CASE n = Resting
      BY <3>1, RestingFacts DEF CleanOf, Carries
    <3>2. CASE n.pc = "older" /\ n.held = calls[c].held
               /\ n.list = RetiredExcludingActive(calls[c].held.key)
      <4>1. \A k \in Carried(n) : k = calls[c].held.key \/ \E w \in retired : k = w.key
        BY <3>2 DEF Carried, RotatePcs, RetiredExcludingActive
      <4>2. \A k \in Carried(n) : k \in Keys /\ fate[k] # "wiped"
        BY <2>1, <2>4, <4>1 DEF CleanDisk, Carried
      <4>3. QED BY <2>4, <3>2, <4>2 DEF CleanOf, NoneWiped
    <3>3. QED BY <1>5, <3>1, <3>2 DEF UnlockShows
  <2>7. UNCHANGED epoch /\ calls' = [calls EXCEPT ![c] = n]
    BY <1>5 DEF UnlockShows
  <2>8. QED BY <2>1, <2>4, <2>5, <2>6, <2>7, Kinds, CleanMoves
<1>6. ASSUME NEW c \in Unlocks, NEW n \in Call, NEW w \in Wrapped, UnlockAdds(c, n, w)
      PROVE  WipeClean'
  <2> SUFFICES ASSUME ~Late' PROVE WipeClean'
    BY DEF WipeClean
  <2>0. slips \subseteq slips' /\ (UNCHANGED tab \/ tab' = [tab EXCEPT !.older = @ \cup {w.key}])
    BY <1>6 DEF UnlockAdds
  <2>1. ~Late /\ CleanDisk /\ CleanOf(calls[c]) /\ (Past => stored = NoRecord)
    BY <2>0, Kinds DEF WipeClean, Late, Past, LeavesNothing
  <2>2. Past => (Carries(calls[c]) => Carried(calls[c]) = {})
    BY <2>1, Kinds DEF WipeClean, Past, LeavesNothing
  <2>3. /\ NoneWiped /\ Carried(n) \subseteq Carried(calls[c]) /\ w.key \in Carried(calls[c])
        /\ Carries(n)' = Carries(calls[c]) /\ n.pc = "older" /\ UNCHANGED epoch
    BY <1>6 DEF UnlockAdds, NoneWiped, Carried, Carries, At, RotatePcs, Wrapped
  <2>4. CleanDisk'
    <3>1. Current(c) => Carries(calls[c])
      BY <1>6 DEF UnlockAdds, Carries, At, Current
    <3>2. Held' \subseteq Held \cup {w.key}
      BY <2>0, Kinds, CallFacts DEF Held, Tab
    <3>3. UNCHANGED tab \/ Current(c)
      BY <1>6 DEF UnlockAdds
    <3>4. Current(c) => fate[w.key] # "wiped"
      BY <2>1, <2>3, <3>1 DEF CleanOf
    <3>5. QED BY <1>6, <2>1, <2>3, <3>2, <3>3, <3>4, TabStays DEF UnlockAdds, CleanDisk
  <2>5. CleanOf(n)'
    BY <1>6, <2>1, <2>3 DEF UnlockAdds, CleanOf
  <2>6. Past => (Carries(n)' => Carried(n) = {})
    BY <2>2, <2>3
  <2>9. QED BY <1>6, <2>1, <2>3, <2>4, <2>5, <2>6, Kinds, CleanMoves DEF UnlockAdds
<1>7. ASSUME NEW c \in Rotates, NEW n \in Call, RotateStarts(c, n) PROVE WipeClean'
  <2> SUFFICES ASSUME ~Late' PROVE WipeClean'
    BY DEF WipeClean
  <2>1. ~Late /\ CleanDisk /\ CleanOf(calls[c]) /\ (Past => stored = NoRecord)
    BY <1>7, Kinds DEF RotateStarts, WipeClean, Late, Past, LeavesNothing
  <2>2. Past => (Carries(calls[c]) => Carried(calls[c]) = {})
    BY <2>1, Kinds DEF WipeClean, Past, LeavesNothing
  <2>3. NoneWiped /\ n \in Call /\ Held' = Held
    BY <1>7, Kinds, CallFacts, TabStays DEF RotateStarts, NoneWiped
  <2>4. CleanDisk'
    BY <1>7, <2>1, <2>3, CleanDiskStays DEF RotateStarts
  <2>5. ~Past
    BY <1>7, <2>1, NoRecordFacts DEF RotateStarts
  <2>6. CleanOf(n)' /\ n.pc = "verify"
    <3>1. tab.active \in Held
      BY <1>7 DEF RotateStarts, Held
    <3>2. QED BY <1>7, <2>1, <3>1 DEF RotateStarts, CleanOf, CleanDisk, Carried
  <2>9. QED BY <1>7, <2>1, <2>3, <2>4, <2>5, <2>6, Kinds, CleanMoves DEF RotateStarts
<1>8. ASSUME NEW c \in Rotates, NEW n \in Call, NEW k \in Keys, RotateChecks(c, n, k)
      PROVE  WipeClean'
  <2> SUFFICES ASSUME ~Late' PROVE WipeClean'
    BY DEF WipeClean
  <2>1. ~Late /\ CleanDisk /\ CleanOf(calls[c]) /\ (Past => stored = NoRecord)
    BY <1>8, Kinds DEF RotateChecks, WipeClean, Late, Past, LeavesNothing
  <2>2. Past => (Carries(calls[c]) => Carried(calls[c]) = {})
    BY <2>1, Kinds DEF WipeClean, Past, LeavesNothing
  <2>3. NoneWiped /\ n \in Call /\ Held' = Held
    BY <1>8, Kinds, CallFacts, TabStays DEF RotateChecks, NoneWiped
  <2>4. CleanDisk'
    BY <1>8, <2>1, <2>3, CleanDiskStays DEF RotateChecks
  <2>5. ~Past /\ \A j \in {calls[c].held.key, calls[c].fresh} : j \in Keys /\ fate[j] # "wiped"
    <3>1. /\ Carries(calls[c]) /\ calls[c].held.key \in Carried(calls[c])
          /\ calls[c].fresh \in Carried(calls[c])
      BY <1>8, Kinds, CallFacts, CarriedFacts DEF RotateChecks, Shape, ShapeOf, At, Current,
         RotatePcs, Carries
    <3>2. QED BY <2>1, <2>2, <3>1 DEF CleanOf, Carried
  <2>6. CleanOf(n)' /\ n.pc = "put"
    <3>1. \A v \in PrependRetired(calls[c].held, retired) : v = calls[c].held \/ v \in retired
      BY DEF PrependRetired
    <3>2. \A v \in n.list : fate[v.key] # "wiped"
      BY <1>8, <2>1, <2>5, <3>1 DEF RotateChecks, CleanDisk
    <3>3. \A j \in Carried(n) : j = k \/ j = calls[c].fresh \/ \E v \in n.list : j = v.key
      BY <1>8 DEF RotateChecks, Carried
    <3>4. fate'[k] # "wiped"
      BY <1>8, Kinds, CallFacts DEF RotateChecks
    <3>5. \A j \in Carried(n) : j \in Keys
      BY DEF Carried
    <3>6. QED BY <1>8, <2>3, <2>5, <3>2, <3>3, <3>4, <3>5 DEF RotateChecks, CleanOf, NoneWiped
  <2>9. QED BY <1>8, <2>1, <2>3, <2>4, <2>5, <2>6, Kinds, CleanMoves DEF RotateChecks
<1>9. ASSUME NEW c \in Rotates, NEW n \in Call, RotatePuts(c, n) PROVE WipeClean'
  <2> SUFFICES ASSUME ~Late' PROVE WipeClean'
    BY DEF WipeClean
  <2>1. ~Late /\ CleanDisk /\ CleanOf(calls[c]) /\ (Past => stored = NoRecord)
    BY <1>9, Kinds DEF RotatePuts, WipeClean, Late, Past, LeavesNothing
  <2>2. Past => (Carries(calls[c]) => Carried(calls[c]) = {})
    BY <2>1, Kinds DEF WipeClean, Past, LeavesNothing
  <2>3. /\ NoneWiped /\ Held' = Held /\ Carries(calls[c]) /\ Carried(n) = Carried(calls[c])
        /\ n.held.key \in Carried(n) /\ ~Past
    <3>1. NoneWiped /\ Held' = Held /\ Carries(calls[c]) /\ Carried(n) = Carried(calls[c])
      BY <1>9, TabStays DEF RotatePuts, NoneWiped, Carries, Carried, At, RotatePcs
    <3>2. n.held.key \in Carried(n)
      BY <1>9, CarriedFacts DEF RotatePuts
    <3>3. QED BY <2>2, <3>1, <3>2
  <2>4. CleanDisk'
    BY <1>9, <2>1, <2>3, CarriedFacts DEF RotatePuts, CleanDisk, CleanOf
  <2>5. CleanOf(n)' /\ n.pc = "flip"
    BY <1>9, <2>1, <2>3 DEF RotatePuts, CleanOf
  <2>6. QED BY <1>9, <2>1, <2>3, <2>4, <2>5, Kinds, CleanMoves DEF RotatePuts
<1>10. ASSUME NEW c \in Rotates, RotateFlip(c) PROVE WipeClean'
  <2> SUFFICES ASSUME ~Late' PROVE WipeClean'
    BY DEF WipeClean
  <2>1. ~Late /\ CleanDisk /\ CleanOf(calls[c]) /\ (Past => stored = NoRecord)
    BY <1>10, Kinds DEF RotateFlip, WipeClean, Late, Past, LeavesNothing
  <2>2. Past => (Carries(calls[c]) => Carried(calls[c]) = {})
    BY <2>1, Kinds DEF WipeClean, Past, LeavesNothing
  <2>3. calls[c].held.key \in Keys /\ calls[c].fresh \in Keys /\ calls[c].held \in Wrapped
    BY <1>10, Kinds DEF RotateFlip, Shape, ShapeOf, At, RotatePcs, Wrapped
  <2>4. NoneWiped
    BY <1>10, <2>3, Kinds, CallFacts, AnnounceFacts DEF RotateFlip, NoneWiped
  <2>5. CleanDisk'
    <3>1. CASE Current(c)
      <4>1. /\ Carries(calls[c]) /\ calls[c].held.key \in Carried(calls[c])
            /\ calls[c].fresh \in Carried(calls[c])
        BY <1>10, <2>3, <3>1, Kinds, CallFacts, CarriedFacts DEF RotateFlip, At, Current, RotatePcs,
           Carries
      <4>2. tab.older \subseteq Held /\ {calls[c].fresh} \cup tab.older \in SUBSET Keys
        BY <2>3, Kinds, CallFacts, HeldFacts, TabFacts
      <4>3. Held' \subseteq Held \cup Carried(calls[c])
        BY <1>10, <2>3, <3>1, <4>1, <4>2, TabShows DEF RotateFlip, Wanted
      <4>4. \A k \in Held' : k \in Keys /\ fate[k] # "wiped"
        BY <2>1, <4>1, <4>3 DEF CleanOf, CleanDisk, Held
      <4>5. UNCHANGED <<stored, retired>>
        BY <1>10 DEF RotateFlip
      <4>6. QED BY <2>1, <2>4, <4>4, <4>5, Kinds, CallFacts DEF CleanDisk, NoneWiped, Wrapped
    <3>2. CASE ~Current(c)
      BY <1>10, <2>1, <2>4, <3>2, TabStays, CleanDiskStays DEF RotateFlip, Wanted
    <3>3. QED BY <3>1, <3>2
  <2>6. ~Carries(Resting)' /\ Resting.pc = "idle"
    BY RestingFacts DEF Carries
  <2>7. CleanOf(Resting)'
    BY <2>6 DEF CleanOf
  <2>8. QED BY <1>10, <2>1, <2>4, <2>5, <2>6, <2>7, RestingFacts, Kinds, CleanMoves
               DEF RotateFlip, Settle
<1>11. ASSUME NEW c \in Wipes, NEW n \in Call, WipeStarts(c, n) PROVE WipeClean'
  <2> SUFFICES ASSUME ~Late' PROVE WipeClean'
    BY DEF WipeClean
  <2>1. ~Late /\ CleanDisk /\ CleanOf(calls[c]) /\ (Past => stored = NoRecord)
    BY <1>11, Kinds DEF WipeStarts, WipeClean, Late, Past, LeavesNothing
  <2>2. Past => (Carries(calls[c]) => Carried(calls[c]) = {})
    BY <2>1, Kinds DEF WipeClean, Past, LeavesNothing
  <2>3. NoneWiped /\ n \in Call /\ Held' = Held
    BY <1>11, Kinds, CallFacts, TabStays DEF WipeStarts, NoneWiped
  <2>4. CleanDisk'
    BY <1>11, <2>1, <2>3, CleanDiskStays DEF WipeStarts
  <2>5. Carried(n) = {} /\ n.pc \notin {"drop", "leave"}
    BY <1>11, CarriedFacts DEF WipeStarts, RotatePcs
  <2>6. CleanOf(n)'
    BY <2>5 DEF CleanOf
  <2>9. QED BY <1>11, <2>1, <2>3, <2>4, <2>5, <2>6, Kinds, CleanMoves DEF WipeStarts
<1>12. ASSUME NEW c \in Wipes, NEW n \in Call, WipeDeletes(c, n) PROVE WipeClean'
  <2> SUFFICES ASSUME ~Late' PROVE WipeClean'
    BY DEF WipeClean
  <2>1. ~Late /\ CleanDisk /\ CleanOf(calls[c]) /\ (Past => stored = NoRecord)
    BY <1>12, Kinds DEF WipeDeletes, WipeClean, Late, Past, LeavesNothing
  <2>2. Past => (Carries(calls[c]) => Carried(calls[c]) = {})
    BY <2>1, Kinds DEF WipeClean, Past, LeavesNothing
  <2>3. NoneWiped /\ Held' = Held
    BY <1>12, Kinds, CallFacts, TabStays, DoomFacts DEF WipeDeletes, NoneWiped
  <2>4. CleanDisk'
    BY <1>12, <2>1, <2>3, CleanDiskStays DEF WipeDeletes
  <2>5. Carried(n) = Carried(calls[c]) /\ Carries(n)' = Carries(calls[c])
    BY <1>12 DEF WipeDeletes, Carried, Carries, At, RotatePcs
  <2>6. CleanOf(n)'
    BY <2>1, <2>3, <2>5 DEF CleanOf, NoneWiped, Carried
  <2>7. n.pc \in {"drop", "leave"} =>
          calls[c].pc \in {"drop", "leave"} /\ (n.pc = "leave" => retired' = {})
    BY <1>12 DEF WipeDeletes, At
  <2>8. Past => stored' = NoRecord /\ retired' \in {retired, {}}
    BY <1>12, <2>1 DEF WipeDeletes
  <2>9. QED BY <1>12, <2>1, <2>2, <2>3, <2>4, <2>5, <2>6, <2>7, <2>8, Kinds, CleanMoves
               DEF WipeDeletes
<1>13. ASSUME NEW c \in Wipes, WipeFinish(c) PROVE WipeClean'
  <2> SUFFICES ASSUME ~Late' PROVE WipeClean'
    BY DEF WipeClean
  <2>1. ~Late /\ \A d \in Calls : LeavesNothing(calls[d])
    BY <1>13 DEF WipeFinish, WipeClean, Late
  <2>2. /\ stored = NoRecord /\ retired = {}
        /\ \A d \in Calls : Carries(calls[d]) => Carried(calls[d]) = {}
    BY <1>13, <2>1, Kinds DEF WipeFinish, LeavesNothing, At
  <2>3. UNCHANGED <<stored, retired, epoch>> /\ Held' = {} /\ calls' = [calls EXCEPT ![c] = Resting]
    BY <1>13, TabEmpties DEF WipeFinish, Settle
  <2>4. CleanDisk'
    BY <2>2, <2>3 DEF CleanDisk
  <2>5. \A d \in Calls : calls'[d] = calls[d] \/ calls'[d] = Resting
    BY <2>3, Kinds, RestingFacts, OneMoves
  <2>6. \A d \in Calls : Carries(calls[d])' => Carried(calls[d])' = {}
    BY <2>2, <2>3, <2>5, RestingFacts DEF Carries
  <2>7. \A d \in Calls : CleanOf(calls[d])' /\ LeavesNothing(calls[d])'
    BY <2>2, <2>3, <2>6 DEF CleanOf, LeavesNothing
  <2>8. QED BY <2>4, <2>7 DEF WipeClean
<1>14. ASSUME NEW c \in Calls, Ends(c) PROVE WipeClean'
  <2> SUFFICES ASSUME ~Late' PROVE WipeClean'
    BY DEF WipeClean
  <2>1. ~Late /\ CleanDisk /\ CleanOf(calls[c]) /\ (Past => stored = NoRecord)
    BY <1>14, Kinds DEF Ends, WipeClean, Late, Past, LeavesNothing
  <2>2. Past => (Carries(calls[c]) => Carried(calls[c]) = {})
    BY <2>1, Kinds DEF WipeClean, Past, LeavesNothing
  <2>3. NoneWiped /\ Held' \subseteq Held
    BY <1>14, TabStays, TabEmpties DEF Ends, NoneWiped
  <2>4. CleanDisk'
    BY <1>14, <2>1, <2>3, CleanDiskStays DEF Ends
  <2>5. ~Carries(Resting)' /\ Resting.pc = "idle"
    BY RestingFacts DEF Carries
  <2>6. CleanOf(Resting)'
    BY <2>5 DEF CleanOf
  <2>9. QED BY <1>14, <2>1, <2>3, <2>4, <2>5, <2>6, RestingFacts, Kinds, CleanMoves DEF Ends
<1>15. CASE Probe
  <2> SUFFICES ASSUME ~Late' PROVE WipeClean'
    BY DEF WipeClean
  <2>1. ~Late /\ CleanDisk /\ NoneWiped /\ Held' = {}
    BY <1>15, TabEmpties DEF Probe, Slip, WipeClean, Late, NoneWiped
  <2>2. CleanDisk'
    BY <1>15, <2>1, CleanDiskStays DEF Probe
  <2>3. QED BY <1>15, <2>1, <2>2 DEF Probe, WipeClean, CleanOf, LeavesNothing, Carries
<1>16. CASE Reload
  <2> SUFFICES ASSUME ~Late' PROVE WipeClean'
    BY DEF WipeClean
  <2>1. ~Late /\ CleanDisk /\ NoneWiped /\ Held' = {}
    BY <1>16, TabEmpties DEF Reload, Slip, WipeClean, Late, NoneWiped
  <2>2. CleanDisk'
    BY <1>16, <2>1, CleanDiskStays DEF Reload
  <2>3. QED BY <1>16, <2>2, RestingFacts DEF Reload, WipeClean, CleanOf, LeavesNothing, Carries
<1>17. CASE UNCHANGED vars
  BY <1>17 DEF vars, WipeClean, CleanDisk, CleanOf, LeavesNothing, Carries, Late, Held
<1>18. CASE EpochSteps /\ EpochMoves
  <2> SUFFICES ASSUME ~Late' PROVE WipeClean'
    BY DEF WipeClean
  <2>1. ~Late /\ CleanDisk /\ \A d \in Calls : CleanOf(calls[d]) /\ LeavesNothing(calls[d])
    BY <1>18 DEF EpochSteps, WipeClean, Late
  <2>2. NoneWiped /\ Held' \subseteq Held /\ stored' \in {stored, NoRecord} /\ retired' = retired
    BY <1>18, DoomFacts, TabStays, TabEmpties
       DEF EpochMoves, Lock, WipeActive, WipeFails, NoneWiped, Shape, TypeOK
  <2>3. CleanDisk'
    BY <2>1, <2>2, CleanDiskStays
  <2>4. ASSUME NEW d \in Calls, Carries(calls[d])'
        PROVE  /\ Carries(calls[d]) /\ Carried(calls[d])' = Carried(calls[d])
               /\ calls[d].pc \in {"put", "save", "adopt"}
    BY <1>18, <2>4, RestingFacts
       DEF EpochSteps, Carries, Carried, Active, At, Current, RotatePcs
  <2>5. ASSUME NEW d \in Calls PROVE CleanOf(calls[d])'
    BY <2>1, <2>2, <2>4 DEF CleanOf, NoneWiped, Carried
  <2>6. ASSUME NEW d \in Calls, calls'[d].pc \in {"drop", "leave"} PROVE LeavesNothing(calls[d])'
    <3>1. CASE calls'[d].pc = calls[d].pc
      <4>1. LeavesNothing(calls[d])
        BY <2>1
      <4>2. QED BY <2>2, <2>4, <2>6, <3>1, <4>1 DEF LeavesNothing
    <3>2. CASE d \in Wipes /\ WipeActive(d) /\ calls'[d].pc = "drop"
      <4>1. \A e \in Calls : calls[e].pc \notin SetupPcs
        <5>1. At(d, "bump") \/ tab.status = "locked"
          BY <3>2 DEF WipeActive, WipeCalled
        <5>2. QED BY <2>1, <5>1, Kinds, NoSetup DEF Late, At, SetupPcs
      <4>2. \A r \in Rotates : ~At(r, "put")
        BY <3>2 DEF WipeActive, Slip, Late
      <4>3. \A e \in Calls : ~Carries(calls[e])'
        BY <2>4, <4>1, <4>2 DEF Shape, ShapeOf, SetupPcs, RotatePcs, At
      <4>4. stored' = NoRecord
        BY <3>2 DEF WipeActive
      <4>5. QED BY <3>2, <4>3, <4>4 DEF LeavesNothing
    <3>3. QED BY <1>18, <2>6, <3>1, <3>2, RestingFacts DEF EpochSteps
  <2>7. \A d \in Calls : CleanOf(calls[d])' /\ LeavesNothing(calls[d])'
    BY <2>5, <2>6 DEF LeavesNothing
  <2>8. QED BY <2>3, <2>7 DEF WipeClean
<1>19. QED BY <1>1, <1>2, <1>3, <1>4, <1>5, <1>6, <1>7, <1>8, <1>9, <1>10, <1>11, <1>12, <1>13,
   <1>14, <1>15, <1>16, <1>17, <1>18 DEF Effects

-------------------------------------------------------------------------------
\* What a record and a list of retired keys bring back.
Rec(st, re) == IF st = NoRecord THEN {}
               ELSE {st.key} \cup {w.key : w \in {v \in re : v.phrase = st.phrase}}

LEMMA RecFacts ==
  /\ Recoverable = Rec(stored, retired)
  /\ stored = NoRecord => Recoverable = {}
  /\ stored # NoRecord =>
       /\ stored.key \in Recoverable
       /\ \A w \in retired : w.phrase = stored.phrase => w.key \in Recoverable
       /\ \A k \in Recoverable :
            k = stored.key \/ \E w \in retired : w.phrase = stored.phrase /\ w.key = k
  /\ UNCHANGED <<stored, retired>> => Recoverable' = Recoverable
BY DEF Recoverable, Rec

\* The old record first in the list, the new one in its place: one key more.
LEMMA PrependRec ==
  ASSUME NEW st \in Wrapped, NEW nw \in Wrapped, NEW re \in SUBSET Wrapped, st.phrase = nw.phrase
  PROVE  Rec(nw, PrependRetired(st, re)) = {nw.key} \cup Rec(st, re)
<1>1. st # NoRecord /\ nw # NoRecord
  BY NoRecordFacts
<1>2. ASSUME NEW k \in Rec(nw, PrependRetired(st, re)) PROVE k \in {nw.key} \cup Rec(st, re)
  BY <1>1, <1>2 DEF Rec, PrependRetired
<1>3. ASSUME NEW k \in Rec(st, re) PROVE k \in Rec(nw, PrependRetired(st, re))
  <2>1. st \in PrependRetired(st, re) /\ st.key \in Rec(nw, PrependRetired(st, re))
    BY <1>1 DEF Rec, PrependRetired
  <2>2. CASE k = st.key
    BY <2>1, <2>2
  <2>3. CASE k # st.key
    <3>1. PICK w \in re : w.phrase = st.phrase /\ w.key = k
      BY <1>1, <1>3, <2>3 DEF Rec
    <3>2. w \in PrependRetired(st, re)
      BY <2>3, <3>1 DEF PrependRetired
    <3>3. QED BY <1>1, <3>1, <3>2 DEF Rec
  <2>4. QED BY <2>2, <2>3
<1>4. nw.key \in Rec(nw, PrependRetired(st, re))
  BY <1>1 DEF Rec
<1>5. QED BY <1>2, <1>3, <1>4

\* One call moves: every live key that was on disk still is, and no other rotation
\* is under way where the disk or the keys' fate changes.
LEMMA KeepsMoves ==
  ASSUME Shape, Made, KeepsKeys, ~Risky, NEW c \in Calls, NEW n \in Call,
         calls' = [calls EXCEPT ![c] = n], KeptOnDisk', KeepsOf(n)',
         \A k \in Keys : Alive(k)' /\ fate[k] # "unmade" /\ (Alive(k) => k \in Recoverable) =>
                         k \in Recoverable',
         \/ \A d \in Calls \ {c} : calls[d].pc \notin RotatePcs
         \/ /\ n.pc \notin RotatePcs \/ calls[c].pc \in RotatePcs
            /\ \/ UNCHANGED <<stored, retired>> /\ \A k \in Keys : Alive(k)' => Alive(k)
               \/ \A k \in Keys : ~Alive(k)'
  PROVE  KeepsKeys'
<1>1. OneRotation /\ \A d \in Calls : KeepsOf(calls[d])
  BY DEF KeepsKeys
<1>2. OneRotation'
  <2>1. CASE \A d \in Calls \ {c} : calls[d].pc \notin RotatePcs
    BY <2>1, OneMoves DEF OneRotation
  <2>2. CASE n.pc \notin RotatePcs \/ calls[c].pc \in RotatePcs
    BY <1>1, <2>2, OneMoves DEF OneRotation
  <2>3. QED BY <2>1, <2>2
<1>3. ASSUME NEW d \in Calls PROVE KeepsOf(calls[d])'
  <2>1. CASE d = c
    BY <2>1, OneMoves
  <2>2. CASE d # c
    <3>1. calls'[d] = calls[d] /\ KeepsOf(calls[d])
      BY <1>1, <2>2, OneMoves
    <3>2. ASSUME calls[d].pc \in {"unwrap", "flip"}, calls[d].held # NoRecord,
                 Alive(calls[d].held.key)'
          PROVE  calls[d].held.key \in Recoverable'
      <4>1. calls[d].held.key \in Keys /\ fate[calls[d].held.key] # "unmade"
        BY <3>2, CallFacts DEF Made, MadeOf, Wrapped
      <4>2. Alive(calls[d].held.key) => calls[d].held.key \in Recoverable
        BY <3>1, <3>2 DEF KeepsOf
      <4>3. PICK k \in Keys : k = calls[d].held.key
        BY <4>1
      <4>4. Alive(k)' /\ fate[k] # "unmade" /\ (Alive(k) => k \in Recoverable)
        BY <3>1, <3>2, <4>1, <4>2, <4>3 DEF Alive
      <4>5. k \in Recoverable'
        BY <4>4
      <4>6. QED BY <3>1, <4>3, <4>5
    <3>3. CASE calls[d].pc \notin RotatePcs
      BY <3>1, <3>2, <3>3 DEF KeepsOf, RotatePcs
    <3>4. CASE UNCHANGED <<stored, retired>> /\ \A k \in Keys : Alive(k)' => Alive(k)
      <4>1. calls[d].pc = "verify" => stored' = calls[d].held \/ \A k \in Keys : ~Alive(k)'
        BY <3>1, <3>4 DEF KeepsOf
      <4>2. calls[d].pc = "put" =>
              \/ /\ stored' # NoRecord
                 /\ calls[d].held.phrase = stored'.phrase
                 /\ calls[d].list = PrependRetired(stored', retired')
              \/ \A k \in Keys : Alive(k)' => k = calls[d].held.key
        BY <3>1, <3>4 DEF KeepsOf
      <4>3. QED BY <3>1, <3>2, <4>1, <4>2 DEF KeepsOf
    <3>5. CASE \A k \in Keys : ~Alive(k)'
      BY <3>1, <3>2, <3>5 DEF KeepsOf
    <3>6. QED BY <2>2, <3>3, <3>4, <3>5
  <2>3. QED BY <2>1, <2>2
<1>4. QED BY <1>2, <1>3 DEF KeepsKeys

LEMMA KeepsKept ==
  ASSUME Shape, Made, SetupAlone, KeepsKeys, Effects
  PROVE  KeepsKeys'
<1>1. ASSUME NEW c \in Setups, NEW n \in Call, NEW k \in Keys, SetupStarts(c, n, k) PROVE KeepsKeys'
  <2> SUFFICES ASSUME ~Risky' PROVE KeepsKeys'
    BY DEF KeepsKeys
  <2>1. ~Risky /\ KeptOnDisk /\ OneRotation /\ KeepsOf(calls[c])
    BY <1>1, Kinds DEF SetupStarts, KeepsKeys, Risky
  <2>2. UNCHANGED <<stored, retired>> /\ Recoverable' = Recoverable
    BY <1>1, RecFacts DEF SetupStarts
  <2>3. \A j \in Keys : fate'[j] = IF j = k THEN "made" ELSE fate[j]
    BY <1>1, Kinds, CallFacts DEF SetupStarts
  <2>4. KeptOnDisk'
    BY <2>1, <2>2, <2>3 DEF KeptOnDisk
  <2>5. \A j \in Keys : Alive(j)' /\ fate[j] # "unmade" => Alive(j)
    BY <1>1, <2>3 DEF SetupStarts, Alive
  <2>6. KeepsOf(n)' /\ \A d \in Calls : calls[d].pc \notin RotatePcs
    BY <1>1 DEF SetupStarts, KeepsOf, Risky, At, RotatePcs
  <2>7. QED BY <1>1, <2>1, <2>2, <2>4, <2>5, <2>6, Kinds, KeepsMoves DEF SetupStarts
<1>2. ASSUME NEW c \in Setups, NEW n \in Call, SetupSaves(c, n) PROVE KeepsKeys'
  <2> SUFFICES ASSUME ~Risky' PROVE KeepsKeys'
    BY DEF KeepsKeys
  <2>1. ~Risky /\ KeptOnDisk /\ OneRotation /\ KeepsOf(calls[c])
    BY <1>2, Kinds DEF SetupSaves, KeepsKeys, Risky
  <2>2. stored = NoRecord /\ \A d \in Calls \ {c} : At(d, "idle")
    BY <1>2, <2>1, Kinds DEF SetupSaves, SetupAlone, AloneOf, Risky, At, SetupPcs
  <2>3. \A k \in Keys : fate'[k] # "kept" /\ fate'[k] = fate[k] /\ k \notin Recoverable
    BY <1>2, <2>1, <2>2, RecFacts DEF SetupSaves, KeptOnDisk
  <2>4. KeptOnDisk'
    BY <2>3 DEF KeptOnDisk
  <2>5. \A k \in Keys : Alive(k)' = Alive(k)
    BY <2>3 DEF Alive
  <2>6. KeepsOf(n)'
    BY <1>2 DEF SetupSaves, KeepsOf
  <2>7. \A d \in Calls \ {c} : calls[d].pc \notin RotatePcs
    BY <2>2 DEF At, RotatePcs
  <2>8. QED BY <1>2, <2>1, <2>3, <2>4, <2>5, <2>6, <2>7, Kinds, KeepsMoves DEF SetupSaves
<1>3. ASSUME NEW c \in Setups, SetupFinish(c) PROVE KeepsKeys'
  <2> SUFFICES ASSUME ~Risky' PROVE KeepsKeys'
    BY DEF KeepsKeys
  <2>1. ~Risky /\ KeptOnDisk /\ OneRotation /\ KeepsOf(calls[c])
    BY <1>3, Kinds DEF SetupFinish, KeepsKeys, Risky
  <2>2. UNCHANGED <<stored, retired>> /\ Recoverable' = Recoverable
    BY <1>3, RecFacts DEF SetupFinish
  <2>3. calls[c].held.key \in Keys /\ (Alive(calls[c].held.key) => calls[c].held.key \in Recoverable)
    BY <1>3, <2>1, Kinds, NoRecordFacts, RecFacts DEF SetupFinish, Shape, ShapeOf, SetupAlone,
       AloneOf,
       Risky, At, SetupPcs, Wrapped
  <2>4. \A k \in Keys : fate'[k] = IF k = calls[c].held.key /\ fate[k] = "made" THEN "kept" ELSE fate[k]
    BY <1>3, <2>3, Kinds, CallFacts, AnnounceFacts DEF SetupFinish
  <2>5. KeptOnDisk'
    BY <2>1, <2>2, <2>3, <2>4 DEF KeptOnDisk, Alive
  <2>6. \A k \in Keys : Alive(k)' = Alive(k)
    BY <2>4 DEF Alive
  <2>7. KeepsOf(Resting)' /\ Resting.pc \notin RotatePcs
    BY <1>3, RestingFacts DEF SetupFinish, KeepsOf, RotatePcs
  <2>8. QED BY <1>3, <2>1, <2>2, <2>5, <2>6, <2>7, RestingFacts, Kinds, KeepsMoves
     DEF SetupFinish, Settle
<1>4. ASSUME NEW c \in Unlocks, NEW n \in Call, UnlockStarts(c, n) PROVE KeepsKeys'
  <2> SUFFICES ASSUME ~Risky' PROVE KeepsKeys'
    BY DEF KeepsKeys
  <2>1. ~Risky /\ KeptOnDisk /\ OneRotation /\ KeepsOf(calls[c])
    BY <1>4, Kinds DEF UnlockStarts, KeepsKeys, Risky
  <2>2. UNCHANGED <<stored, retired>> /\ Recoverable' = Recoverable /\ UNCHANGED fate
    BY <1>4, RecFacts DEF UnlockStarts
  <2>3. KeptOnDisk'
    BY <2>1, <2>2 DEF KeptOnDisk
  <2>4. \A k \in Keys : Alive(k)' = Alive(k)
    BY <2>2 DEF Alive
  <2>5. KeepsOf(n)' /\ n.pc \notin RotatePcs
    BY <1>4, <2>2, RecFacts DEF UnlockStarts, KeepsOf, RotatePcs
  <2>6. QED BY <1>4, <2>1, <2>2, <2>3, <2>4, <2>5, Kinds, KeepsMoves DEF UnlockStarts
<1>5. ASSUME NEW c \in Unlocks, NEW n \in Call, UnlockShows(c, n) PROVE KeepsKeys'
  <2> SUFFICES ASSUME ~Risky' PROVE KeepsKeys'
    BY DEF KeepsKeys
  <2>1. ~Risky /\ KeptOnDisk /\ OneRotation /\ KeepsOf(calls[c])
    BY <1>5, Kinds DEF UnlockShows, KeepsKeys, Risky
  <2>2. UNCHANGED <<stored, retired>> /\ Recoverable' = Recoverable
    BY <1>5, RecFacts DEF UnlockShows
  <2>3. calls[c].held.key \in Keys /\ (Alive(calls[c].held.key) => calls[c].held.key \in Recoverable)
    BY <1>5, <2>1, NoRecordFacts DEF UnlockShows, KeepsOf, At, Wrapped
  <2>4. \A k \in Keys : fate'[k] = IF k = calls[c].held.key /\ fate[k] = "made" THEN "kept" ELSE fate[k]
    BY <1>5, <2>3, Kinds, CallFacts, AnnounceFacts DEF UnlockShows
  <2>5. KeptOnDisk'
    BY <2>1, <2>2, <2>3, <2>4 DEF KeptOnDisk, Alive
  <2>6. \A k \in Keys : Alive(k)' = Alive(k)
    BY <2>4 DEF Alive
  <2>7. KeepsOf(n)' /\ n.pc \notin RotatePcs
    BY <1>5, RestingFacts DEF UnlockShows, KeepsOf, RotatePcs
  <2>8. QED BY <1>5, <2>1, <2>2, <2>5, <2>6, <2>7, RestingFacts, Kinds, KeepsMoves DEF UnlockShows
<1>6. ASSUME NEW c \in Unlocks, NEW n \in Call, NEW w \in Wrapped, UnlockAdds(c, n, w)
      PROVE  KeepsKeys'
  <2> SUFFICES ASSUME ~Risky' PROVE KeepsKeys'
    BY DEF KeepsKeys
  <2>1. ~Risky /\ KeptOnDisk /\ OneRotation /\ KeepsOf(calls[c])
    BY <1>6, Kinds DEF UnlockAdds, KeepsKeys, Risky
  <2>2. UNCHANGED <<stored, retired>> /\ Recoverable' = Recoverable /\ UNCHANGED fate
    BY <1>6, RecFacts DEF UnlockAdds
  <2>3. KeptOnDisk'
    BY <2>1, <2>2 DEF KeptOnDisk
  <2>4. \A k \in Keys : Alive(k)' = Alive(k)
    BY <2>2 DEF Alive
  <2>5. KeepsOf(n)' /\ (n.pc \notin RotatePcs \/ calls[c].pc \in RotatePcs)
    BY <1>6 DEF UnlockAdds, KeepsOf, RotatePcs
  <2>6. QED BY <1>6, <2>1, <2>2, <2>3, <2>4, <2>5, Kinds, KeepsMoves DEF UnlockAdds
<1>7. ASSUME NEW c \in Rotates, NEW n \in Call, RotateStarts(c, n) PROVE KeepsKeys'
  <2> SUFFICES ASSUME ~Risky' PROVE KeepsKeys'
    BY DEF KeepsKeys
  <2>1. ~Risky /\ KeptOnDisk /\ OneRotation /\ KeepsOf(calls[c])
    BY <1>7, Kinds DEF RotateStarts, KeepsKeys, Risky
  <2>2. UNCHANGED <<stored, retired>> /\ Recoverable' = Recoverable /\ UNCHANGED fate
    BY <1>7, RecFacts DEF RotateStarts
  <2>3. KeptOnDisk'
    BY <2>1, <2>2 DEF KeptOnDisk
  <2>4. \A k \in Keys : Alive(k)' = Alive(k)
    BY <2>2 DEF Alive
  <2>5. KeepsOf(n)'
    BY <1>7 DEF RotateStarts, KeepsOf
  <2>6. \A d \in Calls : calls[d].pc \notin RotatePcs
    BY <1>7 DEF RotateStarts, Risky, Shape, ShapeOf, At, RotatePcs
  <2>7. QED BY <1>7, <2>1, <2>2, <2>3, <2>4, <2>5, <2>6, Kinds, KeepsMoves DEF RotateStarts
<1>8. ASSUME NEW c \in Rotates, NEW n \in Call, NEW k \in Keys, RotateChecks(c, n, k)
      PROVE  KeepsKeys'
  <2> SUFFICES ASSUME ~Risky' PROVE KeepsKeys'
    BY DEF KeepsKeys
  <2>1. ~Risky /\ KeptOnDisk /\ OneRotation /\ KeepsOf(calls[c])
    BY <1>8, Kinds DEF RotateChecks, KeepsKeys, Risky
  <2>2. UNCHANGED <<stored, retired>> /\ Recoverable' = Recoverable
    BY <1>8, RecFacts DEF RotateChecks
  <2>3. \A j \in Keys : fate'[j] = IF j = k THEN "made" ELSE fate[j]
    BY <1>8, Kinds, CallFacts DEF RotateChecks
  <2>4. KeptOnDisk'
    BY <2>1, <2>2, <2>3 DEF KeptOnDisk
  <2>5. \A j \in Keys : Alive(j)' /\ fate[j] # "unmade" => Alive(j)
    BY <1>8, <2>3 DEF RotateChecks, Alive
  <2>6. KeepsOf(n)'
    <3>1. n.pc = "put" /\ n.held.key = k
      BY <1>8 DEF RotateChecks
    <3>2. CASE stored = calls[c].held
      <4>1. /\ stored' # NoRecord /\ n.held.phrase = stored'.phrase
            /\ n.list = PrependRetired(stored', retired')
        BY <1>8, <3>2, NoRecordFacts DEF RotateChecks, Risky
      <4>2. QED BY <3>1, <4>1 DEF KeepsOf
    <3>3. CASE \A j \in Keys : ~Alive(j)
      <4>1. \A j \in Keys : Alive(j)' => j = n.held.key
        BY <2>3, <3>1, <3>3 DEF Alive
      <4>2. QED BY <3>1, <4>1 DEF KeepsOf
    <3>4. QED BY <1>8, <2>1, <3>2, <3>3 DEF RotateChecks, KeepsOf, At
  <2>7. \A d \in Calls \ {c} : calls[d].pc \notin RotatePcs
    BY <1>8, <2>1, Kinds DEF RotateChecks, OneRotation, At, RotatePcs
  <2>8. QED BY <1>8, <2>1, <2>2, <2>4, <2>5, <2>6, <2>7, Kinds, KeepsMoves DEF RotateChecks
<1>9. ASSUME NEW c \in Rotates, NEW n \in Call, RotatePuts(c, n) PROVE KeepsKeys'
  <2> SUFFICES ASSUME ~Risky' PROVE KeepsKeys'
    BY DEF KeepsKeys
  <2>1. ~Risky /\ KeptOnDisk /\ OneRotation /\ KeepsOf(calls[c])
    BY <1>9, Kinds DEF RotatePuts, KeepsKeys, Risky
  <2>2. UNCHANGED fate /\ n.held \in Wrapped /\ n.held = calls[c].held /\ n.list = calls[c].list
    BY <1>9 DEF RotatePuts
  <2>3. n.held.key \in Recoverable'
    BY <1>9, NoRecordFacts DEF RotatePuts, Recoverable
  <2>4. \A k \in Keys : Alive(k) /\ k \in Recoverable => k \in Recoverable'
    <3>1. CASE /\ stored # NoRecord
               /\ calls[c].held.phrase = stored.phrase
               /\ calls[c].list = PrependRetired(stored, retired)
      <4>1. stored \in Wrapped /\ retired \in SUBSET Wrapped
        BY <3>1, Kinds, CallFacts
      <4>2. Rec(n.held, n.list) = {n.held.key} \cup Recoverable
        BY <2>2, <3>1, <4>1, PrependRec, RecFacts
      <4>3. Recoverable' = Rec(n.held, n.list)
        BY <1>9 DEF RotatePuts, Recoverable, Rec
      <4>4. QED BY <4>2, <4>3
    <3>2. CASE \A k \in Keys : Alive(k) => k = calls[c].held.key
      BY <2>2, <2>3, <3>2
    <3>3. QED BY <1>9, <2>1, <3>1, <3>2 DEF RotatePuts, KeepsOf, At
  <2>5. KeptOnDisk'
    BY <2>1, <2>2, <2>4 DEF KeptOnDisk, Alive
  <2>6. \A k \in Keys : Alive(k)' = Alive(k)
    BY <2>2 DEF Alive
  <2>7. KeepsOf(n)'
    BY <1>9, <2>3 DEF RotatePuts, KeepsOf
  <2>8. \A d \in Calls \ {c} : calls[d].pc \notin RotatePcs
    BY <1>9, <2>1, Kinds DEF RotatePuts, OneRotation, At, RotatePcs
  <2>9. QED BY <1>9, <2>1, <2>4, <2>5, <2>6, <2>7, <2>8, Kinds, KeepsMoves DEF RotatePuts
<1>10. ASSUME NEW c \in Rotates, RotateFlip(c) PROVE KeepsKeys'
  <2> SUFFICES ASSUME ~Risky' PROVE KeepsKeys'
    BY DEF KeepsKeys
  <2>1. ~Risky /\ KeptOnDisk /\ OneRotation /\ KeepsOf(calls[c])
    BY <1>10, Kinds DEF RotateFlip, KeepsKeys, Risky
  <2>2. UNCHANGED <<stored, retired>> /\ Recoverable' = Recoverable
    BY <1>10, RecFacts DEF RotateFlip
  <2>3. calls[c].held.key \in Keys /\ (Alive(calls[c].held.key) => calls[c].held.key \in Recoverable)
    BY <1>10, <2>1, Kinds, NoRecordFacts DEF RotateFlip, Shape, ShapeOf, KeepsOf, At, RotatePcs,
       Wrapped
  <2>4. \A k \in Keys : fate'[k] = IF k = calls[c].held.key /\ fate[k] = "made" THEN "kept" ELSE fate[k]
    BY <1>10, <2>3, Kinds, CallFacts, AnnounceFacts DEF RotateFlip
  <2>5. KeptOnDisk'
    BY <2>1, <2>2, <2>3, <2>4 DEF KeptOnDisk, Alive
  <2>6. \A k \in Keys : Alive(k)' = Alive(k)
    BY <2>4 DEF Alive
  <2>7. KeepsOf(Resting)' /\ Resting.pc \notin RotatePcs
    BY <1>10, RestingFacts DEF RotateFlip, KeepsOf, RotatePcs
  <2>8. QED BY <1>10, <2>1, <2>2, <2>5, <2>6, <2>7, RestingFacts, Kinds, KeepsMoves
     DEF RotateFlip, Settle
<1>11. ASSUME NEW c \in Wipes, NEW n \in Call, WipeStarts(c, n) PROVE KeepsKeys'
  <2> SUFFICES ASSUME ~Risky' PROVE KeepsKeys'
    BY DEF KeepsKeys
  <2>1. ~Risky /\ KeptOnDisk /\ OneRotation /\ KeepsOf(calls[c])
    BY <1>11, Kinds DEF WipeStarts, KeepsKeys, Risky
  <2>2. UNCHANGED <<stored, retired>> /\ Recoverable' = Recoverable /\ UNCHANGED fate
    BY <1>11, RecFacts DEF WipeStarts
  <2>3. KeptOnDisk'
    BY <2>1, <2>2 DEF KeptOnDisk
  <2>4. \A k \in Keys : Alive(k)' = Alive(k)
    BY <2>2 DEF Alive
  <2>5. KeepsOf(n)' /\ (n.pc \notin RotatePcs \/ calls[c].pc \in RotatePcs)
    BY <1>11 DEF WipeStarts, KeepsOf, RotatePcs
  <2>6. QED BY <1>11, <2>1, <2>2, <2>3, <2>4, <2>5, Kinds, KeepsMoves DEF WipeStarts
<1>12. ASSUME NEW c \in Wipes, NEW n \in Call, WipeDeletes(c, n) PROVE KeepsKeys'
  <2> SUFFICES ASSUME ~Risky' PROVE KeepsKeys'
    BY DEF KeepsKeys
  <2>1. ~Risky /\ KeptOnDisk /\ OneRotation /\ KeepsOf(calls[c])
    BY <1>12, Kinds DEF WipeDeletes, KeepsKeys, Risky
  <2>2. \A k \in Keys : ~Alive(k)' /\ fate'[k] # "kept"
    BY <1>12, Kinds, CallFacts, DoomFacts DEF WipeDeletes, Alive
  <2>3. KeptOnDisk' /\ KeepsOf(n)' /\ n.pc \notin RotatePcs
    <3>1. n.pc \in {"purge", "bump", "leave"}
      BY <1>12 DEF WipeDeletes
    <3>2. QED BY <2>2, <3>1 DEF KeptOnDisk, KeepsOf, RotatePcs
  <2>4. QED BY <1>12, <2>1, <2>2, <2>3, Kinds, KeepsMoves DEF WipeDeletes
<1>13. ASSUME NEW c \in Wipes, WipeFinish(c) PROVE KeepsKeys'
  <2> SUFFICES ASSUME ~Risky' PROVE KeepsKeys'
    BY DEF KeepsKeys
  <2>1. ~Risky /\ KeptOnDisk /\ OneRotation /\ KeepsOf(calls[c])
    BY <1>13, Kinds DEF WipeFinish, KeepsKeys, Risky
  <2>2. UNCHANGED <<stored, retired>> /\ Recoverable' = Recoverable
    BY <1>13, RecFacts DEF WipeFinish
  <2>3. \A k \in Keys : fate'[k] = IF fate[k] = "doomed" THEN "wiped" ELSE fate[k]
    BY <1>13 DEF WipeFinish
  <2>4. KeptOnDisk'
    BY <2>1, <2>2, <2>3 DEF KeptOnDisk
  <2>5. \A k \in Keys : Alive(k)' = Alive(k)
    BY <2>3 DEF Alive
  <2>6. KeepsOf(Resting)' /\ Resting.pc \notin RotatePcs
    BY RestingFacts DEF KeepsOf, RotatePcs
  <2>7. QED BY <1>13, <2>1, <2>2, <2>4, <2>5, <2>6, RestingFacts, Kinds, KeepsMoves
               DEF WipeFinish, Settle
<1>14. ASSUME NEW c \in Calls, Ends(c) PROVE KeepsKeys'
  <2> SUFFICES ASSUME ~Risky' PROVE KeepsKeys'
    BY DEF KeepsKeys
  <2>1. ~Risky /\ KeptOnDisk /\ OneRotation /\ KeepsOf(calls[c])
    BY <1>14, Kinds DEF Ends, KeepsKeys, Risky
  <2>2. UNCHANGED <<stored, retired>> /\ Recoverable' = Recoverable /\ UNCHANGED fate
    BY <1>14, RecFacts DEF Ends
  <2>3. KeptOnDisk'
    BY <2>1, <2>2 DEF KeptOnDisk
  <2>4. \A k \in Keys : Alive(k)' = Alive(k)
    BY <2>2 DEF Alive
  <2>5. KeepsOf(Resting)' /\ Resting.pc \notin RotatePcs
    BY RestingFacts DEF KeepsOf, RotatePcs
  <2>6. QED BY <1>14, <2>1, <2>2, <2>3, <2>4, <2>5, RestingFacts, KeepsMoves DEF Ends
<1>15. CASE Probe
  <2>1. ~Risky' => ~Risky
    BY <1>15 DEF Probe, Slip, Risky
  <2>2. UNCHANGED <<stored, retired, fate>> /\ Recoverable' = Recoverable
    BY <1>15, RecFacts DEF Probe
  <2>3. UNCHANGED calls
    BY <1>15 DEF Probe
  <2>4. QED BY <2>1, <2>2, <2>3 DEF KeepsKeys, KeptOnDisk, OneRotation, KeepsOf, Alive
<1>16. CASE Reload
  <2>1. ~Risky' => ~Risky
    BY <1>16 DEF Reload, Slip, Risky
  <2>2. UNCHANGED <<stored, retired, fate>> /\ Recoverable' = Recoverable
    BY <1>16, RecFacts DEF Reload
  <2>3. \A d \in Calls : calls'[d].pc = "idle"
    BY <1>16, RestingFacts DEF Reload
  <2>4. QED BY <2>1, <2>2, <2>3 DEF KeepsKeys, KeptOnDisk, OneRotation, KeepsOf, RotatePcs
<1>17. CASE UNCHANGED vars
  <2>1. ~Risky' => ~Risky
    BY <1>17 DEF vars, Risky
  <2>2. UNCHANGED <<stored, retired, fate>> /\ Recoverable' = Recoverable
    BY <1>17, RecFacts DEF vars
  <2>3. UNCHANGED calls
    BY <1>17 DEF vars
  <2>4. QED BY <2>1, <2>2, <2>3 DEF KeepsKeys, KeptOnDisk, OneRotation, KeepsOf, Alive
<1>18. CASE EpochSteps /\ EpochMoves
  <2> SUFFICES ASSUME ~Risky' PROVE KeepsKeys'
    BY DEF KeepsKeys
  <2>1. ~Risky /\ KeptOnDisk /\ OneRotation /\ \A d \in Calls : KeepsOf(calls[d])
    BY <1>18 DEF EpochSteps, KeepsKeys, Risky
  <2>2. OneRotation'
    BY <1>18, <2>1, RestingFacts DEF EpochSteps, OneRotation, RotatePcs, At
  <2>3. CASE Lock \/ \E c \in Wipes : WipeFails(c)
    <3>1. UNCHANGED <<stored, retired, fate>> /\ Recoverable' = Recoverable
      BY <2>3, RecFacts DEF Lock, WipeFails
    <3>2. \A d \in Calls : \/ calls'[d].pc \in {"idle", "drop"}
                           \/ /\ calls'[d].pc = calls[d].pc /\ calls'[d].held = calls[d].held
                              /\ calls'[d].list = calls[d].list
      BY <1>18, RestingFacts DEF EpochSteps
    <3>3. ASSUME NEW d \in Calls PROVE KeepsOf(calls[d])'
      BY <2>1, <3>1, <3>2 DEF KeepsOf, Alive
    <3>4. QED BY <2>1, <2>2, <3>1, <3>3 DEF KeepsKeys, KeptOnDisk
  <2>4. CASE \E c \in Wipes : WipeActive(c)
    <3>1. \A k \in Keys : ~Alive(k)' /\ fate'[k] # "kept"
      BY <2>4, DoomFacts DEF WipeActive, Alive, Shape, TypeOK
    <3>2. ASSUME NEW d \in Calls PROVE KeepsOf(calls[d])'
      <4>1. calls'[d].held # NoRecord => calls'[d].held.key \in Keys
        BY <1>18, CallFacts, RestingFacts DEF EpochSteps, Wrapped
      <4>2. QED BY <3>1, <4>1 DEF KeepsOf
    <3>3. QED BY <2>2, <3>1, <3>2 DEF KeepsKeys, KeptOnDisk
  <2>5. QED BY <1>18, <2>3, <2>4 DEF EpochMoves
<1>19. QED BY <1>1, <1>2, <1>3, <1>4, <1>5, <1>6, <1>7, <1>8, <1>9, <1>10, <1>11, <1>12, <1>13,
   <1>14, <1>15, <1>16, <1>17, <1>18 DEF Effects

-------------------------------------------------------------------------------
\* What no deletion of a wipe dooms is not there.
LEMMA NothingLeft ==
  ASSUME Shape, Made, WipeClean, ~Late, Doom, ~Doomed'
  PROVE  stored = NoRecord /\ retired = {} /\ tab.status # "unlocked" /\ ~Doomed
<1>1. \A k \in Keys : fate'[k] = IF Alive(k) THEN "doomed" ELSE fate[k]
  BY DoomFacts DEF Shape, TypeOK
<1>2. \A k \in Keys : fate[k] \in {"unmade", "wiped"}
  BY <1>1 DEF Doomed, Alive, Shape, TypeOK
<1>3. stored = NoRecord
  BY <1>2 DEF Shape, TypeOK, Made, WipeClean, CleanDisk, Wrapped
<1>4. retired = {}
  BY <1>2 DEF Shape, TypeOK, Made, WipeClean, CleanDisk, Wrapped
<1>5. tab.status # "unlocked"
  <2>1. tab \in Tab
    BY DEF Shape, TypeOK
  <2>2. \A k \in Held : k \in Keys /\ fate[k] \notin {"unmade", "wiped"}
    BY DEF Made, WipeClean, CleanDisk, Held
  <2>3. Held = {}
    BY <1>2, <2>2
  <2>4. QED BY <2>1, <2>3, TabFacts, HeldFacts
<1>6. ~Doomed
  BY <1>1 DEF Doomed, Alive
<1>7. QED BY <1>3, <1>4, <1>5, <1>6

\* What is coming, as one call moves.
Others(c, k) == \E d \in Calls \ {c} : k \in Brings(calls[d])
OthersShow(c, k) == \E d \in Calls \ {c} : k \in Shows(calls[d])
LEMMA ComingMoves ==
  ASSUME Shape, NEW c \in Calls, NEW n \in Call, calls' = [calls EXCEPT ![c] = n], UNCHANGED epoch,
         NEW k \in Keys
  PROVE  /\ k \in Coming <=> k \in Brings(calls[c]) \/ Others(c, k)
         /\ k \in Coming' <=> k \in Brings(n) \/ Others(c, k)
         /\ k \in About <=> k \in Shows(calls[c]) \/ OthersShow(c, k)
         /\ k \in About' <=> k \in Shows(n) \/ OthersShow(c, k)
<1>1. \A d \in Calls : calls'[d] = IF d = c THEN n ELSE calls[d]
  BY OneMoves
<1>2. /\ k \in Coming <=> k \in Brings(calls[c]) \/ Others(c, k)
      /\ k \in About <=> k \in Shows(calls[c]) \/ OthersShow(c, k)
  BY DEF Coming, About, Others, OthersShow
<1>3. /\ \A d \in Calls \ {c} : Brings(calls[d])' = Brings(calls[d]) /\ Shows(calls[d])' = Shows(calls[d])
      /\ Brings(calls[c])' = Brings(n) /\ Shows(calls[c])' = Shows(n)
  BY <1>1 DEF Brings, Shows
<1>4. /\ k \in Coming' <=> k \in Brings(n) \/ Others(c, k)
      /\ k \in About' <=> k \in Shows(n) \/ OthersShow(c, k)
  BY <1>3 DEF Coming, About, Others, OthersShow
<1>5. QED BY <1>2, <1>4

\* Nothing to bring or show.
LEMMA BringsNothing ==
  ASSUME NEW call \in Call
  PROVE  /\ call.pc # "older" \/ call.epoch # epoch => Brings(call) = {}
         /\ call.pc # "flip" \/ call.epoch # epoch => Shows(call) = {}
BY DEF Brings, Shows

\* One call moves; the disk, unless a wipe is deleting it, and the tab stay.
LEMMA MatchesMoves ==
  ASSUME Shape, Matches, slips = {}, NEW c \in Calls, NEW n \in Call,
         calls' = [calls EXCEPT ![c] = n], UNCHANGED <<tab, epoch>>,
         ~Doomed' => UNCHANGED <<stored, retired>> /\ ~Doomed,
         Doomed' => n.pc \in WipePcs \/ (Doomed /\ calls[c].pc \notin WipePcs),
         Admits(n), Unlocking(n) =>
           \A d \in Calls : ~Unlocking(calls[d]),
         ~Doomed => Fits(n), Brings(n) = Brings(calls[c]), Shows(n) = Shows(calls[c]),
         n.pc \in SetupPcs => calls[c].pc \in SetupPcs \/ stored = NoRecord
  PROVE  Matches'
<1>1. /\ (Doomed => Wiping) /\ OneUnlock /\ \A d \in Calls : Admits(calls[d])
      /\ Doomed \/ (Empty /\ Agrees /\ \A d \in Calls : Fits(calls[d]))
  BY DEF Matches
<1>2. Doomed' => Wiping'
  <2>1. CASE n.pc \in WipePcs
    BY <2>1, OneMoves DEF Wiping
  <2>2. CASE Doomed /\ calls[c].pc \notin WipePcs
    BY <1>1, <2>2, OneMoves DEF Wiping
  <2>3. QED BY <2>1, <2>2
<1>3. OneUnlock'
  BY <1>1, OneMoves DEF OneUnlock, Unlocking
<1>4. \A d \in Calls : Admits(calls[d])'
  BY <1>1, OneMoves DEF Admits
<1>5. ASSUME ~Doomed' PROVE Empty' /\ Agrees' /\ \A d \in Calls : Fits(calls[d])'
  <2>1. UNCHANGED <<stored, retired, tab, epoch>> /\ Empty /\ Agrees /\ \A d \in Calls : Fits(calls[d])
    BY <1>1, <1>5
  <2>2. Recoverable' = Recoverable /\ Held' = Held
    BY <2>1, RecFacts, TabStays
  <2>3. Empty'
    BY <2>1, OneMoves DEF Empty
  <2>4. \A k \in Keys : (k \in Coming' <=> k \in Coming) /\ (k \in About' <=> k \in About)
    BY ComingMoves
  <2>5. Coming' = Coming /\ About' = About
    BY <2>4 DEF Coming, About
  <2>6. Agrees'
    BY <2>1, <2>2, <2>5 DEF Agrees
  <2>7. ASSUME NEW d \in Calls PROVE Fits(calls[d])'
    <3>1. calls'[d] = (IF d = c THEN n ELSE calls[d]) /\ Fits(IF d = c THEN n ELSE calls[d])
      BY <1>5, <2>1, OneMoves
    <3>2. QED BY <2>1, <2>2, <3>1 DEF Fits
  <2>8. QED BY <2>3, <2>6, <2>7
<1>6. QED BY <1>2, <1>3, <1>4, <1>5 DEF Matches

\* Nobody is unlocking, rotating or fetching keys.
Still == \A d \in Calls : calls[d].pc \notin {"unwrap", "older"} \cup RotatePcs \/ calls[d].epoch # epoch
LEMMA StillFacts ==
  ASSUME Still'
  PROVE  /\ OneUnlock' /\ Coming' = {} /\ About' = {}
         /\ \A d \in Calls : Admits(calls[d])' /\ Fits(calls[d])'
BY DEF Still, OneUnlock, Unlocking, Coming, About, Brings, Shows, Admits, Fits, RotatePcs

LEMMA MatchesKept ==
  ASSUME Shape, Made, SetupAlone, WipeClean, KeepsKeys, Matches, Effects
  PROVE  Matches'
<1>1. ASSUME NEW c \in Setups, NEW n \in Call, NEW k \in Keys, SetupStarts(c, n, k) PROVE Matches'
  <2> SUFFICES ASSUME slips' = {} PROVE Matches'
    BY DEF Matches
  <2>1. slips = {} /\ ~Late /\ "setup" \notin slips /\ (Doomed => Wiping) /\ OneUnlock
    BY <1>1 DEF SetupStarts, Matches, Late
  <2>2. Admits(calls[c]) /\ (~Doomed => Empty /\ Agrees /\ Fits(calls[c]))
    BY <2>1, Kinds DEF Matches
  <2>3. UNCHANGED <<stored, retired, tab, epoch>> /\ n.pc = "save" /\ stored = NoRecord
    BY <1>1 DEF SetupStarts
  <2>4. Doomed' = Doomed /\ ~Doomed
    <3>1. \A d \in Calls : calls[d].pc = "idle"
      BY <1>1 DEF SetupStarts, At
    <3>2. ~Doomed
      BY <2>1, <3>1 DEF Wiping, WipePcs
    <3>3. QED BY <1>1, <3>2, Kinds, CallFacts DEF SetupStarts, Doomed
  <2>5. Admits(n) /\ Fits(n) /\ Brings(n) = {} /\ Shows(n) = {}
    BY <2>3 DEF Admits, Fits, Brings, Shows, RotatePcs
  <2>6. Brings(calls[c]) = {} /\ Shows(calls[c]) = {}
    BY <1>1 DEF SetupStarts, Brings, Shows, At
  <2>7. QED BY <1>1, <2>1, <2>3, <2>4, <2>5, <2>6, Kinds, MatchesMoves DEF SetupStarts, Unlocking
<1>2. ASSUME NEW c \in Setups, NEW n \in Call, SetupSaves(c, n) PROVE Matches'
  <2> SUFFICES ASSUME slips' = {} PROVE Matches'
    BY DEF Matches
  <2>1. slips = {} /\ ~Late /\ "setup" \notin slips /\ (Doomed => Wiping) /\ OneUnlock
    BY <1>2 DEF SetupSaves, Matches, Late
  <2>2. Admits(calls[c]) /\ (~Doomed => Empty /\ Agrees /\ Fits(calls[c]))
    BY <2>1, Kinds DEF Matches
  <2>3. /\ \A d \in Calls \ {c} : At(d, "idle")
        /\ tab.status = "no_identity" /\ stored = NoRecord
    BY <1>2, <2>1, Kinds DEF SetupSaves, SetupAlone, AloneOf, At, SetupPcs
  <2>4. \A d \in Calls : calls'[d].pc \in {"idle", "adopt"} /\ calls[d].pc \in {"idle", "save"}
    BY <1>2, <2>3, Kinds, OneMoves DEF SetupSaves, At
  <2>5. Still'
    BY <2>4 DEF Still, RotatePcs
  <2>6. ~Doomed /\ ~Doomed' /\ retired = {}
    BY <1>2, <2>1, <2>2, <2>3, <2>4 DEF SetupSaves, Doomed, Wiping, WipePcs, Empty
  <2>7. Empty' /\ Agrees'
    BY <1>2, <2>3, <2>6 DEF SetupSaves, Empty, Agrees
  <2>8. QED BY <2>5, <2>6, <2>7, StillFacts DEF Matches
<1>3. ASSUME NEW c \in Setups, SetupFinish(c) PROVE Matches'
  <2> SUFFICES ASSUME slips' = {} PROVE Matches'
    BY DEF Matches
  <2>1. slips = {} /\ ~Late /\ "setup" \notin slips /\ (Doomed => Wiping) /\ OneUnlock
    BY <1>3 DEF SetupFinish, Matches, Late
  <2>2. Admits(calls[c]) /\ (~Doomed => Empty /\ Agrees /\ Fits(calls[c]))
    BY <2>1, Kinds DEF Matches
  <2>3. /\ \A d \in Calls \ {c} : At(d, "idle")
        /\ calls[c].held = stored /\ stored \in Wrapped /\ stored.key \in Keys /\ {} \in SUBSET Keys
    BY <1>3, <2>1, Kinds DEF SetupFinish, SetupAlone, AloneOf, Shape, ShapeOf, At, SetupPcs, Wrapped
  <2>4. \A d \in Calls : calls'[d].pc = "idle" /\ calls[d].pc \in {"idle", "adopt"}
    BY <1>3, <2>3, RestingFacts, Kinds, OneMoves DEF SetupFinish, Settle, At
  <2>5. Still'
    BY <2>4 DEF Still, RotatePcs
  <2>6. ~Doomed /\ retired = {}
    BY <1>3, <2>1, <2>2, <2>4, Kinds DEF SetupFinish, Wiping, WipePcs, Empty, At, SetupPcs
  <2>7. ~Doomed'
    BY <1>3, <2>3, <2>6, Kinds, CallFacts, AnnounceFacts DEF SetupFinish, Doomed
  <2>8. /\ Held' = {stored.key} /\ tab'.active = stored.key /\ tab'.older = {}
        /\ UNCHANGED <<stored, retired>> /\ Recoverable' = {stored.key}
    <3>1. tab' = Unlocked(stored.key, {}) /\ UNCHANGED <<stored, retired>>
      BY <1>3, <2>3 DEF SetupFinish
    <3>2. Recoverable' = {stored.key}
      BY <2>3, <2>6, <3>1, NoRecordFacts DEF Recoverable
    <3>3. QED BY <2>3, <3>1, <3>2, TabShows, UnlockedFacts
  <2>9. Coming' = {} /\ About' = {}
    BY <2>5, StillFacts
  <2>10. Empty' /\ Agrees'
    BY <2>3, <2>6, <2>8, <2>9, NoRecordFacts DEF Empty, Agrees
  <2>11. QED BY <2>5, <2>7, <2>10, StillFacts DEF Matches
<1>4. ASSUME NEW c \in Unlocks, NEW n \in Call, UnlockStarts(c, n) PROVE Matches'
  <2> SUFFICES ASSUME slips' = {} PROVE Matches'
    BY DEF Matches
  <2>1. slips = {} /\ ~Late /\ "setup" \notin slips /\ (Doomed => Wiping) /\ OneUnlock
    BY <1>4 DEF UnlockStarts, Matches, Late
  <2>2. Admits(calls[c]) /\ (~Doomed => Empty /\ Agrees /\ Fits(calls[c]))
    BY <2>1, Kinds DEF Matches
  <2>3. /\ UNCHANGED <<stored, retired, tab, epoch, fate>> /\ n.pc = "unwrap" /\ n.held = stored
        /\ tab.status = "locked" /\ calls[c].pc = "idle"
    BY <1>4 DEF UnlockStarts, At
  <2>4. Doomed' = Doomed
    BY <2>3 DEF Doomed
  <2>5. Admits(n) /\ Fits(n) /\ Brings(n) = {} /\ Shows(n) = {}
    BY <2>3 DEF Admits, Fits, Brings, Shows, RotatePcs
  <2>6. Brings(calls[c]) = {} /\ Shows(calls[c]) = {}
    BY <2>3 DEF Brings, Shows
  <2>7. \A d \in Calls : ~Unlocking(calls[d])
    BY <1>4 DEF UnlockStarts, At, Current, Shape, ShapeOf, Unlocking
  <2>8. QED BY <1>4, <2>1, <2>3, <2>4, <2>5, <2>6, <2>7, Kinds, MatchesMoves
               DEF UnlockStarts, WipePcs, SetupPcs, Unlocking
<1>5. ASSUME NEW c \in Unlocks, NEW n \in Call, UnlockShows(c, n) PROVE Matches'
  <2> SUFFICES ASSUME slips' = {} PROVE Matches'
    BY DEF Matches
  <2>1. slips = {} /\ ~Late /\ "setup" \notin slips /\ (Doomed => Wiping) /\ OneUnlock
    BY <1>5 DEF UnlockShows, Matches, Late
  <2>2. Admits(calls[c]) /\ (~Doomed => Empty /\ Agrees /\ Fits(calls[c]))
    BY <2>1, Kinds DEF Matches
  <2> DEFINE r == calls[c].held
  <2>3. /\ r \in Wrapped /\ r.key \in Keys /\ r # NoRecord /\ {} \in SUBSET Keys
        /\ calls[c].pc = "unwrap" /\ calls[c].epoch = epoch
    BY <1>5, NoRecordFacts DEF UnlockShows, Wrapped, At, Current
  <2>4. /\ n.pc = "older" /\ n.epoch = epoch /\ n.held = r /\ n.list = {w \in retired : w.key # r.key}
        /\ UNCHANGED <<stored, retired, epoch>> /\ calls' = [calls EXCEPT ![c] = n]
    BY <1>5 DEF UnlockShows, RetiredExcludingActive
  <2>5. tab'.status = "unlocked" /\ tab'.active = r.key /\ tab'.older = {} /\ Held' = {r.key}
    BY <1>5, <2>3, UnlockedFacts, TabShows DEF UnlockShows
  <2>6. /\ tab.status # "unlocked"
        /\ \A d \in Calls \ {c} : calls[d].epoch = epoch =>
             calls[d].pc \notin {"unwrap", "older"} \cup RotatePcs
    <3>1. tab.status # "unlocked"
      BY <2>2, <2>3 DEF Admits
    <3>2. \A d \in Calls \ {c} : ~Unlocking(calls[d])
      BY <2>1, <2>3, Kinds DEF OneUnlock, Unlocking
    <3>3. \A d \in Calls : Admits(calls[d])
      BY <2>1 DEF Matches
    <3>4. QED BY <3>1, <3>2, <3>3 DEF Admits, Unlocking
  <2>7. Doomed' = Doomed
    BY <1>5, <2>3, Kinds, CallFacts, AnnounceFacts DEF UnlockShows, Doomed
  <2>8. \A d \in Calls : calls'[d] = IF d = c THEN n ELSE calls[d]
    BY <2>4, Kinds, OneMoves
  <2>9. OneUnlock' /\ \A d \in Calls : Admits(calls[d])'
    BY <2>4, <2>5, <2>6, <2>8 DEF OneUnlock, Unlocking, Admits
  <2>10. Doomed => Wiping'
    BY <2>1, <2>3, <2>8 DEF Wiping, WipePcs
  <2>11. ASSUME ~Doomed PROVE Empty' /\ Agrees' /\ \A d \in Calls : Fits(calls[d])'
    <3>1. r = stored /\ Empty
      BY <2>2, <2>3, <2>11 DEF Fits
    <3>2. Empty'
      BY <2>4, <2>8, <3>1 DEF Empty, SetupPcs
    <3>3. \A d \in Calls : Fits(calls[d])'
      BY <2>3, <2>4, <2>6, <2>8, <3>1 DEF Fits, RotatePcs
    <3>4. \A k \in Keys : ~Others(c, k) /\ ~OthersShow(c, k)
      BY <2>6 DEF Others, OthersShow, Brings, Shows, RotatePcs
    <3>5. Shows(n) = {} /\ \A k \in Keys : k \in Brings(n) <=>
            \E w \in retired : w.key = k /\ k # r.key /\ w.phrase = r.phrase
      BY <2>4 DEF Shows, Brings
    <3>6. \A k \in Keys : /\ k \notin About'
                          /\ k \in Coming' <=> \E w \in retired : w.key = k /\ k # r.key /\ w.phrase = r.phrase
      BY <2>4, <3>4, <3>5, Kinds, ComingMoves
    <3>7. Recoverable' = {r.key} \cup {w.key : w \in {v \in retired : v.phrase = r.phrase}}
      BY <2>3, <2>4, <3>1 DEF Recoverable
    <3>8. /\ About' = {} /\ Held' \cup Coming' = Recoverable' /\ r.key \notin Coming'
      <4>1. retired \subseteq Wrapped
        BY DEF Shape, TypeOK
      <4>2. About' \subseteq Keys /\ Coming' \subseteq Keys
        BY DEF About, Coming
      <4>3. About' = {}
        BY <3>6, <4>2
      <4>4. \A w \in retired : w.key \in Keys
        BY <4>1 DEF Wrapped
      <4>5. Recoverable' \subseteq Keys
        BY <2>3, <3>7, <4>4
      <4>6. ASSUME NEW k \in Keys PROVE k \in Recoverable' <=> k = r.key \/ k \in Coming'
        <5>1. k \in Recoverable' <=> k = r.key \/ \E w \in retired : w.phrase = r.phrase /\ w.key = k
          BY <3>7
        <5>2. k \in Coming' <=> \E w \in retired : w.key = k /\ k # r.key /\ w.phrase = r.phrase
          BY <3>6
        <5>3. QED BY <5>1, <5>2
      <4>7. QED BY <2>3, <2>5, <3>6, <4>2, <4>3, <4>5, <4>6
    <3>9. Agrees'
      BY <2>3, <2>4, <2>5, <3>1, <3>8 DEF Agrees
    <3>10. QED BY <3>2, <3>3, <3>9
  <2>12. QED BY <2>7, <2>9, <2>10, <2>11 DEF Matches
<1>6. ASSUME NEW c \in Unlocks, NEW n \in Call, NEW w \in Wrapped, UnlockAdds(c, n, w)
      PROVE  Matches'
  <2> SUFFICES ASSUME slips' = {} PROVE Matches'
    BY DEF Matches
  <2>1. slips = {} /\ ~Late /\ "setup" \notin slips /\ (Doomed => Wiping) /\ OneUnlock
    BY <1>6 DEF UnlockAdds, Matches, Late
  <2>2. Admits(calls[c]) /\ (~Doomed => Empty /\ Agrees /\ Fits(calls[c]))
    BY <2>1, Kinds DEF Matches
  <2>3. /\ calls[c].pc = "older" /\ calls[c].epoch = epoch /\ n.pc = "older" /\ n.epoch = epoch
        /\ n.held = calls[c].held /\ n.fresh = calls[c].fresh
        /\ n.list = calls[c].list \ {w} /\ w \in calls[c].list
        /\ UNCHANGED <<stored, retired, epoch, fate>> /\ calls' = [calls EXCEPT ![c] = n]
    BY <1>6 DEF UnlockAdds, At, Current
  <2>4. w.key \in Keys /\ Shows(n) = {} /\ Shows(calls[c]) = {} /\ Doomed' = Doomed
    BY <2>3 DEF Wrapped, Shows, Doomed
  <2>5. CASE UNCHANGED tab /\ w.phrase # calls[c].held.phrase
    <3>1. Brings(n) = Brings(calls[c])
      BY <2>3, <2>5 DEF Brings
    <3>2. Admits(n) /\ (~Doomed => Fits(n)) /\ ~Unlocking(n)
      BY <2>2, <2>3 DEF Admits, Fits, Unlocking, RotatePcs
    <3>3. n.pc \notin SetupPcs /\ calls[c].pc \notin WipePcs
      BY <2>3 DEF SetupPcs, WipePcs
    <3>4. QED BY <2>1, <2>3, <2>4, <2>5, <3>1, <3>2, <3>3, Kinds, MatchesMoves
  <2>6. CASE tab' = [tab EXCEPT !.older = @ \cup {w.key}] /\ w.phrase = calls[c].held.phrase
    <3>1. /\ tab'.status = tab.status /\ tab'.active = tab.active /\ tab'.older = tab.older \cup {w.key}
          /\ Held' = Held \cup {w.key}
      BY <2>4, <2>6, Kinds, CallFacts DEF Tab, Held
    <3>2. \A d \in Calls : calls'[d] = IF d = c THEN n ELSE calls[d]
      BY <2>3, Kinds, OneMoves
    <3>3. OneUnlock' /\ (Doomed => Wiping')
      BY <2>1, <2>3, <3>2 DEF OneUnlock, Unlocking, Wiping, WipePcs
    <3>4. ASSUME NEW d \in Calls PROVE Admits(calls[d])'
      <4>1. Admits(calls[d])
        BY <2>1 DEF Matches
      <4>2. QED BY <2>2, <2>3, <3>1, <3>2, <4>1 DEF Admits, RotatePcs
    <3>5. ASSUME ~Doomed PROVE Empty' /\ Agrees' /\ \A d \in Calls : Fits(calls[d])'
      <4>1. Empty'
        BY <2>2, <2>3, <3>2, <3>5 DEF Empty, SetupPcs
      <4>2. Recoverable' = Recoverable
        BY <2>3, RecFacts
      <4>3. ASSUME NEW d \in Calls PROVE Fits(calls[d])'
        <5>1. Fits(calls[d]) /\ Fits(calls[c])
          BY <2>1, <2>2, <3>5 DEF Matches
        <5>2. QED BY <2>3, <3>1, <3>2, <4>2, <5>1 DEF Fits, RotatePcs
      <4>4. \A k \in Keys : k \in Brings(calls[c]) <=> k \in Brings(n) \/ k = w.key
        BY <2>3, <2>6 DEF Brings
      <4>5. \A k \in Keys : /\ k \in Coming => k \in Coming' \/ k = w.key
                            /\ k \in Coming' => k \in Coming
                            /\ k \in About' <=> k \in About
        BY <2>3, <2>4, <4>4, Kinds, ComingMoves
      <4>6. w.key \in Coming
        BY <2>3, <2>4, <4>4, Kinds, ComingMoves
      <4>7. /\ About' = About /\ Held' \cup Coming' = Held \cup Coming
            /\ tab'.older \cup Coming' = tab.older \cup Coming
        <5>1. /\ About \subseteq Keys /\ About' \subseteq Keys
              /\ Coming \subseteq Keys /\ Coming' \subseteq Keys
          BY DEF About, Coming
        <5>2. QED BY <2>4, <3>1, <4>5, <4>6, <5>1
      <4>8. Agrees
        BY <2>2, <3>5
      <4>9. Agrees'
        BY <2>3, <3>1, <4>2, <4>7, <4>8 DEF Agrees
      <4>10. QED BY <4>1, <4>3, <4>9
    <3>6. QED BY <2>4, <3>3, <3>4, <3>5 DEF Matches
  <2>7. QED BY <1>6, <2>5, <2>6 DEF UnlockAdds
<1>7. ASSUME NEW c \in Rotates, NEW n \in Call, RotateStarts(c, n) PROVE Matches'
  <2> SUFFICES ASSUME slips' = {} PROVE Matches'
    BY DEF Matches
  <2>1. slips = {} /\ ~Late /\ "setup" \notin slips /\ (Doomed => Wiping) /\ OneUnlock
    BY <1>7 DEF RotateStarts, Matches, Late
  <2>2. Admits(calls[c]) /\ (~Doomed => Empty /\ Agrees /\ Fits(calls[c]))
    BY <2>1, Kinds DEF Matches
  <2>3. /\ UNCHANGED <<stored, retired, tab, epoch, fate>> /\ n.pc = "verify" /\ n.held = stored
        /\ n.fresh = tab.active /\ tab.status = "unlocked" /\ calls[c].pc = "idle"
    BY <1>7 DEF RotateStarts, At
  <2>4. Doomed' = Doomed
    BY <2>3 DEF Doomed
  <2>5. Admits(n) /\ Fits(n) /\ Brings(n) = {} /\ Shows(n) = {}
    BY <2>3 DEF Admits, Fits, Brings, Shows, RotatePcs
  <2>6. Brings(calls[c]) = {} /\ Shows(calls[c]) = {}
    BY <2>3 DEF Brings, Shows
  <2>7. QED BY <1>7, <2>1, <2>3, <2>4, <2>5, <2>6, Kinds, MatchesMoves
               DEF RotateStarts, WipePcs, SetupPcs, Unlocking
<1>8. ASSUME NEW c \in Rotates, NEW n \in Call, NEW k \in Keys, RotateChecks(c, n, k) PROVE Matches'
  <2> SUFFICES ASSUME slips' = {} PROVE Matches'
    BY DEF Matches
  <2>1. slips = {} /\ ~Late /\ "setup" \notin slips /\ (Doomed => Wiping) /\ OneUnlock
    BY <1>8 DEF RotateChecks, Matches, Late
  <2>2. Admits(calls[c]) /\ (~Doomed => Empty /\ Agrees /\ Fits(calls[c]))
    BY <2>1, Kinds DEF Matches
  <2>3. /\ UNCHANGED <<stored, retired, tab, epoch>> /\ n.pc = "put" /\ calls[c].pc = "verify"
        /\ calls[c].epoch = epoch /\ n.epoch = epoch /\ n.held.phrase = calls[c].held.phrase
        /\ n.fresh = calls[c].fresh /\ n.held.key = k /\ calls[c].held # NoRecord
        /\ fate[k] = "unmade" /\ n.list = PrependRetired(calls[c].held, retired)
    BY <1>8, NoRecordFacts DEF RotateChecks, At, Current
  <2>4. Doomed' = Doomed
    BY <1>8, Kinds, CallFacts DEF RotateChecks, Doomed
  <2>5. Admits(n)
    BY <2>2, <2>3 DEF Admits, RotatePcs
  <2>6. k \notin Recoverable
    BY <2>3 DEF Recoverable, Made
  <2>7. ~Doomed => Fits(n)
    BY <2>2, <2>3, <2>6 DEF Fits, RotatePcs
  <2>8. Brings(calls[c]) = {} /\ Shows(calls[c]) = {} /\ Brings(n) = {} /\ Shows(n) = {}
    BY <2>3 DEF Brings, Shows
  <2>9. QED BY <1>8, <2>1, <2>3, <2>4, <2>5, <2>7, <2>8, Kinds, MatchesMoves
               DEF RotateChecks, WipePcs, SetupPcs, Unlocking
<1>9. ASSUME NEW c \in Rotates, NEW n \in Call, RotatePuts(c, n) PROVE Matches'
  <2> SUFFICES ASSUME slips' = {} PROVE Matches'
    BY DEF Matches
  <2>1. slips = {} /\ ~Late /\ "setup" \notin slips /\ (Doomed => Wiping) /\ OneUnlock
    BY <1>9 DEF RotatePuts, Matches, Late
  <2>2. Admits(calls[c]) /\ (~Doomed => Empty /\ Agrees /\ Fits(calls[c]))
    BY <2>1, Kinds DEF Matches
  <2>3. /\ calls[c].pc = "put" /\ calls[c].epoch = epoch /\ n.pc = "flip" /\ n.epoch = epoch
        /\ n.held = calls[c].held /\ n.fresh = calls[c].fresh /\ n.list = calls[c].list
        /\ stored' = n.held /\ retired' = n.list /\ n.held \in Wrapped /\ n.held # NoRecord
        /\ n.held.key \in Keys
        /\ UNCHANGED <<tab, epoch, fate>> /\ calls' = [calls EXCEPT ![c] = n]
        /\ \A u \in Unlocks : ~At(u, "unwrap")
    BY <1>9, NoRecordFacts DEF RotatePuts, At, Current, Wrapped
  <2>4. tab.status = "unlocked" /\ Held' = Held /\ Doomed' = Doomed
    BY <2>2, <2>3, TabStays DEF Admits, RotatePcs, Doomed
  <2>5. \A d \in Calls : calls'[d] = IF d = c THEN n ELSE calls[d]
    BY <2>3, Kinds, OneMoves
  <2>6. OneUnlock' /\ (Doomed => Wiping')
    BY <2>1, <2>3, <2>5 DEF OneUnlock, Unlocking, Wiping, WipePcs
  <2>7. ASSUME NEW d \in Calls PROVE Admits(calls[d])'
    <3>1. Admits(calls[d])
      BY <2>1 DEF Matches
    <3>2. QED BY <2>3, <2>4, <2>5, <3>1 DEF Admits
  <2>8. ASSUME ~Doomed PROVE Empty' /\ Agrees' /\ \A d \in Calls : Fits(calls[d])'
    <3>1. /\ stored # NoRecord /\ stored \in Wrapped /\ retired \in SUBSET Wrapped
          /\ n.held.phrase = stored.phrase /\ n.list = PrependRetired(stored, retired)
          /\ n.held.key \notin Recoverable /\ n.fresh = tab.active
      BY <2>2, <2>3, <2>8 DEF Fits, RotatePcs, Shape, TypeOK
    <3>2. Rec(n.held, n.list) = {n.held.key} \cup Recoverable
      BY <2>3, <3>1, PrependRec, RecFacts
    <3>3. Recoverable' = {n.held.key} \cup Recoverable
      BY <2>3, <3>2 DEF Recoverable, Rec
    <3>4. \A d \in Calls \ {c} : calls[d].pc \notin RotatePcs
      BY <2>1, <2>3, Kinds DEF KeepsKeys, Risky, OneRotation, RotatePcs
    <3>5. Empty'
      <4>1. \A d \in Calls : calls[d].pc \notin SetupPcs
        BY <2>1, <2>4, NoSetup
      <4>2. QED BY <2>3, <2>5, <4>1 DEF Empty, SetupPcs
    <3>6. ASSUME NEW d \in Calls PROVE Fits(calls[d])'
      <4>1. CASE d = c
        BY <2>3, <2>5, <3>1, <4>1 DEF Fits, RotatePcs
      <4>2. CASE d # c
        <5>1. Fits(calls[d]) /\ calls[d].pc # "unwrap"
          BY <2>1, <2>3, <2>8 DEF Matches, Shape, ShapeOf, At
        <5>2. QED BY <2>3, <2>5, <3>1, <3>4, <4>2, <5>1 DEF Fits, RotatePcs
      <4>3. QED BY <4>1, <4>2
    <3>7. /\ Brings(n) = {} /\ Brings(calls[c]) = {} /\ Shows(calls[c]) = {}
          /\ \A k \in Keys : ~OthersShow(c, k) /\ (k \in Shows(n) <=> k = n.held.key)
      BY <2>3, <3>4 DEF Brings, Shows, OthersShow, RotatePcs
    <3>8. \A k \in Keys : /\ k \in Coming' <=> k \in Coming
                          /\ k \notin About /\ (k \in About' <=> k = n.held.key)
      BY <2>3, <3>7, Kinds, ComingMoves
    <3>9. Coming' = Coming /\ About = {} /\ About' = {n.held.key}
      BY <2>3, <3>8 DEF Coming, About
    <3>10. Agrees
      BY <2>2, <2>8
    <3>11. Agrees'
      BY <2>3, <2>4, <3>1, <3>3, <3>9, <3>10 DEF Agrees
    <3>12. QED BY <3>5, <3>6, <3>11
  <2>9. QED BY <2>4, <2>6, <2>7, <2>8 DEF Matches
<1>10. ASSUME NEW c \in Rotates, RotateFlip(c) PROVE Matches'
  <2> SUFFICES ASSUME slips' = {} PROVE Matches'
    BY DEF Matches
  <2>1. slips = {} /\ ~Late /\ "setup" \notin slips /\ (Doomed => Wiping) /\ OneUnlock
    BY <1>10 DEF RotateFlip, Matches, Late
  <2>2. Admits(calls[c]) /\ (~Doomed => Empty /\ Agrees /\ Fits(calls[c]))
    BY <2>1, Kinds DEF Matches
  <2>3. /\ calls[c].pc = "flip" /\ calls' = [calls EXCEPT ![c] = Resting]
        /\ UNCHANGED <<stored, retired, epoch>> /\ calls[c].held \in Wrapped
        /\ calls[c].held.key \in Keys /\ calls[c].fresh \in Keys
    BY <1>10, Kinds DEF RotateFlip, Settle, At, Shape, ShapeOf, RotatePcs, Wrapped
  <2>4. Doomed' = Doomed
    BY <1>10, <2>3, Kinds, CallFacts, AnnounceFacts DEF RotateFlip, Doomed
  <2>5. Brings(Resting) = {} /\ Shows(Resting) = {} /\ Admits(Resting) /\ Fits(Resting)
    BY RestingFacts DEF Brings, Shows, Admits, Fits, RotatePcs
  <2>6. CASE ~Current(c)
    <3>1. Brings(calls[c]) = {} /\ Shows(calls[c]) = {} /\ UNCHANGED tab
      BY <1>10, <2>6 DEF RotateFlip, Wanted, Brings, Shows, Current
    <3>2. QED BY <2>1, <2>3, <2>4, <2>5, <3>1, RestingFacts, Kinds, MatchesMoves
                 DEF SetupPcs, WipePcs, Unlocking
  <2>7. CASE Current(c)
    <3>1. calls[c].epoch = epoch /\ tab.status = "unlocked"
      BY <2>2, <2>3, <2>7 DEF Admits, Current, RotatePcs
    <3>2. tab \in Tab /\ tab.older \subseteq Keys /\ tab.active \in Keys /\ Held = {tab.active} \cup tab.older
      BY <3>1, TabFacts DEF Shape, TypeOK, Held
    <3>3. /\ tab'.status = "unlocked" /\ tab'.active = calls[c].held.key
          /\ tab'.older = {calls[c].fresh} \cup tab.older
          /\ Held' = {calls[c].held.key, calls[c].fresh} \cup tab.older
      <4>1. {calls[c].fresh} \cup tab.older \in SUBSET Keys
        BY <2>3, <3>2
      <4>2. tab' = Unlocked(calls[c].held.key, {calls[c].fresh} \cup tab.older)
        BY <1>10, <2>7 DEF RotateFlip, Wanted
      <4>3. QED BY <2>3, <4>1, <4>2, UnlockedFacts, TabShows
    <3>4. \A d \in Calls : calls'[d] = IF d = c THEN Resting ELSE calls[d]
      BY <2>3, Kinds, RestingFacts, OneMoves
    <3>5. OneUnlock' /\ (Doomed => Wiping')
      BY <2>1, <2>3, <3>4, RestingFacts DEF OneUnlock, Unlocking, Wiping, WipePcs
    <3>6. ASSUME NEW d \in Calls PROVE Admits(calls[d])'
      <4>1. Admits(calls[d])
        BY <2>1 DEF Matches
      <4>2. QED BY <2>3, <3>1, <3>3, <3>4, <4>1, RestingFacts DEF Admits, RotatePcs
    <3>7. ASSUME ~Doomed PROVE Empty' /\ Agrees' /\ \A d \in Calls : Fits(calls[d])'
      <4>1. stored = calls[c].held /\ calls[c].fresh = tab.active /\ stored # NoRecord
        BY <2>2, <2>3, <3>1, <3>7, NoRecordFacts DEF Fits, RotatePcs
      <4>2. Empty' /\ Recoverable' = Recoverable
        BY <2>2, <2>3, <3>4, <3>7, RestingFacts, RecFacts DEF Empty, SetupPcs
      <4>3. \A d \in Calls \ {c} : calls[d].pc \notin RotatePcs
        BY <2>1, <2>3, Kinds DEF KeepsKeys, Risky, OneRotation, RotatePcs
      <4>4. ASSUME NEW d \in Calls PROVE Fits(calls[d])'
        <5>1. Fits(calls[d])
          BY <2>1, <3>7 DEF Matches
        <5>2. QED BY <2>3, <3>4, <4>2, <4>3, <5>1, RestingFacts DEF Fits, RotatePcs
      <4>5. /\ Brings(calls[c]) = {}
            /\ \A k \in Keys : ~OthersShow(c, k) /\ (k \in Shows(calls[c]) <=> k = stored.key)
        BY <2>3, <3>1, <4>1, <4>3 DEF Brings, Shows, OthersShow, RotatePcs
      <4>6. \A k \in Keys : /\ k \in Coming' <=> k \in Coming
                            /\ k \notin About' /\ (k \in About <=> k = stored.key)
        BY <2>3, <2>5, <4>5, Kinds, RestingFacts, ComingMoves
      <4>7. Coming' = Coming /\ About = {stored.key} /\ About' = {}
        BY <2>3, <4>1, <4>6 DEF Coming, About
      <4>8. Agrees
        BY <2>2, <3>7
      <4>9. Held' = {stored.key} \cup Held /\ tab'.older = Held /\ tab'.active = stored.key
        BY <3>2, <3>3, <4>1
      <4>10. Agrees'
        BY <2>3, <3>1, <4>1, <4>2, <4>7, <4>8, <4>9 DEF Agrees
      <4>11. QED BY <4>2, <4>4, <4>10
    <3>8. QED BY <2>4, <3>5, <3>6, <3>7 DEF Matches
  <2>8. QED BY <2>6, <2>7
<1>11. ASSUME NEW c \in Wipes, NEW n \in Call, WipeStarts(c, n) PROVE Matches'
  <2> SUFFICES ASSUME slips' = {} PROVE Matches'
    BY DEF Matches
  <2>1. slips = {} /\ ~Late /\ "setup" \notin slips /\ (Doomed => Wiping) /\ OneUnlock
    BY <1>11 DEF WipeStarts, Matches, Late
  <2>2. Admits(calls[c]) /\ (~Doomed => Empty /\ Agrees /\ Fits(calls[c]))
    BY <2>1, Kinds DEF Matches
  <2>3. /\ UNCHANGED <<stored, retired, tab, epoch, fate>> /\ n.pc \in {"bump", "revoke"}
        /\ calls[c].pc = "idle"
    BY <1>11 DEF WipeStarts, At
  <2>4. Doomed' = Doomed
    BY <2>3 DEF Doomed
  <2>5. Admits(n) /\ Fits(n) /\ Brings(n) = {} /\ Shows(n) = {}
    BY <2>3 DEF Admits, Fits, Brings, Shows, RotatePcs
  <2>6. Brings(calls[c]) = {} /\ Shows(calls[c]) = {}
    BY <2>3 DEF Brings, Shows
  <2>7. QED BY <1>11, <2>1, <2>3, <2>4, <2>5, <2>6, Kinds, MatchesMoves
               DEF WipeStarts, WipePcs, SetupPcs, Unlocking
<1>12. ASSUME NEW c \in Wipes, NEW n \in Call, WipeDeletes(c, n) PROVE Matches'
  <2> SUFFICES ASSUME slips' = {} PROVE Matches'
    BY DEF Matches
  <2>1. slips = {} /\ ~Late /\ "setup" \notin slips /\ (Doomed => Wiping) /\ OneUnlock
    BY <1>12 DEF WipeDeletes, Matches, Late
  <2>2. Admits(calls[c]) /\ (~Doomed => Empty /\ Agrees /\ Fits(calls[c]))
    BY <2>1, Kinds DEF Matches
  <2>3. /\ UNCHANGED <<tab, epoch>> /\ n.pc \in {"purge", "bump", "leave"}
        /\ calls[c].pc \in {"revoke", "purge", "drop"}
        /\ stored' \in {stored, NoRecord} /\ retired' \in {retired, {}}
    BY <1>12 DEF WipeDeletes, At
  <2>4. ~Doomed' => UNCHANGED <<stored, retired>> /\ ~Doomed
    BY <1>12, <2>1, <2>3, NothingLeft DEF WipeDeletes
  <2>5. Admits(n) /\ Fits(n) /\ Brings(n) = {} /\ Shows(n) = {}
    BY <2>3 DEF Admits, Fits, Brings, Shows, RotatePcs
  <2>6. Brings(calls[c]) = {} /\ Shows(calls[c]) = {}
    BY <2>3 DEF Brings, Shows
  <2>7. QED BY <1>12, <2>1, <2>3, <2>4, <2>5, <2>6, Kinds, MatchesMoves
               DEF WipeDeletes, WipePcs, SetupPcs, Unlocking
<1>13. ASSUME NEW c \in Wipes, WipeFinish(c) PROVE Matches'
  <2> SUFFICES ASSUME slips' = {} PROVE Matches'
    BY DEF Matches
  <2>1. slips = {} /\ ~Late /\ "setup" \notin slips /\ (Doomed => Wiping) /\ OneUnlock
    BY <1>13 DEF WipeFinish, Matches, Late
  <2>2. Admits(calls[c]) /\ (~Doomed => Empty /\ Agrees /\ Fits(calls[c]))
    BY <2>1, Kinds DEF Matches
  <2>3. /\ stored = NoRecord /\ retired = {}
        /\ \A d \in Calls : Carries(calls[d]) => Carried(calls[d]) = {}
    BY <1>13, <2>1, Kinds DEF WipeFinish, WipeClean, LeavesNothing, At
  <2>4. /\ UNCHANGED <<stored, retired, epoch>> /\ tab'.status # "unlocked"
        /\ calls' = [calls EXCEPT ![c] = Resting]
    BY <1>13, WithoutFacts DEF WipeFinish, Settle
  <2>5. ~Doomed'
    BY <1>13 DEF WipeFinish, Doomed
  <2>6. ASSUME NEW d \in Calls, calls[d].epoch = epoch
        PROVE  /\ calls[d].pc \notin {"older"} \cup RotatePcs
               /\ calls[d].pc = "unwrap" => calls[d].held = NoRecord
    <3>1. calls[d].held \in Wrapped /\ calls[d].pc # "idle" => FALSE
      BY <2>3, <2>6, CallFacts, CarriedFacts DEF Carries
    <3>2. QED BY <3>1, CallFacts DEF Shape, ShapeOf, RotatePcs
  <2>7. ASSUME NEW d \in Calls PROVE calls'[d] = calls[d] \/ calls'[d] = Resting
    BY <2>4, Kinds, OneMoves, RestingFacts
  <2>8. OneUnlock'
    BY <2>1, <2>4, <2>7, RestingFacts DEF OneUnlock, Unlocking
  <2>9. \A d \in Calls : Admits(calls[d])' /\ Fits(calls[d])'
    BY <2>3, <2>4, <2>6, <2>7, RestingFacts DEF Admits, Fits, RotatePcs
  <2>10. Empty' /\ Agrees'
    BY <2>3, <2>4 DEF Empty, Agrees
  <2>11. QED BY <2>5, <2>8, <2>9, <2>10 DEF Matches
<1>14. ASSUME NEW c \in Calls, Ends(c) PROVE Matches'
  <2> SUFFICES ASSUME slips' = {} PROVE Matches'
    BY DEF Matches
  <2>1. slips = {} /\ ~Late /\ "setup" \notin slips /\ (Doomed => Wiping) /\ OneUnlock
    BY <1>14 DEF Ends, Matches, Late
  <2>2. Admits(calls[c]) /\ (~Doomed => Empty /\ Agrees /\ Fits(calls[c]))
    BY <2>1, Kinds DEF Matches
  <2>3. /\ UNCHANGED <<stored, retired, epoch, fate>> /\ Doomed' = Doomed
        /\ Brings(Resting) = {} /\ Shows(Resting) = {} /\ Admits(Resting) /\ Fits(Resting)
        /\ calls[c].pc \in WipePcs => ~Doomed
    BY <1>14, RestingFacts DEF Ends, Doomed, Brings, Shows, Admits, Fits, RotatePcs
  <2>4. CASE UNCHANGED tab
    <3>1. Brings(calls[c]) = {} /\ Shows(calls[c]) = {}
      BY <1>14 DEF Ends, Brings, Shows, At, Current
    <3>2. QED BY <1>14, <2>1, <2>3, <2>4, <3>1, RestingFacts, MatchesMoves
       DEF Ends, SetupPcs, Unlocking
  <2>5. CASE tab' = Without("no_identity") /\ At(c, "unwrap") /\ Active(c)
    <3>1. tab.status # "unlocked" /\ tab'.status # "unlocked"
      BY <2>2, <2>5, WithoutFacts DEF Admits, Active, At, Current
    <3>2. ASSUME NEW d \in Calls
          PROVE  /\ calls'[d] = calls[d] \/ calls'[d] = Resting
                 /\ calls[d].pc \in WipePcs => calls'[d] = calls[d]
      BY <1>14, <2>5, OneMoves, RestingFacts DEF Ends, At, WipePcs
    <3>3. OneUnlock'
      BY <2>1, <2>3, <3>2, RestingFacts DEF OneUnlock, Unlocking
    <3>4. ASSUME NEW d \in Calls PROVE Admits(calls[d])'
      <4>1. Admits(calls[d])
        BY <2>1 DEF Matches
      <4>2. QED BY <2>3, <3>1, <3>2, <4>1, RestingFacts DEF Admits, RotatePcs
    <3>5. Doomed' => Wiping'
      BY <2>1, <2>3, <3>2 DEF Wiping
    <3>6. ~Doomed' => Empty' /\ Agrees'
      BY <2>2, <2>3, <3>1, <3>2, RestingFacts DEF Empty, Agrees, SetupPcs
    <3>7. ASSUME NEW d \in Calls, ~Doomed' PROVE Fits(calls[d])'
      <4>1. Fits(calls[d]) /\ Admits(calls[d])
        BY <2>1, <2>3, <3>7 DEF Matches
      <4>2. QED BY <2>3, <3>1, <3>2, <4>1, RestingFacts DEF Fits, Admits, RotatePcs
    <3>8. QED BY <3>3, <3>4, <3>5, <3>6, <3>7 DEF Matches
  <2>6. QED BY <1>14, <2>4, <2>5 DEF Ends
<1>15. CASE Probe
  <2> SUFFICES ASSUME slips' = {} PROVE Matches'
    BY DEF Matches
  <2>1. /\ slips = {} /\ (Doomed => Wiping) /\ (~Doomed => Empty)
        /\ \A d \in Calls : calls[d].pc = "idle"
    BY <1>15 DEF Probe, Slip, Matches, SetupAlone, At
  <2>2. UNCHANGED <<stored, retired, calls, fate>> /\ tab'.status # "unlocked"
    BY <1>15, WithoutFacts DEF Probe
  <2>3. Still'
    BY <2>1, <2>2 DEF Still, RotatePcs
  <2>4. ~Doomed' /\ Empty' /\ Agrees'
    BY <2>1, <2>2 DEF Doomed, Wiping, WipePcs, Empty, Agrees
  <2>5. QED BY <2>3, <2>4, StillFacts DEF Matches
<1>16. CASE Reload
  <2> SUFFICES ASSUME slips' = {} PROVE Matches'
    BY DEF Matches
  <2>1. slips = {} /\ ~Doomed /\ Empty
    BY <1>16 DEF Reload, Slip, Broken, Matches, Doomed
  <2>2. /\ UNCHANGED <<stored, retired, fate>> /\ tab'.status # "unlocked"
        /\ \A d \in Calls : calls'[d].pc = "idle"
    BY <1>16, WithoutFacts, RestingFacts DEF Reload
  <2>3. Still'
    BY <2>2 DEF Still, RotatePcs
  <2>4. ~Doomed' /\ Empty' /\ Agrees'
    BY <2>1, <2>2 DEF Doomed, Empty, Agrees, SetupPcs
  <2>5. QED BY <2>3, <2>4, StillFacts DEF Matches
<1>17. CASE UNCHANGED vars
  BY <1>17 DEF vars, Matches, Doomed, Wiping, OneUnlock, Unlocking, Admits, Fits, Empty, Agrees,
     Recoverable, Held, Coming, About, Brings, Shows
<1>18. CASE EpochSteps /\ EpochMoves
  <2> SUFFICES ASSUME slips' = {} PROVE Matches'
    BY DEF Matches
  <2>1. slips = {} /\ ~Late /\ (Doomed => Wiping) /\ (~Doomed => Empty)
    BY <1>18 DEF EpochSteps, Matches, Late
  <2>2. Still'
    BY <1>18, RestingFacts DEF EpochSteps, Active, At, Current, Still, RotatePcs
  <2>3. CASE Lock
    <3>1. /\ UNCHANGED <<stored, retired, fate>> /\ tab'.status # "unlocked"
          /\ \A d \in Calls : calls'[d].pc = calls[d].pc
      BY <2>3, WithoutFacts, CallFacts DEF Lock, Call
    <3>2. Agrees' /\ (Doomed' => Wiping') /\ (~Doomed' => Empty')
      BY <2>1, <3>1 DEF Agrees, Doomed, Wiping, Empty
    <3>3. QED BY <2>2, <3>2, StillFacts DEF Matches
  <2>4. ASSUME NEW c \in Wipes, WipeActive(c) PROVE Matches'
    <3>1. calls'[c].pc = "drop" /\ stored' = NoRecord /\ UNCHANGED <<tab, retired>> /\ Doom
      BY <2>4, Kinds, CallFacts DEF WipeActive, Call
    <3>2. Wiping'
      BY <3>1, Kinds DEF Wiping, WipePcs
    <3>3. ~Doomed' => Empty' /\ Agrees'
      BY <2>1, <3>1, NothingLeft DEF Empty, Agrees
    <3>4. QED BY <2>2, <3>2, <3>3, StillFacts DEF Matches
  <2>5. ASSUME NEW c \in Wipes, WipeFails(c) PROVE Matches'
    <3>1. At(c, "idle") /\ tab.status = "locked" /\ UNCHANGED <<stored, retired, tab, fate>>
      BY <2>5 DEF WipeFails, WipeCalled, Slip
    <3>2. \A d \in Calls : calls'[d].pc = calls[d].pc
      BY <2>5, <3>1, CallFacts, RestingFacts DEF WipeFails, At, Call
    <3>3. Agrees' /\ (Doomed' => Wiping') /\ (~Doomed' => Empty')
      BY <2>1, <3>1, <3>2 DEF Agrees, Doomed, Wiping, Empty
    <3>4. QED BY <2>2, <3>3, StillFacts DEF Matches
  <2>6. QED BY <1>18, <2>3, <2>4, <2>5 DEF EpochMoves
<1>19. QED BY <1>1, <1>2, <1>3, <1>4, <1>5, <1>6, <1>7, <1>8, <1>9, <1>10, <1>11, <1>12, <1>13,
   <1>14, <1>15, <1>16, <1>17, <1>18 DEF Effects

-------------------------------------------------------------------------------
\* Where it starts: nothing, or one identity, perhaps with one retired key.
LEMMA FirstFacts ==
  /\ First \in Wrapped /\ First.key \in Keys /\ First # NoRecord
  /\ Other \in Keys /\ Other # First.key
  /\ [First EXCEPT !.key = Other] \in Wrapped
  /\ [First EXCEPT !.key = Other].key = Other /\ [First EXCEPT !.key = Other].phrase = First.phrase
<1>1. PICK j \in Keys, k \in Keys, p \in Phrases : j # k
  BY WebAssumption DEF WebAssumption
<1>2. [key |-> j, phrase |-> p] \in Wrapped
  BY DEF Wrapped
<1>3. First \in Wrapped
  BY <1>2 DEF First
<1>4. First.key \in Keys /\ First # NoRecord
  BY <1>3, NoRecordFacts DEF Wrapped
<1>5. \E o \in Keys \ {First.key} : TRUE
  BY <1>1
<1>6. Other \in Keys \ {First.key}
  BY <1>5 DEF Other
<1>7. /\ [First EXCEPT !.key = Other] \in Wrapped
      /\ [First EXCEPT !.key = Other].key = Other /\ [First EXCEPT !.key = Other].phrase = First.phrase
  BY <1>3, <1>6 DEF Wrapped
<1>8. QED BY <1>3, <1>4, <1>6, <1>7

LEMMA InitWeb == Init => WebInv
<1> SUFFICES ASSUME Init PROVE WebInv
  OBVIOUS
<1>1. /\ tab = Without("loading") /\ epoch = 0 /\ slips = {}
      /\ calls = [c \in Calls |-> Resting]
  BY DEF Init
<1>2. /\ tab \in Tab /\ tab.status = "loading" /\ Held = {}
      /\ \A c \in Calls : calls[c] = Resting /\ calls[c].pc = "idle"
  BY <1>1, WithoutFacts, RestingFacts, WebAssumption DEF Held, WebAssumption
<1>3. \/ stored = NoRecord /\ retired = {}
      \/ stored = First /\ retired \subseteq {[First EXCEPT !.key = Other]}
  BY DEF Init
<1>4. /\ stored \in Wrapped \cup {NoRecord} /\ retired \subseteq Wrapped
      /\ stored = NoRecord => retired = {}
      /\ \A w \in retired : w.phrase = stored.phrase
  BY <1>3, FirstFacts
<1>5. \A k \in Keys : fate[k] = IF \E w \in retired \cup {stored} : w.key = k THEN "kept" ELSE "unmade"
  BY DEF Init
<1>6. fate \in [Keys -> {"unmade", "made", "kept", "doomed", "wiped"}]
  BY DEF Init
<1>7. Shape
  <2>1. TypeOK
    BY <1>1, <1>2, <1>4, <1>6, RestingFacts DEF TypeOK
  <2>2. QED BY <1>1, <1>2, <2>1, RestingFacts DEF Shape, ShapeOf, SetupPcs, RotatePcs, WipePcs
<1>8. Made
  <2>1. /\ stored # NoRecord => fate[stored.key] = "kept"
        /\ \A w \in retired : fate[w.key] = "kept"
    BY <1>4, <1>5 DEF Wrapped
  <2>2. QED BY <1>2, <2>1, RestingFacts DEF Made, MadeOf
<1>9. SetupAlone
  BY <1>2 DEF SetupAlone, AloneOf, At, SetupPcs
<1>10. WipeClean
  <2>1. \A k \in Keys : fate[k] # "wiped"
    BY <1>5
  <2>2. CleanDisk
    BY <1>2, <1>4, <2>1 DEF CleanDisk, Wrapped
  <2>3. QED BY <1>2, <2>2 DEF WipeClean, CleanOf, Carries, LeavesNothing
<1>11. KeepsKeys
  <2>1. KeptOnDisk
    <3>1. ASSUME NEW k \in Keys, fate[k] = "kept" PROVE k \in Recoverable
      <4>1. PICK w \in retired \cup {stored} : w.key = k
        BY <1>5, <3>1
      <4>2. stored # NoRecord
        BY <1>4, <4>1, NoRecordFacts, WebAssumption DEF WebAssumption
      <4>3. QED BY <1>4, <4>1, <4>2, RecFacts
    <3>2. QED BY <3>1 DEF KeptOnDisk
  <2>2. QED BY <1>2, <2>1 DEF KeepsKeys, OneRotation, KeepsOf, RotatePcs
<1>12. Matches
  <2>1. ~Doomed
    BY <1>5 DEF Doomed
  <2>2. QED BY <1>2, <1>4, <2>1 DEF Matches, OneUnlock, Unlocking, Admits, Fits, Empty, Agrees,
           RotatePcs, SetupPcs
<1>13. QED BY <1>7, <1>8, <1>9, <1>10, <1>11, <1>12 DEF WebInv

\* What comes into memory, comes by a call made since the last lock or wipe.
LockStep == \/ Held' \subseteq Held \/ "setup" \in slips
            \/ \E c \in Calls : calls[c].since /\ calls'[c] # calls[c]

LEMMA LockKept ==
  ASSUME Shape, SetupAlone, Effects
  PROVE  LockStep
<1>1. ASSUME NEW c \in Setups, NEW n \in Call, NEW k \in Keys, SetupStarts(c, n, k) PROVE LockStep
  BY <1>1, TabStays DEF SetupStarts, LockStep
<1>2. ASSUME NEW c \in Setups, NEW n \in Call, SetupSaves(c, n) PROVE LockStep
  BY <1>2, TabStays DEF SetupSaves, LockStep
<1>3. ASSUME NEW c \in Setups, SetupFinish(c) PROVE LockStep
  <2>1. ("setup" \in slips \/ calls[c].since) /\ calls'[c].pc = "idle" /\ calls[c].pc = "adopt"
    BY <1>3, Kinds, RestingFacts, OneMoves DEF SetupFinish, Settle, SetupAlone, AloneOf, At,
       SetupPcs
  <2>2. QED BY <2>1, Kinds DEF LockStep
<1>4. ASSUME NEW c \in Unlocks, NEW n \in Call, UnlockStarts(c, n) PROVE LockStep
  BY <1>4, TabStays DEF UnlockStarts, LockStep
<1>5. ASSUME NEW c \in Unlocks, NEW n \in Call, UnlockShows(c, n) PROVE LockStep
  <2>1. calls[c].since /\ calls[c].pc = "unwrap" /\ calls'[c] = n /\ n.pc \in {"older", "idle"}
    BY <1>5, Kinds, RestingFacts, OneMoves DEF UnlockShows, Shape, ShapeOf, At, Current
  <2>2. QED BY <2>1, Kinds DEF LockStep
<1>6. ASSUME NEW c \in Unlocks, NEW n \in Call, NEW w \in Wrapped, UnlockAdds(c, n, w)
      PROVE  LockStep
  <2>1. calls[c].since /\ w \in calls[c].list /\ calls'[c] = n /\ w \notin n.list
    BY <1>6, Kinds, OneMoves DEF UnlockAdds, Shape, ShapeOf, At, Current
  <2>2. QED BY <2>1, Kinds DEF LockStep
<1>7. ASSUME NEW c \in Rotates, NEW n \in Call, RotateStarts(c, n) PROVE LockStep
  BY <1>7, TabStays DEF RotateStarts, LockStep
<1>8. ASSUME NEW c \in Rotates, NEW n \in Call, NEW k \in Keys, RotateChecks(c, n, k) PROVE LockStep
  BY <1>8, TabStays DEF RotateChecks, LockStep
<1>9. ASSUME NEW c \in Rotates, NEW n \in Call, RotatePuts(c, n) PROVE LockStep
  BY <1>9, TabStays DEF RotatePuts, LockStep
<1>10. ASSUME NEW c \in Rotates, RotateFlip(c) PROVE LockStep
  <2>1. CASE Current(c)
    <3>1. calls[c].since /\ calls'[c].pc = "idle" /\ calls[c].pc = "flip"
      BY <1>10, <2>1, Kinds, RestingFacts, OneMoves DEF RotateFlip, Settle, Shape, ShapeOf, At,
         Current
    <3>2. QED BY <3>1, Kinds DEF LockStep
  <2>2. CASE ~Current(c)
    BY <1>10, <2>2, TabStays DEF RotateFlip, Wanted, LockStep
  <2>3. QED BY <2>1, <2>2
<1>11. ASSUME NEW c \in Wipes, NEW n \in Call, WipeStarts(c, n) PROVE LockStep
  BY <1>11, TabStays DEF WipeStarts, LockStep
<1>12. ASSUME NEW c \in Wipes, NEW n \in Call, WipeDeletes(c, n) PROVE LockStep
  BY <1>12, TabStays DEF WipeDeletes, LockStep
<1>13. ASSUME NEW c \in Wipes, WipeFinish(c) PROVE LockStep
  BY <1>13, TabEmpties DEF WipeFinish, LockStep
<1>14. ASSUME NEW c \in Calls, Ends(c) PROVE LockStep
  BY <1>14, TabStays, TabEmpties DEF Ends, LockStep
<1>15. CASE Probe
  BY <1>15, TabEmpties DEF Probe, LockStep
<1>16. CASE Reload
  BY <1>16, TabEmpties DEF Reload, LockStep
<1>17. CASE UNCHANGED vars
  BY <1>17, TabStays DEF vars, LockStep
<1>18. CASE EpochSteps /\ EpochMoves
  BY <1>18, TabStays, TabEmpties DEF EpochMoves, Lock, WipeActive, WipeFails, LockStep
<1>19. QED BY <1>1, <1>2, <1>3, <1>4, <1>5, <1>6, <1>7, <1>8, <1>9, <1>10, <1>11, <1>12, <1>13,
   <1>14, <1>15, <1>16, <1>17, <1>18 DEF Effects

-------------------------------------------------------------------------------
LEMMA WebStep ==
  ASSUME WebInv, [Next]_vars
  PROVE  WebInv' /\ LockStep
<1>1. Shape /\ Made /\ SetupAlone /\ WipeClean /\ KeepsKeys /\ Matches
  BY DEF WebInv
<1>2. Effects /\ slips' \subseteq Slips
  BY <1>1, EveryStep, SlipsGrow
<1>3. Shape' /\ Made' /\ SetupAlone'
  BY <1>1, <1>2, ShapeKept, MadeKept, AloneKept
<1>4. WipeClean' /\ KeepsKeys' /\ Matches'
  BY <1>1, <1>2, CleanKept, KeepsKept, MatchesKept
<1>5. LockStep
  BY <1>1, <1>2, LockKept
<1>6. QED BY <1>3, <1>4, <1>5 DEF WebInv

\* What disk, memory and every suspended call of the context hold at each moment,
\* and how much of it survives each kind of slip (identity-context.tsx).
THEOREM WebInvariant == Spec => []WebInv
<1>1. WebInv /\ [Next]_vars => WebInv'
  BY WebStep
<1>2. QED BY <1>1, InitWeb, PTL DEF Spec

\* Disk, memory and the suspended calls of the context stay what their types allow.
THEOREM WebTypeCorrect == Spec => []TypeOK
<1>1. WebInv => TypeOK
  BY DEF WebInv, Shape
<1>2. QED BY <1>1, WebInvariant, PTL

\* rotate puts the old key first in the list and writes both stores at once, so
\* whatever locks, reloads, fails or overlaps, a key that was ever shown as the
\* identity can be recovered until a wipe begins.
THEOREM KeptKeysStayOnDisk == Spec => []KeysRetained
<1>1. WebInv => KeysRetained
  BY DEF WebInv, KeepsKeys, Risky, KeptOnDisk, KeysRetained
<1>2. QED BY <1>1, WebInvariant, PTL

\* wipe advances the epoch before it deletes, so no unlock, no background loop and
\* no rotation that still looks at the epoch brings a wiped key back.
THEOREM WipedKeysStayAway == Spec => []WipeIrreversible
<1>1. WebInv => WipeIrreversible
  <2> SUFFICES ASSUME WebInv, ~Late, NEW k \in Keys, fate[k] = "wiped"
               PROVE  k \notin Recoverable \cup Held
    BY DEF WipeIrreversible, Late
  <2>1. CleanDisk
    BY DEF WebInv, WipeClean
  <2>2. k \notin Held
    BY <2>1 DEF CleanDisk
  <2>3. k \notin Recoverable
    BY <2>1 DEF CleanDisk, Recoverable
  <2>4. QED BY <2>2, <2>3
<1>2. QED BY <1>1, WebInvariant, PTL

\* Once an unlock's background loop and every rotation have ended, the reader tries
\* exactly the keys the disk holds, the active one first.
THEOREM SettledTabHoldsTheDisk == Spec => []MemoryMatchesDisk
<1>1. WebInv => MemoryMatchesDisk
  <2> SUFFICES ASSUME WebInv, slips = {}, tab.status = "unlocked", ~Busy(Calls)
               PROVE  tab.active = stored.key /\ tab.active \notin tab.older /\ Held = Recoverable
    BY DEF MemoryMatchesDisk
  <2>1. \A c \in Calls : calls[c].pc = "idle"
    BY DEF Busy, At
  <2>2. ~Wiping /\ Coming = {} /\ About = {}
    BY <2>1 DEF Wiping, WipePcs, Coming, About, Brings, Shows
  <2>3. Agrees
    BY <2>2 DEF WebInv, Matches
  <2>4. QED BY <2>2, <2>3 DEF Agrees
<1>2. QED BY <1>1, WebInvariant, PTL

\* epochRef: once lock or wipe has advanced it, no call begun before shows a key.
THEOREM LockedOutForGood == Spec => LockHolds
<1>1. WebInv /\ [Next]_vars => [LockStep]_vars
  BY WebStep
<1>2. QED BY <1>1, WebInvariant, PTL DEF Spec, LockHolds, LockStep

-------------------------------------------------------------------------------
(* What a reload brings back only grows, but for a wipe's deletions: KeysRetained  *)
(* of every step, and of a key that is on disk though nobody has seen it yet.      *)
Deletes(c) ==
  <<calls[c].pc, calls'[c].pc>> \in
    {<<"revoke", "purge">>, <<"purge", "bump">>, <<"bump", "drop">>, <<"idle", "drop">>,
     <<"drop", "leave">>}

\* Short of a risky slip, no save of a setup, rotation or unlock drops a key from the two
\* stores; only a wipe's own deletions do (identity-context.tsx, rotate and wipe).
DiskGrows ==
  [][Risky \/ Recoverable \subseteq Recoverable' \/ \E c \in Wipes : Deletes(c)]_vars

\* A rotation writes over what it has read, or over nothing: KeepsOf leaves open
\* what else it may find where a wipe has been.
OverOf(call) ==
  /\ call.pc = "verify" => stored \in {call.held, NoRecord}
  /\ call.pc = "put" =>
       \/ stored = NoRecord
       \/ /\ call.held.phrase = stored.phrase /\ stored \in call.list
          /\ \A w \in retired : w.key # stored.key => w \in call.list
WritesOver == Risky \/ \A c \in Calls : OverOf(calls[c])

\* The disk stays or loses something, or no other rotation looks.
LEMMA OverMoves ==
  ASSUME Shape, WritesOver, ~Risky, NEW c \in Calls, NEW n \in Call,
         calls' = [calls EXCEPT ![c] = n], OverOf(n)',
         \/ stored' \in {stored, NoRecord} /\ retired' \in {retired, {}}
         \/ \A d \in Calls \ {c} : calls[d].pc \notin RotatePcs
  PROVE  WritesOver'
<1>1. ASSUME NEW d \in Calls PROVE OverOf(calls[d])'
  <2>1. CASE d = c
    BY <2>1, OneMoves
  <2>2. CASE d # c
    <3>1. calls'[d] = calls[d] /\ OverOf(calls[d])
      BY <2>2, OneMoves DEF WritesOver
    <3>2. QED BY <2>2, <3>1 DEF OverOf, RotatePcs
  <2>3. QED BY <2>1, <2>2
<1>2. QED BY <1>1 DEF WritesOver

LEMMA OverKept ==
  ASSUME Shape, SetupAlone, KeepsKeys, WritesOver, Effects, slips \subseteq slips'
  PROVE  WritesOver'
<1> SUFFICES ASSUME ~Risky' PROVE WritesOver'
  BY DEF WritesOver
<1>1. /\ ~Risky /\ "setup" \notin slips /\ OneRotation
      /\ \A c \in Calls : OverOf(calls[c])
  BY DEF Risky, KeepsKeys, WritesOver
<1>2. ASSUME NEW c \in Calls, NEW n \in Call, calls' = [calls EXCEPT ![c] = n],
             n.pc \notin {"verify", "put"},
             stored' \in {stored, NoRecord}, retired' \in {retired, {}}
      PROVE  WritesOver'
  <2>1. OverOf(n)'
    BY <1>2 DEF OverOf
  <2>2. QED BY <1>1, <1>2, <2>1, OverMoves
<1>3. ASSUME NEW c \in Setups, NEW n \in Call, SetupSaves(c, n) PROVE WritesOver'
  <2>1. \A d \in Calls \ {c} : calls[d].pc \notin RotatePcs
    BY <1>1, <1>3, Kinds DEF SetupSaves, SetupAlone, AloneOf, At, SetupPcs, RotatePcs
  <2>2. OverOf(n)'
    BY <1>3 DEF SetupSaves, OverOf
  <2>3. QED BY <1>1, <1>3, <2>1, <2>2, OverMoves, Kinds DEF SetupSaves
<1>4. ASSUME NEW c \in Rotates, NEW n \in Call, RotateStarts(c, n) PROVE WritesOver'
  <2>1. OverOf(n)'
    BY <1>4 DEF RotateStarts, OverOf
  <2>2. QED BY <1>1, <1>4, <2>1, OverMoves, Kinds DEF RotateStarts
<1>5. ASSUME NEW c \in Rotates, NEW n \in Call, NEW k \in Keys, RotateChecks(c, n, k)
      PROVE  WritesOver'
  <2>1. stored \in {calls[c].held, NoRecord}
    BY <1>1, <1>5, Kinds DEF RotateChecks, OverOf, At
  <2>2. n.list = PrependRetired(calls[c].held, retired)
    BY <1>5 DEF RotateChecks, Risky
  <2>3. OverOf(n)'
    BY <1>5, <2>1, <2>2 DEF RotateChecks, OverOf, PrependRetired
  <2>4. QED BY <1>1, <1>5, <2>3, OverMoves, Kinds DEF RotateChecks
<1>6. ASSUME NEW c \in Rotates, NEW n \in Call, RotatePuts(c, n) PROVE WritesOver'
  <2>1. \A d \in Calls \ {c} : calls[d].pc \notin RotatePcs
    BY <1>1, <1>6, Kinds DEF RotatePuts, OneRotation, At, RotatePcs
  <2>2. OverOf(n)'
    BY <1>6 DEF RotatePuts, OverOf
  <2>3. QED BY <1>1, <1>6, <2>1, <2>2, OverMoves, Kinds DEF RotatePuts
<1>7. CASE EpochSteps /\ EpochMoves
  <2>1. stored' \in {stored, NoRecord} /\ UNCHANGED retired
    BY <1>7 DEF EpochMoves, Lock, WipeActive, WipeFails
  <2>2. ASSUME NEW d \in Calls PROVE OverOf(calls[d])'
    <3>1. \/ /\ calls'[d].held = calls[d].held /\ calls'[d].list = calls[d].list
             /\ calls'[d].pc = calls[d].pc
          \/ calls'[d].pc \in {"idle", "drop"}
      BY <1>7, RestingFacts DEF EpochSteps
    <3>2. OverOf(calls[d])
      BY <1>1
    <3>3. QED BY <2>1, <3>1, <3>2 DEF OverOf
  <2>3. QED BY <2>2 DEF WritesOver
<1>8. CASE Probe \/ UNCHANGED vars
  BY <1>1, <1>8 DEF Probe, vars, WritesOver, OverOf
<1>9. CASE Reload
  BY <1>9, RestingFacts DEF Reload, WritesOver, OverOf
<1>10. ASSUME NEW c \in Calls, Ends(c) PROVE WritesOver'
  BY <1>2, <1>10, RestingFacts DEF Ends
<1>11. ASSUME NEW c \in Setups, NEW n \in Call, NEW k \in Keys, SetupStarts(c, n, k)
       PROVE  WritesOver'
  BY <1>2, <1>11, Kinds DEF SetupStarts
<1>12. ASSUME NEW c \in Unlocks, NEW n \in Call, UnlockStarts(c, n) \/ UnlockShows(c, n)
       PROVE  WritesOver'
  BY <1>2, <1>12, Kinds, RestingFacts DEF UnlockStarts, UnlockShows
<1>13. ASSUME NEW c \in Unlocks, NEW n \in Call, NEW w \in Wrapped, UnlockAdds(c, n, w)
       PROVE  WritesOver'
  BY <1>2, <1>13, Kinds DEF UnlockAdds
<1>14. ASSUME NEW c \in Wipes, NEW n \in Call, WipeStarts(c, n) \/ WipeDeletes(c, n)
       PROVE  WritesOver'
  BY <1>2, <1>14, Kinds DEF WipeStarts, WipeDeletes
<1>15. ASSUME NEW c \in Calls, \/ c \in Setups /\ SetupFinish(c)
                               \/ c \in Rotates /\ RotateFlip(c)
                               \/ c \in Wipes /\ WipeFinish(c)
       PROVE  WritesOver'
  BY <1>2, <1>15, RestingFacts DEF SetupFinish, RotateFlip, WipeFinish, Settle
<1>16. QED BY <1>3, <1>4, <1>5, <1>6, <1>7, <1>8, <1>9, <1>10, <1>11, <1>12, <1>13, <1>14,
   <1>15, Kinds DEF Effects

\* Only three kinds of step write the disk; two of them find it empty or keep it all.
LEMMA GrowsKept ==
  ASSUME Shape, SetupAlone, KeepsKeys, WritesOver, Effects
  PROVE  Risky \/ Recoverable \subseteq Recoverable' \/ \E c \in Wipes : Deletes(c)
<1> SUFFICES ASSUME ~Risky, ~\E c \in Wipes : Deletes(c)
             PROVE  Recoverable \subseteq Recoverable'
  OBVIOUS
<1>1. "setup" \notin slips /\ \A c \in Calls : OverOf(calls[c])
  BY DEF Risky, WritesOver
<1>2. UNCHANGED <<stored, retired>> => Recoverable \subseteq Recoverable'
  BY RecFacts
<1>3. ASSUME NEW c \in Setups, NEW n \in Call, SetupSaves(c, n)
      PROVE  Recoverable \subseteq Recoverable'
  <2>1. stored = NoRecord
    BY <1>1, <1>3, Kinds DEF SetupSaves, SetupAlone, AloneOf, At, SetupPcs
  <2>2. QED BY <2>1, RecFacts
<1>4. ASSUME NEW c \in Rotates, NEW n \in Call, RotatePuts(c, n)
      PROVE  Recoverable \subseteq Recoverable'
  <2>1. CASE stored = NoRecord
    BY <2>1, RecFacts
  <2>2. CASE stored # NoRecord
    <3>1. /\ n.held \in Wrapped /\ n.held # NoRecord /\ stored' = n.held /\ retired' = n.list
          /\ n.held.phrase = stored.phrase /\ stored \in n.list
          /\ \A w \in retired : w.key # stored.key => w \in n.list
      BY <1>1, <1>4, <2>2, Kinds, NoRecordFacts DEF RotatePuts, OverOf, At
    <3>2. \A w \in n.list : w.phrase = stored.phrase => w.key \in Recoverable'
      BY <3>1 DEF Recoverable
    <3>3. stored.key \in Recoverable'
      BY <3>1, <3>2
    <3>4. ASSUME NEW k \in Recoverable PROVE k \in Recoverable'
      BY <2>2, <3>1, <3>2, <3>3, RecFacts
    <3>5. QED BY <3>4
  <2>3. QED BY <2>1, <2>2
<1>5. ASSUME NEW c \in Wipes, NEW n \in Call, WipeDeletes(c, n) PROVE FALSE
  <2>1. calls'[c] = n
    BY <1>5, OneMoves, Kinds DEF WipeDeletes
  <2>2. Deletes(c)
    BY <1>5, <2>1 DEF WipeDeletes, Deletes, At
  <2>3. QED BY <2>2
<1>6. ASSUME NEW c \in Wipes, WipeActive(c) PROVE FALSE
  <2>1. calls'[c].pc = "drop" /\ calls[c].pc \in {"idle", "bump"}
    BY <1>6, Kinds DEF WipeActive, WipeCalled, At, Shape, TypeOK, Call
  <2>2. QED BY <2>1 DEF Deletes, At
<1>7. CASE UNCHANGED vars \/ Probe \/ Reload \/ Lock \/ \E c \in Wipes : WipeFails(c)
  BY <1>2, <1>7 DEF vars, Probe, Reload, Lock, WipeFails
<1>8. ASSUME NEW c \in Setups, NEW n \in Call, NEW k \in Keys, SetupStarts(c, n, k)
      PROVE  UNCHANGED <<stored, retired>>
  BY <1>8 DEF SetupStarts
<1>9. ASSUME NEW c \in Unlocks, NEW n \in Call, UnlockStarts(c, n) \/ UnlockShows(c, n)
      PROVE  UNCHANGED <<stored, retired>>
  BY <1>9 DEF UnlockStarts, UnlockShows
<1>10. ASSUME NEW c \in Unlocks, NEW n \in Call, NEW w \in Wrapped, UnlockAdds(c, n, w)
       PROVE  UNCHANGED <<stored, retired>>
  BY <1>10 DEF UnlockAdds
<1>11. ASSUME NEW c \in Rotates, NEW n \in Call, RotateStarts(c, n)
       PROVE  UNCHANGED <<stored, retired>>
  BY <1>11 DEF RotateStarts
<1>12. ASSUME NEW c \in Rotates, NEW n \in Call, NEW k \in Keys, RotateChecks(c, n, k)
       PROVE  UNCHANGED <<stored, retired>>
  BY <1>12 DEF RotateChecks
<1>13. ASSUME NEW c \in Wipes, NEW n \in Call, WipeStarts(c, n)
       PROVE  UNCHANGED <<stored, retired>>
  BY <1>13 DEF WipeStarts
<1>14. ASSUME NEW c \in Calls, SetupFinish(c) \/ RotateFlip(c) \/ WipeFinish(c) \/ Ends(c)
       PROVE  UNCHANGED <<stored, retired>>
  BY <1>14 DEF SetupFinish, RotateFlip, WipeFinish, Ends
<1>15. QED BY <1>2, <1>3, <1>4, <1>5, <1>6, <1>7, <1>8, <1>9, <1>10, <1>11, <1>12, <1>13, <1>14,
   Kinds DEF EpochMoves, Effects

\* No reload, lock, failure or overlap ever takes a key from what the next unlock brings
\* back: only a wipe's deletions do, and a setup over an identity, overlapping rotations
\* or a retired list that could not be read; so for a key put on disk by a rotation that
\* nobody has seen the end of, too (identity-context.tsx, rotate).
THEOREM ReloadKeepsKeys == Spec => DiskGrows
<1>1. Init => WritesOver
  BY RestingFacts DEF Init, WritesOver, OverOf
<1>2. WebInv /\ WritesOver /\ [Next]_vars =>
        /\ WritesOver'
        /\ [Risky \/ Recoverable \subseteq Recoverable' \/ \E c \in Wipes : Deletes(c)]_vars
  BY EveryStep, SlipsGrow, OverKept, GrowsKept DEF WebInv
<1>3. QED BY <1>1, <1>2, WebInvariant, PTL DEF Spec, DiskGrows
================================================================================
