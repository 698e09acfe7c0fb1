--------------------------- MODULE IdentityKeysProofs --------------------------
(* No key of the identity is lost while the user waits for each call to settle *)
(* before the next, whatever crashes, locks and failing calls come between its *)
(* awaits; what is in memory agrees with what is on disk, and nothing of a     *)
(* wiped identity is left in either: for every number of keys, of calls and of *)
(* device secrets.  When calls overlap, a single rotation loses no key.        *)
EXTENDS IdentityMachineProofs

-------------------------------------------------------------------------------
\* At most one call is under way.
OneCall == \A c, d \in Calls : c # d => At(c, "idle") \/ At(d, "idle")

\* The stored envelope unwraps under the device secret of the slot.
EnvelopeOpens == envelope # NoEnvelope => envelope.secret = secret

\* KeysRetained, for an envelope that opens.
KeysSafe ==
  \A k \in Keys : fate[k] = "kept" =>
    /\ envelope # NoEnvelope
    /\ k = envelope.key \/ [key |-> k, secret |-> secret] \in retired

\* The machine's state is the disk's but for the last step of a setup or rotation,
\* and is no_identity during a setup only.
SessionFits ==
  /\ session.status = "no_identity" =>
       envelope = NoEnvelope \/ \E c \in Calls : At(c, "adopt")
  /\ session.status = "unlocked" =>
       \/ envelope = NoEnvelope
       \/ session.active = envelope.key
       \/ \E c \in Calls : At(c, "publish")
  /\ \A c \in Calls : ~At(c, "idle") =>
       /\ calls[c].pc \in {"create", "persist", "adopt"} <=> session.status = "no_identity"
       /\ session.status # "loading"

\* What call c, suspended as r, may rely on in the keychain items env, ret and sec.
FitsDisk(c, r, env, ret, sec) ==
  LET entry == [key |-> r.held.key, secret |-> r.held.secret] IN
  /\ r.pc \in {"create", "persist"} => env = NoEnvelope
  /\ r.pc \in {"persist", "adopt"} => r.held.key = r.fresh /\ r.held.secret = sec
  /\ r.pc = "adopt" => env = r.held
  /\ c \in Unlocks /\ r.pc = "prompt" => r.held = env
  /\ r.pc \in {"unwrap", "enter", "rewrap"} => r.held = env
  /\ c \in Rotates /\ r.pc = "prompt" => env = NoEnvelope \/ r.held.key = env.key
  /\ r.pc \in {"load", "retain", "flip"} => env = NoEnvelope \/ r.held.key = env.key
  /\ r.pc \in {"load", "retain", "flip"} => r.held.secret = sec
  /\ r.pc = "retain" => /\ entry \in r.list
                        /\ \A e \in ret : e.key # r.held.key => e \in r.list
  /\ r.pc = "flip" => entry \in ret
  /\ r.pc = "publish" => env # NoEnvelope /\ env.key = r.fresh
  /\ r.pc \in {"dropRetired", "dropSecret", "dropBlobs", "leave"} => env = NoEnvelope

CallsFit == \A c \in Calls : FitsDisk(c, calls[c], envelope, retired, secret)

\* KeysRetained says nothing of the writes still to come; FitsDisk does.
KeysInv ==
  /\ ShapeInv
  /\ OneCall
  /\ EnvelopeOpens
  /\ KeysSafe
  /\ SessionFits
  /\ CallsFit
-------------------------------------------------------------------------------
\* Between two steps of a call all others rest, and a call at rest relies on nothing.
LEMMA CallMoves ==
  ASSUME KeysInv, NEW c \in Calls, NEW n \in Call, calls' = [calls EXCEPT ![c] = n],
         ~At(c, "idle") \/ \A d \in Calls : At(d, "idle"),
         FitsDisk(c, n, envelope', retired', secret')
  PROVE  /\ OneCall' /\ CallsFit'
         /\ calls'[c] = n
         /\ \A d \in Calls : d # c => At(d, "idle")
<1>1. \A d \in Calls : d # c => At(d, "idle")
  BY DEF KeysInv, OneCall
<1>2. calls' \in [Calls -> Call] /\ \A d \in Calls : calls'[d] = IF d = c THEN n ELSE calls[d]
  BY DEF KeysInv, ShapeInv, TypeOK
<1>3. OneCall'
  BY <1>1, <1>2 DEF OneCall, At
<1>4. ASSUME NEW d \in Calls
      PROVE  FitsDisk(d, calls'[d], envelope', retired', secret')
  <2>1. CASE d = c
    BY <1>2, <2>1
  <2>2. CASE d # c
    BY <1>1, <1>2, <2>2 DEF FitsDisk, At
  <2>. QED  BY <2>1, <2>2
<1>. QED  BY <1>1, <1>2, <1>3, <1>4 DEF CallsFit

LEMMA CallSettles ==
  ASSUME KeysInv, NEW c \in Calls, Settle(c), ~At(c, "idle")
  PROVE  /\ OneCall' /\ CallsFit'
         /\ \A d \in Calls : d # c => At(d, "idle")
<1>1. FitsDisk(c, Resting, envelope', retired', secret')
  BY DEF FitsDisk, Resting
<1>. QED  BY <1>1, CallMoves, RestingIsCall DEF Settle

\* What the invariant says of a call that is under way.
LEMMA UnderWay ==
  ASSUME KeysInv, NEW c \in Calls
  PROVE  /\ calls[c] \in Call
         /\ Shaped(c, calls[c])
         /\ FitsDisk(c, calls[c], envelope, retired, secret)
         /\ ~At(c, "idle") => \A d \in Calls : d # c => At(d, "idle")
         /\ calls \in [Calls -> Call]
         /\ fate \in [Keys -> {"unmade", "made", "kept", "doomed", "wiped"}]
         /\ session \in Session
         /\ envelope \in Wrapped \cup {NoEnvelope}
         /\ retired \subseteq [key : Keys, secret : Secrets]
  BY DEF KeysInv, ShapeInv, TypeOK, CallsShaped, CallsFit, OneCall

\* Nothing kept is lost while the disk stays as it is.
LEMMA DiskStays ==
  ASSUME KeysInv, UNCHANGED <<envelope, retired, secret>>,
         \A k \in Keys : fate'[k] = "kept" => fate[k] = "kept"
  PROVE  KeysSafe' /\ EnvelopeOpens'
  BY DEF KeysInv, KeysSafe, EnvelopeOpens

\* A key is announced when the stored envelope is its own.
LEMMA AnnounceSafe ==
  ASSUME KeysInv, UNCHANGED <<envelope, retired, secret>>, NEW k \in Keys,
         Announce(k), envelope # NoEnvelope, envelope.key = k
  PROVE  KeysSafe' /\ EnvelopeOpens'
<1>1. \A j \in Keys : fate'[j] = "kept" => j = k \/ fate[j] = "kept"
  BY DEF Announce, KeysInv, ShapeInv, TypeOK
<1>. QED  BY <1>1 DEF KeysInv, KeysSafe, EnvelopeOpens

\* The three session records.
LEMMA Statuses ==
  /\ \A s \in {"loading", "no_identity", "locked"} : Without(s).status = s
  /\ \A k \in Keys, S \in SUBSET Keys :
       Unlocked(k, S).status = "unlocked" /\ Unlocked(k, S).active = k
  BY DEF Without, Unlocked

\* A setup's steps: the envelope was empty.
LEMMA SetupKeeps ==
  ASSUME KeysInv, Overlap = FALSE, ShapeInv', NEW c \in Setups, SetupStep(c)
  PROVE  KeysInv'
<1>. DEFINE r == calls[c]
<1>0. /\ c \in Calls /\ r \in Call /\ Shaped(c, r)
      /\ FitsDisk(c, r, envelope, retired, secret)
      /\ calls \in [Calls -> Call]
      /\ None \notin Keys /\ Unlocks \cap Rotates = {}
  BY UnderWay, MachineAssumption DEF Calls, MachineAssumption
<1>1. ASSUME NEW k \in Keys, SetupStart(c, k) PROVE KeysInv'
  <2>. DEFINE n == [Resting EXCEPT !.pc = "create", !.fresh = k]
  <2>0. envelope = NoEnvelope /\ session.status = "no_identity"
    BY <1>1 DEF SetupStart, Settable, MayStart, KeysInv, SessionFits, At
  <2>1. n \in Call /\ n.pc = "create"
    BY RestingIsCall, CallEdits DEF PCs, Resting
  <2>2. calls' = [calls EXCEPT ![c] = n]
    BY <1>0, <1>1 DEF SetupStart
  <2>. HIDE DEF n
  <2>3. FitsDisk(c, n, envelope', retired', secret')
    BY <1>1, <2>0, <2>1 DEF FitsDisk, SetupStart, disk
  <2>4. /\ OneCall' /\ CallsFit'
        /\ calls'[c] = n /\ \A d \in Calls : d # c => At(d, "idle")
    BY <1>0, <1>1, <2>1, <2>2, <2>3, CallMoves DEF SetupStart, At, MayStart
  <2>5. KeysSafe' /\ EnvelopeOpens'
    BY <1>1, DiskStays DEF SetupStart, disk
  <2>6. SessionFits'
    <3>1. \A d \in Calls : d # c => calls'[d].pc = "idle"
      BY <1>0, <2>2, <2>4 DEF At
    <3>. QED  BY <1>0, <1>1, <2>0, <2>1, <2>4, <3>1 DEF SetupStart, disk, SessionFits, KeysInv, At
  <2>. QED  BY <2>4, <2>5, <2>6 DEF KeysInv
<1>2. ASSUME SetupSecret(c) PROVE KeysInv'
  <2>. DEFINE w == [key |-> r.fresh, secret |-> minted', heavy |-> FALSE]
              n == [calls[c] EXCEPT !.pc = "persist", !.held = w]
  <2>0. /\ w \in Wrapped \cup {NoEnvelope}
        /\ envelope = NoEnvelope
        /\ w.key = r.fresh /\ w.secret = minted'
    BY <1>0, <1>2 DEF SetupSecret, At, FitsDisk, Shaped, Wrapped, ShapeInv, TypeOK
  <2>1. n \in Call /\ n.pc = "persist" /\ n.fresh = r.fresh /\ n.held = w
    <3>1. n \in Call
      BY <1>0, <2>0, CallEdits DEF PCs
    <3>2. n.pc = "persist" /\ n.fresh = r.fresh /\ n.held = w
      BY <1>0 DEF Call
    <3>. QED  BY <3>1, <3>2
  <2>2. calls' = [calls EXCEPT ![c] = n]
    BY <1>0, <1>2 DEF SetupSecret
  <2>. HIDE DEF n
  <2>3. FitsDisk(c, n, envelope', retired', secret')
    BY <1>2, <2>0, <2>1 DEF FitsDisk, SetupSecret
  <2>4. /\ OneCall' /\ CallsFit'
        /\ calls'[c] = n /\ \A d \in Calls : d # c => At(d, "idle")
    BY <1>0, <1>2, <2>1, <2>2, <2>3, CallMoves DEF SetupSecret, At, MayStart
  <2>5. KeysSafe' /\ EnvelopeOpens'
    BY <1>2, <2>0 DEF SetupSecret, KeysInv, KeysSafe, EnvelopeOpens
  <2>6. SessionFits'
    <3>1. \A d \in Calls : d # c => calls'[d].pc = "idle"
      BY <1>0, <2>2, <2>4 DEF At
    <3>. QED  BY <1>0, <1>2, <2>0, <2>1, <2>4, <3>1 DEF SetupSecret, SessionFits, KeysInv, At
  <2>. QED  BY <2>4, <2>5, <2>6 DEF KeysInv
<1>3. ASSUME SetupPersist(c) PROVE KeysInv'
  <2>. DEFINE n == [calls[c] EXCEPT !.pc = "adopt"]
  <2>1. n \in Call /\ n.pc = "adopt" /\ n.fresh = r.fresh /\ n.held = r.held
    <3>1. n \in Call
      BY <1>0, CallEdits DEF PCs
    <3>2. n.pc = "adopt" /\ n.fresh = r.fresh /\ n.held = r.held
      BY <1>0 DEF Call
    <3>. QED  BY <3>1, <3>2
  <2>2. calls' = [calls EXCEPT ![c] = n]
    BY <1>0, <1>3 DEF SetupPersist
  <2>. HIDE DEF n
  <2>3. FitsDisk(c, n, envelope', retired', secret')
    BY <1>0, <1>3, <2>1 DEF FitsDisk, SetupPersist, At
  <2>4. /\ OneCall' /\ CallsFit'
        /\ calls'[c] = n /\ \A d \in Calls : d # c => At(d, "idle")
    BY <1>0, <1>3, <2>1, <2>2, <2>3, CallMoves DEF SetupPersist, At, MayStart
  <2>5. KeysSafe' /\ EnvelopeOpens'
    BY <1>0, <1>3 DEF SetupPersist, KeysInv, KeysSafe, EnvelopeOpens, FitsDisk, At
  <2>6. SessionFits'
    <3>1. \A d \in Calls : d # c => calls'[d].pc = "idle"
      BY <1>0, <2>2, <2>4 DEF At
    <3>. QED  BY <1>0, <1>3, <2>1, <2>4, <3>1 DEF SetupPersist, SessionFits, KeysInv, At
  <2>. QED  BY <2>4, <2>5, <2>6 DEF KeysInv
<1>4. ASSUME SetupFinish(c) PROVE KeysInv'
  <2>1. /\ OneCall' /\ CallsFit'
        /\ \A d \in Calls : d # c => At(d, "idle")
    BY <1>0, <1>4, CallSettles DEF SetupFinish, At
  <2>2. \A d \in Calls : calls'[d].pc = "idle"
    BY <1>0, <1>4, <2>1 DEF SetupFinish, Settle, Resting, At
  <2>3. KeysSafe' /\ EnvelopeOpens'
    BY <1>0, <1>4, AnnounceSafe DEF SetupFinish, disk, At, FitsDisk, Shaped, Wrapped, NoEnvelope
  <2>4. SessionFits'
    BY <1>0, <1>4, <2>2, Statuses DEF SetupFinish, disk, At, FitsDisk, Shaped, SessionFits
  <2>. QED  BY <2>1, <2>3, <2>4 DEF KeysInv
<1>. QED  BY <1>1, <1>2, <1>3, <1>4 DEF SetupStep

\* An unlock's steps: the envelope it holds is the one on disk.
LEMMA UnlockKeeps ==
  ASSUME KeysInv, Overlap = FALSE, ShapeInv', NEW c \in Unlocks, UnlockStep(c)
  PROVE  KeysInv'
<1>. DEFINE r == calls[c]
<1>0. /\ c \in Calls /\ r \in Call /\ Shaped(c, r)
      /\ FitsDisk(c, r, envelope, retired, secret)
      /\ calls \in [Calls -> Call]
      /\ None \notin Keys /\ Unlocks \cap Rotates = {}
  BY UnderWay, MachineAssumption DEF Calls, MachineAssumption
<1>1. ASSUME UnlockStart(c) PROVE KeysInv'
  <2>. DEFINE n == [Resting EXCEPT !.pc = "prompt", !.held = envelope]
  <2>0. envelope \in Wrapped \cup {NoEnvelope}
    BY <1>0, UnderWay
  <2>1. n \in Call /\ n.pc = "prompt" /\ n.held = envelope
    BY <2>0, RestingIsCall, CallEdits DEF PCs, Resting
  <2>2. calls' = [calls EXCEPT ![c] = n]
    BY <1>0, <1>1 DEF UnlockStart
  <2>. HIDE DEF n
  <2>3. FitsDisk(c, n, envelope', retired', secret')
    BY <1>0, <1>1, <2>1 DEF FitsDisk, UnlockStart, disk
  <2>4. /\ OneCall' /\ CallsFit'
        /\ calls'[c] = n /\ \A d \in Calls : d # c => At(d, "idle")
    BY <1>0, <1>1, <2>1, <2>2, <2>3, CallMoves DEF UnlockStart, At, MayStart
  <2>5. KeysSafe' /\ EnvelopeOpens'
    BY <1>1, DiskStays DEF UnlockStart, disk
  <2>6. SessionFits'
    <3>1. \A d \in Calls : d # c => calls'[d].pc = "idle"
      BY <1>0, <2>2, <2>4 DEF At
    <3>. QED  BY <1>0, <1>1, <2>1, <2>4, <3>1 DEF UnlockStart, disk, SessionFits, KeysInv, At
  <2>. QED  BY <2>4, <2>5, <2>6 DEF KeysInv
<1>2. ASSUME UnlockNothing(c) PROVE KeysInv'
  <2>1. /\ OneCall' /\ CallsFit'
        /\ \A d \in Calls : d # c => At(d, "idle")
    BY <1>0, <1>2, CallSettles DEF UnlockNothing, At
  <2>2. \A d \in Calls : calls'[d].pc = "idle"
    BY <1>0, <1>2, <2>1 DEF UnlockNothing, Settle, Resting, At
  <2>3. KeysSafe' /\ EnvelopeOpens'
    BY <1>2, DiskStays DEF UnlockNothing, disk
  <2>4. SessionFits'
    BY <1>0, <1>2, <2>2, Statuses DEF UnlockNothing, disk, At, FitsDisk, SessionFits
  <2>. QED  BY <2>1, <2>3, <2>4 DEF KeysInv
<1>3. ASSUME UnlockPrompt(c) PROVE KeysInv'
  <2>. DEFINE n == [calls[c] EXCEPT !.pc = "unwrap", !.prompted = TRUE]
  <2>1. n \in Call /\ n.pc = "unwrap" /\ n.held = r.held
    <3>1. n \in Call
      BY <1>0, CallEdits DEF PCs
    <3>2. n.pc = "unwrap" /\ n.held = r.held
      BY <1>0 DEF Call
    <3>. QED  BY <3>1, <3>2
  <2>2. calls' = [calls EXCEPT ![c] = n]
    BY <1>0, <1>3 DEF UnlockPrompt
  <2>. HIDE DEF n
  <2>3. FitsDisk(c, n, envelope', retired', secret')
    BY <1>0, <1>3, <2>1 DEF FitsDisk, UnlockPrompt, disk, At
  <2>4. /\ OneCall' /\ CallsFit'
        /\ calls'[c] = n /\ \A d \in Calls : d # c => At(d, "idle")
    BY <1>0, <1>3, <2>1, <2>2, <2>3, CallMoves DEF UnlockPrompt, At, MayStart
  <2>5. KeysSafe' /\ EnvelopeOpens'
    BY <1>3, DiskStays DEF UnlockPrompt, disk
  <2>6. SessionFits'
    <3>1. \A d \in Calls : d # c => calls'[d].pc = "idle"
      BY <1>0, <2>2, <2>4 DEF At
    <3>. QED  BY <1>0, <1>3, <2>1, <2>4, <3>1 DEF UnlockPrompt, disk, SessionFits, KeysInv, At
  <2>. QED  BY <2>4, <2>5, <2>6 DEF KeysInv
<1>4. ASSUME UnlockRetired(c) PROVE KeysInv'
  <2>. DEFINE S == {e.key : e \in {f \in RetiredExcludingActive(r.held.key) :
                                     f.secret = r.held.secret}}
              n == [calls[c] EXCEPT !.pc = "enter", !.older = S]
  <2>0. S \in SUBSET Keys
    BY <1>0, UnderWay DEF RetiredExcludingActive
  <2>1. n \in Call /\ n.pc = "enter" /\ n.held = r.held
    <3>1. n \in Call
      BY <1>0, <2>0, CallEdits DEF PCs
    <3>2. n.pc = "enter" /\ n.held = r.held
      BY <1>0 DEF Call
    <3>. QED  BY <3>1, <3>2
  <2>2. calls' = [calls EXCEPT ![c] = n]
    BY <1>0, <1>4 DEF UnlockRetired
  <2>. HIDE DEF n
  <2>3. FitsDisk(c, n, envelope', retired', secret')
    BY <1>0, <1>4, <2>1 DEF FitsDisk, UnlockRetired, disk, At
  <2>4. /\ OneCall' /\ CallsFit'
        /\ calls'[c] = n /\ \A d \in Calls : d # c => At(d, "idle")
    BY <1>0, <1>4, <2>1, <2>2, <2>3, CallMoves DEF UnlockRetired, At, MayStart
  <2>5. KeysSafe' /\ EnvelopeOpens'
    BY <1>4, DiskStays DEF UnlockRetired, disk
  <2>6. SessionFits'
    <3>1. \A d \in Calls : d # c => calls'[d].pc = "idle"
      BY <1>0, <2>2, <2>4 DEF At
    <3>. QED  BY <1>0, <1>4, <2>1, <2>4, <3>1 DEF UnlockRetired, disk, SessionFits, KeysInv, At
  <2>. QED  BY <2>4, <2>5, <2>6 DEF KeysInv
<1>5. ASSUME UnlockFinish(c) PROVE KeysInv'
  <2>. DEFINE n == [calls[c] EXCEPT !.pc = "rewrap"]
  <2>1. /\ r.held = envelope /\ envelope # NoEnvelope /\ envelope.key \in Keys
        /\ ~At(c, "idle")
    BY <1>0, <1>5 DEF UnlockFinish, At, FitsDisk, Shaped, Wrapped, NoEnvelope
  <2>2. KeysSafe' /\ EnvelopeOpens'
    BY <1>5, <2>1, AnnounceSafe DEF UnlockFinish, disk
  <2>3. session'.status = "unlocked" /\ session'.active = envelope'.key
    <3>1. r.older \in SUBSET Keys
      BY <1>0, CallFields
    <3>. QED  BY <1>5, <2>1, <3>1, Statuses DEF UnlockFinish, disk
  <2>4. CASE r.held.heavy
    <3>1. n \in Call /\ n.pc = "rewrap" /\ n.held = r.held
      <4>1. n \in Call
        BY <1>0, CallEdits DEF PCs
      <4>2. n.pc = "rewrap" /\ n.held = r.held
        BY <1>0 DEF Call
      <4>. QED  BY <4>1, <4>2
    <3>2. calls' = [calls EXCEPT ![c] = n]
      BY <1>0, <1>5, <2>4 DEF UnlockFinish
    <3>. HIDE DEF n
    <3>3. FitsDisk(c, n, envelope', retired', secret')
      BY <1>5, <2>1, <3>1 DEF FitsDisk, UnlockFinish, disk
    <3>4. /\ OneCall' /\ CallsFit'
          /\ calls'[c] = n /\ \A d \in Calls : d # c => At(d, "idle")
      BY <1>0, <2>1, <3>1, <3>2, <3>3, CallMoves
    <3>5. \A d \in Calls : d # c => calls'[d].pc = "idle"
      BY <1>0, <3>2, <3>4 DEF At
    <3>6. SessionFits'
      BY <1>0, <2>3, <3>1, <3>4, <3>5 DEF SessionFits, At
    <3>. QED  BY <2>2, <3>4, <3>6 DEF KeysInv
  <2>5. CASE ~r.held.heavy
    <3>1. Settle(c)
      BY <1>5, <2>5 DEF UnlockFinish
    <3>2. /\ OneCall' /\ CallsFit'
          /\ \A d \in Calls : d # c => At(d, "idle")
      BY <1>0, <2>1, <3>1, CallSettles
    <3>3. \A d \in Calls : calls'[d].pc = "idle"
      BY <1>0, <3>1, <3>2 DEF Settle, Resting, At
    <3>4. SessionFits'
      BY <2>3, <3>3 DEF SessionFits, At
    <3>. QED  BY <2>2, <3>2, <3>4 DEF KeysInv
  <2>. QED  BY <2>4, <2>5
<1>6. ASSUME UnlockRewrap(c) PROVE KeysInv'
  <2>0. /\ envelope # NoEnvelope /\ envelope' # NoEnvelope
        /\ envelope'.key = envelope.key /\ envelope'.secret = envelope.secret
    <3>1. r.held = envelope /\ envelope \in Wrapped
      BY <1>0, <1>6 DEF UnlockRewrap, At, FitsDisk, Shaped
    <3>2. [r.held EXCEPT !.heavy = FALSE].key = envelope.key
      BY <3>1 DEF Wrapped
    <3>3. [r.held EXCEPT !.heavy = FALSE].secret = envelope.secret
      BY <3>1 DEF Wrapped
    <3>4. /\ envelope'.key = envelope.key
          /\ envelope'.secret = envelope.secret
      BY <1>6, <3>2, <3>3 DEF UnlockRewrap
    <3>5. envelope.key \in Keys
      BY <3>1 DEF Wrapped
    <3>. QED  BY <1>0, <3>4, <3>5 DEF NoEnvelope
  <2>1. /\ OneCall' /\ CallsFit'
        /\ \A d \in Calls : d # c => At(d, "idle")
    BY <1>0, <1>6, CallSettles DEF UnlockRewrap, At
  <2>2. \A d \in Calls : calls'[d].pc = "idle"
    BY <1>0, <1>6, <2>1 DEF UnlockRewrap, Settle, Resting, At
  <2>3. KeysSafe' /\ EnvelopeOpens'
    BY <1>6, <2>0 DEF UnlockRewrap, KeysInv, KeysSafe, EnvelopeOpens
  <2>4. SessionFits'
    BY <1>0, <1>6, <2>0, <2>1, <2>2 DEF UnlockRewrap, SessionFits, KeysInv, At
  <2>. QED  BY <2>1, <2>3, <2>4 DEF KeysInv
<1>. QED  BY <1>1, <1>2, <1>3, <1>4, <1>5, <1>6 DEF UnlockStep

\* A rotation's steps: the key it replaces is the envelope's, and is retired first.
LEMMA RotateKeeps ==
  ASSUME KeysInv, Overlap = FALSE, ShapeInv', NEW c \in Rotates, RotateStep(c)
  PROVE  KeysInv'
<1>. DEFINE r == calls[c]
<1>0. /\ c \in Calls /\ r \in Call /\ Shaped(c, r)
      /\ FitsDisk(c, r, envelope, retired, secret)
      /\ calls \in [Calls -> Call]
      /\ None \notin Keys /\ Unlocks \cap Rotates = {}
  BY UnderWay, MachineAssumption DEF Calls, MachineAssumption
<1>1. ASSUME RotateStart(c) PROVE KeysInv'
  <2>. DEFINE w == [key |-> session.active, secret |-> 0, heavy |-> FALSE]
              n == [Resting EXCEPT !.pc = "prompt", !.held = w, !.older = session.older]
  <2>0. /\ w \in Wrapped /\ session.older \in SUBSET Keys
        /\ envelope = NoEnvelope \/ w.key = envelope.key
    <3>1. session.active \in Keys /\ session.older \in SUBSET Keys
      BY <1>1, Sessions, UnderWay, <1>0 DEF RotateStart
    <3>2. \A d \in Calls : At(d, "idle")
      BY <1>1 DEF RotateStart, MayStart, At
    <3>3. envelope = NoEnvelope \/ session.active = envelope.key
      BY <1>1, <3>2 DEF RotateStart, KeysInv, SessionFits, At
    <3>. QED  BY <3>1, <3>3, MachineAssumption DEF MachineAssumption, Wrapped, Secrets
  <2>1. n \in Call /\ n.pc = "prompt" /\ n.held = w
    BY <2>0, RestingIsCall, CallEdits DEF PCs, Resting
  <2>2. calls' = [calls EXCEPT ![c] = n]
    BY <1>0, <1>1 DEF RotateStart
  <2>. HIDE DEF n
  <2>3. FitsDisk(c, n, envelope', retired', secret')
    BY <1>0, <1>1, <2>0, <2>1 DEF FitsDisk, RotateStart, disk
  <2>4. /\ OneCall' /\ CallsFit'
        /\ calls'[c] = n /\ \A d \in Calls : d # c => At(d, "idle")
    BY <1>0, <1>1, <2>1, <2>2, <2>3, CallMoves DEF RotateStart, At, MayStart
  <2>5. KeysSafe' /\ EnvelopeOpens'
    BY <1>1, DiskStays DEF RotateStart, disk
  <2>6. SessionFits'
    <3>1. \A d \in Calls : d # c => calls'[d].pc = "idle"
      BY <1>0, <2>2, <2>4 DEF At
    <3>. QED  BY <1>0, <1>1, <2>1, <2>4, <3>1 DEF RotateStart, MayStart, disk, SessionFits, KeysInv, At
  <2>. QED  BY <2>4, <2>5, <2>6 DEF KeysInv
<1>2. ASSUME RotatePrompt(c) PROVE KeysInv'
  <2>. DEFINE w == [r.held EXCEPT !.secret = secret]
              n == [calls[c] EXCEPT !.pc = "load", !.held = w, !.prompted = TRUE]
  <2>0. w \in Wrapped /\ w.key = r.held.key /\ w.secret = secret
    <3>1. r.held \in Wrapped /\ secret \in Secrets
      BY <1>0, <1>2 DEF RotatePrompt, At, Shaped, KeysInv, ShapeInv, TypeOK
    <3>2. w \in Wrapped
      BY <3>1, LightEnvelope
    <3>3. w.key = r.held.key
      BY <3>1 DEF Wrapped
    <3>4. w.secret = secret
      BY <3>1 DEF Wrapped
    <3>. QED  BY <3>2, <3>3, <3>4
  <2>1. n \in Call /\ n.pc = "load" /\ n.held = w
    <3>1. n \in Call
      BY <1>0, <2>0, CallEdits DEF PCs
    <3>2. n.pc = "load" /\ n.held = w
      BY <1>0 DEF Call
    <3>. QED  BY <3>1, <3>2
  <2>2. calls' = [calls EXCEPT ![c] = n]
    BY <1>0, <1>2 DEF RotatePrompt
  <2>. HIDE DEF n
  <2>3. FitsDisk(c, n, envelope', retired', secret')
    BY <1>0, <1>2, <2>0, <2>1 DEF FitsDisk, RotatePrompt, disk, At
  <2>4. /\ OneCall' /\ CallsFit'
        /\ calls'[c] = n /\ \A d \in Calls : d # c => At(d, "idle")
    BY <1>0, <1>2, <2>1, <2>2, <2>3, CallMoves DEF RotatePrompt, At, MayStart
  <2>5. KeysSafe' /\ EnvelopeOpens'
    BY <1>2, DiskStays DEF RotatePrompt, disk
  <2>6. SessionFits'
    <3>1. \A d \in Calls : d # c => calls'[d].pc = "idle"
      BY <1>0, <2>2, <2>4 DEF At
    <3>. QED  BY <1>0, <1>2, <2>1, <2>4, <3>1 DEF RotatePrompt, disk, SessionFits, KeysInv, At
  <2>. QED  BY <2>4, <2>5, <2>6 DEF KeysInv
<1>3. ASSUME NEW k \in Keys, RotateLoad(c, k) PROVE KeysInv'
  <2>. DEFINE L == PrependRetired([key |-> r.held.key, secret |-> r.held.secret])
              n == [calls[c] EXCEPT !.pc = "retain", !.fresh = k, !.list = L]
  <2>0. /\ L \in Lists
        /\ [key |-> r.held.key, secret |-> r.held.secret] \in L
        /\ \A e \in retired : e.key # r.held.key => e \in L
    <3>1. r.held \in Wrapped /\ retired \in Lists
      BY <1>0, <1>3, UnderWay DEF RotateLoad, At, Shaped, Lists
    <3>. QED  BY <3>1 DEF PrependRetired, Lists, Wrapped
  <2>1. n \in Call /\ n.pc = "retain" /\ n.held = r.held /\ n.list = L
    <3>1. n \in Call
      BY <1>0, <2>0, CallEdits DEF PCs
    <3>2. n.pc = "retain" /\ n.held = r.held /\ n.list = L
      BY <1>0 DEF Call
    <3>. QED  BY <3>1, <3>2
  <2>2. calls' = [calls EXCEPT ![c] = n]
    BY <1>0, <1>3 DEF RotateLoad
  <2>. HIDE DEF n
  <2>3. FitsDisk(c, n, envelope', retired', secret')
    BY <1>0, <1>3, <2>0, <2>1 DEF FitsDisk, RotateLoad, disk, At
  <2>4. /\ OneCall' /\ CallsFit'
        /\ calls'[c] = n /\ \A d \in Calls : d # c => At(d, "idle")
    BY <1>0, <1>3, <2>1, <2>2, <2>3, CallMoves DEF RotateLoad, At, MayStart
  <2>5. KeysSafe' /\ EnvelopeOpens'
    BY <1>3, DiskStays DEF RotateLoad, disk
  <2>6. SessionFits'
    <3>1. \A d \in Calls : d # c => calls'[d].pc = "idle"
      BY <1>0, <2>2, <2>4 DEF At
    <3>. QED  BY <1>0, <1>3, <2>1, <2>4, <3>1 DEF RotateLoad, disk, SessionFits, KeysInv, At
  <2>. QED  BY <2>4, <2>5, <2>6 DEF KeysInv
<1>4. ASSUME RotateWrite(c), At(c, "retain") PROVE KeysInv'
  <2>. DEFINE n == [calls[c] EXCEPT !.pc = "flip"]
              entry == [key |-> r.held.key, secret |-> r.held.secret]
  <2>0. /\ r.held \in Wrapped /\ r.fresh \in Keys /\ r.list \in Lists
        /\ session.status # "no_identity"
    BY <1>0, <1>4, CallFields DEF At, Shaped, KeysInv, SessionFits
  <2>1. n \in Call /\ n.pc = "flip" /\ n.held = r.held /\ n.fresh = r.fresh
    <3>1. n \in Call
      BY <1>0, CallEdits DEF PCs
    <3>2. n.pc = "flip" /\ n.held = r.held /\ n.fresh = r.fresh
      BY <1>0 DEF Call
    <3>. QED  BY <3>1, <3>2
  <2>2. calls' = [calls EXCEPT ![c] = n]
    BY <1>0, <1>4 DEF RotateWrite, At
  <2>. HIDE DEF n
  <2>3. retired' = r.list /\ envelope' = envelope /\ secret' = secret /\ fate' = fate
    BY <1>4 DEF RotateWrite, Write, At
  <2>4. FitsDisk(c, n, envelope', retired', secret')
    BY <1>0, <1>4, <2>1, <2>3 DEF FitsDisk, At
  <2>5. /\ OneCall' /\ CallsFit'
        /\ calls'[c] = n /\ \A d \in Calls : d # c => At(d, "idle")
    BY <1>0, <1>4, <2>1, <2>2, <2>4, CallMoves DEF At
  <2>6. KeysSafe' /\ EnvelopeOpens'
    <3>1. ASSUME NEW k \in Keys, fate[k] = "kept", k # envelope.key
          PROVE  envelope # NoEnvelope /\ [key |-> k, secret |-> secret] \in r.list
      <4>1. envelope # NoEnvelope /\ [key |-> k, secret |-> secret] \in retired
        BY <3>1 DEF KeysInv, KeysSafe
      <4>2. r.held.key = envelope.key
        BY <1>0, <1>4, <4>1 DEF FitsDisk, At
      <4>3. \A e \in retired : e.key # r.held.key => e \in r.list
        BY <1>0, <1>4 DEF FitsDisk, At
      <4>. QED  BY <3>1, <4>1, <4>2, <4>3
    <3>. QED  BY <2>3, <3>1 DEF KeysInv, KeysSafe, EnvelopeOpens
  <2>7. SessionFits'
    <3>1. \A d \in Calls : d # c => calls'[d].pc = "idle"
      BY <1>0, <2>2, <2>5 DEF At
    <3>. QED  BY <1>0, <1>4, <2>0, <2>1, <2>3, <2>5, <3>1 DEF RotateWrite, SessionFits, KeysInv, At
  <2>. QED  BY <2>5, <2>6, <2>7 DEF KeysInv
<1>5. ASSUME RotateWrite(c), At(c, "flip") PROVE KeysInv'
  <2>. DEFINE n == [calls[c] EXCEPT !.pc = "publish"]
              entry == [key |-> r.held.key, secret |-> r.held.secret]
  <2>0. /\ r.held \in Wrapped /\ r.fresh \in Keys /\ r.list \in Lists
        /\ session.status # "no_identity"
    BY <1>0, <1>5, CallFields DEF At, Shaped, KeysInv, SessionFits
  <2>1. n \in Call /\ n.pc = "publish" /\ n.held = r.held /\ n.fresh = r.fresh
    <3>1. n \in Call
      BY <1>0, CallEdits DEF PCs
    <3>2. n.pc = "publish" /\ n.held = r.held /\ n.fresh = r.fresh
      BY <1>0 DEF Call
    <3>. QED  BY <3>1, <3>2
  <2>2. calls' = [calls EXCEPT ![c] = n]
    BY <1>0, <1>5 DEF RotateWrite, At
  <2>. HIDE DEF n
  <2>3. /\ retired' = retired /\ secret' = secret /\ fate' = fate
        /\ envelope' = [r.held EXCEPT !.key = r.fresh]
        /\ envelope'.key = r.fresh /\ envelope'.secret = r.held.secret
        /\ envelope' # NoEnvelope
    <3>1. /\ retired' = retired /\ secret' = secret /\ fate' = fate
          /\ envelope' = [r.held EXCEPT !.key = r.fresh]
      BY <1>5 DEF RotateWrite, Write, At
    <3>2. [r.held EXCEPT !.key = r.fresh].key = r.fresh
      BY <2>0 DEF Wrapped
    <3>3. [r.held EXCEPT !.key = r.fresh].secret = r.held.secret
      BY <2>0 DEF Wrapped
    <3>. QED  BY <1>0, <2>0, <3>1, <3>2, <3>3 DEF NoEnvelope
  <2>4. FitsDisk(c, n, envelope', retired', secret')
    BY <1>0, <1>5, <2>1, <2>3 DEF FitsDisk, At
  <2>5. /\ OneCall' /\ CallsFit'
        /\ calls'[c] = n /\ \A d \in Calls : d # c => At(d, "idle")
    BY <1>0, <1>5, <2>1, <2>2, <2>4, CallMoves DEF At
  <2>6. KeysSafe' /\ EnvelopeOpens'
    <3>1. r.held.secret = secret /\ entry \in retired
      BY <1>0, <1>5 DEF FitsDisk, At
    <3>2. ASSUME NEW k \in Keys, fate[k] = "kept"
          PROVE  [key |-> k, secret |-> secret] \in retired
      <4>1. /\ envelope # NoEnvelope
            /\ k = envelope.key \/ [key |-> k, secret |-> secret] \in retired
        BY <3>2 DEF KeysInv, KeysSafe
      <4>2. r.held.key = envelope.key
        BY <1>0, <1>5, <4>1 DEF FitsDisk, At
      <4>. QED  BY <3>1, <4>1, <4>2
    <3>. QED  BY <2>3, <3>1, <3>2 DEF KeysSafe, EnvelopeOpens
  <2>7. SessionFits'
    <3>1. \A d \in Calls : d # c => calls'[d].pc = "idle"
      BY <1>0, <2>2, <2>5 DEF At
    <3>. QED  BY <1>0, <1>5, <2>0, <2>1, <2>3, <2>5, <3>1 DEF RotateWrite, SessionFits, KeysInv, At
  <2>. QED  BY <2>5, <2>6, <2>7 DEF KeysInv
<1>6. ASSUME RotateFinish(c) PROVE KeysInv'
  <2>0. {r.held.key} \cup r.older \in SUBSET Keys
    BY <1>0, <1>6, CallFields DEF RotateFinish, At, Shaped, Wrapped
  <2>1. /\ OneCall' /\ CallsFit'
        /\ \A d \in Calls : d # c => At(d, "idle")
    BY <1>0, <1>6, CallSettles DEF RotateFinish, At
  <2>2. \A d \in Calls : calls'[d].pc = "idle"
    BY <1>0, <1>6, <2>1 DEF RotateFinish, Settle, Resting, At
  <2>3. KeysSafe' /\ EnvelopeOpens'
    BY <1>0, <1>6, AnnounceSafe DEF RotateFinish, disk, At, FitsDisk, Shaped
  <2>4. SessionFits'
    BY <1>0, <1>6, <2>0, <2>2, Statuses DEF RotateFinish, disk, At, FitsDisk, Shaped, SessionFits
  <2>. QED  BY <2>1, <2>3, <2>4 DEF KeysInv
<1>. QED  BY <1>1, <1>2, <1>3, <1>4, <1>5, <1>6 DEF RotateStep, RotateWrite, At

\* A wipe's steps: from its first deletion on no kept key is left to lose.
LEMMA WipeKeeps ==
  ASSUME KeysInv, Overlap = FALSE, ShapeInv', NEW c \in Wipes, WipeStep(c)
  PROVE  KeysInv'
<1>. DEFINE r == calls[c]
<1>0. /\ c \in Calls /\ r \in Call /\ Shaped(c, r)
      /\ FitsDisk(c, r, envelope, retired, secret)
      /\ calls \in [Calls -> Call]
      /\ None \notin Keys /\ Unlocks \cap Rotates = {}
  BY UnderWay, MachineAssumption DEF Calls, MachineAssumption
<1>1. ASSUME WipeStart(c) PROVE KeysInv'
  <2>. DEFINE n == [Resting EXCEPT !.pc = "dropActive"]
  <2>1. n \in Call /\ n.pc = "dropActive"
    BY RestingIsCall, CallEdits DEF PCs, Resting
  <2>2. calls' = [calls EXCEPT ![c] = n]
    BY <1>0, <1>1 DEF WipeStart
  <2>. HIDE DEF n
  <2>3. FitsDisk(c, n, envelope', retired', secret')
    BY <2>1 DEF FitsDisk
  <2>4. /\ OneCall' /\ CallsFit'
        /\ calls'[c] = n /\ \A d \in Calls : d # c => At(d, "idle")
    BY <1>0, <1>1, <2>1, <2>2, <2>3, CallMoves DEF WipeStart, At, MayStart
  <2>5. KeysSafe' /\ EnvelopeOpens'
    BY <1>1, DiskStays DEF WipeStart, disk
  <2>6. SessionFits'
    <3>1. \A d \in Calls : d # c => calls'[d].pc = "idle"
      BY <1>0, <2>2, <2>4 DEF At
    <3>. QED  BY <1>0, <1>1, <2>1, <2>4, <3>1 DEF WipeStart, MayStart, disk, SessionFits, KeysInv, At
  <2>. QED  BY <2>4, <2>5, <2>6 DEF KeysInv
<1>2. ASSUME WipeActive(c) PROVE KeysInv'
  <2>. DEFINE n == [calls[c] EXCEPT !.pc = "dropRetired"]
  <2>1. n \in Call /\ n.pc = "dropRetired"
    <3>1. n \in Call
      BY <1>0, CallEdits DEF PCs
    <3>2. n.pc = "dropRetired"
      BY <1>0 DEF Call
    <3>. QED  BY <3>1, <3>2
  <2>2. calls' = [calls EXCEPT ![c] = n]
    BY <1>0, <1>2 DEF WipeActive
  <2>. HIDE DEF n
  <2>3. FitsDisk(c, n, envelope', retired', secret')
    BY <1>0, <1>2, <2>1 DEF FitsDisk, WipeActive, At
  <2>4. /\ OneCall' /\ CallsFit'
        /\ calls'[c] = n /\ \A d \in Calls : d # c => At(d, "idle")
    BY <1>0, <1>2, <2>1, <2>2, <2>3, CallMoves DEF WipeActive, At, MayStart
  <2>5. KeysSafe' /\ EnvelopeOpens'
    BY <1>2, UnderWay, <1>0 DEF WipeActive, KeysSafe, EnvelopeOpens
  <2>6. SessionFits'
    <3>1. \A d \in Calls : d # c => calls'[d].pc = "idle"
      BY <1>0, <2>2, <2>4 DEF At
    <3>. QED  BY <1>0, <1>2, <2>1, <2>4, <3>1 DEF WipeActive, SessionFits, KeysInv, At
  <2>. QED  BY <2>4, <2>5, <2>6 DEF KeysInv
<1>3. ASSUME WipeRetired(c) PROVE KeysInv'
  <2>. DEFINE n == [calls[c] EXCEPT !.pc = "dropSecret"]
  <2>1. n \in Call /\ n.pc = "dropSecret"
    <3>1. n \in Call
      BY <1>0, CallEdits DEF PCs
    <3>2. n.pc = "dropSecret"
      BY <1>0 DEF Call
    <3>. QED  BY <3>1, <3>2
  <2>2. calls' = [calls EXCEPT ![c] = n]
    BY <1>0, <1>3 DEF WipeRetired
  <2>. HIDE DEF n
  <2>3. FitsDisk(c, n, envelope', retired', secret')
    BY <1>0, <1>3, <2>1 DEF FitsDisk, WipeRetired, At
  <2>4. /\ OneCall' /\ CallsFit'
        /\ calls'[c] = n /\ \A d \in Calls : d # c => At(d, "idle")
    BY <1>0, <1>3, <2>1, <2>2, <2>3, CallMoves DEF WipeRetired, At, MayStart
  <2>5. KeysSafe' /\ EnvelopeOpens'
    BY <1>0, <1>3 DEF WipeRetired, KeysInv, KeysSafe, EnvelopeOpens, FitsDisk, At
  <2>6. SessionFits'
    <3>1. \A d \in Calls : d # c => calls'[d].pc = "idle"
      BY <1>0, <2>2, <2>4 DEF At
    <3>. QED  BY <1>0, <1>3, <2>1, <2>4, <3>1 DEF WipeRetired, SessionFits, KeysInv, At
  <2>. QED  BY <2>4, <2>5, <2>6 DEF KeysInv
<1>4. ASSUME WipeSecret(c) PROVE KeysInv'
  <2>. DEFINE n == [calls[c] EXCEPT !.pc = "dropBlobs"]
  <2>1. n \in Call /\ n.pc = "dropBlobs"
    <3>1. n \in Call
      BY <1>0, CallEdits DEF PCs
    <3>2. n.pc = "dropBlobs"
      BY <1>0 DEF Call
    <3>. QED  BY <3>1, <3>2
  <2>2. calls' = [calls EXCEPT ![c] = n]
    BY <1>0, <1>4 DEF WipeSecret
  <2>. HIDE DEF n
  <2>3. FitsDisk(c, n, envelope', retired', secret')
    BY <1>0, <1>4, <2>1 DEF FitsDisk, WipeSecret, At
  <2>4. /\ OneCall' /\ CallsFit'
        /\ calls'[c] = n /\ \A d \in Calls : d # c => At(d, "idle")
    BY <1>0, <1>4, <2>1, <2>2, <2>3, CallMoves DEF WipeSecret, At, MayStart
  <2>5. KeysSafe' /\ EnvelopeOpens'
    BY <1>0, <1>4 DEF WipeSecret, KeysInv, KeysSafe, EnvelopeOpens, FitsDisk, At
  <2>6. SessionFits'
    <3>1. \A d \in Calls : d # c => calls'[d].pc = "idle"
      BY <1>0, <2>2, <2>4 DEF At
    <3>. QED  BY <1>0, <1>4, <2>1, <2>4, <3>1 DEF WipeSecret, SessionFits, KeysInv, At
  <2>. QED  BY <2>4, <2>5, <2>6 DEF KeysInv
<1>5. ASSUME WipeStorage(c) PROVE KeysInv'
  <2>. DEFINE n == [calls[c] EXCEPT !.pc = "leave"]
  <2>1. n \in Call /\ n.pc = "leave"
    <3>1. n \in Call
      BY <1>0, CallEdits DEF PCs
    <3>2. n.pc = "leave"
      BY <1>0 DEF Call
    <3>. QED  BY <3>1, <3>2
  <2>2. calls' = [calls EXCEPT ![c] = n]
    BY <1>0, <1>5 DEF WipeStorage
  <2>. HIDE DEF n
  <2>3. FitsDisk(c, n, envelope', retired', secret')
    BY <1>0, <1>5, <2>1 DEF FitsDisk, WipeStorage, At
  <2>4. /\ OneCall' /\ CallsFit'
        /\ calls'[c] = n /\ \A d \in Calls : d # c => At(d, "idle")
    BY <1>0, <1>5, <2>1, <2>2, <2>3, CallMoves DEF WipeStorage, At, MayStart
  <2>5. KeysSafe' /\ EnvelopeOpens'
    BY <1>0, <1>5 DEF WipeStorage, KeysInv, KeysSafe, EnvelopeOpens, FitsDisk, At
  <2>6. SessionFits'
    <3>1. \A d \in Calls : d # c => calls'[d].pc = "idle"
      BY <1>0, <2>2, <2>4 DEF At
    <3>. QED  BY <1>0, <1>5, <2>1, <2>4, <3>1 DEF WipeStorage, SessionFits, KeysInv, At
  <2>. QED  BY <2>4, <2>5, <2>6 DEF KeysInv
<1>6. ASSUME WipeFinish(c) PROVE KeysInv'
  <2>0. \A k \in Keys : fate'[k] = "kept" => fate[k] = "kept"
    BY <1>6 DEF WipeFinish
  <2>1. /\ OneCall' /\ CallsFit'
        /\ \A d \in Calls : d # c => At(d, "idle")
    BY <1>0, <1>6, CallSettles DEF WipeFinish, At
  <2>2. \A d \in Calls : calls'[d].pc = "idle"
    BY <1>0, <1>6, <2>1 DEF WipeFinish, Settle, Resting, At
  <2>3. KeysSafe' /\ EnvelopeOpens'
    BY <1>6, DiskStays, <2>0 DEF WipeFinish, disk
  <2>4. SessionFits'
    BY <1>0, <1>6, <2>2, Statuses DEF WipeFinish, AfterWipe, disk, At, FitsDisk, SessionFits
  <2>. QED  BY <2>1, <2>3, <2>4 DEF KeysInv
<1>. QED  BY <1>1, <1>2, <1>3, <1>4, <1>5, <1>6 DEF WipeStep

-------------------------------------------------------------------------------
\* A relaunch or a first launch relies on nothing but the envelope.
LEMMA InitKeys == Init => KeysInv
<1>. SUFFICES ASSUME Init PROVE KeysInv
  OBVIOUS
<1>1. ShapeInv
  BY InitShape
<1>2. \A c \in Calls : calls[c] = Resting
  BY DEF Init
<1>3. OneCall /\ CallsFit
  BY <1>2 DEF OneCall, CallsFit, FitsDisk, At, Resting
<1>4. SessionFits
  BY <1>2 DEF SessionFits, At, Resting, Init, Without
<1>5. EnvelopeOpens
  BY DEF EnvelopeOpens, Init
<1>6. KeysSafe
  <2>1. CASE fate = [k \in Keys |-> "unmade"]
    BY <2>1 DEF KeysSafe
  <2>2. ASSUME NEW k \in Keys, NEW h \in Heavy,
               envelope = [key |-> k, secret |-> 1, heavy |-> h],
               fate = [j \in Keys |-> IF j = k THEN "kept" ELSE "unmade"]
        PROVE  KeysSafe
    <3>1. envelope # NoEnvelope /\ envelope.key = k
      BY <2>2 DEF NoEnvelope
    <3>. QED  BY <2>2, <3>1 DEF KeysSafe
  <2>. QED  BY <2>1, <2>2 DEF Init
<1>. QED  BY <1>1, <1>3, <1>4, <1>5, <1>6 DEF KeysInv

LEMMA StepKeys ==
  ASSUME Overlap = FALSE
  PROVE  KeysInv /\ [Next]_vars => KeysInv'
<1>. SUFFICES ASSUME KeysInv, [Next]_vars PROVE KeysInv'
  OBVIOUS
<1>0. ShapeInv'
  BY ShapeStep DEF KeysInv
<1>1. CASE Probe
  <2>1. envelope = NoEnvelope => session' = Without("no_identity")
    BY <1>1 DEF Probe
  <2>2. envelope # NoEnvelope => session' = Without("locked")
    BY <1>1 DEF Probe
  <2>3. \A c \in Calls : At(c, "idle")
    BY <1>1 DEF Probe, KeysInv, SessionFits
  <2>4. SessionFits'
    BY <1>1, <2>1, <2>2, <2>3, Statuses DEF Probe, disk, SessionFits, At
  <2>5. OneCall' /\ CallsFit'
    BY <1>1 DEF Probe, disk, KeysInv, OneCall, CallsFit, At
  <2>. QED  BY <1>0, <1>1, <2>4, <2>5, DiskStays DEF Probe, disk, KeysInv
<1>2. CASE Lock
  <2>1. ASSUME NEW c \in Calls
        PROVE  /\ calls'[c].pc = calls[c].pc /\ calls'[c].held = calls[c].held
               /\ calls'[c].fresh = calls[c].fresh /\ calls'[c].list = calls[c].list
    <3>1. calls[c] \in Call /\ calls'[c] = [calls[c] EXCEPT !.prompted = FALSE]
      BY <1>2, UnderWay DEF Lock
    <3>2. [calls[c] EXCEPT !.prompted = FALSE].pc = calls[c].pc
      BY <3>1 DEF Call
    <3>3. [calls[c] EXCEPT !.prompted = FALSE].held = calls[c].held
      BY <3>1 DEF Call
    <3>4. [calls[c] EXCEPT !.prompted = FALSE].fresh = calls[c].fresh
      BY <3>1 DEF Call
    <3>5. [calls[c] EXCEPT !.prompted = FALSE].list = calls[c].list
      BY <3>1 DEF Call
    <3>. QED  BY <3>1, <3>2, <3>3, <3>4, <3>5
  <2>2. UNCHANGED <<envelope, retired, secret, fate>>
    BY <1>2 DEF Lock, disk
  <2>3. OneCall'
    BY <2>1 DEF OneCall, KeysInv, At
  <2>4. CallsFit'
    BY <2>1, <2>2 DEF CallsFit, FitsDisk, KeysInv
  <2>5. \/ session.status = "unlocked" /\ session'.status = "locked"
        \/ session' = session
    BY <1>2, Statuses DEF Lock
  <2>6. SessionFits'
    BY <2>1, <2>2, <2>5 DEF SessionFits, KeysInv, At
  <2>. QED  BY <1>0, <2>2, <2>3, <2>4, <2>6, DiskStays DEF KeysInv
<1>3. CASE UseApp
  <2>1. UNCHANGED <<envelope, retired, secret, session, calls, fate>>
    BY <1>3 DEF UseApp
  <2>. QED  BY <1>0, <2>1, DiskStays DEF KeysInv, OneCall, CallsFit, SessionFits, At
<1>4. CASE Crash
  <2>1. \A c \in Calls : calls'[c] = Resting
    BY <1>4 DEF Crash
  <2>2. session'.status = "loading"
    BY <1>4, Statuses DEF Crash
  <2>3. OneCall' /\ CallsFit' /\ SessionFits'
    BY <2>1, <2>2 DEF OneCall, CallsFit, FitsDisk, SessionFits, At, Resting
  <2>. QED  BY <1>0, <1>4, <2>3, DiskStays DEF Crash, disk, KeysInv
<1>5. ASSUME NEW c \in Setups, SetupStep(c) PROVE KeysInv'
  BY <1>0, <1>5, SetupKeeps
<1>6. ASSUME NEW c \in Unlocks, UnlockStep(c) PROVE KeysInv'
  BY <1>0, <1>6, UnlockKeeps
<1>7. ASSUME NEW c \in Rotates, RotateStep(c) PROVE KeysInv'
  BY <1>0, <1>7, RotateKeeps
<1>8. ASSUME NEW c \in Wipes, WipeStep(c) PROVE KeysInv'
  BY <1>0, <1>8, WipeKeeps
<1>9. ASSUME NEW c \in Calls, CallFails(c) PROVE KeysInv'
  <2>1. /\ OneCall' /\ CallsFit'
        /\ \A d \in Calls : d # c => At(d, "idle")
    BY <1>9, CallSettles DEF CallFails, At
  <2>2. \A d \in Calls : calls'[d].pc = "idle"
    BY <1>9, <2>1, UnderWay DEF CallFails, Settle, Resting, At
  <2>3. SessionFits'
    BY <1>9, <2>1, <2>2 DEF CallFails, disk, KeysInv, SessionFits, At
  <2>. QED  BY <1>0, <1>9, <2>1, <2>3, DiskStays DEF CallFails, disk, KeysInv
<1>10. CASE UNCHANGED vars
  <2>1. UNCHANGED <<envelope, retired, secret, session, calls, fate>>
    BY <1>10 DEF vars
  <2>. QED  BY <1>0, <2>1, DiskStays DEF KeysInv, OneCall, CallsFit, SessionFits, At
<1>. QED
  BY <1>1, <1>2, <1>3, <1>4, <1>5, <1>6, <1>7, <1>8, <1>9, <1>10 DEF Next

\* KeysSafe is KeysRetained once the envelope opens.
LEMMA SafeIsRetained == EnvelopeOpens /\ KeysSafe => KeysRetained
<1>. SUFFICES ASSUME EnvelopeOpens, KeysSafe, NEW k \in Keys, fate[k] = "kept"
              PROVE  k \in Recoverable
  BY DEF KeysRetained
<1>1. /\ envelope # NoEnvelope /\ envelope.secret = secret
      /\ k = envelope.key \/ [key |-> k, secret |-> secret] \in retired
  BY DEF KeysSafe, EnvelopeOpens
<1>2. Recoverable = {envelope.key} \cup {e.key : e \in {f \in retired : f.secret = secret}}
  BY <1>1 DEF Recoverable
<1>. QED  BY <1>1, <1>2

\* The four steps that write the envelope.
LEMMA OverwriteStep ==
  ASSUME KeysInv, [Next]_vars, envelope'.key # envelope.key, envelope # NoEnvelope
  PROVE  \/ envelope' = NoEnvelope
         \/ [key |-> envelope.key, secret |-> envelope.secret] \in retired
<1>1. ASSUME NEW c \in Setups, SetupStep(c) PROVE FALSE
  <2>0. c \in Calls
    BY DEF Calls
  <2>1. CASE SetupPersist(c)
    BY <2>0, <2>1, UnderWay DEF SetupPersist, At, FitsDisk
  <2>2. CASE ~SetupPersist(c)
    BY <1>1, <2>2 DEF SetupStep, SetupStart, SetupSecret, SetupFinish, disk
  <2>. QED  BY <2>1, <2>2
<1>2. ASSUME NEW c \in Unlocks, UnlockStep(c) PROVE FALSE
  <2>0. c \in Calls
    BY DEF Calls
  <2>1. CASE UnlockRewrap(c)
    <3>1. calls[c].held = envelope /\ envelope \in Wrapped
      BY <2>0, <2>1, UnderWay DEF UnlockRewrap, At, FitsDisk, Shaped
    <3>2. [calls[c].held EXCEPT !.heavy = FALSE].key = envelope.key
      BY <3>1 DEF Wrapped
    <3>. QED  BY <2>1, <3>2 DEF UnlockRewrap
  <2>2. CASE ~UnlockRewrap(c)
    BY <1>2, <2>2 DEF UnlockStep, UnlockStart, UnlockNothing, UnlockPrompt,
                      UnlockRetired, UnlockFinish, disk
  <2>. QED  BY <2>1, <2>2
<1>3. ASSUME NEW c \in Rotates, RotateStep(c)
      PROVE  [key |-> envelope.key, secret |-> envelope.secret] \in retired
  <2>0. c \in Calls
    BY DEF Calls
  <2>1. RotateWrite(c) /\ At(c, "flip")
    BY <1>3 DEF RotateStep, RotateStart, RotatePrompt, RotateLoad, RotateWrite,
                RotateFinish, Write, disk
  <2>. QED  BY <2>0, <2>1, UnderWay DEF At, FitsDisk, KeysInv, EnvelopeOpens
<1>4. ASSUME NEW c \in Wipes, WipeStep(c) PROVE envelope' = NoEnvelope
  BY <1>4 DEF WipeStep, WipeStart, WipeActive, WipeRetired, WipeSecret, WipeStorage,
              WipeFinish, disk
<1>5. CASE Probe \/ Lock \/ UseApp \/ Crash \/ (\E c \in Calls : CallFails(c)) \/ UNCHANGED vars
  BY <1>5 DEF Probe, Lock, UseApp, Crash, CallFails, vars, disk
<1>. QED  BY <1>1, <1>2, <1>3, <1>4, <1>5 DEF Next

\* rotate's crash safety, "fully rotated OR unchanged, never bricked": while calls do
\* not overlap, every key that was ever the identity comes back with a relaunch.
THEOREM KeysNeverLost == ASSUME Overlap = FALSE PROVE Spec => []KeysRetained
<1>1. Init => KeysInv
  BY InitKeys
<1>2. KeysInv /\ [Next]_vars => KeysInv'
  BY StepKeys
<1>3. KeysInv => KeysRetained
  BY SafeIsRetained DEF KeysInv
<1>. QED  BY <1>1, <1>2, <1>3, PTL DEF Spec

\* setupNew's guard, "never overwrite an existing identity": while calls do not
\* overlap, a stored key gives way to a wipe, or to a rotation that retained it.
THEOREM KeyNeverOverwritten == ASSUME Overlap = FALSE PROVE Spec => NeverOverwritten
<1>1. Init => KeysInv
  BY InitKeys
<1>2. KeysInv /\ [Next]_vars => KeysInv'
  BY StepKeys
<1>3. KeysInv /\ [Next]_vars =>
        [envelope'.key # envelope.key /\ envelope # NoEnvelope =>
           \/ envelope' = NoEnvelope
           \/ [key |-> envelope.key, secret |-> envelope.secret] \in retired]_vars
  BY OverwriteStep
<1>. QED  BY <1>1, <1>2, <1>3, PTL DEF Spec, NeverOverwritten
-------------------------------------------------------------------------------
(* What is in memory agrees with what is on disk, and nothing of a wiped       *)
(* identity is left in either, while the user waits for each call to settle.   *)
\* What a relaunch would recover from the keychain items env, ret and sec.
Recov(env, ret, sec) ==
  IF env = NoEnvelope \/ env.secret # sec THEN {}
  ELSE {env.key} \cup {e.key : e \in {f \in ret : f.secret = sec}}

\* Fates of keys that exist somewhere: generated, and not wiped.
Extant == {"made", "kept", "doomed"}

\* No key on disk or in memory is one still to be generated, or a wiped one; no
\* entry carries a device secret still to be created.
Traces ==
  /\ envelope # NoEnvelope => fate[envelope.key] \in {"made", "kept"}
  /\ \A e \in retired : fate[e.key] \in Extant /\ e.secret <= minted
  /\ secret <= minted
  /\ session.status = "unlocked" =>
       \A k \in {session.active} \cup session.older : fate[k] \in Extant

\* MemoryMatchesDisk while calls are under way: only the last step of a rotation, or
\* a wipe that began, lets memory and disk differ.
SessionMatches ==
  session.status = "unlocked" =>
    /\ envelope = NoEnvelope => fate[session.active] = "doomed"
    /\ \/ \E k \in {session.active} \cup session.older : fate[k] = "doomed"
       \/ \E c \in Calls : At(c, "publish")
       \/ /\ session.active = envelope.key
          /\ session.active \notin session.older
          /\ {session.active} \cup session.older = Recov(envelope, retired, secret)

\* What call c, suspended as r, knows of the keys it will put into memory.
Mine(r) == {r.held.key} \cup r.older
Knows(c, r, env, ret, sec, ft) ==
  /\ r.pc \in {"create", "persist", "adopt", "retain", "flip", "publish"} => ft[r.fresh] = "made"
  /\ r.pc \in {"persist", "adopt"} => \A e \in ret : e.secret # sec
  /\ r.pc = "enter" =>
       r.older = {e.key : e \in {f \in ret : f.key # r.held.key /\ f.secret = sec}}
  /\ r.pc = "retain" =>
       r.list = {[key |-> r.held.key, secret |-> r.held.secret]}
                  \cup {f \in ret : f.key # r.held.key}
  /\ r.pc \in {"retain", "flip", "publish"} => r.fresh \notin Mine(r)
  /\ r.pc \in {"load", "retain", "flip", "publish"} \/ (c \in Rotates /\ r.pc = "prompt") =>
       /\ \A k \in Mine(r) : ft[k] \in Extant
       /\ \/ \E k \in Mine(r) : ft[k] = "doomed"
          \/ r.pc = "publish" /\ {r.fresh} \cup Mine(r) = Recov(env, ret, sec)
          \/ r.pc # "publish" /\ r.held.key \notin r.older /\ Mine(r) = Recov(env, ret, sec)
  /\ r.pc \in {"dropSecret", "dropBlobs", "leave"} => ret = {}

CallsKnow == \A c \in Calls : Knows(c, calls[c], envelope, retired, secret, fate)

\* KeysInv says which writes are safe; MemInv says which keys they are about.
MemInv ==
  /\ KeysInv
  /\ Traces
  /\ SessionMatches
  /\ CallsKnow

-------------------------------------------------------------------------------
\* Recov is Recoverable, of any three keychain items.
LEMMA RecoverableIsRecov == Recoverable = Recov(envelope, retired, secret)
  BY DEF Recoverable, Recov

\* Keys of another fate than "made" are not touched by Announce.
LEMMA AnnounceFates ==
  ASSUME KeysInv, NEW k \in Keys, Announce(k), NEW j \in Keys
  PROVE  /\ fate[j] \in Extant => fate'[j] \in Extant
         /\ fate[j] \in {"made", "kept"} => fate'[j] \in {"made", "kept"}
         /\ fate[j] = "doomed" => fate'[j] = "doomed"
         /\ fate'[j] = "wiped" => fate[j] = "wiped"
  BY DEF KeysInv, ShapeInv, TypeOK, Announce, Extant

\* An envelope that wraps a key is not the empty item.
LEMMA WrappedReal ==
  ASSUME NEW w \in Wrapped
  PROVE  w # NoEnvelope /\ w.key \in Keys
  BY MachineAssumption DEF Wrapped, NoEnvelope, MachineAssumption

\* A call at rest knows nothing: only the stepping call's knowledge is to be shown.
LEMMA OneKnows ==
  ASSUME NEW c \in Calls, \A d \in Calls : d # c => calls'[d].pc = "idle",
         Knows(c, calls'[c], envelope', retired', secret', fate')
  PROVE  CallsKnow'
<1>1. ASSUME NEW d \in Calls, d # c
      PROVE  Knows(d, calls'[d], envelope', retired', secret', fate')
  BY <1>1 DEF Knows
<1>. QED  BY <1>1 DEF CallsKnow

\* With every call at rest there is nothing to know.
LEMMA NoneKnows ==
  ASSUME \A d \in Calls : calls'[d].pc = "idle"
  PROVE  CallsKnow'
  BY DEF CallsKnow, Knows

\* Between two steps of one call the others stay at rest.
LEMMA CallGoes ==
  ASSUME KeysInv, NEW c \in Calls, NEW n, calls' = [calls EXCEPT ![c] = n],
         ~At(c, "idle") \/ \A d \in Calls : At(d, "idle")
  PROVE  /\ calls'[c] = n
         /\ \A d \in Calls : d # c => calls[d].pc = "idle" /\ calls'[d].pc = "idle"
<1>1. calls \in [Calls -> Call]
  BY UnderWay
<1>. QED  BY <1>1 DEF KeysInv, OneCall, At

\* A step that leaves disk and session alone, and no key worse off.
LEMMA MemoryFrame ==
  ASSUME MemInv, UNCHANGED <<envelope, retired, secret, session>>, minted <= minted',
         minted' \in Nat,
         \A k \in Keys : /\ fate[k] \in Extant => fate'[k] \in Extant
                         /\ fate[k] \in {"made", "kept"} => fate'[k] \in {"made", "kept"}
                         /\ fate[k] = "doomed" => fate'[k] = "doomed",
         \A c \in Calls : At(c, "publish") => calls'[c].pc = "publish"
  PROVE  Traces' /\ SessionMatches'
<1>1. /\ envelope # NoEnvelope => envelope.key \in Keys
      /\ \A e \in retired : e.key \in Keys /\ e.secret \in Nat
      /\ session.status = "unlocked" => session.active \in Keys /\ session.older \subseteq Keys
      /\ secret \in Nat /\ minted \in Nat
  BY Sessions, MachineAssumption
  DEF MemInv, KeysInv, ShapeInv, TypeOK, Wrapped, Secrets, MachineAssumption
<1>2. Traces'
  BY <1>1 DEF MemInv, Traces
<1>3. SessionMatches'
  <2>. SUFFICES ASSUME session.status = "unlocked"
                PROVE  SessionMatches!2'
    BY DEF SessionMatches
  <2>. QED  BY <1>1 DEF MemInv, SessionMatches, At
<1>. QED  BY <1>2, <1>3

\* What is known of call c while it is under way.
LEMMA Known ==
  ASSUME MemInv, NEW c \in Calls
  PROVE  /\ calls[c] \in Call
         /\ Shaped(c, calls[c])
         /\ FitsDisk(c, calls[c], envelope, retired, secret)
         /\ Knows(c, calls[c], envelope, retired, secret, fate)
         /\ calls \in [Calls -> Call]
         /\ ~At(c, "idle") => \A d \in Calls : d # c => calls[d].pc = "idle"
         /\ None \notin Keys /\ Unlocks \cap Rotates = {}
         /\ minted \in Nat /\ secret \in Nat
         /\ \A e \in retired : e.key \in Keys /\ e.secret \in Nat
         /\ envelope \in Wrapped \cup {NoEnvelope}
         /\ envelope # NoEnvelope => envelope.key \in Keys /\ envelope.secret = secret
         /\ fate \in [Keys -> {"unmade", "made", "kept", "doomed", "wiped"}]
<1>. QED  BY UnderWay, MachineAssumption
     DEF MemInv, CallsKnow, KeysInv, ShapeInv, TypeOK, Secrets, Wrapped, MachineAssumption,
         EnvelopeOpens, At

-------------------------------------------------------------------------------
\* A setup finds no envelope and, under its fresh secret, no retired entry either.
LEMMA SetupRemembers ==
  ASSUME MemInv, KeysInv', Overlap = FALSE, NEW c \in Setups, SetupStep(c)
  PROVE  MemInv'
<1>. DEFINE r == calls[c]
<1>0. /\ c \in Calls /\ KeysInv
      /\ FitsDisk(c, r, envelope, retired, secret)
      /\ Knows(c, r, envelope, retired, secret, fate)
      /\ r \in Call /\ Shaped(c, r)
  BY Known DEF Calls, MemInv
<1>1. ASSUME NEW k \in Keys, SetupStart(c, k) PROVE MemInv'
  <2>. DEFINE n == [Resting EXCEPT !.pc = "create", !.fresh = k]
  <2>1. n.pc = "create" /\ n.fresh = k
    BY DEF Resting
  <2>2. calls' = [calls EXCEPT ![c] = n] /\ (~At(c, "idle") \/ \A d \in Calls : At(d, "idle"))
    BY <1>1, <1>0 DEF SetupStart, MayStart, At, MemInv, KeysInv, OneCall
  <2>3. session.status = "no_identity"
    BY <1>1 DEF SetupStart, Settable
  <2>4. /\ UNCHANGED <<envelope, retired, secret, session, minted>>
        /\ fate' = [fate EXCEPT ![k] = "made"]
    BY <1>1 DEF SetupStart, disk
  <2>. HIDE DEF n
  <2>5. calls'[c] = n /\ \A d \in Calls : d # c => calls[d].pc = "idle" /\ calls'[d].pc = "idle"
    BY <1>0, <2>2, CallGoes
  <2>6. CallsKnow'
    <3>1. Knows(c, n, envelope', retired', secret', fate')
      BY <1>0, <2>1, <2>4, Known DEF Knows
    <3>. QED  BY <1>0, <2>5, <3>1, OneKnows
  <2>7. envelope = NoEnvelope
    BY <1>0, <1>1, <2>3, <2>5 DEF SetupStart, At, KeysInv, SessionFits
  <2>8. Traces' /\ SessionMatches'
    BY <1>0, <2>3, <2>4, <2>7, Known DEF MemInv, Traces, SessionMatches, Extant
  <2>. QED  BY <2>6, <2>8 DEF MemInv
<1>2. ASSUME SetupSecret(c) \/ SetupPersist(c) PROVE MemInv'
  <2>. DEFINE n == calls'[c]
  <2>1. /\ session.status = "no_identity" /\ UNCHANGED <<retired, session, fate>>
        /\ \A d \in Calls : d # c => calls'[d].pc = "idle"
    <3>1. session.status = "no_identity"
      BY <1>0, <1>2 DEF SetupSecret, SetupPersist, At, KeysInv, SessionFits
    <3>2. \A d \in Calls : d # c => calls[d].pc = "idle"
      BY <1>0, <1>2, Known DEF SetupSecret, SetupPersist, At
    <3>. QED  BY <1>0, <1>2, <3>1, <3>2, Known DEF SetupSecret, SetupPersist
  <2>2. CASE SetupSecret(c)
    <3>1. n.pc = "persist" /\ n.fresh = r.fresh
      <4>1. n = [r EXCEPT !.pc = "persist",
                          !.held = [key |-> r.fresh, secret |-> minted', heavy |-> FALSE]]
        BY <1>0, <2>2, Known DEF SetupSecret
      <4>. QED  BY <1>0, <4>1 DEF Call
    <3>2. /\ secret' = minted + 1 /\ minted' = minted + 1 /\ envelope' = envelope
          /\ envelope = NoEnvelope /\ fate[r.fresh] = "made"
      BY <1>0, <2>2 DEF SetupSecret, FitsDisk, Knows, At
    <3>3. \A e \in retired : e.secret # secret' /\ e.secret <= minted'
      BY <1>0, <3>2, Known DEF MemInv, Traces
    <3>4. Knows(c, n, envelope', retired', secret', fate')
      BY <2>1, <3>1, <3>2, <3>3 DEF Knows
    <3>5. Traces' /\ SessionMatches'
      BY <1>0, <2>1, <3>2, <3>3, Known DEF MemInv, Traces, SessionMatches
    <3>. QED  BY <1>0, <2>1, <3>4, <3>5, OneKnows DEF MemInv
  <2>3. CASE SetupPersist(c)
    <3>1. n.pc = "adopt" /\ n.fresh = r.fresh
      <4>1. n = [r EXCEPT !.pc = "adopt"]
        BY <1>0, <2>3, Known DEF SetupPersist
      <4>. QED  BY <1>0, <4>1 DEF Call
    <3>2. /\ UNCHANGED <<secret, minted>> /\ envelope'.key = r.fresh
          /\ fate[r.fresh] = "made" /\ \A e \in retired : e.secret # secret
      BY <1>0, <2>3 DEF SetupPersist, FitsDisk, Knows, At
    <3>3. Knows(c, n, envelope', retired', secret', fate')
      BY <2>1, <3>1, <3>2 DEF Knows
    <3>4. Traces' /\ SessionMatches'
      BY <2>1, <3>2 DEF MemInv, Traces, SessionMatches
    <3>. QED  BY <1>0, <2>1, <3>3, <3>4, OneKnows DEF MemInv
  <2>. QED  BY <1>2, <2>2, <2>3
<1>3. ASSUME SetupFinish(c) PROVE MemInv'
  <2>1. /\ UNCHANGED <<envelope, retired, secret, minted>>
        /\ session' = Unlocked(r.fresh, {}) /\ Announce(r.fresh) /\ Settle(c)
        /\ r.fresh \in Keys /\ fate[r.fresh] = "made"
        /\ envelope # NoEnvelope /\ envelope.key = r.fresh /\ envelope.secret = secret
        /\ \A e \in retired : e.secret # secret
    <3>1. /\ UNCHANGED <<envelope, retired, secret, minted>>
          /\ session' = Unlocked(r.fresh, {}) /\ Announce(r.fresh) /\ Settle(c)
          /\ r.pc = "adopt"
      BY <1>3 DEF SetupFinish, disk, At
    <3>2. r.fresh \in Keys /\ r.held \in Wrapped
      BY <1>0, <3>1 DEF Shaped
    <3>3. r.held.key = r.fresh /\ r.held.secret = secret /\ envelope = r.held
      BY <1>0, <3>1 DEF FitsDisk
    <3>4. fate[r.fresh] = "made" /\ \A e \in retired : e.secret # secret
      BY <1>0, <3>1 DEF Knows
    <3>. QED  BY <3>1, <3>2, <3>3, <3>4, WrappedReal
  <2>2. session'.active = r.fresh /\ session'.older = {}
    BY <2>1 DEF Unlocked
  <2>3. Recov(envelope, retired, secret) = {r.fresh}
    BY <2>1 DEF Recov
  <2>4. SessionMatches'
    BY <2>1, <2>2, <2>3 DEF SessionMatches
  <2>5. Traces'
    BY <1>0, <2>1, <2>2, Known, AnnounceFates DEF MemInv, Traces, Extant
  <2>6. CallsKnow'
    <3>1. \A d \in Calls : calls'[d].pc = "idle"
      BY <1>0, <1>3, <2>1, Known DEF Settle, Resting, SetupFinish, At
    <3>. QED  BY <3>1, NoneKnows
  <2>. QED  BY <2>4, <2>5, <2>6 DEF MemInv
<1>. QED  BY <1>1, <1>2, <1>3 DEF SetupStep

\* An unlock puts into memory what it finds on disk.
LEMMA UnlockRemembers ==
  ASSUME MemInv, KeysInv', Overlap = FALSE, NEW c \in Unlocks, UnlockStep(c)
  PROVE  MemInv'
<1>. DEFINE r == calls[c]
<1>0. /\ c \in Calls /\ KeysInv /\ c \notin Rotates
      /\ FitsDisk(c, r, envelope, retired, secret)
      /\ Knows(c, r, envelope, retired, secret, fate)
      /\ r \in Call /\ Shaped(c, r)
  BY Known DEF Calls, MemInv
<1>1. ASSUME UnlockStart(c) \/ UnlockPrompt(c) \/ UnlockRetired(c) PROVE MemInv'
  <2>. DEFINE n == calls'[c]
  <2>1. /\ UNCHANGED <<envelope, retired, secret, session, minted, fate>>
        /\ \A d \in Calls : d # c => calls[d].pc = "idle" /\ calls'[d].pc = "idle"
        /\ r.pc # "publish"
    <3>1. ~At(c, "idle") \/ \A d \in Calls : At(d, "idle")
      BY <1>0, <1>1 DEF UnlockStart, UnlockPrompt, UnlockRetired, MayStart, At, KeysInv, OneCall
    <3>2. \A d \in Calls : d # c => calls[d].pc = "idle"
      BY <1>0, <3>1, Known DEF At
    <3>. QED  BY <1>0, <1>1, <3>2, Known
         DEF UnlockStart, UnlockPrompt, UnlockRetired, MayStart, disk, At
  <2>2. Traces' /\ SessionMatches'
    BY <1>0, <2>1, Known, MemoryFrame DEF At
  <2>3. Knows(c, n, envelope', retired', secret', fate')
    <3>1. CASE UnlockStart(c)
      <4>1. n = [Resting EXCEPT !.pc = "prompt", !.held = envelope]
        BY <1>0, <3>1, Known DEF UnlockStart
      <4>2. n.pc = "prompt"
        BY <4>1 DEF Resting
      <4>. QED  BY <1>0, <4>2 DEF Knows
    <3>2. CASE UnlockPrompt(c)
      <4>1. n = [r EXCEPT !.pc = "unwrap", !.prompted = TRUE]
        BY <1>0, <3>2, Known DEF UnlockPrompt
      <4>2. n.pc = "unwrap"
        BY <1>0, <4>1 DEF Call
      <4>. QED  BY <1>0, <4>2 DEF Knows
    <3>3. CASE UnlockRetired(c)
      <4>. DEFINE S == {e.key : e \in {f \in RetiredExcludingActive(r.held.key) :
                                         f.secret = r.held.secret}}
      <4>1. n = [r EXCEPT !.pc = "enter", !.older = S]
        BY <1>0, <3>3, Known DEF UnlockRetired
      <4>2. n.pc = "enter" /\ n.older = S /\ n.held = r.held
        BY <1>0, <4>1 DEF Call
      <4>3. r.held.secret = secret
        <5>1. r.pc = "unwrap"
          BY <3>3 DEF UnlockRetired, At
        <5>2. r.held = envelope /\ r.held \in Wrapped
          BY <1>0, <5>1 DEF FitsDisk, Shaped
        <5>. QED  BY <1>0, <5>2, Known, WrappedReal
      <4>4. S = {e.key : e \in {f \in retired : f.key # r.held.key /\ f.secret = secret}}
        BY <4>3 DEF RetiredExcludingActive
      <4>. QED  BY <1>0, <2>1, <4>2, <4>4 DEF Knows
    <3>. QED  BY <1>1, <3>1, <3>2, <3>3
  <2>. QED  BY <1>0, <2>1, <2>2, <2>3, OneKnows DEF MemInv
<1>2. ASSUME UnlockNothing(c) PROVE MemInv'
  <2>1. /\ UNCHANGED <<envelope, retired, secret, minted, fate>>
        /\ session'.status = "no_identity"
    BY <1>2, Statuses DEF UnlockNothing, disk
  <2>2. Traces' /\ SessionMatches'
    BY <2>1 DEF MemInv, Traces, SessionMatches
  <2>3. \A d \in Calls : calls'[d].pc = "idle"
    BY <1>0, <1>2, Known DEF Settle, Resting, UnlockNothing, At
  <2>. QED  BY <2>2, <2>3, NoneKnows DEF MemInv
<1>3. ASSUME UnlockFinish(c) PROVE MemInv'
  <2>1. /\ UNCHANGED <<envelope, retired, secret, minted>>
        /\ session' = Unlocked(r.held.key, r.older) /\ Announce(r.held.key)
        /\ r.held = envelope /\ envelope # NoEnvelope
        /\ envelope.key \in Keys /\ envelope.secret = secret
        /\ r.older = {e.key : e \in {f \in retired : f.key # r.held.key /\ f.secret = secret}}
    <3>1. /\ UNCHANGED <<envelope, retired, secret, minted>>
          /\ session' = Unlocked(r.held.key, r.older) /\ Announce(r.held.key)
          /\ r.pc = "enter"
      BY <1>3 DEF UnlockFinish, disk, At
    <3>2. r.held = envelope /\ r.held \in Wrapped
      BY <1>0, <3>1 DEF FitsDisk, Shaped
    <3>3. r.older = {e.key : e \in {f \in retired : f.key # r.held.key /\ f.secret = secret}}
      BY <1>0, <3>1 DEF Knows
    <3>. QED  BY <1>0, <3>1, <3>2, <3>3, Known, WrappedReal
  <2>2. session'.active = envelope.key /\ session'.older = r.older
    BY <2>1 DEF Unlocked
  <2>3. SessionMatches'
    <3>1. Recov(envelope, retired, secret) = {envelope.key} \cup r.older
      BY <2>1 DEF Recov
    <3>. QED  BY <2>1, <2>2, <3>1 DEF SessionMatches
  <2>4. Traces'
    <3>1. /\ fate'[envelope.key] \in {"made", "kept"}
          /\ \A e \in retired : fate'[e.key] \in Extant
      BY <1>0, <2>1, Known, AnnounceFates DEF MemInv, Traces
    <3>2. \A k \in {envelope.key} \cup r.older : fate'[k] \in Extant
      BY <2>1, <3>1 DEF Extant
    <3>3. \A e \in retired : e.secret <= minted
      BY DEF MemInv, Traces
    <3>4. secret <= minted
      BY DEF MemInv, Traces
    <3>. QED  BY <2>1, <2>2, <3>1, <3>2, <3>3, <3>4 DEF Traces
  <2>5. CallsKnow'
    <3>1. \A d \in Calls : d # c => calls'[d].pc = "idle"
      BY <1>0, <1>3, Known DEF UnlockFinish, Settle, At
    <3>2. calls'[c].pc \in {"rewrap", "idle"}
      BY <1>0, <1>3, Known DEF UnlockFinish, Settle, Resting, Call
    <3>3. Knows(c, calls'[c], envelope', retired', secret', fate')
      BY <1>0, <3>2 DEF Knows
    <3>. QED  BY <1>0, <3>1, <3>3, OneKnows
  <2>. QED  BY <2>3, <2>4, <2>5 DEF MemInv
<1>4. ASSUME UnlockRewrap(c) PROVE MemInv'
  <2>1. /\ envelope'.key = envelope.key /\ envelope'.secret = envelope.secret
        /\ envelope # NoEnvelope /\ envelope' # NoEnvelope
    <3>1. r.held = envelope /\ envelope \in Wrapped
      BY <1>0, <1>4 DEF UnlockRewrap, At, FitsDisk, Shaped
    <3>2. [r.held EXCEPT !.heavy = FALSE].key = envelope.key
      BY <3>1 DEF Wrapped
    <3>3. [r.held EXCEPT !.heavy = FALSE].secret = envelope.secret
      BY <3>1 DEF Wrapped
    <3>4. envelope'.key = envelope.key /\ envelope'.secret = envelope.secret
      BY <1>4, <3>2, <3>3 DEF UnlockRewrap
    <3>5. envelope.key \in Keys
      BY <3>1 DEF Wrapped
    <3>. QED  BY <3>4, <3>5, MachineAssumption DEF NoEnvelope, MachineAssumption
  <2>2. /\ UNCHANGED <<retired, secret, session, minted, fate>>
        /\ \A d \in Calls : calls[d].pc # "publish"
    BY <1>0, <1>4, Known DEF UnlockRewrap, At
  <2>3. Traces'
    BY <2>1, <2>2 DEF MemInv, Traces
  <2>4. SessionMatches'
    <3>1. Recov(envelope', retired', secret') = Recov(envelope, retired, secret)
      BY <2>1, <2>2 DEF Recov
    <3>. QED  BY <2>1, <2>2, <3>1 DEF MemInv, SessionMatches, At
  <2>5. \A d \in Calls : calls'[d].pc = "idle"
    BY <1>0, <1>4, Known DEF Settle, Resting, UnlockRewrap, At
  <2>. QED  BY <2>3, <2>4, <2>5, NoneKnows DEF MemInv
<1>. QED  BY <1>1, <1>2, <1>3, <1>4 DEF UnlockStep

\* The list rotate writes holds the same keys as the disk it was made from.
LEMMA RetainSame ==
  ASSUME NEW w, w # NoEnvelope, NEW ret, NEW d, w.secret = d,
         NEW list, list = {[key |-> w.key, secret |-> d]} \cup {f \in ret : f.key # w.key}
  PROVE  Recov(w, list, d) = Recov(w, ret, d)
<1>. DEFINE N(R) == {e.key : e \in {f \in R : f.secret = d}}
<1>1. Recov(w, list, d) = {w.key} \cup N(list) /\ Recov(w, ret, d) = {w.key} \cup N(ret)
  BY DEF Recov
<1>2. ASSUME NEW k, k \in N(list) PROVE k \in {w.key} \cup N(ret)
  BY <1>2
<1>3. ASSUME NEW k, k \in N(ret) PROVE k \in {w.key} \cup N(list)
  BY <1>3
<1>. HIDE DEF N
<1>. QED  BY <1>1, <1>2, <1>3

\* A rotation keeps track of the keys it found: one more after its last write.
LEMMA RotateRemembers ==
  ASSUME MemInv, KeysInv', Overlap = FALSE, NEW c \in Rotates, RotateStep(c)
  PROVE  MemInv'
<1>. DEFINE r == calls[c]
<1>0. /\ c \in Calls /\ KeysInv
      /\ FitsDisk(c, r, envelope, retired, secret)
      /\ Knows(c, r, envelope, retired, secret, fate)
      /\ r \in Call /\ Shaped(c, r)
  BY Known DEF Calls, MemInv
<1>1. ASSUME RotateStart(c) PROVE MemInv'
  <2>. DEFINE w == [key |-> session.active, secret |-> 0, heavy |-> FALSE]
              n == [Resting EXCEPT !.pc = "prompt", !.held = w, !.older = session.older]
  <2>1. n.pc = "prompt" /\ n.held.key = session.active /\ n.older = session.older
    BY DEF Resting
  <2>2. /\ calls' = [calls EXCEPT ![c] = n] /\ session.status = "unlocked"
        /\ UNCHANGED <<envelope, retired, secret, session, minted, fate>>
        /\ \A d \in Calls : At(d, "idle")
    BY <1>1 DEF RotateStart, MayStart, At, disk
  <2>. HIDE DEF n
  <2>3. calls'[c] = n /\ \A d \in Calls : d # c => calls'[d].pc = "idle"
    BY <1>0, <2>2, CallGoes
  <2>4. Traces' /\ SessionMatches'
    BY <1>0, <2>2, Known, MemoryFrame DEF At
  <2>5. \/ \E k \in Mine(n) : fate[k] = "doomed"
        \/ n.held.key \notin n.older /\ Mine(n) = Recov(envelope, retired, secret)
    BY <2>1, <2>2 DEF MemInv, SessionMatches, At, Mine
  <2>6. \A k \in Mine(n) : fate[k] \in Extant
    BY <2>1, <2>2 DEF MemInv, Traces, Mine
  <2>7. Knows(c, n, envelope', retired', secret', fate')
    BY <2>1, <2>2, <2>5, <2>6 DEF Knows
  <2>. QED  BY <1>0, <2>3, <2>4, <2>7, OneKnows DEF MemInv
<1>2. ASSUME RotatePrompt(c) PROVE MemInv'
  <2>. DEFINE w == [r.held EXCEPT !.secret = secret]
              n == [r EXCEPT !.pc = "load", !.held = w, !.prompted = TRUE]
  <2>0. r.pc = "prompt" /\ UNCHANGED <<envelope, retired, secret, session, minted, fate>>
    BY <1>2 DEF RotatePrompt, At, disk
  <2>1. w.key = r.held.key
    BY <1>0, <2>0 DEF Shaped, Wrapped
  <2>2. n.pc = "load" /\ n.held = w /\ n.older = r.older
    BY <1>0 DEF Call
  <2>3. calls' = [calls EXCEPT ![c] = n]
    BY <1>0, <1>2, Known DEF RotatePrompt
  <2>. HIDE DEF n, w
  <2>4. calls'[c] = n /\ \A d \in Calls : d # c => calls[d].pc = "idle" /\ calls'[d].pc = "idle"
    BY <1>0, <2>0, <2>3, CallGoes DEF At
  <2>5. Traces' /\ SessionMatches'
    BY <1>0, <2>0, <2>4, Known, MemoryFrame DEF At
  <2>6. Mine(n) = Mine(r)
    BY <2>1, <2>2 DEF Mine
  <2>7. Knows(c, n, envelope', retired', secret', fate')
    BY <1>0, <2>0, <2>1, <2>2, <2>6 DEF Knows
  <2>. QED  BY <1>0, <2>4, <2>5, <2>7, OneKnows DEF MemInv
<1>3. ASSUME NEW k \in Keys, RotateLoad(c, k) PROVE MemInv'
  <2>. DEFINE L == PrependRetired([key |-> r.held.key, secret |-> r.held.secret])
              n == [r EXCEPT !.pc = "retain", !.fresh = k, !.list = L]
  <2>0. /\ r.pc = "load" /\ UNCHANGED <<envelope, retired, secret, session, minted>>
        /\ fate[k] = "unmade" /\ fate' = [fate EXCEPT ![k] = "made"]
    BY <1>3 DEF RotateLoad, At, disk
  <2>1. n.pc = "retain" /\ n.held = r.held /\ n.older = r.older /\ n.fresh = k /\ n.list = L
    BY <1>0 DEF Call
  <2>2. calls' = [calls EXCEPT ![c] = n]
    BY <1>0, <1>3, Known DEF RotateLoad
  <2>3. L = {[key |-> r.held.key, secret |-> r.held.secret]}
              \cup {f \in retired : f.key # r.held.key}
    BY DEF PrependRetired
  <2>. HIDE DEF n, L
  <2>4. calls'[c] = n /\ \A d \in Calls : d # c => calls[d].pc = "idle" /\ calls'[d].pc = "idle"
    BY <1>0, <2>0, <2>2, CallGoes DEF At
  <2>5. /\ fate'[k] = "made"
        /\ \A j \in Keys : /\ fate[j] \in Extant => fate'[j] \in Extant /\ fate'[j] = fate[j]
                           /\ fate[j] \in {"made", "kept"} => fate'[j] \in {"made", "kept"}
                           /\ fate[j] = "doomed" => fate'[j] = "doomed"
    BY <1>0, <2>0, Known DEF Extant
  <2>6. Traces' /\ SessionMatches'
    BY <1>0, <2>0, <2>4, <2>5, Known, MemoryFrame DEF At
  <2>7. Mine(n) = Mine(r) /\ Mine(r) \subseteq Keys
    <3>1. r.held.key \in Keys /\ r.older \subseteq Keys
      BY <1>0, <2>0, WrappedReal, CallFields DEF Shaped
    <3>. QED  BY <2>1, <3>1 DEF Mine
  <2>8. /\ \A j \in Mine(r) : fate'[j] \in Extant /\ fate'[j] = fate[j]
        /\ k \notin Mine(r)
    BY <1>0, <2>0, <2>5, <2>7 DEF Knows, Extant
  <2>9. Knows(c, n, envelope', retired', secret', fate')
    BY <1>0, <2>0, <2>1, <2>3, <2>5, <2>7, <2>8 DEF Knows
  <2>. QED  BY <1>0, <2>4, <2>6, <2>9, OneKnows DEF MemInv
<1>4. ASSUME RotateWrite(c), At(c, "retain") PROVE MemInv'
  <2>. DEFINE n == [r EXCEPT !.pc = "flip"]
  <2>0. /\ r.pc = "retain" /\ retired' = r.list
        /\ UNCHANGED <<envelope, secret, session, minted, fate>>
    BY <1>4 DEF RotateWrite, Write, At
  <2>1. n.pc = "flip" /\ n.held = r.held /\ n.older = r.older /\ n.fresh = r.fresh
    BY <1>0 DEF Call
  <2>2. calls' = [calls EXCEPT ![c] = n]
    BY <1>0, <1>4 DEF RotateWrite, At
  <2>. HIDE DEF n
  <2>3. calls'[c] = n /\ \A d \in Calls : d # c => calls[d].pc = "idle" /\ calls'[d].pc = "idle"
    BY <1>0, <2>0, <2>2, CallGoes DEF At
  <2>4. /\ r.list = {[key |-> r.held.key, secret |-> secret]}
                      \cup {f \in retired : f.key # r.held.key}
        /\ envelope = NoEnvelope \/ r.held.key = envelope.key
        /\ r.held.secret = secret
    BY <1>0, <2>0 DEF FitsDisk, Knows
  <2>5. Recov(envelope', retired', secret') = Recov(envelope, retired, secret)
    <3>1. CASE envelope = NoEnvelope
      BY <2>0, <3>1 DEF Recov
    <3>2. CASE envelope # NoEnvelope
      BY <1>0, <2>0, <2>4, <3>2, Known, RetainSame
    <3>. QED  BY <3>1, <3>2
  <2>6. Mine(n) = Mine(r) /\ r.held.key \in Mine(r)
    BY <2>1 DEF Mine
  <2>7. Knows(c, n, envelope', retired', secret', fate')
    BY <1>0, <2>0, <2>1, <2>5, <2>6 DEF Knows
  <2>8. Traces'
    <3>1. fate[r.held.key] \in Extant
      BY <1>0, <2>0, <2>6 DEF Knows
    <3>2. ASSUME NEW e \in r.list PROVE fate[e.key] \in Extant /\ e.secret <= minted
      <4>1. CASE e = [key |-> r.held.key, secret |-> secret]
        BY <3>1, <4>1 DEF MemInv, Traces
      <4>2. CASE e \in retired
        BY <4>2 DEF MemInv, Traces
      <4>. QED  BY <2>4, <4>1, <4>2
    <3>. QED  BY <2>0, <3>2 DEF MemInv, Traces
  <2>9. SessionMatches'
    <3>1. \A d \in Calls : ~At(d, "publish")
      BY <2>0, <2>3 DEF At
    <3>. QED  BY <2>0, <2>5, <3>1 DEF MemInv, SessionMatches
  <2>. QED  BY <1>0, <2>3, <2>7, <2>8, <2>9, OneKnows DEF MemInv
<1>5. ASSUME RotateWrite(c), At(c, "flip") PROVE MemInv'
  <2>. DEFINE n == [r EXCEPT !.pc = "publish"]
  <2>0. /\ r.pc = "flip" /\ envelope' = [r.held EXCEPT !.key = r.fresh]
        /\ UNCHANGED <<retired, secret, session, minted, fate>>
    BY <1>5 DEF RotateWrite, Write, At
  <2>1. n.pc = "publish" /\ n.held = r.held /\ n.older = r.older /\ n.fresh = r.fresh
    BY <1>0 DEF Call
  <2>2. calls' = [calls EXCEPT ![c] = n]
    BY <1>0, <1>5 DEF RotateWrite, At
  <2>. HIDE DEF n
  <2>3. calls'[c] = n /\ \A d \in Calls : d # c => calls'[d].pc = "idle"
    BY <1>0, <2>0, <2>2, CallGoes DEF At
  <2>4. envelope'.key = r.fresh /\ envelope'.secret = secret /\ envelope' # NoEnvelope
    <3>1. r.held \in Wrapped /\ r.fresh \in Keys /\ r.held.secret = secret
      BY <1>0, <2>0 DEF Shaped, FitsDisk
    <3>2. [r.held EXCEPT !.key = r.fresh] \in Wrapped
      BY <3>1, LightEnvelope
    <3>3. [r.held EXCEPT !.key = r.fresh].key = r.fresh
      BY <3>1 DEF Wrapped
    <3>4. [r.held EXCEPT !.key = r.fresh].secret = secret
      BY <3>1 DEF Wrapped
    <3>. QED  BY <2>0, <3>2, <3>3, <3>4, WrappedReal
  <2>5. Mine(n) = Mine(r)
    BY <2>1 DEF Mine
  <2>6. ASSUME Mine(r) = Recov(envelope, retired, secret)
        PROVE  {r.fresh} \cup Mine(r) = Recov(envelope', retired', secret')
    <3>1. envelope # NoEnvelope /\ envelope.secret = secret
      BY <2>6 DEF Recov, Mine
    <3>2. [key |-> envelope.key, secret |-> secret] \in retired
      BY <1>0, <2>0, <3>1 DEF FitsDisk
    <3>3. envelope.key \in {e.key : e \in {f \in retired : f.secret = secret}}
      BY <3>2
    <3>4. Mine(r) = {e.key : e \in {f \in retired : f.secret = secret}}
      BY <2>6, <3>1, <3>3 DEF Recov
    <3>. QED  BY <2>0, <2>4, <3>4 DEF Recov
  <2>7. Knows(c, n, envelope', retired', secret', fate')
    BY <1>0, <2>0, <2>1, <2>5, <2>6 DEF Knows
  <2>8. Traces'
    <3>1. fate[r.fresh] = "made"
      BY <1>0, <2>0 DEF Knows
    <3>. QED  BY <2>0, <2>4, <3>1 DEF MemInv, Traces
  <2>9. SessionMatches'
    <3>1. calls'[c].pc = "publish"
      BY <2>1, <2>3
    <3>. QED  BY <1>0, <2>4, <3>1 DEF SessionMatches, At
  <2>. QED  BY <1>0, <2>3, <2>7, <2>8, <2>9, OneKnows DEF MemInv
<1>6. ASSUME RotateFinish(c) PROVE MemInv'
  <2>1. /\ UNCHANGED <<envelope, retired, secret, minted>>
        /\ session' = Unlocked(r.fresh, Mine(r)) /\ Announce(r.fresh)
        /\ r.pc = "publish" /\ Settle(c)
    BY <1>6 DEF RotateFinish, disk, At, Mine
  <2>2. /\ r.fresh \in Keys /\ Mine(r) \subseteq Keys
        /\ envelope # NoEnvelope /\ envelope.key = r.fresh
    <3>1. r.held.key \in Keys /\ r.older \subseteq Keys
      BY <1>0, <2>1, WrappedReal, CallFields DEF Shaped
    <3>. QED  BY <1>0, <2>1, <3>1 DEF Shaped, FitsDisk, Mine
  <2>3. /\ fate[r.fresh] = "made" /\ r.fresh \notin Mine(r)
        /\ \A k \in Mine(r) : fate[k] \in Extant
        /\ \/ \E k \in Mine(r) : fate[k] = "doomed"
           \/ {r.fresh} \cup Mine(r) = Recov(envelope, retired, secret)
    BY <1>0, <2>1 DEF Knows
  <2>4. session'.active = r.fresh /\ session'.older = Mine(r)
    BY <2>1 DEF Unlocked
  <2>5. \A k \in Keys : /\ fate[k] \in Extant => fate'[k] \in Extant
                        /\ fate[k] \in {"made", "kept"} => fate'[k] \in {"made", "kept"}
                        /\ fate[k] = "doomed" => fate'[k] = "doomed"
    BY <1>0, <2>1, <2>2, AnnounceFates
  <2>6. SessionMatches'
    BY <2>1, <2>2, <2>3, <2>4, <2>5 DEF SessionMatches
  <2>7. Traces'
    <3>1. \A k \in {r.fresh} \cup Mine(r) : fate'[k] \in Extant
      BY <2>2, <2>3, <2>5 DEF Extant
    <3>2. /\ fate'[envelope.key] \in {"made", "kept"}
          /\ \A e \in retired : fate'[e.key] \in Extant
      BY <1>0, <2>2, <2>3, <2>5, Known DEF MemInv, Traces
    <3>. QED  BY <2>1, <2>4, <3>1, <3>2 DEF MemInv, Traces
  <2>8. \A d \in Calls : calls'[d].pc = "idle"
    BY <1>0, <2>1, Known DEF Settle, Resting, At
  <2>. QED  BY <2>6, <2>7, <2>8, NoneKnows DEF MemInv
<1>. QED  BY <1>1, <1>2, <1>3, <1>4, <1>5, <1>6 DEF RotateStep, RotateWrite, At

\* A wipe's steps: its first deletion dooms every key, its second leaves none behind.
LEMMA WipeRemembers ==
  ASSUME MemInv, KeysInv', Overlap = FALSE, NEW c \in Wipes, WipeStep(c)
  PROVE  MemInv'
<1>. DEFINE r == calls[c]
<1>0. /\ c \in Calls /\ KeysInv
      /\ FitsDisk(c, r, envelope, retired, secret)
      /\ Knows(c, r, envelope, retired, secret, fate)
      /\ r \in Call
  BY Known DEF Calls, MemInv
<1>1. ASSUME WipeStart(c) PROVE MemInv'
  <2>. DEFINE n == [Resting EXCEPT !.pc = "dropActive"]
  <2>1. n.pc = "dropActive"
    BY DEF Resting
  <2>2. /\ calls' = [calls EXCEPT ![c] = n] /\ \A d \in Calls : At(d, "idle")
        /\ UNCHANGED <<envelope, retired, secret, session, minted, fate>>
    BY <1>1 DEF WipeStart, MayStart, At, disk
  <2>. HIDE DEF n
  <2>3. calls'[c] = n /\ \A d \in Calls : d # c => calls'[d].pc = "idle"
    BY <1>0, <2>2, CallGoes
  <2>4. Traces' /\ SessionMatches'
    BY <1>0, <2>2, Known, MemoryFrame DEF At
  <2>5. Knows(c, n, envelope', retired', secret', fate')
    BY <2>1 DEF Knows
  <2>. QED  BY <1>0, <2>3, <2>4, <2>5, OneKnows DEF MemInv
<1>2. ASSUME WipeActive(c) PROVE MemInv'
  <2>. DEFINE n == [r EXCEPT !.pc = "dropRetired"]
  <2>0. /\ r.pc = "dropActive" /\ UNCHANGED <<retired, secret, session, minted>>
        /\ envelope' = NoEnvelope
        /\ \A k \in Keys : fate'[k] = IF fate[k] \in {"made", "kept"} THEN "doomed" ELSE fate[k]
    BY <1>2 DEF WipeActive, At
  <2>1. n.pc = "dropRetired"
    BY <1>0 DEF Call
  <2>2. calls' = [calls EXCEPT ![c] = n]
    BY <1>0, <1>2 DEF WipeActive
  <2>. HIDE DEF n
  <2>3. calls'[c] = n /\ \A d \in Calls : d # c => calls'[d].pc = "idle"
    BY <1>0, <2>0, <2>2, CallGoes DEF At
  <2>4. \A k \in Keys : fate[k] \in Extant => fate'[k] = "doomed"
    BY <2>0 DEF Extant
  <2>5. session.status = "unlocked" => session.active \in Keys /\ session.older \subseteq Keys
    BY <1>0, UnderWay, Sessions
  <2>6. session.status = "unlocked" =>
          \A k \in {session.active} \cup session.older : fate'[k] = "doomed"
    BY <2>4, <2>5 DEF MemInv, Traces
  <2>7. \A e \in retired : fate'[e.key] = "doomed"
    BY <1>0, <2>4, Known DEF MemInv, Traces
  <2>8. Traces'
    BY <2>0, <2>6, <2>7 DEF MemInv, Traces, Extant
  <2>9. SessionMatches'
    BY <2>0, <2>6 DEF SessionMatches
  <2>10. Knows(c, n, envelope', retired', secret', fate')
    BY <2>1 DEF Knows
  <2>. QED  BY <1>0, <2>3, <2>8, <2>9, <2>10, OneKnows DEF MemInv
<1>3. ASSUME WipeRetired(c) \/ WipeSecret(c) PROVE MemInv'
  <2>. DEFINE n == calls'[c]
  <2>0. /\ r.pc \in {"dropRetired", "dropSecret"} /\ retired' = {} /\ secret' \in {0, secret}
        /\ UNCHANGED <<envelope, session, minted, fate>>
    BY <1>0, <1>3 DEF WipeRetired, WipeSecret, At, Knows
  <2>1. n.pc \in {"dropSecret", "dropBlobs"}
    <3>1. n = [r EXCEPT !.pc = "dropSecret"] \/ n = [r EXCEPT !.pc = "dropBlobs"]
      BY <1>0, <1>3, Known DEF WipeRetired, WipeSecret
    <3>2. /\ [r EXCEPT !.pc = "dropSecret"].pc = "dropSecret"
          /\ [r EXCEPT !.pc = "dropBlobs"].pc = "dropBlobs"
      BY <1>0 DEF Call
    <3>. QED  BY <3>1, <3>2
  <2>2. \A d \in Calls : d # c => calls'[d].pc = "idle"
    BY <1>0, <1>3, Known DEF WipeRetired, WipeSecret, At
  <2>3. envelope = NoEnvelope
    BY <1>0, <2>0 DEF FitsDisk
  <2>4. Traces' /\ SessionMatches'
    <3>1. secret' <= minted'
      BY <1>0, <2>0, Known DEF MemInv, Traces
    <3>2. session.status = "unlocked" => fate[session.active] = "doomed"
      BY <2>3 DEF MemInv, SessionMatches
    <3>3. Traces'
      BY <2>0, <2>3, <3>1 DEF MemInv, Traces
    <3>4. SessionMatches'
      BY <2>0, <3>2 DEF SessionMatches
    <3>. QED  BY <3>3, <3>4
  <2>5. Knows(c, n, envelope', retired', secret', fate')
    BY <2>0, <2>1 DEF Knows
  <2>. QED  BY <1>0, <2>2, <2>4, <2>5, OneKnows DEF MemInv
<1>4. ASSUME WipeStorage(c) PROVE MemInv'
  <2>. DEFINE n == calls'[c]
  <2>0. r.pc = "dropBlobs" /\ UNCHANGED <<envelope, retired, secret, session, minted, fate>>
    BY <1>4 DEF WipeStorage, At
  <2>1. n.pc = "leave" /\ \A d \in Calls : d # c => calls[d].pc = "idle" /\ calls'[d].pc = "idle"
    BY <1>0, <1>4, Known DEF WipeStorage, At
  <2>2. Traces' /\ SessionMatches'
    BY <1>0, <2>0, <2>1, Known, MemoryFrame DEF At
  <2>3. Knows(c, n, envelope', retired', secret', fate')
    BY <1>0, <2>0, <2>1 DEF Knows
  <2>. QED  BY <1>0, <2>1, <2>2, <2>3, OneKnows DEF MemInv
<1>5. ASSUME WipeFinish(c) PROVE MemInv'
  <2>0. /\ UNCHANGED <<envelope, retired, secret, minted>> /\ r.pc = "leave"
        /\ session' = Without("no_identity") /\ Settle(c)
    BY <1>5 DEF WipeFinish, AfterWipe, disk, At
  <2>1. envelope = NoEnvelope /\ retired = {} /\ session'.status = "no_identity"
    BY <1>0, <2>0, Statuses DEF FitsDisk, Knows
  <2>2. Traces' /\ SessionMatches'
    BY <2>0, <2>1 DEF MemInv, Traces, SessionMatches
  <2>3. \A d \in Calls : calls'[d].pc = "idle"
    BY <1>0, <2>0, Known DEF Settle, Resting, At
  <2>. QED  BY <2>2, <2>3, NoneKnows DEF MemInv
<1>. QED  BY <1>1, <1>2, <1>3, <1>4, <1>5 DEF WipeStep

-------------------------------------------------------------------------------
\* A launch finds at most the one kept key, and nothing in memory.
LEMMA InitMemory == Init => MemInv
<1>. SUFFICES ASSUME Init PROVE MemInv
  OBVIOUS
<1>1. KeysInv
  BY InitKeys
<1>2. CallsKnow
  BY DEF Init, CallsKnow, Knows, Resting
<1>3. session.status = "loading" /\ retired = {} /\ secret \in Nat /\ minted = secret
  BY <1>1, Statuses DEF Init, KeysInv, ShapeInv, TypeOK, Secrets
<1>4. envelope # NoEnvelope => fate[envelope.key] = "kept"
  BY DEF Init
<1>5. Traces /\ SessionMatches
  BY <1>3, <1>4 DEF Traces, SessionMatches
<1>. QED  BY <1>1, <1>2, <1>5 DEF MemInv

\* Every step of a call, lock, crash or failure keeps memory and disk traceable.
LEMMA StepMemory ==
  ASSUME Overlap = FALSE
  PROVE  MemInv /\ [Next]_vars => MemInv'
<1>. SUFFICES ASSUME MemInv, [Next]_vars PROVE MemInv'
  OBVIOUS
<1>0. KeysInv /\ KeysInv'
  BY StepKeys DEF MemInv
<1>1. CASE Probe
  <2>1. /\ UNCHANGED <<envelope, retired, secret, calls, minted, fate>>
        /\ session'.status # "unlocked"
    BY <1>1, Statuses DEF Probe, disk
  <2>. QED  BY <1>0, <2>1 DEF MemInv, Traces, SessionMatches, CallsKnow
<1>2. CASE Lock
  <2>1. ASSUME NEW c \in Calls
        PROVE  /\ calls'[c].pc = calls[c].pc /\ calls'[c].held = calls[c].held
               /\ calls'[c].fresh = calls[c].fresh /\ calls'[c].list = calls[c].list
               /\ calls'[c].older = calls[c].older
    <3>1. calls[c] \in Call /\ calls'[c] = [calls[c] EXCEPT !.prompted = FALSE]
      BY <1>0, <1>2, UnderWay DEF Lock
    <3>2. [calls[c] EXCEPT !.prompted = FALSE].pc = calls[c].pc
      BY <3>1 DEF Call
    <3>3. [calls[c] EXCEPT !.prompted = FALSE].held = calls[c].held
      BY <3>1 DEF Call
    <3>4. [calls[c] EXCEPT !.prompted = FALSE].fresh = calls[c].fresh
      BY <3>1 DEF Call
    <3>5. [calls[c] EXCEPT !.prompted = FALSE].list = calls[c].list
      BY <3>1 DEF Call
    <3>6. [calls[c] EXCEPT !.prompted = FALSE].older = calls[c].older
      BY <3>1 DEF Call
    <3>. QED  BY <3>1, <3>2, <3>3, <3>4, <3>5, <3>6
  <2>2. UNCHANGED <<envelope, retired, secret, minted, fate>> /\ session'.status # "unlocked"
    BY <1>2, Statuses DEF Lock, disk
  <2>3. ASSUME NEW c \in Calls
        PROVE  Knows(c, calls'[c], envelope', retired', secret', fate')
    <3>1. Knows(c, calls[c], envelope, retired, secret, fate)
      BY DEF MemInv, CallsKnow
    <3>2. Mine(calls'[c]) = Mine(calls[c])
      BY <2>1 DEF Mine
    <3>. QED  BY <2>1, <2>2, <3>1, <3>2 DEF Knows
  <2>4. Traces' /\ SessionMatches'
    BY <2>2 DEF MemInv, Traces, SessionMatches
  <2>. QED  BY <1>0, <2>3, <2>4 DEF MemInv, CallsKnow
<1>3. CASE UseApp \/ UNCHANGED vars
  <2>1. UNCHANGED <<envelope, retired, secret, session, calls, minted, fate>>
    BY <1>3 DEF UseApp, vars
  <2>2. Recov(envelope', retired', secret') = Recov(envelope, retired, secret)
    BY <2>1
  <2>. QED  BY <1>0, <2>1, <2>2 DEF MemInv, Traces, SessionMatches, CallsKnow, At
<1>4. CASE Crash
  <2>1. /\ UNCHANGED <<envelope, retired, secret, minted, fate>>
        /\ session'.status = "loading" /\ \A c \in Calls : calls'[c].pc = "idle"
    BY <1>4, Statuses DEF Crash, disk, Resting
  <2>. QED  BY <1>0, <2>1, NoneKnows DEF MemInv, Traces, SessionMatches
<1>5. ASSUME NEW c \in Setups, SetupStep(c) PROVE MemInv'
  BY <1>0, <1>5, SetupRemembers
<1>6. ASSUME NEW c \in Unlocks, UnlockStep(c) PROVE MemInv'
  BY <1>0, <1>6, UnlockRemembers
<1>7. ASSUME NEW c \in Rotates, RotateStep(c) PROVE MemInv'
  BY <1>0, <1>7, RotateRemembers
<1>8. ASSUME NEW c \in Wipes, WipeStep(c) PROVE MemInv'
  BY <1>0, <1>8, WipeRemembers
<1>9. ASSUME NEW c \in Calls, CallFails(c) PROVE MemInv'
  <2>1. UNCHANGED <<envelope, retired, secret, session, minted, fate>> /\ Settle(c)
        /\ ~At(c, "idle") /\ ~At(c, "publish")
    BY <1>9 DEF CallFails, disk, At
  <2>2. \A d \in Calls : calls'[d].pc = "idle"
    BY <2>1, Known DEF Settle, Resting, At
  <2>3. \A d \in Calls : ~At(d, "publish")
    BY <2>1, Known DEF At
  <2>4. Traces' /\ SessionMatches'
    BY <2>1, <2>3, Known, MemoryFrame
  <2>. QED  BY <1>0, <2>2, <2>4, NoneKnows DEF MemInv
<1>. QED  BY <1>1, <1>2, <1>3, <1>4, <1>5, <1>6, <1>7, <1>8, <1>9 DEF Next

\* With every call at rest, the session holds what the disk would give back.
LEMMA RememberedMatches == MemInv => MemoryMatchesDisk
<1>. SUFFICES ASSUME MemInv, session.status = "unlocked", \A c \in Calls : At(c, "idle")
              PROVE  MemoryMatchesDisk!2
  BY DEF MemoryMatchesDisk
<1>1. \A c \in Calls : ~At(c, "publish")
  BY DEF At
<1>. QED  BY <1>1, RecoverableIsRecov DEF MemInv, SessionMatches

\* No trace, on disk or in memory, is of a wiped key.
LEMMA TracesIrreversible == MemInv => WipeIrreversible
<1>. SUFFICES ASSUME MemInv, NEW k \in Keys, fate[k] = "wiped"
              PROVE  k \notin Recoverable \cup {session.active} \cup session.older
  BY DEF WipeIrreversible
<1>1. k \notin Recoverable
  BY DEF Recoverable, MemInv, Traces, Extant
<1>2. k \notin {session.active} \cup session.older
  <2>1. CASE session.status = "unlocked"
    BY <2>1 DEF MemInv, Traces, Extant
  <2>2. CASE session.status # "unlocked"
    <3>1. PICK s \in {"loading", "no_identity", "locked"} : session = Without(s)
      BY <2>2, Statuses DEF MemInv, KeysInv, ShapeInv, TypeOK, Session
    <3>2. session.active = None /\ session.older = {}
      BY <3>1 DEF Without
    <3>. QED  BY <3>2, MachineAssumption DEF MachineAssumption
  <2>. QED  BY <2>1, <2>2
<1>. QED  BY <1>1, <1>2

\* The two theorems below read off one inductive invariant.
LEMMA MemoryInvariant == ASSUME Overlap = FALSE PROVE Spec => []MemInv
<1>1. Init => MemInv
  BY InitMemory
<1>2. MemInv /\ [Next]_vars => MemInv'
  BY StepMemory
<1>. QED  BY <1>1, <1>2, PTL DEF Spec

\* unlock and rotate publish the keypairs a relaunch would find: while calls do not
\* overlap, no crash, lock or failing call makes memory and disk disagree for good.
THEOREM MemoryAgreesWithDisk == ASSUME Overlap = FALSE PROVE Spec => []MemoryMatchesDisk
<1>. QED  BY MemoryInvariant, RememberedMatches, PTL

\* wipe's promise: once it returned, no relaunch, unlock or rotation brings back a key
\* of the wiped identity, however many deletions of an earlier wipe had failed.
THEOREM WipedForGood == ASSUME Overlap = FALSE PROVE Spec => []WipeIrreversible
<1>. QED  BY MemoryInvariant, TracesIrreversible, PTL
-------------------------------------------------------------------------------
(* Calls that overlap: one rotation loses no key.                              *)

SetupPcs == {"create", "persist", "adopt"}
WriterPcs == {"retain", "flip", "publish"}
OnDisk(k, env, ret, sec) == k = env.key \/ [key |-> k, secret |-> sec] \in ret

\* What a call suspended as r may rely on, whatever else is suspended.  Before the
\* one rotation there is nothing on the retired list, and after it no key is left
\* for another; its list is what it retires.
Relies(r, env, ret, sec, ft) ==
  LET entry == [key |-> r.held.key, secret |-> r.held.secret] IN
  /\ r.pc \in PCs \ {"rewrap", "dropActive", "dropRetired", "dropSecret", "dropBlobs", "leave"}
  /\ r.pc \in {"create", "persist"} => env = NoEnvelope /\ ft[r.fresh] # "unmade"
  /\ r.pc \in {"persist", "adopt"} =>
       r.held.key = r.fresh /\ r.held.secret = sec /\ ~r.held.heavy
  /\ r.pc = "adopt" => env = r.held
  /\ r.pc \in {"prompt", "unwrap", "enter", "load"} =>
       /\ r.held # NoEnvelope /\ OnDisk(r.held.key, env, ret, sec)
  /\ r.pc \in {"prompt", "unwrap", "enter", "load"} \cup WriterPcs => ~r.held.heavy
  /\ r.pc \in {"load", "retain", "flip"} => r.held.secret = sec
  /\ r.pc = "retain" => ret = {} /\ r.list = {entry}
  /\ r.pc \in {"retain", "flip"} => env # NoEnvelope /\ env.key = r.held.key
  /\ r.pc = "flip" => entry \in ret
  /\ r.pc = "publish" => env.key = r.fresh
  /\ r.pc \in WriterPcs => \A k \in Keys : ft[k] # "unmade"

CallsRely == \A c \in Calls : Relies(calls[c], envelope, retired, secret, fate)

\* One setup at a time, and one rotation past its load.
Apart ==
  /\ \A c \in Calls : calls[c].pc \in SetupPcs => c \in Setups
  /\ \A c, d \in Calls :
       \/ calls[c].pc \in SetupPcs /\ calls[d].pc \in SetupPcs
       \/ calls[c].pc \in WriterPcs /\ calls[d].pc \in WriterPcs
       => c = d

\* A stored envelope is a light one under the slot's secret, of a key that was made.
StoreRelies ==
  /\ EnvelopeOpens /\ KeysSafe
  /\ envelope # NoEnvelope => ~envelope.heavy /\ fate[envelope.key] # "unmade"
  /\ retired # {} => \A k \in Keys : fate[k] # "unmade"

\* A setup has the machine to itself; any other call finds an identity stored.
SessionRelies ==
  /\ session.status = "loading" => \A c \in Calls : At(c, "idle")
  /\ session.status = "no_identity" =>
       /\ \A c \in Calls : calls[c].pc \in {"idle"} \cup SetupPcs
       /\ envelope = NoEnvelope \/ \E c \in Calls : At(c, "adopt")
  /\ session.status \in {"locked", "unlocked"} =>
       envelope # NoEnvelope /\ \A c \in Calls : calls[c].pc \notin SetupPcs
  /\ session.status = "unlocked" => OnDisk(session.active, envelope, retired, secret)

OverlapInv == ShapeInv /\ CallsRely /\ Apart /\ StoreRelies /\ SessionRelies

\* What the invariant says of a call, and what TypeOK says of the rest.
LEMMA OverlapFacts ==
  ASSUME OverlapInv, NEW c \in Calls
  PROVE  /\ calls[c] \in Call /\ Shaped(c, calls[c])
         /\ Relies(calls[c], envelope, retired, secret, fate)
         /\ calls \in [Calls -> Call]
         /\ fate \in [Keys -> {"unmade", "made", "kept", "doomed", "wiped"}]
         /\ session \in Session
         /\ envelope \in Wrapped \cup {NoEnvelope}
         /\ retired \subseteq [key : Keys, secret : Secrets]
         /\ None \notin Keys /\ Unlocks \cap Rotates = {}
  BY MachineAssumption DEF OverlapInv, ShapeInv, TypeOK, CallsShaped, CallsRely, MachineAssumption

\* A step of one call that leaves the others what they rely on.
LEMMA OverlapMoves ==
  ASSUME OverlapInv, NEW c \in Calls, NEW n \in Call, calls' = [calls EXCEPT ![c] = n],
         Relies(n, envelope', retired', secret', fate'),
         \A d \in Calls : d # c => Relies(calls[d], envelope', retired', secret', fate'),
         n.pc \in SetupPcs =>
           c \in Setups /\ \A d \in Calls : d # c => calls[d].pc \notin SetupPcs,
         n.pc \in WriterPcs => \A d \in Calls : d # c => calls[d].pc \notin WriterPcs
  PROVE  /\ CallsRely' /\ Apart'
         /\ calls'[c] = n /\ \A d \in Calls : d # c => calls'[d] = calls[d]
<1>1. \A d \in Calls : calls'[d] = IF d = c THEN n ELSE calls[d]
  BY DEF OverlapInv, ShapeInv, TypeOK
<1>2. CallsRely'
  <2>1. ASSUME NEW d \in Calls
        PROVE  Relies(calls'[d], envelope', retired', secret', fate')
    BY <1>1
  <2>. QED  BY <2>1 DEF CallsRely
<1>3. Apart'
  BY <1>1 DEF OverlapInv, Apart
<1>. QED  BY <1>1, <1>2, <1>3

\* What a call relies on stays true while the keychain is not written to.
LEMMA Undisturbed ==
  ASSUME OverlapInv, UNCHANGED <<envelope, retired, secret>>,
         \A k \in Keys : fate'[k] = "unmade" => fate[k] = "unmade",
         NEW d \in Calls
  PROVE  Relies(calls[d], envelope', retired', secret', fate')
<1>1. Relies(calls[d], envelope, retired, secret, fate) /\ Shaped(d, calls[d])
  BY OverlapFacts
<1>. QED  BY <1>1 DEF Relies, Shaped

\* A call at rest relies on nothing.
LEMMA RestingRelies ==
  \A env, ret, sec, ft : Relies(Resting, env, ret, sec, ft)
BY DEF Relies, Resting, PCs, SetupPcs, WriterPcs

\* A call that settles leaves the keychain as it was.
LEMMA OverlapSettles ==
  ASSUME OverlapInv, UNCHANGED <<envelope, retired, secret>>,
         \A k \in Keys : fate'[k] = "unmade" => fate[k] = "unmade",
         NEW c \in Calls, Settle(c)
  PROVE  /\ CallsRely' /\ Apart'
         /\ At(c, "idle")' /\ \A d \in Calls : d # c => calls'[d] = calls[d]
<1>1. Resting \in Call /\ Resting.pc = "idle"
  BY RestingIsCall DEF Resting
<1>2. calls' = [calls EXCEPT ![c] = Resting]
  BY DEF Settle
<1>3. Relies(Resting, envelope', retired', secret', fate')
  BY RestingRelies
<1>4. \A d \in Calls : d # c => Relies(calls[d], envelope', retired', secret', fate')
  BY Undisturbed
<1>. QED  BY <1>1, <1>2, <1>3, <1>4, OverlapMoves DEF SetupPcs, WriterPcs, At

\* Announcing a key that a relaunch would bring back.
LEMMA OverlapAnnounce ==
  ASSUME OverlapInv, UNCHANGED <<envelope, retired, secret>>, NEW k \in Keys, Announce(k),
         envelope # NoEnvelope, OnDisk(k, envelope, retired, secret)
  PROVE  /\ StoreRelies'
         /\ \A j \in Keys : fate'[j] = "unmade" => fate[j] = "unmade"
<1>1. \A j \in Keys : fate'[j] = IF j = k /\ fate[j] = "made" THEN "kept" ELSE fate[j]
  BY DEF Announce, OverlapInv, ShapeInv, TypeOK
<1>2. envelope.key \in Keys
  BY DEF OverlapInv, ShapeInv, TypeOK, Wrapped
<1>3. EnvelopeOpens'
  BY DEF OverlapInv, StoreRelies, EnvelopeOpens
<1>4. KeysSafe'
  BY <1>1 DEF OverlapInv, StoreRelies, KeysSafe, OnDisk
<1>. QED  BY <1>1, <1>2, <1>3, <1>4 DEF OverlapInv, StoreRelies

\* The store is as safe as it was while neither it nor the keys' history changes.
LEMMA StoreStays ==
  ASSUME OverlapInv, UNCHANGED <<envelope, retired, secret, fate>>
  PROVE  StoreRelies'
BY DEF OverlapInv, StoreRelies, EnvelopeOpens, KeysSafe

\* The machine's state when a call beside the setups moves on and the state stays.
LEMMA SessionStays ==
  ASSUME OverlapInv, UNCHANGED <<envelope, retired, secret, session>>, NEW c \in Calls,
         session.status \in {"locked", "unlocked"},
         calls'[c].pc \notin SetupPcs,
         \A d \in Calls : d # c => calls'[d] = calls[d]
  PROVE  SessionRelies'
BY DEF OverlapInv, SessionRelies

\* Setup's awaits are of setups; any other call is under way only over an identity.
LEMMA WhoseTurn ==
  ASSUME OverlapInv, NEW c \in Calls
  PROVE  /\ calls[c].pc \in SetupPcs => session.status = "no_identity"
         /\ calls[c].pc \notin SetupPcs \cup {"idle"} =>
              /\ session.status \in {"locked", "unlocked"}
              /\ envelope # NoEnvelope
<1>1. session.status \in {"loading", "no_identity", "locked", "unlocked"}
  BY DEF OverlapInv, ShapeInv, TypeOK, Session, Without, Unlocked
<1>. QED  BY <1>1 DEF OverlapInv, SessionRelies, SetupPcs, At

-------------------------------------------------------------------------------
\* A setup's steps: it has the machine to itself, over an empty envelope.
LEMMA OverlapSetup ==
  ASSUME OverlapInv, ShapeInv', NEW c \in Setups, SetupStep(c)
  PROVE  OverlapInv'
<1>. DEFINE r == calls[c]
<1>0. /\ c \in Calls /\ r \in Call /\ Shaped(c, r)
      /\ Relies(r, envelope, retired, secret, fate)
      /\ calls \in [Calls -> Call] /\ None \notin Keys
      /\ fate \in [Keys -> {"unmade", "made", "kept", "doomed", "wiped"}]
      /\ envelope \in Wrapped \cup {NoEnvelope}
  BY OverlapFacts DEF Calls
<1>r. r \in Call
  BY <1>0
<1>1. r.pc \in SetupPcs =>
        /\ session.status = "no_identity"
        /\ \A d \in Calls : d # c => At(d, "idle")
  BY <1>0, WhoseTurn DEF OverlapInv, SessionRelies, Apart, At
<1>2. \A d \in Calls : At(d, "idle") =>
        \A env, ret, sec, ft : Relies(calls[d], env, ret, sec, ft)
  BY DEF Relies, At, PCs, SetupPcs, WriterPcs
<1>3. ASSUME NEW k \in Keys, SetupStart(c, k) PROVE OverlapInv'
  <2>. DEFINE n == [Resting EXCEPT !.pc = "create", !.fresh = k]
  <2>0. /\ session.status = "no_identity" /\ \A d \in Setups : At(d, "idle")
        /\ UNCHANGED <<envelope, retired, secret, session>>
    BY <1>3 DEF SetupStart, Settable, disk
  <2>1. n \in Call /\ n.pc = "create" /\ n.fresh = k
    <3>1. n \in Call
      BY RestingIsCall DEF Call
    <3>2. n.pc = "create" /\ n.fresh = k
      BY RestingIsCall DEF Call
    <3>. QED  BY <3>1, <3>2
  <2>2. calls' = [calls EXCEPT ![c] = n]
    BY <1>3 DEF SetupStart
  <2>. HIDE DEF n
  <2>3. \A d \in Calls : At(d, "idle")
    BY <2>0 DEF OverlapInv, SessionRelies, Apart, At
  <2>4. envelope = NoEnvelope
    BY <2>0, <2>3 DEF OverlapInv, SessionRelies, At
  <2>5. Relies(n, envelope', retired', secret', fate')
    <3>1. fate'[k] = "made"
      BY <1>0, <1>3 DEF SetupStart
    <3>. QED  BY <2>0, <2>1, <2>4, <3>1 DEF Relies, PCs, SetupPcs, WriterPcs
  <2>6. /\ CallsRely' /\ Apart'
        /\ calls'[c] = n /\ \A d \in Calls : d # c => calls'[d] = calls[d]
    BY <1>0, <1>2, <2>1, <2>2, <2>3, <2>5, OverlapMoves DEF SetupPcs, WriterPcs, At
  <2>7. StoreRelies'
    <3>1. \A j \in Keys : fate'[j] = IF j = k THEN "made" ELSE fate[j]
      BY <1>0, <1>3 DEF SetupStart
    <3>. QED  BY <2>0, <2>4, <3>1 DEF OverlapInv, StoreRelies, EnvelopeOpens, KeysSafe
  <2>8. SessionRelies'
    BY <2>0, <2>1, <2>3, <2>4, <2>6 DEF SessionRelies, SetupPcs, At
  <2>. QED  BY <2>6, <2>7, <2>8 DEF OverlapInv
<1>4. ASSUME SetupSecret(c) PROVE OverlapInv'
  <2>. DEFINE w == [key |-> r.fresh, secret |-> minted', heavy |-> FALSE]
              n == [calls[c] EXCEPT !.pc = "persist", !.held = w]
  <2>0. /\ w \in Wrapped \cup {NoEnvelope}
        /\ envelope = NoEnvelope
        /\ w.key = r.fresh /\ w.secret = secret' /\ ~w.heavy
        /\ fate'[r.fresh] # "unmade"
    BY <1>0, <1>4 DEF SetupSecret, At, Relies, Shaped, Wrapped, OverlapInv, ShapeInv, TypeOK
  <2>w. w \in Wrapped \cup {NoEnvelope}
    BY <2>0
  <2>1. n \in Call /\ n.pc = "persist" /\ n.fresh = r.fresh /\ n.held = w
    <3>1. n \in Call
      BY <1>r, <2>w DEF Call
    <3>2. n.pc = "persist" /\ n.fresh = r.fresh /\ n.held = w
      BY <1>0 DEF Call
    <3>. QED  BY <3>1, <3>2
  <2>2. calls' = [calls EXCEPT ![c] = n]
    BY <1>0, <1>4 DEF SetupSecret
  <2>. HIDE DEF n
  <2>3. \A d \in Calls : d # c => At(d, "idle")
    BY <1>1, <1>4 DEF SetupSecret, At, SetupPcs
  <2>4. Relies(n, envelope', retired', secret', fate')
    BY <1>4, <2>0, <2>1 DEF Relies, SetupSecret, PCs, SetupPcs, WriterPcs
  <2>5. /\ CallsRely' /\ Apart'
        /\ calls'[c] = n /\ \A d \in Calls : d # c => calls'[d] = calls[d]
    BY <1>0, <1>2, <2>1, <2>2, <2>3, <2>4, OverlapMoves DEF SetupPcs, WriterPcs, At
  <2>6. StoreRelies'
    BY <1>4, <2>0 DEF SetupSecret, OverlapInv, StoreRelies, EnvelopeOpens, KeysSafe
  <2>7. SessionRelies'
    BY <1>1, <1>4, <2>0, <2>1, <2>3, <2>5 DEF SetupSecret, SessionRelies, SetupPcs, At
  <2>. QED  BY <2>5, <2>6, <2>7 DEF OverlapInv
<1>5. ASSUME SetupPersist(c) PROVE OverlapInv'
  <2>. DEFINE n == [calls[c] EXCEPT !.pc = "adopt"]
  <2>1. n \in Call /\ n.pc = "adopt" /\ n.fresh = r.fresh /\ n.held = r.held
    <3>1. n \in Call
      BY <1>r DEF Call
    <3>2. n.pc = "adopt" /\ n.fresh = r.fresh /\ n.held = r.held
      BY <1>0 DEF Call
    <3>. QED  BY <3>1, <3>2
  <2>2. calls' = [calls EXCEPT ![c] = n]
    BY <1>0, <1>5 DEF SetupPersist
  <2>. HIDE DEF n
  <2>3. /\ \A d \in Calls : d # c => At(d, "idle")
        /\ session.status = "no_identity"
    BY <1>1, <1>5 DEF SetupPersist, At, SetupPcs
  <2>4. Relies(n, envelope', retired', secret', fate')
    BY <1>0, <1>5, <2>1 DEF Relies, SetupPersist, PCs, SetupPcs, WriterPcs, At
  <2>5. /\ CallsRely' /\ Apart'
        /\ calls'[c] = n /\ \A d \in Calls : d # c => calls'[d] = calls[d]
    BY <1>0, <1>2, <2>1, <2>2, <2>3, <2>4, OverlapMoves DEF SetupPcs, WriterPcs, At
  <2>6. fate[r.fresh] # "unmade"
    BY <1>0, <1>5 DEF SetupPersist, At, Relies
  <2>7. StoreRelies'
    BY <1>0, <1>5, <2>6 DEF SetupPersist, OverlapInv, StoreRelies, EnvelopeOpens, KeysSafe,
                            Relies, At
  <2>8. SessionRelies'
    BY <1>0, <1>5, <2>1, <2>3, <2>5 DEF SetupPersist, SessionRelies, SetupPcs, At
  <2>. QED  BY <2>5, <2>7, <2>8 DEF OverlapInv
<1>6. ASSUME SetupFinish(c) PROVE OverlapInv'
  <2>0. /\ \A d \in Calls : d # c => At(d, "idle")
        /\ r.fresh \in Keys /\ envelope = r.held /\ r.held.key = r.fresh
        /\ envelope # NoEnvelope
        /\ UNCHANGED <<envelope, retired, secret>>
    BY <1>0, <1>1, <1>6 DEF SetupFinish, At, SetupPcs, Relies, Shaped, NoEnvelope, disk
  <2>1. StoreRelies' /\ \A j \in Keys : fate'[j] = "unmade" => fate[j] = "unmade"
    BY <1>6, <2>0, OverlapAnnounce DEF SetupFinish, OnDisk
  <2>2. /\ CallsRely' /\ Apart'
        /\ At(c, "idle")' /\ \A d \in Calls : d # c => calls'[d] = calls[d]
    BY <1>0, <1>6, <2>0, <2>1, OverlapSettles DEF SetupFinish
  <2>3. session'.status = "unlocked" /\ session'.active = r.fresh
    BY <1>6, <2>0, Statuses DEF SetupFinish
  <2>4. SessionRelies'
    BY <2>0, <2>2, <2>3 DEF SessionRelies, SetupPcs, At, OnDisk
  <2>. QED  BY <2>1, <2>2, <2>4 DEF OverlapInv
<1>. QED  BY <1>3, <1>4, <1>5, <1>6 DEF SetupStep

-------------------------------------------------------------------------------
\* A call beside the setups goes on, and neither the keychain nor the machine's state
\* changes.
LEMMA OverlapGoesOn ==
  ASSUME OverlapInv, ShapeInv', NEW c \in Calls, NEW n \in Call,
         calls' = [calls EXCEPT ![c] = n],
         UNCHANGED <<envelope, retired, secret, session>>, StoreRelies',
         \A k \in Keys : fate'[k] = "unmade" => fate[k] = "unmade",
         session.status \in {"locked", "unlocked"},
         Relies(n, envelope', retired', secret', fate'),
         n.pc \notin SetupPcs,
         n.pc \in WriterPcs => \A d \in Calls : d # c => calls[d].pc \notin WriterPcs
  PROVE  OverlapInv'
<1>1. \A d \in Calls : d # c => Relies(calls[d], envelope', retired', secret', fate')
  BY Undisturbed
<1>2. /\ CallsRely' /\ Apart'
      /\ calls'[c] = n /\ \A d \in Calls : d # c => calls'[d] = calls[d]
  BY <1>1, OverlapMoves
<1>3. SessionRelies'
  BY <1>2, SessionStays
<1>. QED  BY <1>2, <1>3 DEF OverlapInv

\* A call beside the setups ends by publishing a key that is on disk.
LEMMA OverlapPublishes ==
  ASSUME OverlapInv, ShapeInv', NEW c \in Calls, calls[c].pc \notin SetupPcs \cup {"idle"},
         NEW k \in Keys, NEW S \in SUBSET Keys, session' = Unlocked(k, S),
         Announce(k), Settle(c), OnDisk(k, envelope, retired, secret),
         UNCHANGED <<envelope, retired, secret>>
  PROVE  OverlapInv'
<1>1. envelope # NoEnvelope /\ session.status \in {"locked", "unlocked"}
  BY WhoseTurn
<1>2. StoreRelies' /\ \A j \in Keys : fate'[j] = "unmade" => fate[j] = "unmade"
  BY <1>1, OverlapAnnounce
<1>3. /\ CallsRely' /\ Apart'
      /\ At(c, "idle")' /\ \A d \in Calls : d # c => calls'[d] = calls[d]
  BY <1>2, OverlapSettles
<1>4. session'.status = "unlocked" /\ session'.active = k
  BY Statuses
<1>5. \A d \in Calls : calls'[d].pc \notin SetupPcs
  BY <1>1, <1>3 DEF OverlapInv, SessionRelies, At, SetupPcs
<1>6. SessionRelies'
  BY <1>1, <1>4, <1>5 DEF SessionRelies
<1>. QED  BY <1>2, <1>3, <1>6 DEF OverlapInv

\* An unlock's steps: the key it holds stays on disk, whatever rotates meanwhile.
LEMMA OverlapUnlock ==
  ASSUME OverlapInv, ShapeInv', NEW c \in Unlocks, UnlockStep(c)
  PROVE  OverlapInv'
<1>. DEFINE r == calls[c]
<1>0. /\ c \in Calls /\ r \in Call /\ Shaped(c, r)
      /\ Relies(r, envelope, retired, secret, fate)
      /\ envelope \in Wrapped \cup {NoEnvelope}
      /\ retired \subseteq [key : Keys, secret : Secrets]
  BY OverlapFacts DEF Calls
<1>1. r \in Call /\ c \in Calls
  BY <1>0
<1>2. r.pc \notin SetupPcs \cup {"idle"} => session.status \in {"locked", "unlocked"}
  BY <1>0, WhoseTurn
<1>3. UNCHANGED <<envelope, retired, secret, fate>> => StoreRelies'
  BY StoreStays
<1>4. ASSUME UnlockStart(c) PROVE OverlapInv'
  <2>. DEFINE n == [Resting EXCEPT !.pc = "prompt", !.held = envelope]
  <2>0. envelope \in Wrapped \cup {NoEnvelope}
    BY <1>0
  <2>1. n \in Call /\ n.pc = "prompt" /\ n.held = envelope
    <3>1. n \in Call
      BY <2>0, RestingIsCall DEF Call
    <3>2. n.pc = "prompt" /\ n.held = envelope
      BY RestingIsCall DEF Call
    <3>. QED  BY <3>1, <3>2
  <2>2. calls' = [calls EXCEPT ![c] = n]
    BY <1>4 DEF UnlockStart
  <2>. HIDE DEF n
  <2>3. session.status = "locked" /\ UNCHANGED <<envelope, retired, secret, session, fate>>
    BY <1>4 DEF UnlockStart, disk
  <2>4. envelope # NoEnvelope /\ ~envelope.heavy
    BY <2>3 DEF OverlapInv, SessionRelies, StoreRelies
  <2>5. Relies(n, envelope', retired', secret', fate')
    BY <2>1, <2>3, <2>4 DEF Relies, OnDisk, PCs, SetupPcs, WriterPcs
  <2>. QED  BY <1>1, <1>3, <2>1, <2>2, <2>3, <2>5, OverlapGoesOn DEF SetupPcs, WriterPcs
<1>5. ASSUME UnlockNothing(c) PROVE OverlapInv'
  BY <1>0, <1>5 DEF UnlockNothing, At, Relies
<1>6. ASSUME UnlockPrompt(c) PROVE OverlapInv'
  <2>. DEFINE n == [calls[c] EXCEPT !.pc = "unwrap", !.prompted = TRUE]
  <2>1. n \in Call /\ n.pc = "unwrap" /\ n.held = r.held
    <3>1. n \in Call
      BY <1>1 DEF Call
    <3>2. n.pc = "unwrap" /\ n.held = r.held
      BY <1>1 DEF Call
    <3>. QED  BY <3>1, <3>2
  <2>2. calls' = [calls EXCEPT ![c] = n]
    BY <1>1, <1>6 DEF UnlockPrompt
  <2>. HIDE DEF n
  <2>3. r.pc = "prompt" /\ UNCHANGED <<envelope, retired, secret, session, fate>>
    BY <1>6 DEF UnlockPrompt, At, disk
  <2>4. Relies(n, envelope', retired', secret', fate')
    BY <1>0, <2>1, <2>3 DEF Relies, PCs, SetupPcs, WriterPcs
  <2>. QED  BY <1>1, <1>2, <1>3, <2>1, <2>2, <2>3, <2>4, OverlapGoesOn DEF SetupPcs, WriterPcs
<1>7. ASSUME UnlockRetired(c) PROVE OverlapInv'
  <2>. DEFINE S == {e.key : e \in {f \in RetiredExcludingActive(r.held.key) :
                                     f.secret = r.held.secret}}
              n == [calls[c] EXCEPT !.pc = "enter", !.older = S]
  <2>0. S \in SUBSET Keys
    BY <1>0 DEF RetiredExcludingActive
  <2>1. n \in Call /\ n.pc = "enter" /\ n.held = r.held
    <3>. HIDE DEF S
    <3>1. n \in Call
      BY <1>1, <2>0 DEF Call
    <3>2. n.pc = "enter" /\ n.held = r.held
      BY <1>1 DEF Call
    <3>. QED  BY <3>1, <3>2
  <2>2. calls' = [calls EXCEPT ![c] = n]
    BY <1>1, <1>7 DEF UnlockRetired
  <2>. HIDE DEF n
  <2>3. r.pc = "unwrap" /\ UNCHANGED <<envelope, retired, secret, session, fate>>
    BY <1>7 DEF UnlockRetired, At, disk
  <2>4. Relies(n, envelope', retired', secret', fate')
    BY <1>0, <2>1, <2>3 DEF Relies, PCs, SetupPcs, WriterPcs
  <2>. QED  BY <1>1, <1>2, <1>3, <2>1, <2>2, <2>3, <2>4, OverlapGoesOn DEF SetupPcs, WriterPcs
<1>8. ASSUME UnlockFinish(c) PROVE OverlapInv'
  <2>1. /\ r.pc = "enter" /\ ~r.held.heavy /\ r.held.key \in Keys /\ r.older \in SUBSET Keys
        /\ OnDisk(r.held.key, envelope, retired, secret)
    BY <1>0, <1>8 DEF UnlockFinish, At, Relies, Shaped, Wrapped, Call
  <2>2. /\ Announce(r.held.key) /\ Settle(c) /\ session' = Unlocked(r.held.key, r.older)
        /\ UNCHANGED <<envelope, retired, secret>>
    BY <1>8, <2>1 DEF UnlockFinish, disk
  <2>. QED  BY <1>1, <2>1, <2>2, OverlapPublishes DEF SetupPcs
<1>9. ASSUME UnlockRewrap(c) PROVE OverlapInv'
  BY <1>0, <1>9 DEF UnlockRewrap, At, Relies
<1>. QED  BY <1>4, <1>5, <1>6, <1>7, <1>8, <1>9 DEF UnlockStep

-------------------------------------------------------------------------------
\* One of rotate's two writes, over a keychain that brings back all it did before.
LEMMA OverlapWrites ==
  ASSUME OverlapInv, ShapeInv', NEW c \in Calls, calls[c].pc \in {"retain", "flip"},
         NEW n \in Call, calls' = [calls EXCEPT ![c] = n], n.pc \in WriterPcs,
         Relies(n, envelope', retired', secret', fate'),
         UNCHANGED <<secret, session, fate>>,
         envelope' # NoEnvelope, envelope'.secret = secret, ~envelope'.heavy,
         envelope'.key \in Keys,
         \A k \in Keys : OnDisk(k, envelope, retired, secret)
                           => OnDisk(k, envelope', retired', secret')
  PROVE  OverlapInv'
<1>0. /\ \A k \in Keys : fate[k] # "unmade"
      /\ \A d \in Calls : d # c => calls[d].pc \notin WriterPcs
      /\ session.status \in {"locked", "unlocked"} /\ envelope # NoEnvelope
  BY OverlapFacts, WhoseTurn DEF Relies, OverlapInv, Apart, WriterPcs, SetupPcs
<1>1. ASSUME NEW d \in Calls, d # c
      PROVE  Relies(calls[d], envelope', retired', secret', fate')
  <2>1. Relies(calls[d], envelope, retired, secret, fate) /\ calls[d] \in Call
    BY OverlapFacts
  <2>2. calls[d].pc \notin SetupPcs \cup WriterPcs
    BY <1>0, <1>1 DEF OverlapInv, SessionRelies
  <2>3. calls[d].held # NoEnvelope => calls[d].held.key \in Keys
    BY <2>1 DEF Call, Wrapped
  <2>. QED  BY <2>1, <2>2, <2>3 DEF Relies, SetupPcs, WriterPcs
<1>2. /\ CallsRely' /\ Apart'
      /\ calls'[c] = n /\ \A d \in Calls : d # c => calls'[d] = calls[d]
  BY <1>0, <1>1, OverlapMoves DEF SetupPcs, WriterPcs
<1>3. StoreRelies'
  <2>1. \A k \in Keys : fate[k] = "kept" => OnDisk(k, envelope, retired, secret)
    BY DEF OverlapInv, StoreRelies, KeysSafe, OnDisk
  <2>2. KeysSafe'
    BY <2>1 DEF KeysSafe, OnDisk
  <2>. QED  BY <1>0, <2>2 DEF StoreRelies, EnvelopeOpens
<1>4. SessionRelies'
  <2>1. session.status = "unlocked" => session.active \in Keys
    BY Sessions DEF OverlapInv, ShapeInv, TypeOK
  <2>2. \A d \in Calls : calls'[d].pc \notin SetupPcs
    BY <1>0, <1>2 DEF OverlapInv, SessionRelies, SetupPcs, WriterPcs
  <2>. QED  BY <1>0, <2>1, <2>2 DEF OverlapInv, SessionRelies
<1>. QED  BY <1>2, <1>3, <1>4 DEF OverlapInv

\* At most one rotation in the life of the device: of two keys, one is there before.
TwoKeys == \A i, j, k \in Keys : i = j \/ j = k \/ i = k

\* A rotation's steps: before its load the retired list is empty, and its snapshot
\* names the stored key; after it no other call writes.
LEMMA OverlapRotate ==
  ASSUME OverlapInv, TwoKeys, ShapeInv', NEW c \in Rotates, RotateStep(c)
  PROVE  OverlapInv'
<1>. DEFINE r == calls[c]
<1>0. /\ c \in Calls /\ r \in Call /\ Shaped(c, r)
      /\ Relies(r, envelope, retired, secret, fate)
      /\ fate \in [Keys -> {"unmade", "made", "kept", "doomed", "wiped"}]
      /\ session \in Session
      /\ envelope \in Wrapped \cup {NoEnvelope}
      /\ None \notin Keys
  BY OverlapFacts DEF Calls
<1>1. r \in Call /\ c \in Calls
  BY <1>0
<1>2. r.pc \notin SetupPcs \cup {"idle"} =>
        session.status \in {"locked", "unlocked"} /\ envelope # NoEnvelope
  BY <1>0, WhoseTurn
<1>3. UNCHANGED <<envelope, retired, secret, fate>> => StoreRelies'
  BY StoreStays
<1>4. ASSUME RotateStart(c) PROVE OverlapInv'
  <2>. DEFINE w == [key |-> session.active, secret |-> 0, heavy |-> FALSE]
              n == [Resting EXCEPT !.pc = "prompt", !.held = w, !.older = session.older]
  <2>1. /\ session.status = "unlocked" /\ session.active \in Keys /\ session.older \in SUBSET Keys
        /\ UNCHANGED <<envelope, retired, secret, session, fate>>
    BY <1>0, <1>4, Sessions DEF RotateStart, disk
  <2>2. w \in Wrapped /\ w # NoEnvelope /\ w.key = session.active /\ ~w.heavy
    BY <1>0, <2>1, MachineAssumption DEF Wrapped, NoEnvelope, Secrets, MachineAssumption
  <2>3. calls' = [calls EXCEPT ![c] = n]
    BY <1>4 DEF RotateStart
  <2>. HIDE DEF w
  <2>4. n \in Call /\ n.pc = "prompt" /\ n.held = w
    <3>1. n \in Call
      BY <2>1, <2>2, RestingIsCall DEF Call
    <3>2. n.pc = "prompt" /\ n.held = w
      BY RestingIsCall DEF Call
    <3>. QED  BY <3>1, <3>2
  <2>. HIDE DEF n
  <2>5. OnDisk(w.key, envelope, retired, secret)
    BY <2>1, <2>2 DEF OverlapInv, SessionRelies
  <2>6. Relies(n, envelope', retired', secret', fate')
    BY <2>1, <2>2, <2>4, <2>5 DEF Relies, PCs, SetupPcs, WriterPcs
  <2>. QED  BY <1>1, <1>3, <2>1, <2>3, <2>4, <2>6, OverlapGoesOn DEF SetupPcs, WriterPcs
<1>5. ASSUME RotatePrompt(c) PROVE OverlapInv'
  <2>. DEFINE w == [r.held EXCEPT !.secret = secret]
              n == [calls[c] EXCEPT !.pc = "load", !.held = w, !.prompted = TRUE]
  <2>1. r.pc = "prompt" /\ UNCHANGED <<envelope, retired, secret, session, fate>>
    BY <1>5 DEF RotatePrompt, At, disk
  <2>2. /\ w \in Wrapped /\ w # NoEnvelope
        /\ w.key = r.held.key /\ w.secret = secret /\ w.heavy = r.held.heavy
    BY <1>0, <2>1 DEF Shaped, Wrapped, NoEnvelope, OverlapInv, ShapeInv, TypeOK
  <2>3. calls' = [calls EXCEPT ![c] = n]
    BY <1>0, <1>5 DEF RotatePrompt, Call
  <2>. HIDE DEF w
  <2>4. n \in Call /\ n.pc = "load" /\ n.held = w
    <3>1. n \in Call
      BY <1>1, <2>2 DEF Call
    <3>2. n.pc = "load" /\ n.held = w
      BY <1>1 DEF Call
    <3>. QED  BY <3>1, <3>2
  <2>. HIDE DEF n
  <2>5. Relies(n, envelope', retired', secret', fate')
    BY <1>0, <2>1, <2>2, <2>4 DEF Relies, PCs, SetupPcs, WriterPcs
  <2>. QED  BY <1>1, <1>2, <1>3, <2>1, <2>3, <2>4, <2>5, OverlapGoesOn DEF SetupPcs, WriterPcs
<1>6. ASSUME NEW k \in Keys, RotateLoad(c, k) PROVE OverlapInv'
  <2>. DEFINE entry == [key |-> r.held.key, secret |-> r.held.secret]
              L == PrependRetired(entry)
              n == [calls[c] EXCEPT !.pc = "retain", !.fresh = k, !.list = L]
  <2>1. /\ r.pc = "load" /\ fate[k] = "unmade"
        /\ \A j \in Keys : fate'[j] = IF j = k THEN "made" ELSE fate[j]
        /\ UNCHANGED <<envelope, retired, secret, session>>
    BY <1>0, <1>6 DEF RotateLoad, At, disk
  <2>2. /\ r.held \in Wrapped /\ retired = {}
        /\ envelope # NoEnvelope /\ envelope.key = r.held.key /\ envelope.key \in Keys
        /\ fate[envelope.key] # "unmade"
    <3>1. r.held \in Wrapped /\ retired = {} /\ envelope # NoEnvelope
      BY <1>0, <1>2, <2>1 DEF Shaped, OverlapInv, StoreRelies, SetupPcs
    <3>2. envelope.key = r.held.key
      BY <1>0, <2>1, <3>1 DEF Relies, OnDisk
    <3>3. envelope.key \in Keys /\ fate[envelope.key] # "unmade"
      BY <1>0, <3>1 DEF Wrapped, OverlapInv, StoreRelies
    <3>. QED  BY <3>1, <3>2, <3>3
  <2>3. \A j \in Keys : fate'[j] # "unmade"
    BY <2>1, <2>2 DEF TwoKeys
  <2>4. L = {entry} /\ L \in SUBSET [key : Keys, secret : Secrets]
    BY <2>2 DEF PrependRetired, Wrapped
  <2>5. calls' = [calls EXCEPT ![c] = n]
    BY <1>6 DEF RotateLoad
  <2>. HIDE DEF L
  <2>6. n \in Call /\ n.pc = "retain" /\ n.held = r.held /\ n.list = L
    <3>1. n \in Call
      BY <1>1, <2>4 DEF Call
    <3>2. n.pc = "retain" /\ n.held = r.held /\ n.list = L
      BY <1>1 DEF Call
    <3>. QED  BY <3>1, <3>2
  <2>. HIDE DEF n
  <2>7. Relies(n, envelope', retired', secret', fate')
    BY <1>0, <2>1, <2>2, <2>3, <2>4, <2>6 DEF Relies, PCs, SetupPcs, WriterPcs
  <2>8. \A d \in Calls : calls[d].pc \notin WriterPcs
    BY <2>1 DEF OverlapInv, CallsRely, Relies
  <2>9. StoreRelies'
    BY <2>1, <2>2 DEF OverlapInv, StoreRelies, EnvelopeOpens, KeysSafe
  <2>. QED  BY <1>1, <1>2, <2>1, <2>5, <2>6, <2>7, <2>8, <2>9, OverlapGoesOn
            DEF SetupPcs, WriterPcs
<1>7. ASSUME RotateWrite(c) PROVE OverlapInv'
  <2>. DEFINE p == IF r.pc = "retain" THEN "flip" ELSE "publish"
              n == [calls[c] EXCEPT !.pc = p]
  <2>0. /\ r.pc \in {"retain", "flip"} /\ UNCHANGED <<secret, session, fate>>
        /\ r.held \in Wrapped /\ r.fresh \in Keys
        /\ envelope # NoEnvelope /\ envelope.key = r.held.key /\ r.held.secret = secret
        /\ ~r.held.heavy /\ envelope.key \in Keys
        /\ envelope.secret = secret /\ ~envelope.heavy
    BY <1>0, <1>7 DEF RotateWrite, Relies, Shaped, Wrapped, WriterPcs,
                      OverlapInv, StoreRelies, EnvelopeOpens
  <2>1. n \in Call /\ n.pc = p /\ n.held = r.held /\ n.fresh = r.fresh
    <3>1. n \in Call
      BY <1>1 DEF Call
    <3>2. n.pc = p /\ n.held = r.held /\ n.fresh = r.fresh
      BY <1>1 DEF Call
    <3>. QED  BY <3>1, <3>2
  <2>2. calls' = [calls EXCEPT ![c] = n]
    BY <1>1, <1>7 DEF RotateWrite
  <2>. HIDE DEF n
  <2>3. CASE r.pc = "retain"
    <3>1. retired = {} /\ retired' = {[key |-> r.held.key, secret |-> r.held.secret]}
          /\ envelope' = envelope
      BY <1>0, <1>7, <2>3 DEF RotateWrite, Write, At, Relies
    <3>2. Relies(n, envelope', retired', secret', fate')
      BY <1>0, <2>0, <2>1, <2>3, <3>1 DEF Relies, PCs, SetupPcs, WriterPcs
    <3>3. \A k \in Keys : OnDisk(k, envelope, retired, secret)
                            => OnDisk(k, envelope', retired', secret')
      BY <3>1 DEF OnDisk
    <3>. QED  BY <1>1, <2>0, <2>1, <2>2, <2>3, <3>1, <3>2, <3>3, OverlapWrites DEF WriterPcs
  <2>4. CASE r.pc = "flip"
    <3>1. /\ [key |-> r.held.key, secret |-> r.held.secret] \in retired
          /\ retired' = retired /\ envelope' = [r.held EXCEPT !.key = r.fresh]
      BY <1>0, <1>7, <2>4 DEF RotateWrite, Write, At, Relies
    <3>2. /\ envelope'.key = r.fresh /\ envelope'.secret = secret /\ ~envelope'.heavy
          /\ envelope' # NoEnvelope
      BY <1>0, <2>0, <3>1 DEF Wrapped, NoEnvelope
    <3>3. Relies(n, envelope', retired', secret', fate')
      BY <1>0, <2>0, <2>1, <2>4, <3>1, <3>2 DEF Relies, PCs, SetupPcs, WriterPcs
    <3>4. \A k \in Keys : OnDisk(k, envelope, retired, secret)
                            => OnDisk(k, envelope', retired', secret')
      BY <2>0, <3>1 DEF OnDisk
    <3>. QED  BY <1>1, <2>0, <2>1, <2>2, <2>4, <3>2, <3>3, <3>4, OverlapWrites DEF WriterPcs
  <2>. QED  BY <2>0, <2>3, <2>4
<1>8. ASSUME RotateFinish(c) PROVE OverlapInv'
  <2>1. /\ r.pc = "publish" /\ r.fresh \in Keys /\ r.held.key \in Keys
        /\ r.older \in SUBSET Keys /\ envelope.key = r.fresh
    BY <1>0, <1>8 DEF RotateFinish, At, Relies, Shaped, Wrapped, Call
  <2>2. /\ Announce(r.fresh) /\ Settle(c)
        /\ session' = Unlocked(r.fresh, {r.held.key} \cup r.older)
        /\ UNCHANGED <<envelope, retired, secret>>
    BY <1>8 DEF RotateFinish, disk
  <2>3. {r.held.key} \cup r.older \in SUBSET Keys
    BY <2>1
  <2>. QED  BY <1>1, <2>1, <2>2, <2>3, OverlapPublishes DEF SetupPcs, OnDisk
<1>. QED  BY <1>4, <1>5, <1>6, <1>7, <1>8 DEF RotateStep

\* What is not a step of a call: the probe, a lock, the app's use, a crash, a failure.
LEMMA OverlapRest ==
  ASSUME OverlapInv, ShapeInv',
         Probe \/ Lock \/ UseApp \/ Crash \/ (\E c \in Calls : CallFails(c)) \/ UNCHANGED vars
  PROVE  OverlapInv'
<1>0. /\ \A c \in Calls : calls[c] \in Call /\ Relies(calls[c], envelope, retired, secret, fate)
      /\ calls \in [Calls -> Call] /\ session \in Session
  BY OverlapFacts DEF OverlapInv, ShapeInv, TypeOK
<1>1. UNCHANGED <<envelope, retired, secret, fate>>
  BY DEF Probe, Lock, UseApp, Crash, CallFails, vars, disk
<1>2. StoreRelies'
  BY <1>1, StoreStays
<1>3. CASE Probe
  <2>1. CallsRely' /\ Apart'
    BY <1>1, <1>3 DEF Probe, OverlapInv, CallsRely, Apart
  <2>2. /\ \A c \in Calls : At(c, "idle") /\ At(c, "idle")'
        /\ session'.status = IF envelope = NoEnvelope THEN "no_identity" ELSE "locked"
    BY <1>3, Statuses DEF Probe, OverlapInv, SessionRelies, At
  <2>3. SessionRelies'
    BY <1>1, <2>2 DEF SessionRelies, At, SetupPcs
  <2>. QED  BY <1>2, <2>1, <2>3 DEF OverlapInv
<1>4. CASE Lock
  <2>1. ASSUME NEW c \in Calls
        PROVE  /\ calls'[c].pc = calls[c].pc
               /\ Relies(calls'[c], envelope', retired', secret', fate')
    <3>1. calls'[c] = [calls[c] EXCEPT !.prompted = FALSE]
      BY <1>4 DEF Lock
    <3>2. /\ calls'[c].pc = calls[c].pc /\ calls'[c].held = calls[c].held
          /\ calls'[c].fresh = calls[c].fresh /\ calls'[c].list = calls[c].list
      BY <1>0, <3>1 DEF Call
    <3>. QED  BY <1>0, <1>1, <3>2 DEF Relies
  <2>2. CallsRely' /\ Apart'
    BY <2>1 DEF CallsRely, OverlapInv, Apart
  <2>3. session' = session \/ (session.status = "unlocked" /\ session'.status = "locked")
    BY <1>4, Statuses DEF Lock
  <2>4. SessionRelies'
    BY <1>1, <2>1, <2>3 DEF OverlapInv, SessionRelies, At
  <2>. QED  BY <1>2, <2>2, <2>4 DEF OverlapInv
<1>5. CASE Crash
  <2>1. \A c \in Calls : calls'[c] = Resting
    BY <1>5 DEF Crash
  <2>2. CallsRely'
    BY <2>1, RestingRelies DEF CallsRely
  <2>3. Apart' /\ SessionRelies'
    BY <1>5, <2>1, Statuses DEF Crash, Apart, SessionRelies, Resting, SetupPcs, WriterPcs, At
  <2>. QED  BY <1>2, <2>2, <2>3 DEF OverlapInv
<1>6. ASSUME NEW c \in Calls, CallFails(c) PROVE OverlapInv'
  <2>1. /\ CallsRely' /\ Apart'
        /\ At(c, "idle")' /\ \A d \in Calls : d # c => calls'[d] = calls[d]
    BY <1>1, <1>6, OverlapSettles DEF CallFails
  <2>2. calls[c].pc # "adopt" /\ session' = session
    BY <1>6 DEF CallFails
  <2>3. SessionRelies'
    BY <1>1, <2>1, <2>2 DEF OverlapInv, SessionRelies, At, SetupPcs
  <2>. QED  BY <1>2, <2>1, <2>3 DEF OverlapInv
<1>7. CASE UseApp \/ UNCHANGED vars
  <2>1. UNCHANGED <<session, calls>>
    BY <1>7 DEF UseApp, vars
  <2>. QED  BY <1>1, <1>2, <2>1 DEF OverlapInv, CallsRely, Apart, SessionRelies, At
<1>. QED  BY <1>3, <1>4, <1>5, <1>6, <1>7

LEMMA OverlapStep ==
  ASSUME TwoKeys, Wipes = {}
  PROVE  OverlapInv /\ [Next]_vars => OverlapInv'
<1>. SUFFICES ASSUME OverlapInv, [Next]_vars PROVE OverlapInv'
  OBVIOUS
<1>1. ShapeInv'
  BY ShapeStep DEF OverlapInv
<1>2. ASSUME NEW c \in Setups, SetupStep(c) PROVE OverlapInv'
  BY <1>1, <1>2, OverlapSetup
<1>3. ASSUME NEW c \in Unlocks, UnlockStep(c) PROVE OverlapInv'
  BY <1>1, <1>3, OverlapUnlock
<1>4. ASSUME NEW c \in Rotates, RotateStep(c) PROVE OverlapInv'
  BY <1>1, <1>4, OverlapRotate
<1>5. CASE Probe \/ Lock \/ UseApp \/ Crash \/ (\E c \in Calls : CallFails(c)) \/ UNCHANGED vars
  BY <1>1, <1>5, OverlapRest
<1>. QED  BY <1>2, <1>3, <1>4, <1>5 DEF Next

LEMMA OverlapInit ==
  ASSUME Heavy \subseteq {FALSE}
  PROVE  Init => OverlapInv
<1>. SUFFICES ASSUME Init PROVE OverlapInv
  OBVIOUS
<1>1. ShapeInv
  BY InitShape
<1>2. \A c \in Calls : calls[c] = Resting
  BY DEF Init
<1>3. CallsRely
  BY <1>2, RestingRelies DEF CallsRely
<1>4. Apart /\ SessionRelies
  BY <1>2, Statuses DEF Init, Apart, SessionRelies, Resting, SetupPcs, WriterPcs, At
<1>5. StoreRelies
  <2>1. CASE envelope = NoEnvelope /\ fate = [k \in Keys |-> "unmade"]
    BY <2>1 DEF Init, StoreRelies, EnvelopeOpens, KeysSafe
  <2>2. ASSUME NEW k \in Keys, NEW h \in Heavy,
               envelope = [key |-> k, secret |-> 1, heavy |-> h],
               fate = [j \in Keys |-> IF j = k THEN "kept" ELSE "unmade"]
        PROVE  StoreRelies
    <3>1. envelope.key = k /\ ~envelope.heavy /\ envelope.secret = secret /\ k # None
      BY <2>2, MachineAssumption DEF Init, MachineAssumption
    <3>2. envelope # NoEnvelope
      BY <3>1 DEF NoEnvelope
    <3>. QED  BY <2>2, <3>1, <3>2 DEF Init, StoreRelies, EnvelopeOpens, KeysSafe
  <2>. QED  BY <2>1, <2>2 DEF Init
<1>. QED  BY <1>1, <1>3, <1>4, <1>5 DEF OverlapInv

\* The one write that replaces a stored key finds it retired.
LEMMA OverlapOverwrites ==
  ASSUME OverlapInv, [Next]_vars, Wipes = {},
         envelope'.key # envelope.key, envelope # NoEnvelope
  PROVE  [key |-> envelope.key, secret |-> envelope.secret] \in retired
<1>1. ASSUME NEW c \in Setups, SetupStep(c) PROVE FALSE
  <2>1. CASE SetupPersist(c)
    BY <2>1, OverlapFacts DEF SetupPersist, At, Relies, Calls
  <2>2. \A k \in Keys : SetupStart(c, k) => envelope' = envelope
    BY DEF SetupStart, disk
  <2>3. SetupSecret(c) \/ SetupFinish(c) => envelope' = envelope
    BY DEF SetupSecret, SetupFinish, disk
  <2>. QED  BY <1>1, <2>1, <2>2, <2>3 DEF SetupStep
<1>2. ASSUME NEW c \in Unlocks, UnlockStep(c) PROVE FALSE
  <2>1. UnlockRewrap(c)
    BY <1>2 DEF UnlockStep, UnlockStart, UnlockNothing, UnlockPrompt, UnlockRetired,
                UnlockFinish, disk
  <2>. QED  BY <2>1, OverlapFacts DEF UnlockRewrap, At, Relies, Calls
<1>3. ASSUME NEW c \in Rotates, RotateStep(c)
      PROVE  [key |-> envelope.key, secret |-> envelope.secret] \in retired
  <2>1. RotateWrite(c) /\ calls[c].pc = "flip"
    <3>1. CASE RotateWrite(c)
      BY <3>1 DEF RotateWrite, Write, At
    <3>2. \A k \in Keys : RotateLoad(c, k) => envelope' = envelope
      BY DEF RotateLoad, disk
    <3>3. RotateStart(c) \/ RotatePrompt(c) \/ RotateFinish(c) => envelope' = envelope
      BY DEF RotateStart, RotatePrompt, RotateFinish, disk
    <3>. QED  BY <1>3, <3>1, <3>2, <3>3 DEF RotateStep
  <2>2. Relies(calls[c], envelope, retired, secret, fate)
    BY OverlapFacts DEF Calls
  <2>. QED  BY <2>1, <2>2 DEF Relies, OverlapInv, StoreRelies, EnvelopeOpens
<1>. QED  BY <1>1, <1>2, <1>3 DEF Next, Probe, Lock, UseApp, Crash, CallFails, vars, disk

\* A single rotation loses no key, whatever setups, unlocks, locks, crashes and failing
\* awaits overlap it and each other, and with any number of rotate calls waiting at
\* their prompts: rotate writes the retired list before the envelope, and only once.
THEOREM OneRotationLosesNothing ==
  ASSUME TwoKeys, Wipes = {}, Heavy \subseteq {FALSE}
  PROVE  Spec => []KeysRetained
<1>1. Init => OverlapInv
  BY OverlapInit
<1>2. OverlapInv /\ [Next]_vars => OverlapInv'
  BY OverlapStep
<1>3. OverlapInv => KeysRetained
  BY SafeIsRetained DEF OverlapInv, StoreRelies
<1>. QED  BY <1>1, <1>2, <1>3, PTL DEF Spec

\* ... and never writes over a key it has not retired.
THEOREM OneRotationOverwritesNothing ==
  ASSUME TwoKeys, Wipes = {}, Heavy \subseteq {FALSE}
  PROVE  Spec => NeverOverwritten
<1>1. Init => OverlapInv
  BY OverlapInit
<1>2. OverlapInv /\ [Next]_vars => OverlapInv'
  BY OverlapStep
<1>3. OverlapInv /\ [Next]_vars =>
        [envelope'.key # envelope.key /\ envelope # NoEnvelope =>
           \/ envelope' = NoEnvelope
           \/ [key |-> envelope.key, secret |-> envelope.secret] \in retired]_vars
  BY OverlapOverwrites
<1>. QED  BY <1>1, <1>2, <1>3, PTL DEF Spec, NeverOverwritten

-------------------------------------------------------------------------------
(* What a relaunch brings back only grows, but for a wipe: KeysRetained of every *)
(* step, and of a key that is on disk though nobody has seen it yet.             *)

\* No write of a setup, unlock or rotation drops a key from the keychain; only the wipe's
\* deletion of the active envelope does (identity-machine.ts, rotate and wipe).
DiskGrows ==
  [][Recoverable \subseteq Recoverable' \/ \E c \in Wipes : WipeActive(c)]_vars

\* A write that keeps the stored key, in the envelope or on the list, and the list.
LEMMA GrowsIf ==
  ASSUME envelope # NoEnvelope =>
           /\ envelope' # NoEnvelope /\ envelope'.secret = secret' /\ secret' = secret
           /\ OnDisk(envelope.key, envelope', retired', secret)
           /\ \A e \in retired : e.secret = secret => OnDisk(e.key, envelope', retired', secret)
  PROVE  Recoverable \subseteq Recoverable'
<1>1. CASE envelope = NoEnvelope \/ envelope.secret # secret
  BY <1>1 DEF Recoverable
<1>2. CASE envelope # NoEnvelope /\ envelope.secret = secret
  <2>1. Recoverable = {envelope.key} \cup {e.key : e \in {f \in retired : f.secret = secret}}
    BY <1>2 DEF Recoverable
  <2>2. \A k : OnDisk(k, envelope', retired', secret) => k \in Recoverable'
    BY <1>2 DEF Recoverable, OnDisk
  <2>. QED  BY <1>2, <2>1, <2>2
<1>. QED  BY <1>1, <1>2

\* What stays as it was grows.
LEMMA GrowsIfSame == UNCHANGED <<envelope, retired, secret>> => Recoverable \subseteq Recoverable'
BY DEF Recoverable

\* The steps that write the keychain, of calls that do not overlap.
LEMMA GrowsOneByOne ==
  ASSUME KeysInv, [Next]_vars
  PROVE  Recoverable \subseteq Recoverable' \/ \E c \in Wipes : WipeActive(c)
<1>1. ASSUME NEW c \in Setups, SetupStep(c) PROVE Recoverable \subseteq Recoverable'
  <2>1. c \in Calls
    BY DEF Calls
  <2>2. CASE SetupSecret(c) \/ SetupPersist(c)
    <3>1. envelope = NoEnvelope
      BY <2>1, <2>2, UnderWay DEF SetupSecret, SetupPersist, At, FitsDisk
    <3>. QED  BY <3>1, GrowsIf
  <2>3. CASE ~(SetupSecret(c) \/ SetupPersist(c))
    BY <1>1, <2>3, GrowsIfSame DEF SetupStep, SetupStart, SetupFinish, disk
  <2>. QED  BY <2>2, <2>3
<1>2. ASSUME NEW c \in Unlocks, UnlockStep(c) PROVE Recoverable \subseteq Recoverable'
  <2>1. c \in Calls
    BY DEF Calls
  <2>2. CASE UnlockRewrap(c)
    <3>1. calls[c].held = envelope /\ envelope \in Wrapped /\ envelope.secret = secret
      <4>1. calls[c].held = envelope /\ envelope \in Wrapped
        BY <2>1, <2>2, UnderWay DEF UnlockRewrap, At, FitsDisk, Shaped
      <4>2. envelope # NoEnvelope
        BY <4>1, MachineAssumption DEF Wrapped, NoEnvelope, MachineAssumption
      <4>. QED  BY <4>1, <4>2 DEF KeysInv, EnvelopeOpens
    <3>2. /\ [envelope EXCEPT !.heavy = FALSE].key = envelope.key
          /\ [envelope EXCEPT !.heavy = FALSE].secret = secret
      BY <3>1 DEF Wrapped
    <3>3. envelope'.key = envelope.key /\ envelope'.secret = secret
          /\ UNCHANGED <<retired, secret>>
      BY <2>2, <3>1, <3>2 DEF UnlockRewrap
    <3>4. envelope' # NoEnvelope
      BY <3>1, <3>3, MachineAssumption DEF Wrapped, NoEnvelope, MachineAssumption
    <3>5. retired \subseteq [key : Keys, secret : Secrets]
      BY <2>1, UnderWay
    <3>6. \A e \in retired : e = [key |-> e.key, secret |-> e.secret]
      BY <3>5
    <3>. QED  BY <3>3, <3>4, <3>6, GrowsIf DEF OnDisk
  <2>3. CASE ~UnlockRewrap(c)
    BY <1>2, <2>3, GrowsIfSame DEF UnlockStep, UnlockStart, UnlockNothing, UnlockPrompt,
                                   UnlockRetired, UnlockFinish, disk
  <2>. QED  BY <2>2, <2>3
<1>3. ASSUME NEW c \in Rotates, RotateStep(c) PROVE Recoverable \subseteq Recoverable'
  <2>1. c \in Calls
    BY DEF Calls
  <2>2. ASSUME RotateWrite(c), envelope # NoEnvelope PROVE Recoverable \subseteq Recoverable'
    <3> DEFINE h == calls[c].held
               entry == [key |-> h.key, secret |-> h.secret]
    <3>1. /\ calls[c].pc \in {"retain", "flip"} /\ Shaped(c, calls[c]) /\ calls[c] \in Call
          /\ h.key = envelope.key /\ h.secret = secret /\ envelope.secret = secret
          /\ retired \subseteq [key : Keys, secret : Secrets]
          /\ calls[c].pc = "retain" =>
               entry \in calls[c].list /\ \A e \in retired : e.key # h.key => e \in calls[c].list
          /\ calls[c].pc = "flip" => entry \in retired
      BY <2>1, <2>2, UnderWay DEF RotateWrite, FitsDisk, KeysInv, EnvelopeOpens
    <3>2. \A e \in retired : e = [key |-> e.key, secret |-> e.secret]
      BY <3>1
    <3>3. CASE calls[c].pc = "retain"
      <4>1. retired' = calls[c].list /\ envelope' = envelope /\ secret' = secret
        BY <2>2, <3>3 DEF RotateWrite, Write, At
      <4>. QED  BY <2>2, <3>1, <3>2, <3>3, <4>1, GrowsIf DEF OnDisk
    <3>4. CASE calls[c].pc = "flip"
      <4>1. /\ retired' = retired /\ secret' = secret
            /\ envelope' = [h EXCEPT !.key = calls[c].fresh]
        BY <2>2, <3>4 DEF RotateWrite, Write, At
      <4>2. h \in Wrapped /\ calls[c].fresh \in Keys
        BY <3>1, <3>4 DEF Shaped
      <4>3. envelope'.key \in Keys /\ envelope'.secret = secret
        BY <3>1, <4>1, <4>2 DEF Wrapped
      <4>4. envelope' # NoEnvelope
        BY <4>3, MachineAssumption DEF NoEnvelope, MachineAssumption
      <4>. QED  BY <2>2, <3>1, <3>2, <3>4, <4>1, <4>3, <4>4, GrowsIf DEF OnDisk
    <3>. QED  BY <3>1, <3>3, <3>4
  <2>3. CASE ~RotateWrite(c)
    BY <1>3, <2>3, GrowsIfSame DEF RotateStep, RotateStart, RotatePrompt, RotateLoad,
                                   RotateFinish, disk
  <2>. QED  BY <2>2, <2>3, GrowsIf
<1>4. ASSUME NEW c \in Wipes, WipeStep(c), ~WipeActive(c)
      PROVE  Recoverable \subseteq Recoverable'
  <2>1. c \in Calls
    BY DEF Calls
  <2>2. CASE WipeRetired(c) \/ WipeSecret(c)
    <3>1. envelope = NoEnvelope
      BY <2>1, <2>2, UnderWay DEF WipeRetired, WipeSecret, At, FitsDisk
    <3>. QED  BY <3>1, GrowsIf
  <2>3. CASE ~(WipeRetired(c) \/ WipeSecret(c))
    BY <1>4, <2>3, GrowsIfSame DEF WipeStep, WipeStart, WipeStorage, WipeFinish, disk
  <2>. QED  BY <2>2, <2>3
<1>5. CASE Probe \/ Lock \/ UseApp \/ Crash \/ (\E c \in Calls : CallFails(c)) \/ UNCHANGED vars
  BY <1>5, GrowsIfSame DEF Probe, Lock, UseApp, Crash, CallFails, vars, disk
<1>. QED  BY <1>1, <1>2, <1>3, <1>4, <1>5 DEF Next

\* The same when one rotation, and no wipe, is all that overlaps.
LEMMA GrowsOverlapping ==
  ASSUME OverlapInv, [Next]_vars, Wipes = {}
  PROVE  Recoverable \subseteq Recoverable'
<1>1. ASSUME NEW c \in Setups, SetupStep(c) PROVE Recoverable \subseteq Recoverable'
  <2>1. CASE SetupSecret(c) \/ SetupPersist(c)
    <3>1. envelope = NoEnvelope
      BY <2>1, OverlapFacts DEF SetupSecret, SetupPersist, At, Relies, Calls
    <3>. QED  BY <3>1, GrowsIf
  <2>2. CASE ~(SetupSecret(c) \/ SetupPersist(c))
    BY <1>1, <2>2, GrowsIfSame DEF SetupStep, SetupStart, SetupFinish, disk
  <2>. QED  BY <2>1, <2>2
<1>2. ASSUME NEW c \in Unlocks, UnlockStep(c) PROVE Recoverable \subseteq Recoverable'
  <2>1. ~UnlockRewrap(c)
    BY OverlapFacts DEF UnlockRewrap, At, Relies, Calls
  <2>. QED
    BY <1>2, <2>1, GrowsIfSame DEF UnlockStep, UnlockStart, UnlockNothing, UnlockPrompt,
                                   UnlockRetired, UnlockFinish, disk
<1>3. ASSUME NEW c \in Rotates, RotateStep(c) PROVE Recoverable \subseteq Recoverable'
  <2>1. CASE RotateWrite(c)
    <3> DEFINE h == calls[c].held
               entry == [key |-> h.key, secret |-> h.secret]
    <3>1. /\ calls[c].pc \in {"retain", "flip"} /\ Shaped(c, calls[c])
          /\ envelope # NoEnvelope /\ h.key = envelope.key /\ h.secret = secret
          /\ envelope.secret = secret
          /\ retired \subseteq [key : Keys, secret : Secrets]
          /\ calls[c].pc = "retain" => retired = {} /\ calls[c].list = {entry}
          /\ calls[c].pc = "flip" => entry \in retired
      BY <2>1, OverlapFacts DEF RotateWrite, Relies, Calls, OverlapInv, StoreRelies, EnvelopeOpens
    <3>2. \A e \in retired : e = [key |-> e.key, secret |-> e.secret]
      BY <3>1
    <3>3. CASE calls[c].pc = "retain"
      <4>1. envelope' = envelope /\ secret' = secret
        BY <2>1, <3>3 DEF RotateWrite, Write, At
      <4>. QED  BY <3>1, <3>3, <4>1, GrowsIf DEF OnDisk
    <3>4. CASE calls[c].pc = "flip"
      <4>1. /\ retired' = retired /\ secret' = secret
            /\ envelope' = [h EXCEPT !.key = calls[c].fresh]
        BY <2>1, <3>4 DEF RotateWrite, Write, At
      <4>2. h \in Wrapped /\ calls[c].fresh \in Keys
        BY <3>1, <3>4 DEF Shaped
      <4>3. envelope'.key \in Keys /\ envelope'.secret = secret
        BY <3>1, <4>1, <4>2 DEF Wrapped
      <4>4. envelope' # NoEnvelope
        BY <4>3, MachineAssumption DEF NoEnvelope, MachineAssumption
      <4>. QED  BY <3>1, <3>2, <3>4, <4>1, <4>3, <4>4, GrowsIf DEF OnDisk
    <3>. QED  BY <3>1, <3>3, <3>4
  <2>2. CASE ~RotateWrite(c)
    BY <1>3, <2>2, GrowsIfSame DEF RotateStep, RotateStart, RotatePrompt, RotateLoad,
                                   RotateFinish, disk
  <2>. QED  BY <2>1, <2>2
<1>4. CASE Probe \/ Lock \/ UseApp \/ Crash \/ (\E c \in Calls : CallFails(c)) \/ UNCHANGED vars
  BY <1>4, GrowsIfSame DEF Probe, Lock, UseApp, Crash, CallFails, vars, disk
<1>. QED  BY <1>1, <1>2, <1>3, <1>4 DEF Next

\* rotate's "fully rotated OR unchanged" at every await (identity-machine.ts): while
\* calls do not overlap, no step but a wipe's first deletion takes a key from what a
\* relaunch brings back, be it one that a crash kept from ever being shown.
THEOREM RelaunchKeepsKeys == ASSUME Overlap = FALSE PROVE Spec => DiskGrows
<1>1. Init => KeysInv
  BY InitKeys
<1>2. KeysInv /\ [Next]_vars => KeysInv'
  BY StepKeys
<1>3. KeysInv /\ [Next]_vars =>
        [Recoverable \subseteq Recoverable' \/ \E c \in Wipes : WipeActive(c)]_vars
  BY GrowsOneByOne
<1>. QED  BY <1>1, <1>2, <1>3, PTL DEF Spec, DiskGrows

\* ... and neither does any step of calls that overlap one rotation.
THEOREM OneRotationOnlyAdds ==
  ASSUME TwoKeys, Wipes = {}, Heavy \subseteq {FALSE}
  PROVE  Spec => DiskGrows
<1>1. Init => OverlapInv
  BY OverlapInit
<1>2. OverlapInv /\ [Next]_vars => OverlapInv'
  BY OverlapStep
<1>3. OverlapInv /\ [Next]_vars =>
        [Recoverable \subseteq Recoverable' \/ \E c \in Wipes : WipeActive(c)]_vars
  BY GrowsOverlapping
<1>. QED  BY <1>1, <1>2, <1>3, PTL DEF Spec, DiskGrows
================================================================================
