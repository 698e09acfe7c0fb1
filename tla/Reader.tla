--------------------------------- MODULE Reader ---------------------------------
(* The recipient: a link opened from a chat, its metadata, the one POST that    *)
(* consumes an open, the biometric gate and the local decryption.  On the phone *)
(* the answer is kept by a coordinator that outlives the screen, because a lock *)
(* or a notification takes the screen away; the browser keeps nothing but the   *)
(* page.  The server is the one of LinkPromise.  One action per stretch of code *)
(* between two awaits.                                                          *)
EXTENDS LinkPromise

CONSTANTS
  Threads,    \* handlers of the reader suspended at an await
  MaxSlips,   \* bound on the links swapped under a busy screen, double taps and kills
  None        \* "no link", "no open"

ASSUME ReaderAssumption ==
  /\ None \notin Links /\ None \notin Opens
  /\ Opens \subseteq Nat
  /\ MaxSlips \in Nat

VARIABLES
  web,       \* which of the two clients runs; never changes
  guard,     \* the setting requireUnlock, as loaded
  slips,     \* how often so far something counted by MaxSlips happened
  identity,  \* "locked" or "unlocked"
  link,      \* the link id the app shows a reader for
  screen,    \* what that reader shows; "none" when it is not mounted
  thread,    \* its handlers
  session,   \* the open coordinator's current session
  post       \* the open requests

rvars == <<web, guard, slips, identity, link, screen, thread, session, post>>
vars == <<pvars, rvars>>

-------------------------------------------------------------------------------
ScreenKinds == {"none", "loading", "landing", "opening", "gated", "unavailable", "decrypted",
                "failed", "gone", "network", "unlock", "closed"}
\* of: the link whose metadata or text is shown.  post: the answer a gate would
\* decrypt.  meta: a retry opens again.  authed: shown after a biometric prompt.
ScreenState == [kind : ScreenKinds, of : Links \cup {None}, post : Opens \cup {None},
                meta : BOOLEAN, authed : BOOLEAN]
Show(kind) == [kind |-> kind, of |-> None, post |-> None, meta |-> FALSE, authed |-> FALSE]

\* "body": the metadata's head is there, its body is read.
\* "wanting": the browser's wantsOpen, waiting for the identity gate.
\* id, tap: what the closure captured; tap: it was started by tryOpen.
ThreadState == [pc : {"idle", "metadata", "body", "wanting", "posting", "probing", "prompting",
                      "decrypting"},
                id : Links \cup {None}, post : Opens \cup {None}, tap : BOOLEAN,
                authed : BOOLEAN]
Rest == [pc |-> "idle", id |-> None, post |-> None, tap |-> FALSE, authed |-> FALSE]
Resting == [t \in Threads |-> Rest]

SessionState == [id : Links \cup {None}, post : Opens \cup {None},
                 phase : {"idle", "in-flight", "held"}]
NoSession == [id |-> None, post |-> None, phase |-> "idle"]

\* server, client: where each side is with the request; "reading": the answer's head
\* is there and the timer is disarmed, the body is still to come.  fate: why the reader no
\* longer has the answer, if it does not.
PostState == [link : Links \cup {None}, server : {"none", "sent", "served", "gone", "busy"},
              client : {"none", "waiting", "reading", "answered", "failed"},
              fate : {"kept", "lost", "dismissed", "superseded", "killed"}]
NoPost == [link |-> None, server |-> "none", client |-> "none", fate |-> "kept"]

\* The links were sent before the recipient gets them, with one or two opens.
Init ==
  /\ phase = [l \in Links |-> "live"]
  /\ budget \in [Links -> {1, 2}]
  /\ used = [l \in Links |-> {}]
  /\ web \in BOOLEAN
  /\ guard \in IF web THEN {FALSE} ELSE BOOLEAN
  /\ slips = 0
  /\ identity = "locked"
  /\ link = None
  /\ screen = Show("none")
  /\ thread = Resting
  /\ session = NoSession
  /\ post = [o \in Opens |-> NoPost]

Slip == slips < MaxSlips /\ slips' = slips + 1
Busy == \E t \in Threads : thread[t].pc # "idle"
\* A new handler; which of the free ones is immaterial.
Idle(t) == thread[t].pc = "idle" /\ t = CHOOSE u \in Threads : thread[u].pc = "idle"

\* Request identifiers are taken in order.
Fresh(o) == post[o].client = "none" /\ \A p \in Opens : p < o => post[p].client # "none"

Fated(posts, o, fate) ==
  IF o = None THEN posts
  ELSE [posts EXCEPT ![o].fate = IF @ = "kept" THEN fate ELSE @]

-------------------------------------------------------------------------------
\* The server: it consumes an open of a live link and refuses any other as gone; a
\* limit or an error refuses whatever the link.  It may answer a request whose
\* client has given up.
Serve(o) ==
  /\ post[o].server = "sent"
  /\ Consume(post[o].link, o)
  /\ post' = [post EXCEPT ![o].server = "served"]
  /\ UNCHANGED <<web, guard, slips, identity, link, screen, thread, session>>

Refuse(o) ==
  /\ post[o].server = "sent"
  /\ \/ post' = [post EXCEPT ![o].server = "busy"]
     \/ /\ phase[post[o].link] # "live"
        /\ post' = [post EXCEPT ![o].server = "gone"]
  /\ UNCHANGED <<pvars, web, guard, slips, identity, link, screen, thread, session>>

\* The sender revokes.
Revoked ==
  /\ \E l \in Links : Withdraw(l)
  /\ UNCHANGED rvars

-------------------------------------------------------------------------------
\* The coordinator.  peek:
PeekHeld(id) ==     \* mutant: an open still in flight is not found
  IF session.id = id /\ session.phase = "held" THEN "held" ELSE "idle"
Peek(id) == IF session.id = id THEN session.phase ELSE "idle"

\* proceedAfterOpen: the setting asks for the probe and the prompt, else the
\* decryption starts at once.
AskUnlessHeld == guard /\ session.phase # "held"     \* mutant: a kept answer is not asked for again
MustAsk == guard

Proceeding(th, o) == [th EXCEPT !.pc = IF MustAsk THEN "probing" ELSE "decrypting", !.post = o]
Proceeded(before) == IF MustAsk THEN before ELSE Show("opening")

\* begin, in tryOpen of thread th for link id.
Begin(t, th, id) ==
  \/ /\ Peek(id) = "held"
     /\ thread' = [thread EXCEPT ![t] = Proceeding(th, session.post)]
     /\ UNCHANGED <<session, post>>
  \/ /\ Peek(id) = "in-flight"
     /\ thread' = [thread EXCEPT ![t] = [th EXCEPT !.pc = "posting", !.post = session.post]]
     /\ UNCHANGED <<session, post>>
  \/ /\ Peek(id) = "idle"
     /\ \E o \in Opens :
          /\ Fresh(o)
          /\ session' = [id |-> id, post |-> o, phase |-> "in-flight"]
          /\ thread' = [thread EXCEPT ![t] = [th EXCEPT !.pc = "posting", !.post = o]]
          /\ post' = [Fated(post, IF session.id = id THEN None ELSE session.post, "superseded")
                        EXCEPT ![o].link = id, ![o].server = "sent", ![o].client = "waiting"]

ClearedId(id) ==     \* mutant: the session keeps its id
  IF session.id = id THEN [session EXCEPT !.phase = "idle"] ELSE session
Cleared(id) == IF session.id = id THEN NoSession ELSE session

-------------------------------------------------------------------------------
\* Mounting the reader for a link, or swapping the link under it: what is held is
\* taken up, what is in flight is joined, else the metadata is loaded.
Resume(t, id, before) ==
  LET th == [Rest EXCEPT !.id = id] IN
  \/ /\ Peek(id) = "held"
     /\ thread' = [thread EXCEPT ![t] = Proceeding(th, session.post)]
     /\ screen' = Proceeded(before)
  \/ /\ Peek(id) = "in-flight"
     /\ thread' = [thread EXCEPT ![t] = [th EXCEPT !.pc = "posting", !.post = session.post]]
     /\ screen' = Show("opening")
  \/ /\ Peek(id) = "idle"
     /\ thread' = [thread EXCEPT ![t] = [th EXCEPT !.pc = "metadata"]]
     /\ screen' = Show("loading")

\* A screen that goes away takes its handlers with it: they may run on, but what
\* they set is set nowhere (cancelledRef).
Unmount == screen' = Show("none") /\ thread' = Resting

DeepLink(l) ==
  /\ ~web
  /\ link # l
  /\ link' = l
  /\ IF Busy THEN Slip ELSE UNCHANGED slips
  /\ IF identity = "locked" THEN UNCHANGED <<screen, thread>>
     ELSE \E t \in Threads :
            /\ Idle(t)
            /\ Resume(t, l, IF screen.kind = "none" THEN Show("loading") ELSE screen)
  /\ UNCHANGED <<pvars, web, guard, identity, session, post>>

Unlock ==
  /\ identity = "locked"
  /\ identity' = "unlocked"
  /\ IF web \/ link = None THEN UNCHANGED <<screen, thread>>
     ELSE \E t \in Threads : Idle(t) /\ Resume(t, link, Show("loading"))
  /\ UNCHANGED <<pvars, web, guard, slips, link, session, post>>

\* The browser's page covers itself, but is not unmounted.
Lock ==
  /\ identity = "unlocked"
  /\ identity' = "locked"
  /\ IF web THEN UNCHANGED <<screen, thread>> ELSE Unmount
  /\ UNCHANGED <<pvars, web, guard, slips, link, session, post>>

\* A tap on a notification shows the Links tab; the session stays.
LeaveForLinks ==
  /\ ~web /\ link # None
  /\ link' = None
  /\ Unmount
  /\ UNCHANGED <<pvars, web, guard, slips, identity, session, post>>

\* The settings screens are out of reach while a reader is open.
ToggleGuard ==
  /\ ~web /\ link = None /\ identity = "unlocked"
  /\ guard' = ~guard
  /\ UNCHANGED <<pvars, web, slips, identity, link, screen, thread, session, post>>

\* finish
Finish ==
  /\ ~web
  /\ screen.kind \in {"landing", "gated", "unavailable", "decrypted", "failed", "gone", "network"}
  /\ session' = Cleared(link)
  /\ post' = Fated(post, IF session.id = link THEN session.post ELSE None, "dismissed")
  /\ link' = None
  /\ Unmount
  /\ UNCHANGED <<pvars, web, guard, slips, identity>>

\* The process dies, or the page is reloaded or left.
Kill ==
  /\ link # None \/ session # NoSession
  /\ Slip
  /\ identity' = "locked" /\ link' = None /\ session' = NoSession
  /\ Unmount
  /\ post' = [o \in Opens |->
                [post[o] EXCEPT !.client = IF @ \in {"waiting", "reading"} THEN "failed" ELSE @,
                                !.fate = IF @ = "kept" /\ post[o].client # "none"
                                         THEN "killed" ELSE @]]
  /\ UNCHANGED <<pvars, web, guard>>

-------------------------------------------------------------------------------
\* loadMetadata.  Any answer but a 2xx is told by its head.
MetadataHead(t) ==
  /\ thread[t].pc = "metadata"
  /\ phase[thread[t].id] = "live"
  /\ thread' = [thread EXCEPT ![t].pc = "body"]
  /\ UNCHANGED <<pvars, web, guard, slips, identity, link, screen, session, post>>

Metadata(t) ==
  /\ thread[t].pc \in {"metadata", "body"}
  /\ thread' = [thread EXCEPT ![t] = Rest]
  /\ \/ /\ thread[t].pc = "body"
        /\ screen' = [Show("landing") EXCEPT !.of = thread[t].id]
     \/ screen' = Show("network")
     \/ /\ thread[t].pc = "metadata" /\ phase[thread[t].id] # "live"
        /\ screen' = Show("gone")
  /\ UNCHANGED <<pvars, web, guard, slips, identity, link, session, post>>

\* "Open message"; the button works once.
TapOpen(t) ==
  /\ ~web /\ Idle(t)
  /\ screen.kind = "landing"
  /\ screen' = Show("opening")
  /\ Begin(t, [Rest EXCEPT !.id = link, !.tap = TRUE], link)
  /\ UNCHANGED <<pvars, web, guard, slips, identity, link>>

\* "Try again"; a second tap may land before the screen has changed.
Retry(t) ==
  /\ ~web /\ Idle(t)
  /\ \/ /\ screen.kind = "network" /\ screen.meta
        /\ UNCHANGED slips
        /\ Begin(t, [Rest EXCEPT !.id = link, !.tap = TRUE], link)
        /\ screen' = [Show("opening") EXCEPT !.meta = TRUE]
     \/ /\ screen.kind = "opening" /\ screen.meta
        /\ Slip
        /\ Begin(t, [Rest EXCEPT !.id = link, !.tap = TRUE], link)
        /\ screen' = Show("opening")
     \/ /\ screen.kind = "network" /\ ~screen.meta
        /\ UNCHANGED <<slips, session, post>>
        /\ thread' = [thread EXCEPT ![t] = [Rest EXCEPT !.pc = "metadata", !.id = link]]
        /\ screen' = Show("loading")
  /\ UNCHANGED <<pvars, web, guard, identity, link>>

\* The request settles: first the coordinator's own handlers, then every thread
\* that awaits it.
AwaitedByTap(o) ==     \* mutant: a resumed reader does not await the open it joined
  {t \in Threads : thread[t].pc = "posting" /\ thread[t].post = o /\ thread[t].tap}
Awaiting(o) == {t \in Threads : thread[t].pc = "posting" /\ thread[t].post = o}

\* The head of a 2xx answer disarms the timer.
Head(o) ==
  /\ post[o].client = "waiting" /\ post[o].server = "served"
  /\ post' = [post EXCEPT ![o].client = "reading"]
  /\ UNCHANGED <<pvars, web, guard, slips, identity, link, screen, thread, session>>

Answered(o) ==
  /\ post[o].client = "reading"
  /\ post' = [post EXCEPT ![o].client = "answered"]
  /\ session' = IF session.post = o THEN [session EXCEPT !.phase = "held"] ELSE session
  /\ thread' = [t \in Threads |->
                  IF t \in Awaiting(o) THEN Proceeding(thread[t], o) ELSE thread[t]]
  /\ screen' = IF Awaiting(o) = {} THEN screen ELSE Proceeded(screen)
  /\ UNCHANGED <<pvars, web, guard, slips, identity, link>>

\* A timeout, a lost connection, a malformed answer, any status but 2xx, 400, 404, 410.
CouldNotTell(o) ==
  /\ IF Awaiting(o) = {} THEN UNCHANGED screen
     ELSE \E t \in Awaiting(o) : screen' = [Show("network") EXCEPT !.meta = thread[t].tap]
  /\ post' = Fated([post EXCEPT ![o].client = "failed"], o, "lost")

ToldGone(o) ==
  /\ post[o].server = "gone"
  /\ screen' = IF Awaiting(o) = {} THEN screen ELSE Show("gone")
  /\ post' = [post EXCEPT ![o].client = "failed"]

Failed(o) ==
  /\ post[o].client \in {"waiting", "reading"}
  /\ CouldNotTell(o) \/ ToldGone(o)
  /\ session' = IF session.post = o THEN NoSession ELSE session
  /\ thread' = [t \in Threads |-> IF t \in Awaiting(o) THEN Rest ELSE thread[t]]
  /\ UNCHANGED <<pvars, web, guard, slips, identity, link>>

-------------------------------------------------------------------------------
\* The capability probe; its own failure ends like a transport error.
Probe(t) ==
  /\ thread[t].pc = "probing"
  /\ thread' = [thread EXCEPT ![t] = Rest]
  /\ \/ screen' = [Show("gated") EXCEPT !.post = thread[t].post]
     \/ screen' = Show("unavailable")
     \/ screen' = [Show("network") EXCEPT !.meta = thread[t].tap]
  /\ UNCHANGED <<pvars, web, guard, slips, identity, link, session, post>>

Authenticate(t) ==
  /\ Idle(t)
  /\ screen.kind = "gated"
  /\ \A u \in Threads : thread[u].pc # "prompting"
  /\ thread' = [thread EXCEPT ![t] = [Rest EXCEPT !.pc = "prompting", !.id = link,
                                                  !.post = screen.post]]
  /\ UNCHANGED <<pvars, web, guard, slips, identity, link, screen, session, post>>

\* The prompt ends: on success decryptHeld starts, else the gate stays.
Prompted(t) ==
  /\ thread[t].pc = "prompting"
  /\ \/ /\ thread' = [thread EXCEPT ![t].pc = "decrypting", ![t].authed = TRUE]
        /\ screen' = Show("opening")
     \/ /\ thread' = [thread EXCEPT ![t] = Rest]
        /\ UNCHANGED screen
  /\ UNCHANGED <<pvars, web, guard, slips, identity, link, session, post>>

\* The answer decrypts only under the id it is bound to, and only with the right key.
Decrypt(t) ==
  /\ thread[t].pc = "decrypting"
  /\ thread' = [thread EXCEPT ![t] = Rest]
  /\ \/ /\ post[thread[t].post].link = thread[t].id
        /\ screen' = [Show("decrypted") EXCEPT !.of = thread[t].id, !.authed = thread[t].authed]
     \/ screen' = Show("failed")
  /\ UNCHANGED <<pvars, web, guard, slips, identity, link, session, post>>

-------------------------------------------------------------------------------
\* The browser: one page per link, nothing fetched before the tap.
PageLoad(l) ==
  /\ web /\ link = None
  /\ link' = l
  /\ screen' = [Show("landing") EXCEPT !.of = l]
  /\ UNCHANGED <<pvars, web, guard, slips, identity, thread, session, post>>

WantOpen(t) ==
  /\ web /\ ~Busy /\ Idle(t)
  /\ screen.kind = "landing"
  /\ thread' = [thread EXCEPT ![t] = [Rest EXCEPT !.pc = "wanting", !.id = link]]
  /\ UNCHANGED <<pvars, web, guard, slips, identity, link, screen, session, post>>

\* inFlight
OpenInFlight == \E t \in Threads : thread[t].pc \in {"posting", "decrypting"}

RunOpen(t) ==
  \E o \in Opens :
    /\ ~OpenInFlight
    /\ Fresh(o)
    /\ screen' = Show("opening")
    /\ thread' = [thread EXCEPT ![t] = [Rest EXCEPT !.pc = "posting", !.id = link, !.post = o,
                                                    !.tap = TRUE]]
    /\ post' = [post EXCEPT ![o].link = link, ![o].server = "sent", ![o].client = "waiting"]

\* The identity gate: the intent waits for the unlock.
IdentityGate(t) ==
  /\ thread[t].pc = "wanting"
  /\ \/ /\ identity = "locked" /\ screen.kind # "unlock"
        /\ screen' = Show("unlock")
        /\ UNCHANGED <<thread, post>>
     \/ /\ identity = "unlocked"
        /\ RunOpen(t)
  /\ UNCHANGED <<pvars, web, guard, slips, identity, link, session>>

WebRetry(t) ==
  /\ web /\ Idle(t)
  /\ screen.kind = "network"
  /\ identity = "unlocked"
  /\ RunOpen(t)
  /\ UNCHANGED <<pvars, web, guard, slips, identity, link, session>>

\* The text is dropped with the screen.
WebClose ==
  /\ web
  /\ screen.kind \in {"decrypted", "failed", "gone", "network"}
  /\ screen' = Show("closed")
  /\ UNCHANGED <<pvars, web, guard, slips, identity, link, thread, session, post>>

-------------------------------------------------------------------------------
\* What runs by itself.
Handlers(t) == MetadataHead(t) \/ Metadata(t) \/ Probe(t) \/ Decrypt(t) \/ IdentityGate(t)
Settles(o) == Head(o) \/ Answered(o) \/ Failed(o)

Server == Revoked \/ \E o \in Opens : Serve(o) \/ Refuse(o)

App == Unlock \/ Lock \/ LeaveForLinks \/ ToggleGuard \/ Finish \/ Kill \/ WebClose
       \/ \E l \in Links : DeepLink(l) \/ PageLoad(l)

Taps == \E t \in Threads : TapOpen(t) \/ Retry(t) \/ Authenticate(t) \/ Prompted(t)
                           \/ WantOpen(t) \/ WebRetry(t)

Next == \/ Server
        \/ App
        \/ Taps
        \/ \E t \in Threads : Handlers(t)
        \/ \E o \in Opens : Settles(o)

Spec == Init /\ [][Next]_vars

\* Local work ends, and a request whose answer's head does not arrive is ended by its
\* timer; nothing makes a body arrive or break off.
FairSpec ==
  /\ Spec
  /\ \A t \in Threads : WF_vars(thread[t].pc # "body" /\ Handlers(t))
  /\ \A o \in Opens : WF_vars(post[o].client # "reading" /\ Settles(o))

-------------------------------------------------------------------------------
\* The types; a session that is idle is none, and a handler awaits a request that
\* was sent.
TypeOK ==
  /\ phase \in [Links -> Phases] /\ used \in [Links -> SUBSET Opens]
  /\ web \in BOOLEAN /\ guard \in BOOLEAN /\ slips \in 0 .. MaxSlips
  /\ identity \in {"locked", "unlocked"} /\ link \in Links \cup {None}
  /\ screen \in ScreenState
  /\ thread \in [Threads -> ThreadState]
  /\ session \in SessionState /\ (session.phase = "idle" <=> session.id = None)
  /\ post \in [Opens -> PostState]
  /\ \A t \in Threads : thread[t].post # None => post[thread[t].post].client # "none"

\* Locks, notifications, second taps, late answers of another link and screens
\* built anew never make the reader spend a second open of a link whose first
\* answer it has, or will get: it opens again only after an answer that never
\* came, or one that was dismissed, superseded by another link or lost with the
\* process (open-coordinator.ts:13-19, ReaderFlowScreen.tsx:82-85).
OpenedOnce ==
  \A l \in Links : Cardinality({o \in used[l] : post[o].fate = "kept"}) <= 1

\* On the phone the text is on screen only while the identity is unlocked, and, if
\* the user asked for it, only after a biometric prompt of this very showing: not
\* by a resume from the kept answer, nor on a device that can no longer prompt
\* (ReaderFlow.tsx:107-132, decrypt-gate.ts:1-8).
GuardHolds ==
  screen.kind = "decrypted" /\ ~web => identity = "unlocked" /\ (guard => screen.authed)

\* The opaque spinner ends, whatever the screen was resumed, swapped or retried into,
\* unless the body of an answer stalls that one of its handlers waits for: no spinner
\* is left behind by a handler that awaits something else, or nothing
\* (ReaderFlow.tsx:201-245, client.ts:136-156).
SpinnerOnlyAwaitsBody ==
  \/ []<>(screen.kind \notin {"loading", "opening"})
  \/ <>[](\E t \in Threads :
            \/ thread[t].pc = "body"
            \/ thread[t].pc = "posting" /\ post[thread[t].post].client = "reading")
=================================================================================
