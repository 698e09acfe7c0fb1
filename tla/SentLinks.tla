------------------------------- MODULE SentLinks -------------------------------
(* The sender: composing and uploading a message, the local records that hold  *)
(* the only copy of each link's revocation token, the Links tab, revocation,   *)
(* and the revoke-before-wipe pass.  The phone keeps all records in one        *)
(* encrypted blob that is read, changed and written back; the browser keeps    *)
(* one IndexedDB row per record.  The server is the one of LinkPromise.        *)
(* One action per stretch of code between two awaits.                          *)
EXTENDS LinkPromise

CONSTANTS
  Calls,    \* revocations and deletions in progress, the wipe's own included
  MaxSlips, \* bound on the overlaps, storage failures and kills of a behaviour
  None      \* "no link"

ASSUME SenderAssumption == None \notin Links /\ MaxSlips \in Nat

\* Links: the messages the user may ever send; each submit mints its own link id.
VARIABLES
  web,       \* which of the two clients runs; never changes
  slips,     \* how often so far something was started before the last thing had
             \* ended, the storage failed, or the app was killed
  saved,     \* ids with a local record (and so a revocation token)
  send,      \* createAndSeal and its caller, per message
  wire,      \* the upload on its way to the server, per message
  flow,      \* the compose screen
  call,      \* revocations and deletions
  list,      \* the Links tab's refresh
  shown,     \* the status the Links tab shows
  wipe,      \* the wipe dialog
  told,      \* links the user was told are revoked
  owed,      \* recorded links the user has not removed since
  stranded   \* live links whose token a wipe destroyed without the user's consent

setup == <<web, slips>>
app == <<saved, send, wire, flow, call, list, shown, wipe, told, owed, stranded>>
vars == <<pvars, setup, app>>

-------------------------------------------------------------------------------
SendPcs == {"idle", "sealing", "posting", "answering", "recording", "writing",
            "nudging", "attaching", "done"}
\* map: the blob as this thread read it.  cancelled: cancelledRef of a screen that is gone.
SendState == [pc : SendPcs, map : SUBSET Links, aborted : BOOLEAN, cancelled : BOOLEAN]

\* mine: the sends this screen started.  stopped (history): those whose overlay the
\* user cancelled since the last submit.
FlowState == [screen : {"compose", "encrypting", "result"}, link : Links \cup {None},
              cancelled : BOOLEAN, abort : Links \cup {None}, mine : SUBSET Links,
              stopped : SUBSET Links]
FreshFlow == [screen |-> "compose", link |-> None, cancelled |-> FALSE, abort |-> None,
              mine |-> {}, stopped |-> {}]

\* "lost": the client gave up, the request may still reach the server.
CallState == [pc : {"idle", "lookup", "asking", "asked", "erasing", "lost"},
              kind : {"revoke", "delete", "wipe"}, link : Links \cup {None},
              token : BOOLEAN, map : SUBSET Links]
NoCall == [pc |-> "idle", kind |-> "revoke", link |-> None, token |-> FALSE, map |-> {}]

ListState == [pc : {"idle", "asking", "answered"}, ids : SUBSET Links, gone : SUBSET Links]
NoList == [pc |-> "idle", ids |-> {}, gone |-> {}]

WipeState == [pc : {"idle", "opening", "confirm", "revoking", "ask", "wiping"},
              todo : SUBSET Links, failed : SUBSET Links, accepted : SUBSET Links]
NoWipe == [pc |-> "idle", todo |-> {}, failed |-> {}, accepted |-> {}]

Nothing == [l \in Links |-> "none"]

Init ==
  /\ PromiseInit
  /\ web \in BOOLEAN /\ slips = 0
  /\ saved = {} /\ told = {} /\ owed = {} /\ stranded = {}
  /\ send = [l \in Links |-> [pc |-> "idle", map |-> {}, aborted |-> FALSE, cancelled |-> FALSE]]
  /\ wire = Nothing
  /\ flow = FreshFlow
  /\ call = [c \in Calls |-> NoCall]
  /\ list = NoList
  /\ shown = Nothing
  /\ wipe = NoWipe

\* Nothing the app started is still under way.
Settled ==
  /\ \A l \in Links : send[l].pc \in {"idle", "done"}
  /\ \A c \in Calls : call[c].pc \in {"idle", "lost"}
  /\ list.pc = "idle"
  /\ wipe.pc = "idle"
Slip == slips < MaxSlips /\ slips' = slips + 1
Starts == IF Settled THEN UNCHANGED slips ELSE Slip

\* One screen at a time: the Links tab is open, or the compose screen, or neither.
LinksClosed == shown = Nothing /\ list.pc = "idle"
Elsewhere == flow = FreshFlow /\ LinksClosed

-------------------------------------------------------------------------------
\* The network and the server.
Served(l) ==
  /\ wire[l] = "sent"
  /\ budget' = [budget EXCEPT ![l] = 1]
  /\ Send(l)
  /\ wire' = [wire EXCEPT ![l] = "served"]
  /\ UNCHANGED <<setup, saved, send, flow, call, list, shown, wipe, told, owed, stranded>>

Refused(l) ==
  /\ wire[l] = "sent"
  /\ wire' = [wire EXCEPT ![l] = "refused"]
  /\ UNCHANGED <<pvars, setup, saved, send, flow, call, list, shown, wipe, told, owed, stranded>>

\* Recipients open, time passes; a later erasure is nothing a client can see.
Outside ==
  /\ \/ \E l \in Links, o \in Opens : Consume(l, o)
     \/ \E l \in Links : Expire({l})
  /\ UNCHANGED <<setup, app>>

-------------------------------------------------------------------------------
\* Sending.  The compose screen offers Send while it is not busy.
Submit(l) ==
  /\ Starts
  /\ LinksClosed
  /\ flow.screen = "compose"
  /\ send[l].pc = "idle"
  /\ send' = [send EXCEPT ![l].pc = "sealing"]
  /\ flow' = [flow EXCEPT !.screen = "encrypting", !.link = l, !.cancelled = FALSE,
                          !.abort = l, !.mine = @ \cup {l}, !.stopped = {}]
  /\ UNCHANGED <<pvars, web, saved, wire, call, list, shown, wipe, told, owed, stranded>>

\* An aborted signal makes the upload fail before it starts.
Upload(l) ==
  /\ send[l].pc = "sealing"
  /\ ~send[l].aborted
  /\ send' = [send EXCEPT ![l].pc = "posting"]
  /\ wire' = [wire EXCEPT ![l] = "sent"]
  /\ UNCHANGED <<pvars, setup, saved, flow, call, list, shown, wipe, told, owed, stranded>>

\* res.ok
AcceptedAnyStatus(l) == wire[l] \in {"served", "refused"}    \* mutant: it is not checked
Accepted(l) == wire[l] = "served"

\* The answer's head arrives: the timer and the abort signal are disarmed.
Answer(l) ==
  /\ send[l].pc = "posting"
  /\ Accepted(l)
  /\ send' = [send EXCEPT ![l].pc = "answering"]
  /\ UNCHANGED <<pvars, setup, saved, wire, flow, call, list, shown, wipe, told, owed, stranded>>

\* The body, with the token.
ReadToken(l) ==
  /\ send[l].pc = "answering"
  /\ send' = [send EXCEPT ![l].pc = "recording"]
  /\ UNCHANGED <<pvars, setup, saved, wire, flow, call, list, shown, wipe, told, owed, stranded>>

ReadBlob(l) ==
  /\ send[l].pc = "recording"
  /\ ~web
  /\ send' = [send EXCEPT ![l].pc = "writing", ![l].map = saved]
  /\ UNCHANGED <<pvars, setup, saved, wire, flow, call, list, shown, wipe, told, owed, stranded>>

CancelledRef(l) == IF l \in flow.mine THEN flow.cancelled ELSE send[l].cancelled

\* CreateFlow.submit after its await: a cancelled send is dropped in silence, and
\* only a mounted screen changes.  A failure always returns to the draft.
DropsNone(l, ok) == FALSE    \* mutant: the flag is not looked at
Drops(l, ok) == ok /\ CancelledRef(l)
AfterSend(l, ok) ==
  /\ send' = [send EXCEPT ![l] = [@ EXCEPT
       !.pc = IF ok /\ ~CancelledRef(l) /\ ~web THEN "nudging" ELSE "done", !.map = {}]]
  /\ flow' = IF l \notin flow.mine THEN flow
             ELSE IF Drops(l, ok) THEN [flow EXCEPT !.abort = None]
             ELSE [flow EXCEPT !.screen = IF ok THEN "result" ELSE "compose",
                               !.link = IF ok THEN l ELSE None, !.abort = None]

\* recordSentLink on the phone: what was read, plus the record.
BlobWithout(l) == {l}    \* mutant: the others are dropped
Blob(l) == send[l].map \cup {l}
WriteRecord(l) ==
  /\ send[l].pc = "writing"
  /\ saved' = Blob(l)
  /\ owed' = owed \cup {l}
  /\ AfterSend(l, TRUE)
  /\ UNCHANGED <<pvars, setup, wire, call, list, shown, wipe, told, stranded>>

\* recordSentLink in the browser: one put.
PutRecord(l) ==
  /\ send[l].pc = "recording"
  /\ web
  /\ saved' = saved \cup {l}
  /\ owed' = owed \cup {l}
  /\ AfterSend(l, TRUE)
  /\ UNCHANGED <<pvars, setup, wire, call, list, shown, wipe, told, stranded>>

\* Recording is best effort: a storage error is swallowed.
RecordFails(l) ==
  /\ Slip
  /\ send[l].pc \in {"recording", "writing"}
  /\ AfterSend(l, TRUE)
  /\ UNCHANGED <<pvars, web, saved, wire, call, list, shown, wipe, told, owed, stranded>>

\* The upload is refused, times out, is aborted, or its body breaks off: whatever
\* the server did with it, the user reads "your message wasn't sent".
MayFailUntimed(l) ==    \* mutant: no timer
  \/ send[l].pc \in {"sealing", "answering"}
  \/ send[l].pc = "posting" /\ (wire[l] = "refused" \/ send[l].aborted)
MayFail(l) == send[l].pc \in {"sealing", "posting", "answering"}
SendFails(l) ==
  /\ MayFail(l)
  /\ AfterSend(l, FALSE)
  /\ UNCHANGED <<pvars, setup, saved, wire, call, list, shown, wipe, told, owed, stranded>>

\* The reminder's id is attached to the record by another read and write, without
\* the caller waiting.  No reminder (preference, permission, quiet hours) or no
\* record: nothing to attach.
NudgeRead(l) ==
  /\ send[l].pc = "nudging"
  /\ send' = [send EXCEPT ![l] = IF l \in saved THEN [@ EXCEPT !.pc = "attaching", !.map = saved]
                                                ELSE [@ EXCEPT !.pc = "done"]]
  /\ UNCHANGED <<pvars, setup, saved, wire, flow, call, list, shown, wipe, told, owed, stranded>>

NudgeSkip(l) ==
  /\ send[l].pc \in {"nudging", "attaching"}
  /\ send' = [send EXCEPT ![l].pc = "done", ![l].map = {}]
  /\ UNCHANGED <<pvars, setup, saved, wire, flow, call, list, shown, wipe, told, owed, stranded>>

NudgeWrite(l) ==
  /\ send[l].pc = "attaching"
  /\ saved' = send[l].map
  /\ send' = [send EXCEPT ![l].pc = "done", ![l].map = {}]
  /\ UNCHANGED <<pvars, setup, wire, flow, call, list, shown, wipe, told, owed, stranded>>

\* The Encrypting overlay's Cancel: only the phone has one.  A send whose answer's
\* head has arrived no longer listens to the abort.
Cancel ==
  /\ ~web
  /\ flow.screen = "encrypting"
  /\ send' = [l \in Links |-> IF l = flow.abort THEN [send[l] EXCEPT !.aborted = TRUE] ELSE send[l]]
  /\ flow' = [flow EXCEPT !.screen = "compose", !.link = None, !.cancelled = TRUE,
                          !.stopped = @ \cup {flow.link}]
  /\ UNCHANGED <<pvars, setup, saved, wire, call, list, shown, wipe, told, owed, stranded>>

ComposeAnother ==
  /\ flow.screen = "result"
  /\ flow' = [flow EXCEPT !.screen = "compose", !.link = None]
  /\ UNCHANGED <<pvars, setup, saved, send, wire, call, list, shown, wipe, told, owed, stranded>>

\* Screens that are left forget their state; what they started goes on.
Unmount ==
  /\ flow' = FreshFlow
  /\ shown' = Nothing
  /\ list' = NoList
  /\ send' = [l \in Links |-> IF l \in flow.mine
                              THEN [send[l] EXCEPT !.cancelled = flow.cancelled] ELSE send[l]]

SwitchTab ==
  /\ Starts
  /\ Unmount
  /\ UNCHANGED <<pvars, web, saved, wire, call, wipe, told, owed, stranded>>

-------------------------------------------------------------------------------
\* The Links tab: records, then one bulk status call, then the display.  Past its
\* expiry a link is gone by this device's clock.
Reload(ids) == [pc |-> "asking", ids |-> ids, gone |-> {l \in ids : phase[l] = "closed"}]

Refresh ==
  /\ Starts
  /\ flow = FreshFlow
  /\ list.pc = "idle"
  /\ list' = Reload(saved)
  /\ UNCHANGED <<pvars, web, saved, send, wire, flow, call, shown, wipe, told, owed, stranded>>

\* An id the server does not know is gone like a revoked one.
ListServed ==
  /\ list.pc = "asking"
  /\ list' = [list EXCEPT !.pc = "answered",
                          !.gone = @ \cup {l \in list.ids : phase[l] # "live"}]
  /\ UNCHANGED <<pvars, setup, saved, send, wire, flow, call, shown, wipe, told, owed, stranded>>

\* reconcileSentLinks: without an answer only the clock may call a link gone; the
\* phone shows the others as unknown, the browser as last known.
UnansweredAsGone(l) == "gone"    \* mutant: an unreachable server reads as revoked
UnansweredOffline(l) == "offline"    \* mutant: a status no screen knows
Unanswered(l) == IF web THEN "active" ELSE "unknown"
Reconciled(l) ==
  IF l \notin list.ids THEN "none"
  ELSE IF l \in list.gone THEN "gone"
  ELSE IF list.pc = "answered" THEN "active" ELSE Unanswered(l)

\* From "asking": the call fails.
Display ==
  /\ list.pc \in {"asking", "answered"}
  /\ shown' = [l \in Links |-> Reconciled(l)]
  /\ list' = NoList
  /\ UNCHANGED <<pvars, setup, saved, send, wire, flow, call, wipe, told, owed, stranded>>

-------------------------------------------------------------------------------
\* Revocation.  From the Links tab, from the result screen, or for the wipe.
Offered(l) == shown[l] # "none" \/ (~web /\ flow.screen = "result" /\ flow.link = l)

RevokeStart(c, l) ==
  /\ Starts
  /\ call[c].pc = "idle"
  /\ Offered(l)
  /\ call' = [call EXCEPT ![c] = [NoCall EXCEPT !.pc = "lookup", !.link = l]]
  /\ UNCHANGED <<pvars, web, saved, send, wire, flow, list, shown, wipe, told, owed, stranded>>

\* "Delete from this device": the record only, the link lives on.
DeleteStart(c, l) ==
  /\ Starts
  /\ ~web
  /\ call[c].pc = "idle"
  /\ shown[l] # "none"
  /\ call' = [call EXCEPT ![c] = [NoCall EXCEPT !.pc = "asked", !.kind = "delete", !.link = l]]
  /\ UNCHANGED <<pvars, web, saved, send, wire, flow, list, shown, wipe, told, owed, stranded>>

\* The token comes from the record as it is now; the browser's screens hold the
\* records they listed.  No record, no token: the request goes out all the same.
TokenNever(l, kind) == FALSE    \* mutant: the token is not sent
Token(l, kind) == l \in saved \/ (web /\ (shown[l] # "none" \/ kind = "wipe"))
Lookup(c) ==
  /\ call[c].pc = "lookup"
  /\ call' = [call EXCEPT ![c].pc = "asking", ![c].token = Token(call[c].link, call[c].kind)]
  /\ UNCHANGED <<pvars, setup, saved, send, wire, flow, list, shown, wipe, told, owed, stranded>>

\* The server answers 200 whether or not it revoked.
RevokeServed(c) ==
  /\ call[c].pc \in {"asking", "lost"}
  /\ IF call[c].token /\ phase[call[c].link] = "live" THEN Withdraw(call[c].link) ELSE UNCHANGED pvars
  /\ call' = [call EXCEPT ![c] = IF @.pc = "asking" THEN [@ EXCEPT !.pc = "asked"] ELSE NoCall]
  /\ UNCHANGED <<setup, saved, send, wire, flow, list, shown, wipe, told, owed, stranded>>

\* What the caller does with a finished call: the wipe goes on to the next link, the
\* phone's Links tab loads the records that are left again.
Conclude(c, next, ok, left) ==
  /\ call' = [call EXCEPT ![c] = next]
  /\ told' = IF ok /\ call[c].kind = "revoke" THEN told \cup {call[c].link} ELSE told
  /\ wipe' = IF call[c].kind = "wipe"
             THEN [wipe EXCEPT !.todo = @ \ {call[c].link},
                               !.failed = IF ok THEN @ ELSE @ \cup {call[c].link}]
             ELSE wipe
  /\ list' = IF web \/ call[c].kind = "wipe" \/ LinksClosed THEN list ELSE Reload(left)

\* deleteSentLink reads the blob and stops if the id is not in it.
ForgetRead(c) ==
  /\ call[c].pc = "asked"
  /\ ~web
  /\ IF call[c].link \in saved
     THEN /\ call' = [call EXCEPT ![c].pc = "erasing", ![c].map = saved]
          /\ UNCHANGED <<told, wipe, list>>
     ELSE Conclude(c, NoCall, TRUE, saved)
  /\ owed' = owed \ {call[c].link}
  /\ UNCHANGED <<pvars, setup, saved, send, wire, flow, shown, stranded>>

ForgetWrite(c) ==
  /\ call[c].pc = "erasing"
  /\ saved' = call[c].map \ {call[c].link}
  /\ Conclude(c, NoCall, TRUE, call[c].map \ {call[c].link})
  /\ UNCHANGED <<pvars, setup, send, wire, flow, shown, owed, stranded>>

\* The browser keeps the record and shows the link as revoked from now on.
RevokeShown(c) ==
  /\ call[c].pc = "asked"
  /\ web
  /\ Conclude(c, NoCall, TRUE, saved)
  /\ UNCHANGED <<pvars, setup, saved, send, wire, flow, shown, owed, stranded>>

\* Timeout, refusal, broken connection; a storage error only if the storage may fail.
RevokeFails(c) ==
  /\ call[c].pc \in {"lookup", "asking", "asked", "erasing"}
  /\ IF call[c].pc = "asking" THEN UNCHANGED slips ELSE Slip
  /\ \E lost \in BOOLEAN :
       /\ lost => call[c].pc = "asking"
       /\ Conclude(c, IF lost THEN [call[c] EXCEPT !.pc = "lost", !.kind = "delete"] ELSE NoCall,
                   FALSE, saved)
  /\ UNCHANGED <<pvars, web, saved, send, wire, flow, shown, owed, stranded>>

\* Clear local history (another screen): one file removal.
ClearHistory ==
  /\ Starts
  /\ ~web
  /\ Elsewhere
  /\ saved' = {}
  /\ owed' = {}
  /\ UNCHANGED <<pvars, web, send, wire, flow, call, list, shown, wipe, told, stranded>>

-------------------------------------------------------------------------------
\* The wipe: list the live links, revoke one after the other, let the user accept
\* the failures, then destroy everything.
WipeOpen ==
  /\ Starts
  /\ Elsewhere
  /\ wipe.pc = "idle"
  /\ wipe' = [NoWipe EXCEPT !.pc = "opening"]
  /\ UNCHANGED <<pvars, web, saved, send, wire, flow, call, list, shown, told, owed, stranded>>

LiveTracked == {l \in saved : phase[l] # "closed"}

\* The phone's dialog waits for the user's confirmation; the browser has asked before.
\* A read that fails counts as no links on the phone and ends the attempt in the browser.
WipeListed ==
  /\ wipe.pc = "opening"
  /\ \/ /\ wipe' = [wipe EXCEPT !.pc = IF web THEN "revoking" ELSE "confirm", !.todo = LiveTracked]
        /\ UNCHANGED slips
     \/ Slip /\ wipe' = IF web THEN NoWipe ELSE [wipe EXCEPT !.pc = "confirm"]
  /\ UNCHANGED <<pvars, web, saved, send, wire, flow, call, list, shown, told, owed, stranded>>

\* A confirmation before the list is there finds it empty.
WipeConfirm ==
  /\ \/ wipe.pc = "confirm" /\ UNCHANGED slips
     \/ wipe.pc = "opening" /\ ~web /\ Slip
  /\ wipe' = [wipe EXCEPT !.pc = "revoking"]
  /\ UNCHANGED <<pvars, web, saved, send, wire, flow, call, list, shown, told, owed, stranded>>

Revoking == \E c \in Calls : call[c].pc # "idle" /\ call[c].kind = "wipe"

WipeRevoke(c, l) ==
  /\ wipe.pc = "revoking"
  /\ ~Revoking
  /\ l \in wipe.todo
  /\ call[c].pc = "idle"
  /\ call' = [call EXCEPT ![c] = [NoCall EXCEPT !.pc = "lookup", !.kind = "wipe", !.link = l]]
  /\ UNCHANGED <<pvars, setup, saved, send, wire, flow, list, shown, wipe, told, owed, stranded>>

WipeDecideAnyway == "wiping"    \* mutant: failures are not put to the user
WipeDecide == IF wipe.failed = {} THEN "wiping" ELSE "ask"
WipeRevoked ==
  /\ wipe.pc = "revoking"
  /\ ~Revoking
  /\ wipe.todo = {}
  /\ wipe' = [wipe EXCEPT !.pc = WipeDecide]
  /\ UNCHANGED <<pvars, setup, saved, send, wire, flow, call, list, shown, told, owed, stranded>>

\* Proceed despite the failures, try them again (phone), or give up.
WipeAnswered ==
  /\ wipe.pc = "ask"
  /\ wipe' \in {[wipe EXCEPT !.pc = "wiping", !.accepted = wipe.failed], NoWipe} \cup
               (IF web THEN {} ELSE {[wipe EXCEPT !.pc = "revoking", !.todo = wipe.failed,
                                                  !.failed = {}]})
  /\ UNCHANGED <<pvars, setup, saved, send, wire, flow, call, list, shown, told, owed, stranded>>

\* The identity goes, the records with their tokens go, every screen goes.
WipeDone ==
  /\ wipe.pc = "wiping"
  /\ saved' = {}
  /\ owed' = {}
  /\ stranded' = stranded \cup {l \in saved \ wipe.accepted : phase[l] = "live"}
  /\ wipe' = NoWipe
  /\ Unmount
  /\ UNCHANGED <<pvars, setup, wire, call, told>>

\* The app is killed: requests already sent may still arrive.
Kill ==
  /\ Slip
  /\ send' = [l \in Links |-> IF send[l].pc = "idle" THEN send[l]
                              ELSE [pc |-> "done", map |-> {}, aborted |-> FALSE, cancelled |-> FALSE]]
  /\ call' = [c \in Calls |-> IF call[c].pc = "asking"
                              THEN [call[c] EXCEPT !.pc = "lost", !.kind = "delete"] ELSE NoCall]
  /\ flow' = FreshFlow
  /\ shown' = Nothing
  /\ list' = NoList
  /\ wipe' = NoWipe
  /\ UNCHANGED <<pvars, web, saved, wire, told, owed, stranded>>

-------------------------------------------------------------------------------
SendStep(l) == Upload(l) \/ Answer(l) \/ ReadToken(l) \/ ReadBlob(l) \/ WriteRecord(l)
               \/ PutRecord(l) \/ RecordFails(l) \/ SendFails(l)
NudgeStep(l) == NudgeRead(l) \/ NudgeSkip(l) \/ NudgeWrite(l)
CallStep(c) == Lookup(c) \/ RevokeServed(c) \/ ForgetRead(c) \/ ForgetWrite(c)
               \/ RevokeShown(c) \/ RevokeFails(c)
WipeStep == WipeOpen \/ WipeListed \/ WipeConfirm \/ WipeRevoked \/ WipeAnswered \/ WipeDone
            \/ \E c \in Calls, l \in Links : WipeRevoke(c, l)
ListStep == Refresh \/ ListServed \/ Display

Next ==
  \/ \E l \in Links : Served(l) \/ Refused(l) \/ Submit(l) \/ SendStep(l) \/ NudgeStep(l)
  \/ \E c \in Calls : CallStep(c)
  \/ \E c \in Calls, l \in Links : RevokeStart(c, l) \/ DeleteStart(c, l)
  \/ Outside \/ Cancel \/ ComposeAnother \/ SwitchTab \/ ClearHistory \/ Kill
  \/ ListStep \/ WipeStep

Spec == Init /\ [][Next]_vars

\* Local work is done and the upload's timer fires; users, recipients and the server
\* owe nothing.  The timer stops at the answer's head: nothing makes its body arrive
\* or break off.
TimedStep(l) == Upload(l) \/ Answer(l) \/ ReadBlob(l) \/ WriteRecord(l) \/ PutRecord(l)
                \/ RecordFails(l) \/ (send[l].pc # "answering" /\ SendFails(l))
FairSpec == Spec /\ \A l \in Links : WF_vars(TimedStep(l))

-------------------------------------------------------------------------------
TypeOK ==
  /\ web \in BOOLEAN /\ slips \in 0..MaxSlips
  /\ saved \subseteq Links /\ told \subseteq Links /\ owed \subseteq Links /\ stranded \subseteq Links
  /\ send \in [Links -> SendState]
  /\ wire \in [Links -> {"none", "sent", "served", "refused"}]
  /\ flow \in FlowState
  /\ call \in [Calls -> CallState]
  /\ list \in ListState
  /\ shown \in [Links -> {"none", "unknown", "active", "gone"}]
  /\ wipe \in WipeState

\* A failed upload leaves no orphan row: whatever overlaps, is killed or fails, a
\* record is only ever there for a link the server has had (create-and-seal.ts).
NoOrphanRecord == \A l \in Links : l \in saved => phase[l] # "unsent"

\* The Links tab calls a link gone only when nobody can open it, however stale the
\* display: an unreachable server, a late answer or an id missing from it never
\* reads as a revocation (link-reconciliation.ts).
GoneIsGone == \A l \in Links : shown[l] = "gone" => phase[l] \in {"closed", "erased"}

\* While nothing overlaps and the storage works, the records are exactly the links
\* whose token arrived and that the user has not revoked, deleted, cleared or
\* wiped since: no token is lost and no removed record returns (sent-links-store.ts).
HistoryExact ==
  slips = 0 => \/ saved = owed
             \/ \E c \in Calls : call[c].pc = "erasing" /\ saved = owed \cup {call[c].link}

\* A link the user was told is revoked cannot be opened (revoke-created-link.ts).
ToldRevokedIsDead == \A l \in told : phase[l] \in {"closed", "erased"}

\* ... while nothing overlaps, the storage works and the app lives.
CarefulRevocation == slips = 0 => ToldRevokedIsDead

\* A wipe destroys no live link's token behind the user's back: each was revoked,
\* or its failure accepted (wipe-orchestration.ts).
NothingStranded == slips = 0 => stranded = {}

\* A send the user cancelled does not come back as the result behind their back,
\* however late its answer and whatever fails or is left meanwhile: only a new submit
\* on the same screen can bring it up again (CreateFlow.tsx:55).
CancelledStaysSilent == flow.screen = "result" => flow.link \notin flow.stopped

\* CreateFlow.tsx:40-42: the settling promise of a send the user cancelled "is turned
\* into a silent return-to-draft", never into a result.
CancelledNotAnnounced == flow.screen = "result" => ~send[flow.link].aborted

\* The Encrypting overlay goes away by itself, or waits for the body of an answer
\* whose head has arrived: sealing, the upload and the recording all end, the
\* upload by its timer if need be (client.ts).
OverlayOnlyAwaitsBody ==
  \A l \in Links :
    (flow.screen = "encrypting" /\ flow.link = l)
      ~> (~(flow.screen = "encrypting" /\ flow.link = l) \/ send[l].pc = "answering")
================================================================================
