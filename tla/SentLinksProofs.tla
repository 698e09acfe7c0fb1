---------------------------- MODULE SentLinksProofs ----------------------------
(* The safety properties of SentLinks for any number of messages and calls,    *)
(* any number of overlaps, failures and kills, and either client.              *)
EXTENDS SentLinks, TLAPS

-------------------------------------------------------------------------------
Sent == {l \in Links : phase[l] # "unsent"}
Dead == {l \in Links : phase[l] \in {"closed", "erased"}}
Active(l) == send[l].pc \notin {"idle", "done"}
Running(c) == call[c].pc \notin {"idle", "lost"}

\* TypeOK, the phases of LinkPromise, and what the fields of a record say together.
ShapeInv ==
  /\ TypeOK
  /\ phase \in [Links -> Phases]
  /\ flow = FreshFlow \/ LinksClosed
  /\ flow.screen # "compose" => flow.link \in Links
  /\ flow.abort # None => send[flow.abort].pc # "idle"
  /\ list.pc = "idle" => list = NoList
  /\ \A l \in Links : send[l].pc = "idle" => ~send[l].aborted
  /\ \A c \in Calls : call[c].pc # "idle" => call[c].link \in Links
  /\ \A c \in Calls : /\ call[c].pc = "lost" => call[c].kind # "wipe"
                      /\ call[c].pc = "erasing" => ~web

\* Whatever the app holds about a link it holds of one the server has had, and what
\* it counts as gone is gone.
SeenInv ==
  /\ saved \subseteq Sent
  /\ list.ids \subseteq Sent /\ list.gone \subseteq Dead
  /\ wipe.todo \subseteq Sent /\ wipe.failed \subseteq Sent
  /\ \A l \in Links :
       /\ wire[l] = "served" => l \in Sent
       /\ send[l].pc \in {"answering", "recording", "writing", "nudging", "attaching"} => l \in Sent
       /\ send[l].map \subseteq Sent
       /\ shown[l] # "none" => l \in Sent
       /\ shown[l] = "gone" => l \in Dead
  /\ \A c \in Calls : call[c].map \subseteq Sent
  /\ flow.screen = "result" => flow.link \in Sent
  /\ \A c \in Calls : call[c].pc # "idle" => call[c].link \in Sent

\* One thing at a time.
Alone ==
  /\ \A l, m \in Links : Active(l) /\ Active(m) => l = m
  /\ \A c, d \in Calls : Running(c) /\ Running(d) => c = d
  /\ (\E l \in Links : Active(l)) =>
       (\A c \in Calls : ~Running(c)) /\ list.pc = "idle" /\ wipe.pc = "idle"
  /\ \A c \in Calls : Running(c) =>
       list.pc = "idle" /\ (wipe.pc = "idle" \/ call[c].kind = "wipe")
  /\ wipe.pc # "idle" => Elsewhere
  /\ \A c \in Calls : Running(c) /\ call[c].kind = "wipe" =>
       wipe.pc = "revoking" /\ call[c].link \in wipe.todo

Records ==
  /\ \A l \in Links : send[l].pc \in {"writing", "attaching"} => send[l].map = saved
  /\ \A c \in Calls : call[c].pc = "erasing" =>
       /\ call[c].map = saved
       /\ call[c].link \notin owed
       /\ saved = owed \cup {call[c].link}
  /\ (\A c \in Calls : call[c].pc # "erasing") => saved = owed
  /\ list.ids \subseteq saved
  /\ list.pc = "idle" => \A l \in Links : shown[l] # "none" => l \in saved

Revocations ==
  /\ told \subseteq Dead
  /\ flow.screen = "result" => flow.link \in saved \cup Dead
  /\ \A c \in Calls : Running(c) =>
       \/ /\ call[c].kind = "delete" /\ flow = FreshFlow
          /\ call[c].pc \in {"asked", "erasing"}
       \/ call[c].link \in Dead
       \/ call[c].pc = "lookup" /\ call[c].link \in saved
       \/ call[c].pc = "asking" /\ call[c].token

Wiping ==
  /\ stranded = {}
  /\ wipe.pc = "opening" => wipe.failed = {}
  /\ wipe.pc \in {"confirm", "revoking", "ask"} =>
       /\ wipe.todo \cup wipe.failed \subseteq saved
       /\ wipe.todo \cap wipe.failed = {}
       /\ \A l \in saved : phase[l] = "live" => l \in wipe.todo \cup wipe.failed
  /\ wipe.pc = "ask" => wipe.todo = {}
  /\ wipe.pc = "wiping" => \A l \in saved \ wipe.accepted : phase[l] # "live"

CarefulInv == Alone /\ Records /\ Revocations /\ Wiping

SenderInv == ShapeInv /\ SeenInv /\ (slips = 0 => CarefulInv)

-------------------------------------------------------------------------------
\* A step that overlaps another, or that fails, is counted; any other step that
\* starts something finds everything settled.
LEMMA Slipped ==
  ASSUME TypeOK, Slip
  PROVE  slips' \in 0..MaxSlips /\ slips' # 0
BY SenderAssumption DEF TypeOK, Slip, SenderAssumption

LEMMA Started ==
  ASSUME TypeOK, Starts
  PROVE  slips' \in 0..MaxSlips /\ (slips' = 0 => slips = 0 /\ Settled)
BY Slipped DEF TypeOK, Starts

\* Settled, in the terms of the invariant.
LEMMA SettledFacts ==
  ASSUME Settled
  PROVE  /\ \A l \in Links : ~Active(l)
         /\ \A c \in Calls : ~Running(c)
         /\ list.pc = "idle" /\ wipe.pc = "idle"
BY DEF Settled, Active, Running

\* A link the server has had is never unsent again, and a dead one stays dead.
LEMMA PhaseGrows ==
  ASSUME phase \in [Links -> Phases],
         \/ UNCHANGED pvars
         \/ \E l \in Links : Send(l) \/ Withdraw(l) \/ Expire({l})
         \/ \E l \in Links, o \in Opens : Consume(l, o)
  PROVE  phase' \in [Links -> Phases] /\ Sent \subseteq Sent' /\ Dead \subseteq Dead'
<1>1. CASE UNCHANGED pvars
  BY <1>1 DEF pvars, Sent, Dead
<1>2. ASSUME NEW l \in Links, Send(l) \/ Withdraw(l) \/ Expire({l})
      PROVE  phase' \in [Links -> Phases] /\ Sent \subseteq Sent' /\ Dead \subseteq Dead'
  BY <1>2 DEF Send, Withdraw, Expire, Phases, Sent, Dead
<1>3. ASSUME NEW l \in Links, NEW o \in Opens, Consume(l, o)
      PROVE  phase' \in [Links -> Phases] /\ Sent \subseteq Sent' /\ Dead \subseteq Dead'
  BY <1>3 DEF Consume, Phases, Sent, Dead
<1>4. QED BY <1>1, <1>2, <1>3

-------------------------------------------------------------------------------
\* The upload and the reminder of one message go on, and nothing else changes.
LEMMA SendOnly ==
  ASSUME SenderInv, NEW l \in Links, NEW r \in SendState,
         send' = [send EXCEPT ![l] = r],
         Active(l), r.pc # "idle", r.aborted = send[l].aborted,
         r.pc \in {"answering", "recording", "writing", "nudging", "attaching"} => l \in Sent,
         r.map \subseteq Sent,
         slips = 0 /\ r.pc \in {"writing", "attaching"} => r.map = saved,
         wire' \in [Links -> {"none", "sent", "served", "refused"}],
         \A m \in Links : wire'[m] = "served" => wire[m] = "served",
         saved' \subseteq Sent, slips = 0 => saved' = saved,
         UNCHANGED <<pvars, setup, flow, call, list, shown, wipe, told, owed, stranded>>
  PROVE  SenderInv'
<1> USE DEF SenderInv
<1>1. /\ send' \in [Links -> SendState] /\ send'[l] = r
      /\ \A m \in Links \ {l} : send'[m] = send[m]
  BY DEF ShapeInv, TypeOK
<1>2. UNCHANGED <<phase, web, slips, flow, call, list, shown, wipe, told, owed, stranded>>
  BY DEF pvars, setup
<1>3. \A m \in Links : Active(m)' => Active(m)
  BY <1>1 DEF Active
<1>4. ShapeInv'
  <2>1. TypeOK'
    BY <1>1, <1>2 DEF ShapeInv, TypeOK, Sent
  <2>2. flow.abort # None => send'[flow.abort].pc # "idle"
    BY <1>1 DEF ShapeInv, TypeOK, FlowState
  <2>3. \A m \in Links : send'[m].pc = "idle" => ~send'[m].aborted
    BY <1>1 DEF ShapeInv
  <2>4. QED BY <1>2, <2>1, <2>2, <2>3 DEF ShapeInv, LinksClosed
<1>5. SeenInv'
  BY <1>1, <1>2 DEF SeenInv, Sent, Dead
<1>6. ASSUME slips' = 0
      PROVE  CarefulInv'
  <2> USE <1>2, <1>6 DEF CarefulInv
  <2>1. Alone'
    BY <1>3 DEF Alone, Running, Elsewhere, LinksClosed
  <2>2. Records'
    BY <1>1 DEF Records
  <2>3. Revocations' /\ Wiping'
    BY DEF Revocations, Running, Dead, Wiping
  <2>4. QED BY <2>1, <2>2, <2>3
<1>7. QED BY <1>4, <1>5, <1>6

LEMMA KeepsUpload ==
  ASSUME SenderInv, NEW l \in Links, Upload(l)
  PROVE  SenderInv'
<1> DEFINE r == [send[l] EXCEPT !.pc = "posting"]
<1>1. send[l] \in SendState
  BY DEF SenderInv, ShapeInv, TypeOK
<1>2. r \in SendState /\ r.pc = "posting" /\ r.aborted = send[l].aborted /\ r.map = send[l].map
  BY <1>1 DEF SendState, SendPcs
<1>3. send' = [send EXCEPT ![l] = r]
  BY DEF Upload
<1> HIDE DEF r
<1>4. /\ wire' \in [Links -> {"none", "sent", "served", "refused"}]
      /\ \A m \in Links : wire'[m] = "served" => wire[m] = "served"
  BY DEF Upload, SenderInv, ShapeInv, TypeOK
<1>5. r.map \subseteq Sent
  BY <1>2 DEF SenderInv, SeenInv
<1>6. Active(l)
  BY DEF Upload, Active
<1>7. saved' = saved /\ saved \subseteq Sent
      /\ UNCHANGED <<pvars, setup, flow, call, list, shown, wipe, told, owed, stranded>>
  BY DEF Upload, SenderInv, SeenInv
<1>8. QED BY <1>2, <1>3, <1>4, <1>5, <1>6, <1>7, SendOnly DEF Upload

LEMMA KeepsAnswer ==
  ASSUME SenderInv, NEW l \in Links, Answer(l) \/ ReadToken(l)
  PROVE  SenderInv'
<1> DEFINE r == [send[l] EXCEPT !.pc = IF send[l].pc = "posting" THEN "answering" ELSE "recording"]
<1>1. send[l] \in SendState /\ Active(l) /\ l \in Sent /\ saved \subseteq Sent
  BY DEF SenderInv, ShapeInv, TypeOK, SeenInv, Answer, Accepted, ReadToken, Active
<1>2. /\ r \in SendState /\ r.pc \in {"answering", "recording"}
      /\ r.aborted = send[l].aborted /\ r.map = send[l].map
  BY <1>1 DEF SendState, SendPcs
<1>3. send' = [send EXCEPT ![l] = r]
  BY DEF Answer, ReadToken
<1> HIDE DEF r
<1>4. r.map \subseteq Sent
  BY <1>2 DEF SenderInv, SeenInv
<1>5. /\ UNCHANGED <<pvars, setup, saved, wire, flow, call, list, shown, wipe, told, owed, stranded>>
      /\ wire \in [Links -> {"none", "sent", "served", "refused"}]
  BY DEF Answer, ReadToken, SenderInv, ShapeInv, TypeOK
<1>6. QED BY <1>1, <1>2, <1>3, <1>4, <1>5, SendOnly

LEMMA KeepsReadBlob ==
  ASSUME SenderInv, NEW l \in Links, ReadBlob(l)
  PROVE  SenderInv'
<1> DEFINE r == [send[l] EXCEPT !.pc = "writing", !.map = saved]
<1>1. send[l] \in SendState /\ Active(l) /\ l \in Sent /\ saved \subseteq Links /\ saved \subseteq Sent
  BY DEF SenderInv, ShapeInv, TypeOK, SeenInv, ReadBlob, Active
<1>2. r \in SendState /\ r.pc = "writing" /\ r.aborted = send[l].aborted /\ r.map = saved
  BY <1>1 DEF SendState, SendPcs
<1>3. send' = [send EXCEPT ![l] = r]
  BY <1>1 DEF ReadBlob, SenderInv, ShapeInv, TypeOK
<1> HIDE DEF r
<1>4. /\ UNCHANGED <<pvars, setup, saved, wire, flow, call, list, shown, wipe, told, owed, stranded>>
      /\ wire \in [Links -> {"none", "sent", "served", "refused"}]
  BY DEF ReadBlob, SenderInv, ShapeInv, TypeOK
<1>5. QED BY <1>1, <1>2, <1>3, <1>4, SendOnly

LEMMA KeepsNudge ==
  ASSUME SenderInv, NEW l \in Links, NudgeRead(l) \/ NudgeSkip(l)
  PROVE  SenderInv'
<1>1. /\ send[l] \in SendState /\ Active(l) /\ l \in Sent
      /\ saved \subseteq Links /\ saved \subseteq Sent /\ send[l].map \subseteq Sent
      /\ wire \in [Links -> {"none", "sent", "served", "refused"}]
  BY DEF SenderInv, ShapeInv, TypeOK, SeenInv, NudgeRead, NudgeSkip, Active
<1>2. UNCHANGED <<pvars, setup, saved, wire, flow, call, list, shown, wipe, told, owed, stranded>>
  BY DEF NudgeRead, NudgeSkip
<1>3. PICK r \in {[send[l] EXCEPT !.pc = "attaching", !.map = saved],
                  [send[l] EXCEPT !.pc = "done"],
                  [send[l] EXCEPT !.pc = "done", !.map = {}]} : send' = [send EXCEPT ![l] = r]
  BY <1>1 DEF NudgeRead, NudgeSkip, SenderInv, ShapeInv, TypeOK
<1>4. /\ r \in SendState /\ r.pc \in {"attaching", "done"} /\ r.aborted = send[l].aborted
      /\ r.map \subseteq Sent /\ (r.pc = "attaching" => r.map = saved)
  BY <1>1 DEF SendState, SendPcs
<1>5. QED BY <1>1, <1>2, <1>3, <1>4, SendOnly

LEMMA KeepsNudgeWrite ==
  ASSUME SenderInv, NEW l \in Links, NudgeWrite(l)
  PROVE  SenderInv'
<1> DEFINE r == [send[l] EXCEPT !.pc = "done", !.map = {}]
<1>1. /\ send[l] \in SendState /\ Active(l)
      /\ send[l].map \subseteq Sent /\ (slips = 0 => send[l].map = saved)
      /\ wire \in [Links -> {"none", "sent", "served", "refused"}]
  BY DEF SenderInv, ShapeInv, TypeOK, SeenInv, CarefulInv, Records, NudgeWrite, Active
<1>2. r \in SendState /\ r.pc = "done" /\ r.aborted = send[l].aborted /\ r.map = {}
  BY <1>1 DEF SendState, SendPcs
<1>3. send' = [send EXCEPT ![l] = r]
  BY <1>1 DEF NudgeWrite, SenderInv, ShapeInv, TypeOK
<1> HIDE DEF r
<1>4. /\ UNCHANGED <<pvars, setup, wire, flow, call, list, shown, wipe, told, owed, stranded>>
      /\ saved' = send[l].map
  BY DEF NudgeWrite
<1>5. QED BY <1>1, <1>2, <1>3, <1>4, SendOnly

-------------------------------------------------------------------------------
\* What AfterSend does to the message and to the compose screen.
LEMMA AfterSendFacts ==
  ASSUME SenderInv, NEW l \in Links, NEW ok \in BOOLEAN, AfterSend(l, ok), Active(l)
  PROVE  /\ send' \in [Links -> SendState]
         /\ send'[l].pc \in {"nudging", "done"} /\ (~ok => send'[l].pc = "done")
         /\ send'[l].aborted = send[l].aborted /\ send'[l].map = {}
         /\ \A m \in Links \ {l} : send'[m] = send[m]
         /\ flow' \in FlowState
         /\ flow'.mine = flow.mine /\ flow'.cancelled = flow.cancelled
         /\ flow'.stopped = flow.stopped
         /\ flow'.abort \in {flow.abort, None}
         /\ flow' # flow => l \in flow.mine
         /\ flow'.screen = "encrypting" => flow.screen = "encrypting" /\ flow'.link = flow.link
         /\ flow'.screen = "result" =>
              \/ flow.screen = "result" /\ flow'.link = flow.link
              \/ ok /\ flow'.link = l /\ l \in flow.mine /\ ~flow.cancelled
<1>1. send[l] \in SendState /\ send \in [Links -> SendState] /\ flow \in FlowState
  BY DEF SenderInv, ShapeInv, TypeOK
<1>2. PICK r \in {[send[l] EXCEPT !.pc = "nudging", !.map = {}],
                  [send[l] EXCEPT !.pc = "done", !.map = {}]} :
        send' = [send EXCEPT ![l] = r] /\ (~ok => r = [send[l] EXCEPT !.pc = "done", !.map = {}])
  BY <1>1 DEF AfterSend
<1>3. /\ r \in SendState /\ r.pc \in {"nudging", "done"} /\ (~ok => r.pc = "done")
      /\ r.aborted = send[l].aborted /\ r.map = {}
  BY <1>1, <1>2 DEF SendState, SendPcs
<1>4. flow' = flow \/ l \in flow.mine
  BY DEF AfterSend
<1>5. CASE flow' = flow
  BY <1>1, <1>2, <1>3, <1>5
<1>6. CASE l \in flow.mine /\ Drops(l, ok)
  <2>1. flow' = [flow EXCEPT !.abort = None]
    BY <1>6 DEF AfterSend
  <2>2. QED BY <1>1, <1>2, <1>3, <1>6, <2>1 DEF FlowState
<1>7. CASE l \in flow.mine /\ ~Drops(l, ok) /\ ok
  <2>1. flow' = [flow EXCEPT !.screen = "result", !.link = l, !.abort = None] /\ ~flow.cancelled
    BY <1>7 DEF AfterSend, Drops, CancelledRef
  <2>2. QED BY <1>1, <1>2, <1>3, <1>7, <2>1 DEF FlowState
<1>8. CASE l \in flow.mine /\ ~ok
  <2>1. flow' = [flow EXCEPT !.screen = "compose", !.link = None, !.abort = None]
    BY <1>8 DEF AfterSend, Drops
  <2>2. QED BY <1>1, <1>2, <1>3, <1>8, <2>1 DEF FlowState
<1>9. QED BY <1>4, <1>5, <1>6, <1>7, <1>8

\* A send ends: recorded, unrecorded because the storage failed, or failed.
LEMMA KeepsAfterSend ==
  ASSUME SenderInv, NEW l \in Links, NEW ok \in BOOLEAN, AfterSend(l, ok), Active(l),
         ok => l \in Sent,
         slips' \in 0..MaxSlips, saved' \subseteq Sent, owed' \subseteq Links,
         slips' = 0 =>
           /\ slips = 0
           /\ IF ok THEN saved' = saved \cup {l} /\ owed' = owed \cup {l}
                    ELSE saved' = saved /\ owed' = owed,
         UNCHANGED <<pvars, web, wire, call, list, shown, wipe, told, stranded>>
  PROVE  SenderInv'
<1> USE DEF SenderInv
<1>1. UNCHANGED <<phase, web, wire, call, list, shown, wipe, told, stranded>>
  BY DEF pvars
<1>2. /\ send' \in [Links -> SendState]
      /\ send'[l].pc \in {"nudging", "done"} /\ (~ok => send'[l].pc = "done")
      /\ send'[l].aborted = send[l].aborted /\ send'[l].map = {}
      /\ \A m \in Links \ {l} : send'[m] = send[m]
  BY AfterSendFacts
<1>3. /\ flow' \in FlowState
      /\ flow'.mine = flow.mine /\ flow'.cancelled = flow.cancelled
      /\ flow'.abort \in {flow.abort, None}
      /\ flow' # flow => l \in flow.mine
      /\ flow'.screen = "encrypting" => flow.screen = "encrypting" /\ flow'.link = flow.link
      /\ flow'.screen = "result" =>
           \/ flow.screen = "result" /\ flow'.link = flow.link
           \/ ok /\ flow'.link = l /\ l \in flow.mine /\ ~flow.cancelled
  BY AfterSendFacts
<1>4. flow' # flow => flow # FreshFlow
  BY <1>3 DEF FreshFlow
<1>5. ShapeInv'
  <2>1. TypeOK'
    BY <1>1, <1>2, <1>3 DEF ShapeInv, TypeOK, Sent
  <2>2. flow'.abort # None => send'[flow'.abort].pc # "idle"
    BY <1>2, <1>3 DEF ShapeInv, TypeOK, FlowState
  <2>3. \A m \in Links : send'[m].pc = "idle" => ~send'[m].aborted
    BY <1>2 DEF ShapeInv
  <2>4. flow' = FreshFlow \/ LinksClosed'
    BY <1>1, <1>4 DEF ShapeInv, LinksClosed
  <2>5. flow'.screen # "compose" => flow'.link \in Links
    BY <1>3 DEF ShapeInv, FlowState
  <2>6. QED BY <1>1, <2>1, <2>2, <2>3, <2>4, <2>5 DEF ShapeInv
<1>6. SeenInv'
  BY <1>1, <1>2, <1>3 DEF SeenInv, Sent, Dead
<1>7. ASSUME slips' = 0
      PROVE  CarefulInv'
  <2> USE <1>1, <1>7 DEF CarefulInv
  <2>1. /\ \A m \in Links : Active(m) => m = l
        /\ \A c \in Calls : ~Running(c)
        /\ list.pc = "idle" /\ wipe.pc = "idle"
    BY DEF Alone
  <2>2. /\ \A m \in Links : Active(m)' => m = l
        /\ \A c \in Calls : ~Running(c)'
    BY <1>2, <2>1 DEF Active, Running
  <2>3. Alone'
    BY <2>1, <2>2 DEF Alone
  <2>4. Records'
    <3>1. \A c \in Calls : call[c].pc # "erasing"
      BY <2>1 DEF Running
    <3>2. \A m \in Links : send'[m].pc \notin {"writing", "attaching"}
      BY <1>2, <2>2 DEF Active
    <3>3. QED BY <3>1, <3>2 DEF Records
  <2>5. Revocations'
    BY <1>3, <2>2 DEF Revocations, Dead
  <2>6. Wiping'
    BY <2>1 DEF Wiping
  <2>7. QED BY <2>3, <2>4, <2>5, <2>6
<1>8. QED BY <1>5, <1>6, <1>7

LEMMA KeepsRecord ==
  ASSUME SenderInv, NEW l \in Links, WriteRecord(l) \/ PutRecord(l) \/ RecordFails(l)
  PROVE  SenderInv'
<1> USE DEF SenderInv
<1>1. /\ Active(l) /\ l \in Sent /\ AfterSend(l, TRUE)
      /\ saved \subseteq Sent /\ owed \subseteq Links /\ send[l].map \subseteq Sent
      /\ UNCHANGED <<pvars, web, wire, call, list, shown, wipe, told, stranded>>
  BY DEF WriteRecord, PutRecord, RecordFails, Active, SeenInv, ShapeInv, TypeOK, setup
<1>2. CASE WriteRecord(l)
  <2>1. /\ slips' = slips /\ slips \in 0..MaxSlips
        /\ saved' = send[l].map \cup {l} /\ owed' = owed \cup {l}
        /\ slips = 0 => send[l].map = saved
    BY <1>2 DEF WriteRecord, Blob, setup, ShapeInv, TypeOK, CarefulInv, Records
  <2>2. QED BY <1>1, <2>1, KeepsAfterSend
<1>3. CASE PutRecord(l)
  <2>1. /\ slips' = slips /\ slips \in 0..MaxSlips
        /\ saved' = saved \cup {l} /\ owed' = owed \cup {l}
    BY <1>3 DEF PutRecord, setup, ShapeInv, TypeOK
  <2>2. QED BY <1>1, <2>1, KeepsAfterSend
<1>4. CASE RecordFails(l)
  <2>1. slips' \in 0..MaxSlips /\ slips' # 0 /\ saved' = saved /\ owed' = owed
    BY <1>4, Slipped DEF RecordFails, ShapeInv
  <2>2. QED BY <1>1, <2>1, KeepsAfterSend
<1>5. QED BY <1>2, <1>3, <1>4

LEMMA KeepsSendFails ==
  ASSUME SenderInv, NEW l \in Links, SendFails(l)
  PROVE  SenderInv'
<1>1. /\ Active(l) /\ AfterSend(l, FALSE)
      /\ saved \subseteq Sent /\ owed \subseteq Links /\ slips \in 0..MaxSlips
      /\ UNCHANGED <<slips, saved, owed>>
      /\ UNCHANGED <<pvars, web, wire, call, list, shown, wipe, told, stranded>>
  BY DEF SenderInv, ShapeInv, TypeOK, SeenInv, SendFails, MayFail, Active, setup
<1>2. QED BY <1>1, KeepsAfterSend

-------------------------------------------------------------------------------
\* The compose screen.
LEMMA KeepsSubmit ==
  ASSUME SenderInv, NEW l \in Links, Submit(l)
  PROVE  SenderInv'
<1> USE DEF SenderInv
<1> DEFINE r == [send[l] EXCEPT !.pc = "sealing"]
           f == [flow EXCEPT !.screen = "encrypting", !.link = l, !.cancelled = FALSE,
                             !.abort = l, !.mine = flow.mine \cup {l}, !.stopped = {}]
<1>1. /\ send[l] \in SendState /\ send[l].pc = "idle" /\ ~send[l].aborted
      /\ send \in [Links -> SendState] /\ flow \in FlowState /\ LinksClosed
      /\ slips' \in 0..MaxSlips /\ (slips' = 0 => slips = 0 /\ Settled)
  BY Started DEF Submit, ShapeInv, TypeOK
<1>2. /\ r \in SendState /\ r.pc = "sealing" /\ ~r.aborted /\ r.map = send[l].map
      /\ f \in FlowState /\ f.screen = "encrypting" /\ f.link = l /\ f.abort = l
      /\ f.mine = flow.mine \cup {l}
  BY <1>1 DEF SendState, SendPcs, FlowState
<1>3. send' = [send EXCEPT ![l] = r] /\ flow' = f
  BY DEF Submit
<1> HIDE DEF r, f
<1>4. /\ send' \in [Links -> SendState] /\ send'[l].pc = "sealing" /\ ~send'[l].aborted
      /\ send'[l].map = send[l].map /\ \A m \in Links \ {l} : send'[m] = send[m]
  BY <1>1, <1>2, <1>3
<1>5. UNCHANGED <<phase, web, saved, wire, call, list, shown, wipe, told, owed, stranded>>
  BY DEF Submit, pvars
<1>6. ShapeInv'
  <2>1. TypeOK'
    BY <1>1, <1>2, <1>3, <1>4, <1>5 DEF ShapeInv, TypeOK
  <2>2. LinksClosed'
    BY <1>1, <1>5 DEF LinksClosed
  <2>3. \A m \in Links : send'[m].pc = "idle" => ~send'[m].aborted
    BY <1>4 DEF ShapeInv
  <2>4. QED BY <1>2, <1>3, <1>4, <1>5, <2>1, <2>2, <2>3 DEF ShapeInv
<1>7. SeenInv'
  BY <1>2, <1>3, <1>4, <1>5 DEF SeenInv, Sent, Dead
<1>8. ASSUME slips' = 0
      PROVE  CarefulInv'
  <2> USE <1>5 DEF CarefulInv
  <2>1. /\ \A m \in Links : Active(m)' => m = l
        /\ \A c \in Calls : ~Running(c)'
        /\ list.pc = "idle" /\ wipe.pc = "idle"
    BY <1>1, <1>4, <1>8, SettledFacts DEF Active, Running
  <2>2. Alone'
    BY <2>1 DEF Alone
  <2>3. Records'
    BY <1>1, <1>4, <1>8 DEF Records
  <2>4. Revocations' /\ Wiping'
    BY <1>1, <1>2, <1>3, <1>8, <2>1 DEF Revocations, Dead, Wiping
  <2>5. QED BY <2>2, <2>3, <2>4
<1>9. QED BY <1>6, <1>7, <1>8

LEMMA KeepsCancel ==
  ASSUME SenderInv, Cancel
  PROVE  SenderInv'
<1> USE DEF SenderInv
<1>1. /\ send \in [Links -> SendState] /\ flow \in FlowState /\ slips \in 0..MaxSlips
      /\ flow # FreshFlow /\ LinksClosed /\ flow.link \in Links
  BY DEF Cancel, FreshFlow, ShapeInv, TypeOK
<1>2. /\ send' \in [Links -> SendState]
      /\ \A m \in Links : /\ send'[m].pc = send[m].pc /\ send'[m].map = send[m].map
                          /\ m # flow.abort => send'[m] = send[m]
  <2>1. \A m \in Links : send[m] \in SendState
    BY <1>1
  <2>2. /\ \A m \in Links \ {flow.abort} : send'[m] = send[m]
        /\ \A m \in Links : m = flow.abort => send'[m] = [send[m] EXCEPT !.aborted = TRUE]
    BY DEF Cancel
  <2>3. \A m \in Links : /\ [send[m] EXCEPT !.aborted = TRUE] \in SendState
                          /\ [send[m] EXCEPT !.aborted = TRUE].pc = send[m].pc
                          /\ [send[m] EXCEPT !.aborted = TRUE].map = send[m].map
    BY <2>1 DEF SendState
  <2>4. \A m \in Links : /\ send'[m] \in SendState
                          /\ send'[m].pc = send[m].pc /\ send'[m].map = send[m].map
    BY <2>1, <2>2, <2>3
  <2>5. send' = [m \in Links |-> send'[m]]
    BY DEF Cancel
  <2>6. QED BY <2>2, <2>4, <2>5
<1>3. /\ flow' \in FlowState /\ flow'.screen = "compose" /\ flow'.cancelled = TRUE
      /\ flow'.abort = flow.abort /\ flow'.mine = flow.mine
  BY <1>1 DEF Cancel, FlowState
<1>4. UNCHANGED <<phase, web, slips, saved, wire, call, list, shown, wipe, told, owed, stranded>>
  BY DEF Cancel, pvars, setup
<1>5. ShapeInv'
  <2>1. TypeOK'
    BY <1>1, <1>2, <1>3, <1>4 DEF ShapeInv, TypeOK
  <2>2. LinksClosed'
    BY <1>1, <1>4 DEF LinksClosed
  <2>3. \A m \in Links : send'[m].pc = "idle" => ~send'[m].aborted
    BY <1>2, SenderAssumption DEF ShapeInv, SenderAssumption
  <2>4. flow'.abort # None => send'[flow'.abort].pc # "idle"
    BY <1>1, <1>2, <1>3 DEF ShapeInv, FlowState
  <2>5. QED BY <1>3, <1>4, <2>1, <2>2, <2>3, <2>4 DEF ShapeInv
<1>6. SeenInv'
  BY <1>2, <1>3, <1>4 DEF SeenInv, Sent, Dead
<1>7. ASSUME slips' = 0
      PROVE  CarefulInv'
  <2> USE <1>4, <1>7 DEF CarefulInv
  <2>1. wipe.pc = "idle"
    BY <1>1 DEF Alone, Elsewhere
  <2>2. Alone'
    BY <1>2, <2>1 DEF Alone, Active, Running
  <2>3. Records' /\ Wiping'
    BY <1>2 DEF Records, Wiping
  <2>4. Revocations'
    BY <1>1, <1>3 DEF Revocations, Running, Dead
  <2>5. QED BY <2>2, <2>3, <2>4
<1>8. QED BY <1>5, <1>6, <1>7

LEMMA KeepsComposeAnother ==
  ASSUME SenderInv, ComposeAnother
  PROVE  SenderInv'
<1> USE DEF SenderInv
<1>1. flow \in FlowState /\ slips \in 0..MaxSlips /\ flow # FreshFlow /\ LinksClosed
  BY DEF ComposeAnother, FreshFlow, ShapeInv, TypeOK
<1>2. /\ flow' \in FlowState /\ flow'.screen = "compose" /\ flow'.cancelled = flow.cancelled
      /\ flow'.abort = flow.abort /\ flow'.mine = flow.mine
  BY <1>1 DEF ComposeAnother, FlowState
<1>3. UNCHANGED <<phase, web, slips, saved, send, wire, call, list, shown, wipe, told, owed, stranded>>
  BY DEF ComposeAnother, pvars, setup
<1>4. ShapeInv'
  BY <1>1, <1>2, <1>3 DEF ShapeInv, TypeOK, LinksClosed
<1>5. SeenInv'
  BY <1>2, <1>3 DEF SeenInv, Sent, Dead
<1>6. ASSUME slips' = 0
      PROVE  CarefulInv'
  <2> USE <1>3, <1>6 DEF CarefulInv
  <2>1. Alone'
    BY <1>1 DEF Alone, Active, Running, Elsewhere
  <2>2. Records' /\ Wiping'
    BY DEF Records, Wiping
  <2>3. Revocations'
    BY <1>1, <1>2 DEF Revocations, Running, Dead, Active
  <2>4. QED BY <2>1, <2>2, <2>3
<1>7. QED BY <1>4, <1>5, <1>6

-------------------------------------------------------------------------------
\* Leaving the screens touches nothing of a send but its screen's flag.
LEMMA UnmountFacts ==
  ASSUME TypeOK, Unmount
  PROVE  /\ flow' = FreshFlow /\ shown' = Nothing /\ list' = NoList
         /\ flow' \in FlowState /\ list' \in ListState
         /\ shown' \in [Links -> {"none", "unknown", "active", "gone"}]
         /\ send' \in [Links -> SendState]
         /\ \A m \in Links : /\ send'[m].pc = send[m].pc /\ send'[m].map = send[m].map
                             /\ send'[m].aborted = send[m].aborted
<1>1. flow' = FreshFlow /\ shown' = Nothing /\ list' = NoList
  BY DEF Unmount
<1>2. FreshFlow \in FlowState /\ NoList \in ListState
  BY DEF FreshFlow, FlowState, NoList, ListState
<1>3. Nothing \in [Links -> {"none", "unknown", "active", "gone"}]
  BY DEF Nothing
<1>4. /\ send' \in [Links -> SendState]
      /\ \A m \in Links : /\ send'[m].pc = send[m].pc /\ send'[m].map = send[m].map
                          /\ send'[m].aborted = send[m].aborted
  BY DEF TypeOK, Unmount, SendState, FlowState
<1>5. QED BY <1>1, <1>2, <1>3, <1>4

\* What is left after the screens are gone, whatever becomes of the wipe's dialog
\* and, at its end, of the records.
LEMMA UnmountKeeps ==
  ASSUME SenderInv, Unmount,
         slips' \in 0..MaxSlips, wipe' \in {wipe, NoWipe}, stranded' \subseteq Links,
         saved' \subseteq saved, owed' \subseteq owed,
         UNCHANGED <<pvars, web, wire, call, told>>
  PROVE  ShapeInv' /\ SeenInv'
<1> USE DEF SenderInv
<1>1. /\ flow' = FreshFlow /\ shown' = Nothing /\ list' = NoList
      /\ flow' \in FlowState /\ list' \in ListState
      /\ shown' \in [Links -> {"none", "unknown", "active", "gone"}]
      /\ send' \in [Links -> SendState]
      /\ \A m \in Links : /\ send'[m].pc = send[m].pc /\ send'[m].map = send[m].map
                          /\ send'[m].aborted = send[m].aborted
  BY UnmountFacts DEF ShapeInv
<1>2. /\ UNCHANGED <<phase, web, wire, call, told>>
      /\ wipe' \in WipeState /\ wipe'.todo \subseteq Sent /\ wipe'.failed \subseteq Sent
  BY DEF pvars, NoWipe, WipeState, ShapeInv, TypeOK, SeenInv
<1>3. ShapeInv'
  <2>1. TypeOK'
    BY <1>1, <1>2 DEF ShapeInv, TypeOK
  <2>2. flow'.screen = "compose" /\ flow'.abort = None
    BY <1>1 DEF FreshFlow
  <2>3. QED BY <1>1, <1>2, <2>1, <2>2 DEF ShapeInv
<1>4. SeenInv'
  <2>1. flow'.screen # "result" /\ list'.ids = {} /\ list'.gone = {}
        /\ \A m \in Links : shown'[m] = "none"
    BY <1>1 DEF FreshFlow, NoList, Nothing
  <2>2. QED BY <1>1, <1>2, <2>1 DEF SeenInv, Sent, Dead
<1>5. QED BY <1>3, <1>4

LEMMA KeepsSwitchTab ==
  ASSUME SenderInv, SwitchTab
  PROVE  SenderInv'
<1> USE DEF SenderInv
<1>1. slips' \in 0..MaxSlips /\ (slips' = 0 => slips = 0 /\ Settled)
  BY Started DEF SwitchTab, ShapeInv
<1>2. UNCHANGED <<phase, web, saved, wire, call, wipe, told, owed, stranded>> /\ Unmount
  BY DEF SwitchTab, pvars
<1>3. ShapeInv' /\ SeenInv'
  BY <1>1, UnmountKeeps DEF SwitchTab, ShapeInv, TypeOK
<1>4. ASSUME slips' = 0
      PROVE  CarefulInv'
  <2> USE <1>2 DEF CarefulInv
  <2>1. /\ flow' = FreshFlow /\ shown' = Nothing /\ list' = NoList
        /\ \A m \in Links : send'[m].pc = send[m].pc
    BY UnmountFacts DEF ShapeInv
  <2>2. /\ \A m \in Links : ~Active(m)'
        /\ \A c \in Calls : ~Running(c)'
        /\ list'.pc = "idle" /\ wipe.pc = "idle"
    BY <1>1, <1>4, <2>1, SettledFacts DEF Active, Running, NoList
  <2>3. Alone'
    BY <2>2 DEF Alone
  <2>4. Records'
    BY <1>1, <1>4, <2>1, <2>2 DEF Records, Active, NoList, Nothing
  <2>5. Revocations' /\ Wiping'
    BY <1>1, <1>4, <2>1, <2>2 DEF Revocations, Dead, Wiping, FreshFlow
  <2>6. QED BY <2>3, <2>4, <2>5
<1>5. QED BY <1>3, <1>4

LEMMA KeepsWipeDone ==
  ASSUME SenderInv, WipeDone
  PROVE  SenderInv'
<1> USE DEF SenderInv
<1>1. /\ UNCHANGED <<phase, web, slips, wire, call, told>> /\ Unmount
      /\ saved' = {} /\ owed' = {} /\ wipe' = NoWipe /\ wipe.pc = "wiping"
      /\ stranded' = stranded \cup {l \in saved \ wipe.accepted : phase[l] = "live"}
  BY DEF WipeDone, pvars, setup
<1>2. NoWipe \in WipeState /\ NoWipe.pc = "idle"
  BY DEF NoWipe, WipeState
<1>3. ShapeInv' /\ SeenInv'
  <2>1. slips' \in 0..MaxSlips /\ stranded' \subseteq Links
    BY <1>1 DEF ShapeInv, TypeOK
  <2>2. UNCHANGED <<pvars, web, wire, call, told>>
    BY DEF WipeDone, setup
  <2>3. QED BY <1>1, <1>2, <2>1, <2>2, UnmountKeeps
<1>4. ASSUME slips' = 0
      PROVE  CarefulInv'
  <2> USE <1>1 DEF CarefulInv
  <2>1. /\ flow' = FreshFlow /\ shown' = Nothing /\ list' = NoList
        /\ \A m \in Links : send'[m].pc = send[m].pc
    BY UnmountFacts DEF ShapeInv
  <2>2. /\ \A m \in Links : ~Active(m)'
        /\ \A c \in Calls : ~Running(c)'
        /\ list'.pc = "idle" /\ wipe'.pc = "idle"
    BY <1>2, <1>4, <2>1 DEF Alone, Active, Running, NoList
  <2>3. Alone'
    BY <2>2 DEF Alone
  <2>4. Records'
    <3>1. /\ \A m \in Links : send'[m].pc \notin {"writing", "attaching"}
          /\ \A c \in Calls : call'[c].pc # "erasing"
      BY <2>2 DEF Active, Running
    <3>2. list'.ids = {} /\ \A m \in Links : shown'[m] = "none"
      BY <2>1 DEF NoList, Nothing
    <3>3. QED BY <3>1, <3>2 DEF Records
  <2>5. stranded' = {}
    BY <1>4 DEF Wiping
  <2>6. Revocations' /\ Wiping'
    BY <1>2, <1>4, <2>1, <2>2, <2>5 DEF Revocations, Dead, Wiping, FreshFlow
  <2>7. QED BY <2>3, <2>4, <2>6
<1>5. QED BY <1>3, <1>4

LEMMA KeepsKill ==
  ASSUME SenderInv, Kill
  PROVE  SenderInv'
<1> USE DEF SenderInv
<1>1. slips' \in 0..MaxSlips /\ slips' # 0
  BY Slipped DEF Kill, ShapeInv
<1>2. /\ UNCHANGED <<phase, web, saved, wire, told, owed, stranded>>
      /\ flow' = FreshFlow /\ shown' = Nothing /\ list' = NoList /\ wipe' = NoWipe
  BY DEF Kill, pvars
<1>3. /\ FreshFlow \in FlowState /\ FreshFlow.abort = None /\ FreshFlow.screen = "compose"
      /\ NoList \in ListState /\ NoList.ids = {} /\ NoList.gone = {} /\ NoWipe \in WipeState
      /\ NoWipe.todo = {} /\ NoWipe.failed = {}
      /\ NoCall \in CallState /\ NoCall.pc = "idle" /\ NoCall.map = {}
      /\ Nothing \in [Links -> {"none", "unknown", "active", "gone"}]
      /\ \A l \in Links : Nothing[l] = "none"
  BY DEF FreshFlow, FlowState, NoList, ListState, NoWipe, WipeState, NoCall, CallState, Nothing
<1>4. /\ send' \in [Links -> SendState]
      /\ \A l \in Links : /\ send'[l] = send[l] \/ send'[l].pc = "done"
                          /\ send'[l].map \subseteq send[l].map
                          /\ send'[l].pc = "idle" => ~send'[l].aborted
  BY DEF Kill, SendState, SendPcs, ShapeInv, TypeOK
<1>5. /\ call' \in [Calls -> CallState]
      /\ \A c \in Calls : /\ call'[c].map \subseteq call[c].map
                          /\ call'[c].pc # "idle" =>
                               /\ call[c].pc # "idle" /\ call'[c].link = call[c].link
                               /\ call'[c].pc = "lost" /\ call'[c].kind = "delete"
  <2>1. \A c \in Calls : call[c] \in CallState
    BY DEF ShapeInv, TypeOK
  <2>2. \A c \in Calls :
          /\ [call[c] EXCEPT !.pc = "lost", !.kind = "delete"] \in CallState
          /\ [call[c] EXCEPT !.pc = "lost", !.kind = "delete"].map = call[c].map
          /\ [call[c] EXCEPT !.pc = "lost", !.kind = "delete"].pc = "lost"
          /\ [call[c] EXCEPT !.pc = "lost", !.kind = "delete"].link = call[c].link
          /\ [call[c] EXCEPT !.pc = "lost", !.kind = "delete"].kind = "delete"
    BY <2>1 DEF CallState
  <2>3. \A c \in Calls :
          \/ call'[c] = NoCall
          \/ call[c].pc = "asking" /\ call'[c] = [call[c] EXCEPT !.pc = "lost", !.kind = "delete"]
    BY DEF Kill
  <2>4. call' = [c \in Calls |-> call'[c]]
    BY DEF Kill
  <2>5. ASSUME NEW c \in Calls
        PROVE  /\ call'[c] \in CallState
               /\ call'[c].map \subseteq call[c].map
               /\ call'[c].pc # "idle" =>
                    /\ call[c].pc # "idle" /\ call'[c].link = call[c].link
                    /\ call'[c].pc = "lost" /\ call'[c].kind = "delete"
    <3>1. CASE call'[c] = NoCall
      BY <1>3, <3>1
    <3>2. CASE /\ call[c].pc = "asking"
               /\ call'[c] = [call[c] EXCEPT !.pc = "lost", !.kind = "delete"]
      BY <2>2, <3>2
    <3>3. QED BY <2>3, <3>1, <3>2
  <2>6. QED BY <2>4, <2>5
<1>6. ShapeInv'
  <2>1. TypeOK'
    BY <1>1, <1>2, <1>3, <1>4, <1>5 DEF ShapeInv, TypeOK
  <2>2. QED BY <1>2, <1>3, <1>4, <1>5, <2>1 DEF ShapeInv
<1>7. SeenInv'
  BY <1>2, <1>3, <1>4, <1>5 DEF SeenInv, Sent, Dead
<1>8. QED BY <1>1, <1>6, <1>7

-------------------------------------------------------------------------------
\* The Links tab.
LEMMA ReloadFacts ==
  ASSUME TypeOK, NEW ids \in SUBSET Links
  PROVE  /\ Reload(ids) \in ListState /\ Reload(ids).pc = "asking" /\ Reload(ids).ids = ids
         /\ Reload(ids).gone \subseteq Dead
BY DEF Reload, ListState, Dead

\* The records are listed, asked about and shown while no send, no revocation and
\* no wipe is under way.
LEMMA ListOnly ==
  ASSUME SenderInv,
         slips' \in 0..MaxSlips, slips' = 0 => slips = 0,
         list' \in ListState, list'.ids \subseteq saved \/ list'.ids = list.ids,
         list'.gone \subseteq Dead, list'.pc = "idle" => list' = NoList,
         shown' \in [Links -> {"none", "unknown", "active", "gone"}],
         \/ shown' = shown /\ list'.pc # "idle"
         \/ \A l \in Links : shown'[l] # "none" => l \in list.ids,
         \A l \in Links : shown'[l] = "gone" => l \in Dead,
         flow = FreshFlow,
         slips' = 0 =>
           /\ \A l \in Links : ~Active(l)
           /\ \A c \in Calls : ~Running(c)
           /\ wipe.pc = "idle",
         UNCHANGED <<pvars, web, saved, send, wire, flow, call, wipe, told, owed, stranded>>
  PROVE  SenderInv'
<1> USE DEF SenderInv
<1>1. UNCHANGED <<phase, web, saved, send, wire, flow, call, wipe, told, owed, stranded>>
  BY DEF pvars
<1>2. ShapeInv'
  BY <1>1 DEF ShapeInv, TypeOK
<1>3. SeenInv'
  BY <1>1 DEF SeenInv, Sent, Dead
<1>4. ASSUME slips' = 0
      PROVE  CarefulInv'
  <2> USE <1>1, <1>4 DEF CarefulInv
  <2>1. Alone'
    BY DEF Alone, Active, Running
  <2>2. Records'
    BY DEF Records, Running, NoList
  <2>3. Revocations' /\ Wiping'
    BY DEF Revocations, Running, Dead, Wiping, Active
  <2>4. QED BY <2>1, <2>2, <2>3
<1>5. QED BY <1>2, <1>3, <1>4

\* A refresh that is under way is the only thing under way, and no screen is composed.
LEMMA ListingFacts ==
  ASSUME SenderInv, list.pc # "idle"
  PROVE  /\ flow = FreshFlow
         /\ slips = 0 => /\ \A l \in Links : ~Active(l)
                         /\ \A c \in Calls : ~Running(c)
                         /\ wipe.pc = "idle"
BY DEF SenderInv, ShapeInv, LinksClosed, CarefulInv, Alone, Elsewhere

LEMMA KeepsRefresh ==
  ASSUME SenderInv, Refresh
  PROVE  SenderInv'
<1> USE DEF SenderInv
<1>1. slips' \in 0..MaxSlips /\ (slips' = 0 => slips = 0 /\ Settled)
  BY Started DEF Refresh, ShapeInv
<1>2. /\ list' \in ListState /\ list'.ids = saved /\ list'.gone \subseteq Dead /\ list'.pc = "asking"
  BY ReloadFacts DEF Refresh, ShapeInv, TypeOK
<1>3. /\ shown' = shown /\ shown \in [Links -> {"none", "unknown", "active", "gone"}]
      /\ \A l \in Links : shown'[l] = "gone" => l \in Dead
  BY DEF Refresh, ShapeInv, TypeOK, SeenInv
<1>4. slips' = 0 => /\ \A l \in Links : ~Active(l)
                    /\ \A c \in Calls : ~Running(c)
                    /\ wipe.pc = "idle"
  BY <1>1, SettledFacts
<1>5. /\ flow = FreshFlow
      /\ UNCHANGED <<pvars, web, saved, send, wire, flow, call, wipe, told, owed, stranded>>
  BY DEF Refresh
<1>6. QED BY <1>1, <1>2, <1>3, <1>4, <1>5, ListOnly

LEMMA KeepsListServed ==
  ASSUME SenderInv, ListServed
  PROVE  SenderInv'
<1> USE DEF SenderInv
<1>1. /\ list \in ListState /\ list.ids \subseteq Sent /\ list.gone \subseteq Dead
      /\ phase \in [Links -> Phases] /\ slips \in 0..MaxSlips
      /\ shown \in [Links -> {"none", "unknown", "active", "gone"}]
      /\ \A l \in Links : shown[l] = "gone" => l \in Dead
  BY DEF ShapeInv, TypeOK, SeenInv
<1>2. {l \in list.ids : phase[l] # "live"} \subseteq Dead
  BY <1>1 DEF Sent, Dead, Phases
<1>3. /\ list' \in ListState /\ list'.ids = list.ids /\ list'.pc = "answered"
      /\ list'.gone = list.gone \cup {l \in list.ids : phase[l] # "live"}
  BY <1>1 DEF ListServed, ListState
<1>4. /\ flow = FreshFlow
      /\ slips = 0 => /\ \A l \in Links : ~Active(l)
                      /\ \A c \in Calls : ~Running(c)
                      /\ wipe.pc = "idle"
  BY ListingFacts DEF ListServed
<1>5. /\ slips' = slips /\ shown' = shown
      /\ UNCHANGED <<pvars, web, saved, send, wire, flow, call, wipe, told, owed, stranded>>
  BY DEF ListServed, setup
<1>6. QED BY <1>1, <1>2, <1>3, <1>4, <1>5, ListOnly

LEMMA KeepsDisplay ==
  ASSUME SenderInv, Display
  PROVE  SenderInv'
<1> USE DEF SenderInv
<1>1. /\ list \in ListState /\ list.gone \subseteq Dead /\ slips \in 0..MaxSlips
  BY DEF ShapeInv, TypeOK, SeenInv
<1>2. /\ shown' \in [Links -> {"none", "unknown", "active", "gone"}]
      /\ \A l \in Links : /\ shown'[l] # "none" => l \in list.ids
                          /\ shown'[l] = "gone" => l \in list.gone
  BY DEF Display, Reconciled, Unanswered
<1>3. /\ list' = NoList /\ NoList \in ListState /\ NoList.ids = {} /\ NoList.gone = {}
      /\ NoList.pc = "idle"
  BY DEF Display, NoList, ListState
<1>4. /\ flow = FreshFlow
      /\ slips = 0 => /\ \A l \in Links : ~Active(l)
                      /\ \A c \in Calls : ~Running(c)
                      /\ wipe.pc = "idle"
  BY ListingFacts DEF Display
<1>5. /\ slips' = slips
      /\ UNCHANGED <<pvars, web, saved, send, wire, flow, call, wipe, told, owed, stranded>>
  BY DEF Display, setup
<1>6. QED BY <1>1, <1>2, <1>3, <1>4, <1>5, ListOnly

-------------------------------------------------------------------------------
\* Revocations and deletions.  One call goes on, starts or ends; the dialog of the
\* wipe, the Links tab and the records may follow it.
LEMMA CallKeeps ==
  ASSUME SenderInv, NEW c \in Calls, NEW n \in CallState,
         call' = [call EXCEPT ![c] = n],
         n.pc # "idle" => n.link \in Sent, n.map \subseteq Sent,
         n.pc = "lost" => n.kind # "wipe", n.pc = "erasing" => ~web,
         phase' \in [Links -> Phases], Sent \subseteq Sent', Dead \subseteq Dead',
         slips' \in 0..MaxSlips, saved' \subseteq Sent, owed' \subseteq owed, told' \subseteq Links,
         wipe' \in WipeState, wipe'.todo \subseteq Sent, wipe'.failed \subseteq Sent,
         list' \in ListState, list'.ids \subseteq Sent, list'.gone \subseteq Dead,
         list'.pc = "idle" => list' = NoList,
         list' # list => ~LinksClosed,
         UNCHANGED <<web, send, wire, flow, shown, stranded>>
  PROVE  /\ ShapeInv' /\ SeenInv'
         /\ call'[c] = n /\ \A d \in Calls \ {c} : call'[d] = call[d]
<1> USE DEF SenderInv
<1>1. /\ call' \in [Calls -> CallState] /\ call'[c] = n
      /\ \A d \in Calls \ {c} : call'[d] = call[d]
  BY DEF ShapeInv, TypeOK
<1>2. n.pc # "idle" => n.link \in Links
  BY DEF Sent
<1>3. flow' = FreshFlow \/ LinksClosed'
  BY DEF ShapeInv, LinksClosed
<1>4. ShapeInv'
  <2>1. TypeOK'
    BY <1>1 DEF ShapeInv, TypeOK, Sent
  <2>2. QED BY <1>1, <1>2, <1>3, <2>1 DEF ShapeInv
<1>5. SeenInv'
  <2>1. \A d \in Calls : call'[d].map \subseteq Sent' /\ (call'[d].pc # "idle" => call'[d].link \in Sent')
    BY <1>1 DEF SeenInv
  <2>2. QED BY <2>1 DEF SeenInv
<1>6. QED BY <1>1, <1>4, <1>5

LEMMA CallFacts ==
  ASSUME SenderInv, NEW c \in Calls
  PROVE  /\ call[c] \in CallState /\ call[c].map \subseteq Sent /\ call[c].map \subseteq Links
         /\ call[c].pc # "idle" => call[c].link \in Sent /\ call[c].link \in Links
         /\ slips \in 0..MaxSlips /\ saved \subseteq Links /\ told \subseteq Links /\ owed \subseteq Links
         /\ phase \in [Links -> Phases] /\ saved \subseteq Sent
         /\ wipe \in WipeState /\ wipe.todo \subseteq Sent /\ wipe.failed \subseteq Sent
         /\ list \in ListState
         /\ list.ids \subseteq Sent /\ list.gone \subseteq Dead
         /\ list.pc = "idle" => list = NoList
BY DEF SenderInv, ShapeInv, TypeOK, SeenInv, CallState

LEMMA NoCallFacts ==
  NoCall \in CallState /\ NoCall.pc = "idle" /\ NoCall.map = {}
BY DEF NoCall, CallState

LEMMA KeepsStart ==
  ASSUME SenderInv, NEW c \in Calls, NEW l \in Links, RevokeStart(c, l) \/ DeleteStart(c, l)
  PROVE  SenderInv'
<1> USE DEF SenderInv
<1>1. PICK n \in {[NoCall EXCEPT !.pc = "lookup", !.link = l],
                  [NoCall EXCEPT !.pc = "asked", !.kind = "delete", !.link = l]} :
        /\ call' = [call EXCEPT ![c] = n]
        /\ n = [NoCall EXCEPT !.pc = "lookup", !.link = l] => Offered(l)
        /\ n # [NoCall EXCEPT !.pc = "lookup", !.link = l] => shown[l] # "none"
  BY DEF RevokeStart, DeleteStart, Offered
<1>2. /\ n \in CallState /\ n.link = l /\ n.map = {}
      /\ \/ n.pc = "lookup" /\ n.kind = "revoke" /\ Offered(l)
         \/ n.pc = "asked" /\ n.kind = "delete" /\ shown[l] # "none"
  <2>1. CASE n = [NoCall EXCEPT !.pc = "lookup", !.link = l]
    BY <1>1, <2>1 DEF NoCall, CallState
  <2>2. CASE /\ n = [NoCall EXCEPT !.pc = "asked", !.kind = "delete", !.link = l]
             /\ n # [NoCall EXCEPT !.pc = "lookup", !.link = l]
    BY <1>1, <2>2 DEF NoCall, CallState
  <2>3. QED BY <1>1, <2>1, <2>2
<1>3. l \in Sent
  BY <1>2 DEF Offered, SeenInv
<1>4. /\ slips' \in 0..MaxSlips /\ (slips' = 0 => slips = 0 /\ Settled)
      /\ UNCHANGED <<pvars, phase, web, saved, send, wire, flow, list, shown, wipe, told, owed, stranded>>
  BY Started DEF RevokeStart, DeleteStart, ShapeInv, pvars
<1>5. Sent' = Sent /\ Dead' = Dead
  BY <1>4 DEF Sent, Dead
<1>6. /\ ShapeInv' /\ SeenInv'
      /\ call'[c] = n /\ \A d \in Calls \ {c} : call'[d] = call[d]
  BY <1>1, <1>2, <1>3, <1>4, <1>5, CallKeeps, CallFacts
<1>7. ASSUME slips' = 0
      PROVE  CarefulInv'
  <2> USE <1>4 DEF CarefulInv
  <2>1. /\ \A m \in Links : ~Active(m)
        /\ \A d \in Calls : ~Running(d)
        /\ list.pc = "idle" /\ wipe.pc = "idle"
    BY <1>7, SettledFacts
  <2>2. \A d \in Calls : Running(d)' => d = c
    BY <1>6, <2>1 DEF Running
  <2>3. call'[c].kind # "wipe" /\ call'[c].pc \in {"lookup", "asked"}
    BY <1>2, <1>6
  <2>4. Alone'
    BY <2>1, <2>2, <2>3 DEF Alone, Active
  <2>5. Records'
    <3>1. \A d \in Calls : call[d].pc # "erasing" /\ call'[d].pc # "erasing"
      BY <2>1, <2>2, <2>3 DEF Running
    <3>2. QED BY <1>7, <3>1 DEF Records
  <2>6. Revocations'
    <3>1. shown[l] # "none" => l \in saved /\ flow = FreshFlow
      BY <1>7, <2>1 DEF Records, ShapeInv, LinksClosed, Nothing
    <3>2. \/ /\ call'[c].kind = "delete" /\ flow = FreshFlow
             /\ call'[c].pc \in {"asked", "erasing"}
          \/ call'[c].link \in Dead
          \/ call'[c].pc = "lookup" /\ call'[c].link \in saved
      BY <1>2, <1>6, <1>7, <3>1 DEF Offered, Revocations
    <3>3. QED BY <1>5, <1>7, <2>2, <3>2 DEF Revocations
  <2>7. Wiping'
    BY <1>7 DEF Wiping, Active
  <2>8. QED BY <2>4, <2>5, <2>6, <2>7
<1>8. QED BY <1>6, <1>7

LEMMA KeepsWipeRevoke ==
  ASSUME SenderInv, NEW c \in Calls, NEW l \in Links, WipeRevoke(c, l)
  PROVE  SenderInv'
<1> USE DEF SenderInv
<1> DEFINE n == [NoCall EXCEPT !.pc = "lookup", !.kind = "wipe", !.link = l]
<1>1. n \in CallState /\ n.link = l /\ n.map = {} /\ n.pc = "lookup" /\ n.kind = "wipe"
  BY DEF NoCall, CallState
<1>2. call' = [call EXCEPT ![c] = n]
  BY DEF WipeRevoke
<1> HIDE DEF n
<1>3. UNCHANGED <<pvars, phase, web, slips, saved, send, wire, flow, list, shown, wipe, told, owed, stranded>>
  BY DEF WipeRevoke, setup, pvars
<1>4. Sent' = Sent /\ Dead' = Dead
  BY <1>3 DEF Sent, Dead
<1>5. wipe.pc = "revoking" /\ l \in wipe.todo /\ l \in Sent
      /\ \A d \in Calls : call[d].pc = "idle" \/ call[d].kind # "wipe"
  BY DEF WipeRevoke, SeenInv, Revoking
<1>6. /\ ShapeInv' /\ SeenInv'
      /\ call'[c] = n /\ \A d \in Calls \ {c} : call'[d] = call[d]
  BY <1>1, <1>2, <1>3, <1>4, <1>5, CallKeeps, CallFacts
<1>7. ASSUME slips' = 0
      PROVE  CarefulInv'
  <2> USE <1>3 DEF CarefulInv
  <2>1. /\ \A m \in Links : ~Active(m)
        /\ \A d \in Calls : ~Running(d)
        /\ Elsewhere /\ list.pc = "idle"
    BY <1>5, <1>7 DEF Alone, Running, Elsewhere, LinksClosed
  <2>2. \A d \in Calls : Running(d)' => d = c
    BY <1>6, <2>1 DEF Running
  <2>3. Alone'
    BY <1>1, <1>5, <1>6, <2>1, <2>2 DEF Alone, Active, Elsewhere, LinksClosed
  <2>4. Records'
    <3>1. \A d \in Calls : call[d].pc # "erasing" /\ call'[d].pc # "erasing"
      BY <1>1, <1>6, <2>1, <2>2 DEF Running
    <3>2. QED BY <1>7, <3>1 DEF Records
  <2>5. l \in saved
    BY <1>5, <1>7 DEF Wiping
  <2>6. Revocations'
    BY <1>1, <1>4, <1>6, <1>7, <2>2, <2>5 DEF Revocations
  <2>7. Wiping'
    BY <1>7 DEF Wiping, Active
  <2>8. QED BY <2>3, <2>4, <2>6, <2>7
<1>8. QED BY <1>3, <1>6, <1>7

\* A call that goes on keeps its kind and its link, and nothing but the server's
\* phases may follow it; or it is over.
LEMMA CallGoesOn ==
  ASSUME SenderInv, NEW c \in Calls, NEW n \in CallState,
         call[c].pc # "idle",
         call' = [call EXCEPT ![c] = n],
         n = NoCall \/ (n.pc # "lost" /\ n.kind = call[c].kind /\ n.link = call[c].link),
         n # NoCall => Running(c),
         n.map \subseteq Sent, n.pc = "erasing" => ~web,
         phase' \in [Links -> Phases], Sent \subseteq Sent', Dead \subseteq Dead',
         \A l \in Links : phase'[l] = "live" => phase[l] = "live",
         owed' \subseteq owed,
         UNCHANGED <<setup, saved, send, wire, flow, list, shown, wipe, told, stranded>>,
         slips = 0 /\ n.pc = "erasing" =>
           /\ n.map = saved /\ n.link \notin owed' /\ saved = owed' \cup {n.link},
         slips = 0 /\ n.pc # "erasing" => owed' = owed /\ call[c].pc # "erasing",
         slips = 0 /\ n # NoCall =>
           \/ n.kind = "delete" /\ flow = FreshFlow /\ n.pc \in {"asked", "erasing"}
           \/ n.link \in Dead'
           \/ n.pc = "asking" /\ n.token
  PROVE  SenderInv'
<1> USE DEF SenderInv
<1>1. UNCHANGED <<web, slips, saved, send, wire, flow, list, shown, wipe, told, stranded>>
  BY DEF setup
<1>2. /\ ShapeInv' /\ SeenInv'
      /\ call'[c] = n /\ \A d \in Calls \ {c} : call'[d] = call[d]
  BY <1>1, CallKeeps, CallFacts, NoCallFacts
<1>3. ASSUME slips' = 0
      PROVE  CarefulInv'
  <2> USE <1>1 DEF CarefulInv
  <2>1. \A d \in Calls : Running(d)' => Running(d) /\ call'[d].kind = call[d].kind
                                     /\ call'[d].link = call[d].link
    BY <1>2, NoCallFacts DEF Running
  <2>2. Alone'
    BY <1>3, <2>1 DEF Alone, Active, Elsewhere, LinksClosed
  <2>3. Records'
    <3>1. \A d \in Calls : Running(c) /\ Running(d) => d = c
      BY <1>3 DEF Alone
    <3>2. CASE n.pc = "erasing"
      <4>1. \A d \in Calls : call'[d].pc = "erasing" => d = c
        BY <1>2, <3>1, <3>2, NoCallFacts DEF Running
      <4>2. QED BY <1>2, <1>3, <3>2, <4>1 DEF Records
    <3>3. CASE n.pc # "erasing"
      BY <1>2, <1>3, <3>3 DEF Records
    <3>4. QED BY <3>2, <3>3
  <2>4. Revocations'
    <3>1. ASSUME NEW d \in Calls, Running(d)', d # c
          PROVE  \/ /\ call'[d].kind = "delete" /\ flow = FreshFlow
                    /\ call'[d].pc \in {"asked", "erasing"}
                 \/ call'[d].link \in Dead'
                 \/ call'[d].pc = "lookup" /\ call'[d].link \in saved
                 \/ call'[d].pc = "asking" /\ call'[d].token
      BY <1>2, <1>3, <2>1, <3>1 DEF Revocations
    <3>2. Running(c)' => n # NoCall
      BY <1>2, NoCallFacts DEF Running
    <3>3. QED BY <1>2, <1>3, <3>1, <3>2 DEF Revocations
  <2>5. Wiping'
    BY <1>3 DEF Wiping, ShapeInv, TypeOK
  <2>6. QED BY <2>2, <2>3, <2>4, <2>5
<1>4. QED BY <1>1, <1>2, <1>3

LEMMA KeepsLookup ==
  ASSUME SenderInv, NEW c \in Calls, Lookup(c)
  PROVE  SenderInv'
<1> USE DEF SenderInv
<1> DEFINE n == [call[c] EXCEPT !.pc = "asking", !.token = Token(call[c].link, call[c].kind)]
<1>1. /\ call[c] \in CallState /\ call[c].pc = "lookup" /\ Running(c) /\ call[c].map \subseteq Sent
      /\ Token(call[c].link, call[c].kind) \in BOOLEAN
  BY CallFacts DEF Lookup, Running, Token
<1>2. /\ n \in CallState /\ n.pc = "asking" /\ n.kind = call[c].kind /\ n.link = call[c].link
      /\ n.token = Token(call[c].link, call[c].kind) /\ n.map = call[c].map
  BY <1>1 DEF CallState
<1>3. call' = [call EXCEPT ![c] = n]
  BY <1>1 DEF Lookup, ShapeInv, TypeOK
<1> HIDE DEF n
<1>4. UNCHANGED <<pvars, phase, setup, saved, send, wire, flow, list, shown, wipe, told, owed, stranded>>
  BY DEF Lookup, pvars
<1>5. Sent' = Sent /\ Dead' = Dead
  BY <1>4 DEF Sent, Dead
<1>6. slips = 0 => n.link \in Dead' \/ n.token
  BY <1>1, <1>2, <1>5 DEF CarefulInv, Revocations, Token
<1>7. phase' \in [Links -> Phases]
  BY <1>4, CallFacts
<1>8. QED BY <1>1, <1>2, <1>3, <1>4, <1>5, <1>6, <1>7, CallGoesOn

LEMMA KeepsRevokeServed ==
  ASSUME SenderInv, NEW c \in Calls, RevokeServed(c)
  PROVE  SenderInv'
<1> USE DEF SenderInv
<1>1. /\ call[c] \in CallState /\ call[c].pc \in {"asking", "lost"} /\ call[c].map \subseteq Sent
      /\ call[c].link \in Links /\ call[c].link \in Sent /\ phase \in [Links -> Phases]
  BY CallFacts DEF RevokeServed
<1>2. UNCHANGED pvars \/ Withdraw(call[c].link)
  BY DEF RevokeServed
<1>3. phase' \in [Links -> Phases] /\ Sent \subseteq Sent' /\ Dead \subseteq Dead'
  BY <1>1, <1>2, PhaseGrows
<1>4. \A l \in Links : phase'[l] = "live" => phase[l] = "live"
  BY <1>1, <1>2 DEF pvars, Withdraw
<1>5. call[c].token => call[c].link \in Dead'
  <2>1. CASE phase[call[c].link] = "live"
    BY <1>1, <2>1 DEF RevokeServed, Withdraw, Dead
  <2>2. CASE phase[call[c].link] # "live"
    BY <1>1, <1>3, <2>2 DEF Sent, Dead, Phases
  <2>3. QED BY <2>1, <2>2
<1>6. UNCHANGED <<setup, saved, send, wire, flow, list, shown, wipe, told, owed, stranded>>
  BY DEF RevokeServed
<1>7. CASE call[c].pc = "lost"
  <2>1. call' = [call EXCEPT ![c] = NoCall]
    BY <1>7 DEF RevokeServed, ShapeInv, TypeOK
  <2>2. NoCall \in CallState /\ NoCall.pc = "idle" /\ NoCall.map \subseteq Sent
    BY NoCallFacts
  <2>3. call[c].pc # "idle" /\ call[c].pc # "erasing" /\ owed' = owed
    BY <1>6, <1>7
  <2>4. QED BY <1>3, <1>4, <1>6, <2>1, <2>2, <2>3, CallGoesOn
<1>8. CASE call[c].pc = "asking"
  <2> DEFINE n == [call[c] EXCEPT !.pc = "asked"]
  <2>1. /\ n \in CallState /\ n.pc = "asked" /\ n.kind = call[c].kind /\ n.link = call[c].link
        /\ n.map = call[c].map
    BY <1>1 DEF CallState
  <2>2. call' = [call EXCEPT ![c] = n]
    BY <1>8 DEF RevokeServed, ShapeInv, TypeOK
  <2> HIDE DEF n
  <2>3. Running(c)
    BY <1>8 DEF Running
  <2>4. slips = 0 => n.link \in Dead'
    BY <1>3, <1>5, <1>8, <2>1, <2>3 DEF CarefulInv, Revocations
  <2>5. QED BY <1>1, <1>3, <1>4, <1>6, <1>8, <2>1, <2>2, <2>3, <2>4, CallGoesOn
<1>9. QED BY <1>1, <1>7, <1>8

\* A call is over, and the caller goes on.
LEMMA ConcludeKeeps ==
  ASSUME SenderInv, NEW c \in Calls, NEW ok \in BOOLEAN, NEW left \in SUBSET Sent,
         NEW next \in {NoCall, [call[c] EXCEPT !.pc = "lost", !.kind = "delete"]},
         Conclude(c, next, ok, left), Running(c),
         saved' \subseteq Sent, owed' \subseteq owed,
         slips' \in 0..MaxSlips,
         slips' = 0 =>
           /\ slips = 0 /\ saved' = owed'
           /\ IF ok THEN saved \ {call[c].link} \subseteq saved' /\ call[c].pc \in {"asked", "erasing"}
                    ELSE saved' = saved
           /\ saved' \subseteq saved /\ (web => saved' = saved)
           /\ left = saved',
         UNCHANGED <<pvars, web, send, wire, flow, shown, stranded>>
  PROVE  SenderInv'
<1> USE DEF SenderInv
<1>1. /\ call[c] \in CallState /\ call[c].map \subseteq Sent
      /\ call[c].link \in Links /\ call[c].link \in Sent
      /\ saved \subseteq Links /\ told \subseteq Links /\ saved \subseteq Sent
      /\ wipe \in WipeState /\ wipe.todo \subseteq Sent /\ wipe.failed \subseteq Sent
      /\ list \in ListState /\ list.ids \subseteq Sent /\ list.gone \subseteq Dead
      /\ list.pc = "idle" => list = NoList
  BY CallFacts DEF Running
<1>2. UNCHANGED <<phase, web, send, wire, flow, shown, stranded>> /\ Sent' = Sent /\ Dead' = Dead
      /\ phase' \in [Links -> Phases]
  BY DEF pvars, Sent, Dead, ShapeInv
<1>3. /\ next \in CallState /\ next.pc \in {"idle", "lost"} /\ next.map \subseteq Sent
      /\ next.pc = "lost" => next.kind # "wipe" /\ next.link = call[c].link
  <2>1. CASE next = NoCall
    BY <2>1, NoCallFacts
  <2>2. CASE next = [call[c] EXCEPT !.pc = "lost", !.kind = "delete"]
    BY <1>1, <2>2 DEF CallState
  <2>3. QED BY <2>1, <2>2
<1>4. /\ wipe' \in WipeState
      /\ call[c].kind # "wipe" => wipe' = wipe
      /\ call[c].kind = "wipe" =>
           /\ wipe'.pc = wipe.pc /\ wipe'.todo = wipe.todo \ {call[c].link}
           /\ wipe'.failed = IF ok THEN wipe.failed ELSE wipe.failed \cup {call[c].link}
           /\ wipe'.accepted = wipe.accepted
  <2>1. CASE call[c].kind # "wipe"
    BY <1>1, <2>1 DEF Conclude
  <2>2. CASE call[c].kind = "wipe" /\ ok
    BY <1>1, <2>2 DEF Conclude, WipeState
  <2>3. CASE call[c].kind = "wipe" /\ ~ok
    BY <1>1, <2>3 DEF Conclude, WipeState
  <2>4. QED BY <2>1, <2>2, <2>3
<1>5. /\ list' \in ListState /\ list'.ids \subseteq Sent /\ list'.gone \subseteq Dead
      /\ list'.pc = "idle" => list' = NoList
      /\ \/ list' = list
         \/ ~LinksClosed /\ ~web /\ call[c].kind # "wipe" /\ list'.ids = left /\ list'.pc = "asking"
  <2>1. list' = IF web \/ call[c].kind = "wipe" \/ LinksClosed THEN list ELSE Reload(left)
    BY DEF Conclude
  <2>2. /\ Reload(left) \in ListState /\ Reload(left).pc = "asking" /\ Reload(left).ids = left
        /\ Reload(left).gone \subseteq Dead
    BY <1>1, ReloadFacts DEF ShapeInv, Sent
  <2>3. QED BY <1>1, <2>1, <2>2
<1>6. /\ told' = IF ok /\ call[c].kind = "revoke" THEN told \cup {call[c].link} ELSE told
      /\ call' = [call EXCEPT ![c] = next]
  BY DEF Conclude
<1>7. wipe'.todo \subseteq Sent /\ wipe'.failed \subseteq Sent
  BY <1>1, <1>4
<1>8. next.pc # "idle" => next.link \in Sent
  BY <1>1, <1>3
<1>9. /\ ShapeInv' /\ SeenInv'
      /\ call'[c] = next /\ \A d \in Calls \ {c} : call'[d] = call[d]
  BY <1>1, <1>2, <1>3, <1>4, <1>5, <1>6, <1>7, <1>8, CallKeeps
<1>10. ASSUME slips' = 0
       PROVE  CarefulInv'
  <2> USE <1>2, <1>10 DEF CarefulInv
  <2>1. /\ \A m \in Links : ~Active(m)
        /\ \A d \in Calls : Running(d) => d = c
        /\ list.pc = "idle" /\ (wipe.pc = "idle" \/ call[c].kind = "wipe")
        /\ wipe.pc # "idle" => Elsewhere
        /\ call[c].kind = "wipe" => wipe.pc = "revoking" /\ call[c].link \in wipe.todo
    BY DEF Alone
  <2>2. /\ \A m \in Links : ~Active(m)'
        /\ \A d \in Calls : ~Running(d)'
    BY <1>3, <1>9, <2>1 DEF Active, Running
  <2>3. Alone'
    <3>1. wipe'.pc # "idle" => Elsewhere'
      BY <1>4, <1>5, <2>1 DEF Elsewhere, LinksClosed
    <3>2. QED BY <2>2, <3>1 DEF Alone
  <2>4. Records'
    <3>1. /\ \A m \in Links : send'[m].pc \notin {"writing", "attaching"}
          /\ \A d \in Calls : call'[d].pc # "erasing"
      BY <2>2 DEF Active, Running
    <3>2. list'.ids \subseteq saved'
      BY <1>1, <1>5, <2>1 DEF NoList
    <3>3. ASSUME list'.pc = "idle", NEW m \in Links, shown'[m] # "none"
          PROVE  m \in saved'
      <4>1. m \in saved /\ ~LinksClosed
        BY <2>1, <3>3 DEF Records, LinksClosed, Nothing
      <4>2. web \/ call[c].kind = "wipe"
        BY <1>1, <3>3, <4>1, ReloadFacts DEF Conclude, ShapeInv, Sent
      <4>3. QED BY <2>1, <4>1, <4>2 DEF Elsewhere
    <3>4. QED BY <3>1, <3>2, <3>3 DEF Records
  <2>5. ok => \/ call[c].link \in Dead
              \/ call[c].kind = "delete" /\ flow = FreshFlow
    BY DEF Revocations
  <2>6. Revocations'
    <3>1. told' \subseteq Dead
      BY <1>6, <2>5 DEF Revocations
    <3>2. flow.screen = "result" => flow.link \in saved' \cup Dead
      BY <2>5 DEF Revocations, FreshFlow
    <3>3. QED BY <2>2, <3>1, <3>2 DEF Revocations
  <2>7. Wiping'
    <3>1. CASE call[c].kind = "wipe"
      <4>1. ok => call[c].link \in Dead /\ phase[call[c].link] # "live"
        BY <2>5, <3>1 DEF Dead
      <4>2. wipe.todo \cup wipe.failed \subseteq saved /\ wipe.todo \cap wipe.failed = {}
        BY <2>1, <3>1 DEF Wiping
      <4>3. wipe'.todo \cup wipe'.failed \subseteq saved' /\ wipe'.todo \cap wipe'.failed = {}
        BY <1>4, <2>1, <3>1, <4>2
      <4>4. \A l \in saved' : phase[l] = "live" => l \in wipe'.todo \cup wipe'.failed
        BY <1>4, <2>1, <3>1, <4>1 DEF Wiping
      <4>5. QED BY <1>4, <2>1, <3>1, <4>3, <4>4 DEF Wiping
    <3>2. CASE call[c].kind # "wipe"
      BY <1>4, <2>1, <3>2 DEF Wiping
    <3>3. QED BY <3>1, <3>2
  <2>8. QED BY <2>3, <2>4, <2>6, <2>7
<1>11. QED BY <1>9, <1>10

LEMMA KeepsForgetRead ==
  ASSUME SenderInv, NEW c \in Calls, ForgetRead(c)
  PROVE  SenderInv'
<1> USE DEF SenderInv
<1>1. /\ call[c] \in CallState /\ call[c].pc = "asked" /\ Running(c) /\ ~web
      /\ saved \subseteq Links /\ saved \subseteq Sent /\ phase \in [Links -> Phases]
      /\ slips \in 0..MaxSlips
  BY CallFacts DEF ForgetRead, Running
<1>2. slips = 0 => saved = owed
  <2>1. slips = 0 => \A d \in Calls : call[d].pc # "erasing"
    BY <1>1 DEF CarefulInv, Alone, Running
  <2>2. QED BY <2>1 DEF CarefulInv, Records
<1>3. /\ UNCHANGED <<pvars, phase, setup, slips, web, saved, send, wire, flow, shown, stranded>>
      /\ owed' = owed \ {call[c].link} /\ owed' \subseteq owed
  BY DEF ForgetRead, pvars, setup
<1>4. CASE call[c].link \in saved
  <2> DEFINE n == [call[c] EXCEPT !.pc = "erasing", !.map = saved]
  <2>1. /\ n \in CallState /\ n.pc = "erasing" /\ n.kind = call[c].kind /\ n.link = call[c].link
        /\ n.map = saved
    BY <1>1 DEF CallState
  <2>2. call' = [call EXCEPT ![c] = n]
    BY <1>4 DEF ForgetRead, ShapeInv, TypeOK
  <2> HIDE DEF n
  <2>3. UNCHANGED <<told, wipe, list>>
    BY <1>4 DEF ForgetRead
  <2>4. Sent' = Sent /\ Dead' = Dead
    BY <1>3 DEF Sent, Dead
  <2>5. slips = 0 => n.link \notin owed' /\ saved = owed' \cup {n.link}
    BY <1>2, <1>3, <1>4, <2>1
  <2>6. slips = 0 => \/ n.kind = "delete" /\ flow = FreshFlow
                     \/ n.link \in Dead'
    BY <1>1, <2>1, <2>4 DEF CarefulInv, Revocations
  <2>7. call[c].pc # "idle" /\ phase' \in [Links -> Phases]
    BY <1>1, <1>3
  <2>8. n # NoCall
    BY <2>1, NoCallFacts
  <2>9. /\ \A l \in Links : phase'[l] = "live" => phase[l] = "live"
        /\ UNCHANGED <<setup, saved, send, wire, flow, list, shown, wipe, told, stranded>>
    BY <1>3, <2>3
  <2>10. QED BY <1>1, <1>3, <2>1, <2>2, <2>4, <2>5, <2>6, <2>7, <2>8, <2>9, CallGoesOn
<1>5. CASE call[c].link \notin saved
  <2>1. Conclude(c, NoCall, TRUE, saved)
    BY <1>5 DEF ForgetRead
  <2>2. slips = 0 => owed' = owed
    BY <1>2, <1>3, <1>5
  <2>3. QED BY <1>1, <1>2, <1>3, <2>1, <2>2, ConcludeKeeps
<1>6. QED BY <1>4, <1>5

LEMMA KeepsForgetWrite ==
  ASSUME SenderInv, NEW c \in Calls, ForgetWrite(c)
  PROVE  SenderInv'
<1> USE DEF SenderInv
<1>1. /\ call[c] \in CallState /\ call[c].pc = "erasing" /\ Running(c) /\ ~web
      /\ call[c].map \subseteq Sent /\ slips \in 0..MaxSlips
  BY CallFacts DEF ForgetWrite, Running, ShapeInv
<1>2. slips = 0 => /\ call[c].map = saved /\ call[c].link \notin owed
                   /\ saved = owed \cup {call[c].link}
  BY <1>1 DEF CarefulInv, Records
<1>3. /\ UNCHANGED <<pvars, phase, setup, slips, web, send, wire, flow, shown, owed, stranded>>
      /\ saved' = call[c].map \ {call[c].link}
      /\ Conclude(c, NoCall, TRUE, saved')
  BY DEF ForgetWrite, pvars, setup
<1>4. QED BY <1>1, <1>2, <1>3, ConcludeKeeps

LEMMA KeepsRevokeShown ==
  ASSUME SenderInv, NEW c \in Calls, RevokeShown(c)
  PROVE  SenderInv'
<1> USE DEF SenderInv
<1>1. /\ call[c].pc = "asked" /\ Running(c) /\ saved \subseteq Sent /\ slips \in 0..MaxSlips
  BY CallFacts DEF RevokeShown, Running
<1>2. slips = 0 => saved = owed
  <2>1. slips = 0 => \A d \in Calls : call[d].pc # "erasing"
    BY <1>1 DEF CarefulInv, Alone, Running
  <2>2. QED BY <2>1 DEF CarefulInv, Records
<1>3. /\ UNCHANGED <<pvars, slips, web, saved, send, wire, flow, shown, owed, stranded>>
      /\ Conclude(c, NoCall, TRUE, saved)
  BY DEF RevokeShown, setup
<1>4. QED BY <1>1, <1>2, <1>3, ConcludeKeeps

LEMMA KeepsRevokeFails ==
  ASSUME SenderInv, NEW c \in Calls, RevokeFails(c)
  PROVE  SenderInv'
<1> USE DEF SenderInv
<1>1. Running(c) /\ saved \subseteq Sent /\ slips \in 0..MaxSlips
  BY CallFacts DEF RevokeFails, Running
<1>2. slips' \in 0..MaxSlips /\ (slips' = 0 => slips = 0 /\ call[c].pc = "asking")
  BY <1>1, Slipped DEF RevokeFails, ShapeInv
<1>3. slips' = 0 => saved = owed
  <2>1. slips' = 0 => \A d \in Calls : call[d].pc # "erasing"
    BY <1>1, <1>2 DEF CarefulInv, Alone, Running
  <2>2. QED BY <1>2, <2>1 DEF CarefulInv, Records
<1>4. PICK next \in {NoCall, [call[c] EXCEPT !.pc = "lost", !.kind = "delete"]} :
        Conclude(c, next, FALSE, saved)
  BY DEF RevokeFails
<1>5. UNCHANGED <<pvars, web, saved, send, wire, flow, shown, owed, stranded>>
  BY DEF RevokeFails
<1>6. QED BY <1>1, <1>2, <1>3, <1>4, <1>5, ConcludeKeeps

LEMMA KeepsClearHistory ==
  ASSUME SenderInv, ClearHistory
  PROVE  SenderInv'
<1> USE DEF SenderInv
<1>1. slips' \in 0..MaxSlips /\ (slips' = 0 => slips = 0 /\ Settled)
  BY Started DEF ClearHistory, ShapeInv
<1>2. /\ UNCHANGED <<phase, web, send, wire, flow, call, list, shown, wipe, told, stranded>>
      /\ saved' = {} /\ owed' = {} /\ flow = FreshFlow /\ shown = Nothing /\ list = NoList
  BY DEF ClearHistory, Elsewhere, LinksClosed, pvars, ShapeInv
<1>3. ShapeInv' /\ SeenInv'
  BY <1>1, <1>2 DEF ShapeInv, TypeOK, LinksClosed, SeenInv, Sent, Dead
<1>4. ASSUME slips' = 0
      PROVE  CarefulInv'
  <2> USE <1>2 DEF CarefulInv
  <2>1. /\ \A m \in Links : ~Active(m) /\ ~Active(m)'
        /\ \A d \in Calls : ~Running(d) /\ ~Running(d)'
        /\ wipe.pc = "idle"
    BY <1>1, <1>4, SettledFacts DEF Active, Running
  <2>2. Alone'
    BY <1>1, <1>4, <2>1 DEF Alone, Elsewhere, LinksClosed
  <2>3. Records'
    BY <2>1 DEF Records, Active, Running, NoList, Nothing
  <2>4. Revocations' /\ Wiping'
    BY <1>1, <1>4, <2>1 DEF Revocations, Dead, Wiping, FreshFlow
  <2>5. QED BY <2>2, <2>3, <2>4
<1>5. QED BY <1>1, <1>3, <1>4

-------------------------------------------------------------------------------
\* The dialog of the wipe moves on by itself: it listed, it asks, it decides.
LEMMA DialogKeeps ==
  ASSUME SenderInv,
         slips' \in 0..MaxSlips, slips' = 0 => slips = 0,
         wipe' \in WipeState, wipe'.todo \subseteq Sent, wipe'.failed \subseteq Sent,
         UNCHANGED <<pvars, web, saved, send, wire, flow, call, list, shown, told, owed, stranded>>,
         slips' = 0 =>
           /\ Elsewhere
           /\ \A l \in Links : ~Active(l)
           /\ \A c \in Calls : ~Running(c)
           /\ wipe'.pc = "opening" => wipe'.failed = {}
           /\ wipe'.pc \in {"confirm", "revoking", "ask"} =>
                /\ wipe'.todo \cup wipe'.failed \subseteq saved
                /\ wipe'.todo \cap wipe'.failed = {}
                /\ \A l \in saved : phase[l] = "live" => l \in wipe'.todo \cup wipe'.failed
           /\ wipe'.pc = "ask" => wipe'.todo = {}
           /\ wipe'.pc = "wiping" => \A l \in saved \ wipe'.accepted : phase[l] # "live"
  PROVE  SenderInv'
<1> USE DEF SenderInv
<1>1. UNCHANGED <<phase, web, saved, send, wire, flow, call, list, shown, told, owed, stranded>>
  BY DEF pvars
<1>2. ShapeInv'
  BY <1>1 DEF ShapeInv, TypeOK, LinksClosed
<1>3. SeenInv'
  BY <1>1 DEF SeenInv, Sent, Dead
<1>4. ASSUME slips' = 0
      PROVE  CarefulInv'
  <2> USE <1>1, <1>4 DEF CarefulInv
  <2>1. \A l \in Links : ~Active(l)'
    BY DEF Active
  <2>2. \A c \in Calls : ~Running(c)'
    BY DEF Running
  <2>3. Alone'
    BY <2>1, <2>2 DEF Alone, Elsewhere, LinksClosed
  <2>4. Records'
    BY DEF Records
  <2>5. Revocations'
    BY <2>1, <2>2 DEF Revocations, Dead, Elsewhere, FreshFlow
  <2>6. Wiping'
    BY DEF Wiping
  <2>7. QED BY <2>3, <2>4, <2>5, <2>6
<1>5. QED BY <1>1, <1>2, <1>3, <1>4

\* While a wipe is under way and it revokes nothing at the moment, nothing else is.
LEMMA WipeAlone ==
  ASSUME SenderInv, slips = 0, wipe.pc # "idle",
         wipe.pc = "revoking" => ~Revoking
  PROVE  /\ Elsewhere
         /\ \A l \in Links : ~Active(l)
         /\ \A c \in Calls : ~Running(c)
<1> USE DEF SenderInv, CarefulInv
<1>1. Elsewhere /\ \A l \in Links : ~Active(l)
  BY DEF Alone
<1>2. ASSUME NEW c \in Calls, Running(c)
      PROVE  FALSE
  <2>1. call[c].kind = "wipe" /\ wipe.pc = "revoking"
    BY <1>2 DEF Alone
  <2>2. QED BY <1>2, <2>1 DEF Revoking, Running
<1>3. QED BY <1>1, <1>2

LEMMA KeepsWipeOpen ==
  ASSUME SenderInv, WipeOpen
  PROVE  SenderInv'
<1> USE DEF SenderInv
<1>1. slips' \in 0..MaxSlips /\ (slips' = 0 => slips = 0 /\ Settled)
  BY Started DEF WipeOpen, ShapeInv
<1>2. /\ wipe' \in WipeState /\ wipe'.pc = "opening" /\ wipe'.todo = {} /\ wipe'.failed = {}
  BY DEF WipeOpen, NoWipe, WipeState
<1>3. /\ UNCHANGED <<pvars, web, saved, send, wire, flow, call, list, shown, told, owed, stranded>>
      /\ Elsewhere
  BY DEF WipeOpen
<1>4. QED BY <1>1, <1>2, <1>3, SettledFacts, DialogKeeps

LEMMA KeepsWipeListed ==
  ASSUME SenderInv, WipeListed
  PROVE  SenderInv'
<1> USE DEF SenderInv
<1>1. /\ wipe \in WipeState /\ wipe.pc = "opening" /\ slips \in 0..MaxSlips
      /\ wipe.todo \subseteq Sent /\ wipe.failed \subseteq Sent
      /\ saved \subseteq Links /\ saved \subseteq Sent /\ LiveTracked \subseteq saved
      /\ UNCHANGED <<pvars, web, saved, send, wire, flow, call, list, shown, told, owed, stranded>>
  BY DEF WipeListed, ShapeInv, TypeOK, SeenInv, LiveTracked
<1>2. CASE /\ wipe' = [wipe EXCEPT !.pc = IF web THEN "revoking" ELSE "confirm", !.todo = LiveTracked]
           /\ UNCHANGED slips
  <2>1. /\ wipe' \in WipeState /\ wipe'.pc \in {"revoking", "confirm"}
        /\ wipe'.todo = LiveTracked /\ wipe'.failed = wipe.failed
    BY <1>1, <1>2 DEF WipeState
  <2>2. slips = 0 => wipe.failed = {}
    BY <1>1 DEF CarefulInv, Wiping
  <2>3. \A l \in saved : phase[l] = "live" => l \in LiveTracked
    BY DEF LiveTracked
  <2>4. slips = 0 => /\ Elsewhere
                     /\ \A l \in Links : ~Active(l)
                     /\ \A c \in Calls : ~Running(c)
    BY <1>1, WipeAlone
  <2>5. QED BY <1>1, <1>2, <2>1, <2>2, <2>3, <2>4, DialogKeeps
<1>3. CASE Slip /\ wipe' = IF web THEN NoWipe ELSE [wipe EXCEPT !.pc = "confirm"]
  <2>1. /\ wipe' \in WipeState /\ wipe'.todo \subseteq Sent /\ wipe'.failed \subseteq Sent
    BY <1>1, <1>3 DEF NoWipe, WipeState
  <2>2. slips' \in 0..MaxSlips /\ slips' # 0
    BY <1>3, Slipped DEF ShapeInv
  <2>3. QED BY <1>1, <2>1, <2>2, DialogKeeps
<1>4. QED BY <1>2, <1>3 DEF WipeListed

LEMMA KeepsWipeConfirm ==
  ASSUME SenderInv, WipeConfirm
  PROVE  SenderInv'
<1> USE DEF SenderInv
<1>1. /\ wipe \in WipeState /\ wipe.pc \in {"confirm", "opening"} /\ slips \in 0..MaxSlips
      /\ wipe.todo \subseteq Sent /\ wipe.failed \subseteq Sent
      /\ UNCHANGED <<pvars, web, saved, send, wire, flow, call, list, shown, told, owed, stranded>>
  BY DEF WipeConfirm, ShapeInv, TypeOK, SeenInv
<1>2. /\ wipe' \in WipeState /\ wipe'.pc = "revoking" /\ wipe'.todo = wipe.todo
      /\ wipe'.failed = wipe.failed
  BY <1>1 DEF WipeConfirm, WipeState
<1>3. slips' \in 0..MaxSlips /\ (slips' = 0 => slips = 0 /\ wipe.pc = "confirm")
  BY <1>1, Slipped DEF WipeConfirm, ShapeInv
<1>4. slips = 0 => /\ Elsewhere
                   /\ \A l \in Links : ~Active(l)
                   /\ \A c \in Calls : ~Running(c)
  BY <1>1, WipeAlone
<1>5. slips' = 0 => /\ wipe.todo \cup wipe.failed \subseteq saved
                    /\ wipe.todo \cap wipe.failed = {}
                    /\ \A l \in saved : phase[l] = "live" => l \in wipe.todo \cup wipe.failed
  BY <1>3 DEF CarefulInv, Wiping
<1>6. QED BY <1>1, <1>2, <1>3, <1>4, <1>5, DialogKeeps

LEMMA KeepsWipeRevoked ==
  ASSUME SenderInv, WipeRevoked
  PROVE  SenderInv'
<1> USE DEF SenderInv
<1>1. /\ wipe \in WipeState /\ wipe.pc = "revoking" /\ ~Revoking /\ wipe.todo = {}
      /\ slips \in 0..MaxSlips /\ wipe.failed \subseteq Sent
      /\ UNCHANGED <<pvars, web, slips, saved, send, wire, flow, call, list, shown, told, owed, stranded>>
  BY DEF WipeRevoked, ShapeInv, TypeOK, SeenInv, setup
<1>2. /\ wipe' \in WipeState /\ wipe'.pc \in {"wiping", "ask"} /\ wipe'.todo = {}
      /\ wipe'.failed = wipe.failed /\ (wipe'.pc = "wiping" => wipe.failed = {})
  BY <1>1 DEF WipeRevoked, WipeDecide, WipeState
<1>3. slips = 0 => /\ Elsewhere
                   /\ \A l \in Links : ~Active(l)
                   /\ \A c \in Calls : ~Running(c)
  BY <1>1, WipeAlone
<1>4. slips = 0 => /\ wipe.failed \subseteq saved
                   /\ \A l \in saved : phase[l] = "live" => l \in wipe.failed
  BY <1>1 DEF CarefulInv, Wiping
<1>5. QED BY <1>1, <1>2, <1>3, <1>4, DialogKeeps

LEMMA KeepsWipeAnswered ==
  ASSUME SenderInv, WipeAnswered
  PROVE  SenderInv'
<1> USE DEF SenderInv
<1>1. /\ wipe \in WipeState /\ wipe.pc = "ask"
      /\ slips \in 0..MaxSlips /\ wipe.todo \subseteq Sent /\ wipe.failed \subseteq Sent
      /\ UNCHANGED <<pvars, web, slips, saved, send, wire, flow, call, list, shown, told, owed, stranded>>
  BY DEF WipeAnswered, ShapeInv, TypeOK, SeenInv, setup
<1>2. /\ wipe' \in WipeState /\ wipe'.todo \subseteq Sent /\ wipe'.failed \subseteq Sent
      /\ \/ wipe'.pc = "wiping" /\ wipe'.accepted = wipe.failed
         \/ wipe'.pc = "idle"
         \/ wipe'.pc = "revoking" /\ wipe'.todo = wipe.failed /\ wipe'.failed = {}
  <2>1. CASE wipe' = [wipe EXCEPT !.pc = "wiping", !.accepted = wipe.failed]
    BY <1>1, <2>1 DEF WipeState
  <2>2. CASE wipe' = NoWipe
    BY <2>2 DEF NoWipe, WipeState
  <2>3. CASE wipe' = [wipe EXCEPT !.pc = "revoking", !.todo = wipe.failed, !.failed = {}]
    BY <1>1, <2>3 DEF WipeState
  <2>4. QED BY <2>1, <2>2, <2>3 DEF WipeAnswered
<1>3. slips = 0 => /\ Elsewhere
                   /\ \A l \in Links : ~Active(l)
                   /\ \A c \in Calls : ~Running(c)
  BY <1>1, WipeAlone
<1>4. slips = 0 => /\ wipe.failed \subseteq saved
                   /\ \A l \in saved : phase[l] = "live" => l \in wipe.failed
  BY <1>1 DEF CarefulInv, Wiping
<1>5. QED BY <1>1, <1>2, <1>3, <1>4, DialogKeeps

-------------------------------------------------------------------------------
\* The server and the recipients act; the app learns nothing yet.
LEMMA OutsideKeeps ==
  ASSUME SenderInv,
         phase' \in [Links -> Phases], Sent \subseteq Sent', Dead \subseteq Dead',
         \A l \in Sent : phase'[l] = "live" => phase[l] = "live",
         wire' \in [Links -> {"none", "sent", "served", "refused"}],
         \A l \in Links : wire'[l] = "served" => wire[l] = "served" \/ l \in Sent',
         UNCHANGED <<setup, saved, send, flow, call, list, shown, wipe, told, owed, stranded>>
  PROVE  SenderInv'
<1> USE DEF SenderInv
<1>1. UNCHANGED <<web, slips, saved, send, flow, call, list, shown, wipe, told, owed, stranded>>
  BY DEF setup
<1>2. ShapeInv'
  BY <1>1 DEF ShapeInv, TypeOK, LinksClosed
<1>3. SeenInv'
  BY <1>1 DEF SeenInv
<1>4. ASSUME slips' = 0
      PROVE  CarefulInv'
  <2> USE <1>1, <1>4 DEF CarefulInv
  <2>1. Alone'
    BY DEF Alone, Active, Running, Elsewhere, LinksClosed
  <2>2. Records'
    BY DEF Records
  <2>3. Revocations'
    BY DEF Revocations, Running
  <2>4. Wiping'
    <3>1. \A l \in saved : phase'[l] = "live" => phase[l] = "live"
      BY DEF SeenInv
    <3>2. QED BY <3>1 DEF Wiping
  <2>5. QED BY <2>1, <2>2, <2>3, <2>4
<1>5. QED BY <1>1, <1>2, <1>3, <1>4

LEMMA KeepsNetwork ==
  ASSUME SenderInv,
         Outside \/ \E l \in Links : Served(l) \/ Refused(l)
  PROVE  SenderInv'
<1> USE DEF SenderInv
<1>1. /\ phase \in [Links -> Phases]
      /\ wire \in [Links -> {"none", "sent", "served", "refused"}]
  BY DEF ShapeInv, TypeOK
<1>2. CASE Outside
  <2>1. \/ \E l \in Links, o \in Opens : Consume(l, o)
        \/ \E l \in Links : Expire({l})
    BY <1>2 DEF Outside
  <2>2. phase' \in [Links -> Phases] /\ Sent \subseteq Sent' /\ Dead \subseteq Dead'
    BY <1>1, <2>1, PhaseGrows
  <2>3. \A l \in Sent : phase'[l] = "live" => phase[l] = "live"
    BY <1>1, <2>1 DEF Consume, Expire, Sent
  <2>4. UNCHANGED <<setup, saved, send, wire, flow, call, list, shown, wipe, told, owed, stranded>>
    BY <1>2 DEF Outside, app
  <2>5. QED BY <1>1, <2>2, <2>3, <2>4, OutsideKeeps
<1>3. ASSUME NEW l \in Links, Served(l)
      PROVE  SenderInv'
  <2>1. /\ Send(l) /\ wire' = [wire EXCEPT ![l] = "served"]
        /\ UNCHANGED <<setup, saved, send, flow, call, list, shown, wipe, told, owed, stranded>>
    BY <1>3 DEF Served
  <2>2. phase' \in [Links -> Phases] /\ Sent \subseteq Sent' /\ Dead \subseteq Dead'
    BY <1>1, <2>1, PhaseGrows
  <2>3. l \in Sent' /\ \A m \in Sent : phase'[m] = "live" => phase[m] = "live"
    BY <1>1, <2>1 DEF Send, Sent
  <2>4. QED BY <1>1, <2>1, <2>2, <2>3, OutsideKeeps
<1>4. ASSUME NEW l \in Links, Refused(l)
      PROVE  SenderInv'
  <2>1. /\ wire' = [wire EXCEPT ![l] = "refused"]
        /\ UNCHANGED <<pvars, phase, setup, saved, send, flow, call, list, shown, wipe, told, owed, stranded>>
    BY <1>4 DEF Refused, pvars
  <2>2. phase' \in [Links -> Phases] /\ Sent \subseteq Sent' /\ Dead \subseteq Dead'
    BY <1>1, <2>1, PhaseGrows
  <2>3. QED BY <1>1, <2>1, <2>2, OutsideKeeps
<1>5. QED BY <1>2, <1>3, <1>4

-------------------------------------------------------------------------------
\* Nothing has been sent, saved or started.
LEMMA InitSender ==
  ASSUME Init
  PROVE  SenderInv
<1>1. /\ FreshFlow \in FlowState /\ FreshFlow.abort = None /\ FreshFlow.screen = "compose"
      /\ FreshFlow.mine = {}
      /\ NoList \in ListState /\ NoList.ids = {} /\ NoList.gone = {} /\ NoList.pc = "idle"
      /\ NoWipe \in WipeState /\ NoWipe.todo = {} /\ NoWipe.failed = {} /\ NoWipe.pc = "idle"
      /\ NoCall \in CallState /\ NoCall.pc = "idle" /\ NoCall.map = {}
      /\ \A l \in Links : Nothing[l] = "none"
  BY DEF FreshFlow, FlowState, NoList, ListState, NoWipe, WipeState, NoCall, CallState, Nothing
<1>2. /\ phase \in [Links -> Phases]
      /\ wire = Nothing /\ shown = Nothing /\ flow = FreshFlow /\ list = NoList /\ wipe = NoWipe
      /\ saved = {} /\ told = {} /\ owed = {} /\ stranded = {}
  BY DEF Init, PromiseInit, Phases
<1>3. /\ send \in [Links -> SendState]
      /\ \A l \in Links : send[l].pc = "idle" /\ send[l].map = {} /\ ~send[l].aborted
  BY DEF Init, SendState, SendPcs
<1>4. /\ call \in [Calls -> CallState]
      /\ \A c \in Calls : call[c].pc = "idle" /\ call[c].map = {}
  BY <1>1 DEF Init
<1>5. /\ wire \in [Links -> {"none", "sent", "served", "refused"}]
      /\ shown \in [Links -> {"none", "unknown", "active", "gone"}]
      /\ \A l \in Links : wire[l] = "none" /\ shown[l] = "none"
  BY <1>2 DEF Nothing
<1>6. ShapeInv
  <2>1. TypeOK
    BY <1>1, <1>2, <1>3, <1>4, <1>5, SenderAssumption DEF Init, TypeOK, SenderAssumption
  <2>2. QED BY <1>1, <1>2, <1>3, <1>4, <2>1 DEF ShapeInv
<1>7. SeenInv
  BY <1>1, <1>2, <1>3, <1>4, <1>5 DEF SeenInv
<1>8. CarefulInv
  <2>1. /\ \A l \in Links : ~Active(l)
        /\ \A c \in Calls : ~Running(c)
    BY <1>3, <1>4 DEF Active, Running
  <2>2. Alone
    BY <1>1, <1>2, <2>1 DEF Alone
  <2>3. Records
    BY <1>1, <1>2, <1>3, <1>4, <1>5 DEF Records
  <2>4. Revocations /\ Wiping
    BY <1>1, <1>2, <2>1 DEF Revocations, Wiping
  <2>5. QED BY <2>2, <2>3, <2>4 DEF CarefulInv
<1>9. QED BY <1>6, <1>7, <1>8 DEF SenderInv

LEMMA SenderStep ==
  ASSUME SenderInv, Next
  PROVE  SenderInv'
<1>1. ASSUME NEW l \in Links, Served(l) \/ Refused(l) \/ Submit(l) \/ SendStep(l) \/ NudgeStep(l)
      PROVE  SenderInv'
  BY <1>1, KeepsNetwork, KeepsSubmit, KeepsUpload, KeepsAnswer, KeepsReadBlob, KeepsRecord,
     KeepsSendFails, KeepsNudge, KeepsNudgeWrite
  DEF SendStep, NudgeStep
<1>2. ASSUME NEW c \in Calls, CallStep(c)
      PROVE  SenderInv'
  BY <1>2, KeepsLookup, KeepsRevokeServed, KeepsForgetRead, KeepsForgetWrite,
     KeepsRevokeShown, KeepsRevokeFails
  DEF CallStep
<1>3. ASSUME NEW c \in Calls, NEW l \in Links, RevokeStart(c, l) \/ DeleteStart(c, l)
      PROVE  SenderInv'
  BY <1>3, KeepsStart
<1>4. CASE Outside \/ Cancel \/ ComposeAnother \/ SwitchTab \/ ClearHistory \/ Kill
  BY <1>4, KeepsNetwork, KeepsCancel, KeepsComposeAnother, KeepsSwitchTab, KeepsClearHistory,
     KeepsKill
<1>5. CASE ListStep
  BY <1>5, KeepsRefresh, KeepsListServed, KeepsDisplay DEF ListStep
<1>6. CASE WipeStep
  BY <1>6, KeepsWipeOpen, KeepsWipeListed, KeepsWipeConfirm, KeepsWipeRevoked,
     KeepsWipeAnswered, KeepsWipeDone, KeepsWipeRevoke
  DEF WipeStep
<1>7. QED BY <1>1, <1>2, <1>3, <1>4, <1>5, <1>6 DEF Next

LEMMA SenderStutters ==
  ASSUME SenderInv, UNCHANGED vars
  PROVE  SenderInv'
<1>1. /\ UNCHANGED <<phase, setup, web, slips, saved, send, wire, flow, call, list, shown, wipe,
                     told, owed, stranded>>
      /\ UNCHANGED pvars
  BY DEF vars, pvars, setup, app
<1>2. /\ phase \in [Links -> Phases]
      /\ wire \in [Links -> {"none", "sent", "served", "refused"}]
  BY DEF SenderInv, ShapeInv, TypeOK
<1>3. phase' \in [Links -> Phases] /\ Sent \subseteq Sent' /\ Dead \subseteq Dead'
  BY <1>1, <1>2, PhaseGrows
<1>4. QED BY <1>1, <1>2, <1>3, OutsideKeeps

\* What the app holds is always of a link the server has had, and while nothing
\* overlaps or fails, one thing at a time is under way.
THEOREM SenderInvariant == Spec => []SenderInv
<1>1. Init => SenderInv
  BY InitSender
<1>2. SenderInv /\ [Next]_vars => SenderInv'
  BY SenderStep, SenderStutters
<1>3. QED BY <1>1, <1>2, PTL DEF Spec

-------------------------------------------------------------------------------
\* The sender's state is always one the code's types allow (create-and-seal.ts,
\* sent-links-store.ts, CreateFlow.tsx, wipe-orchestration.ts).
THEOREM SenderTypeCorrect == Spec => []TypeOK
<1>1. SenderInv => TypeOK
  BY DEF SenderInv, ShapeInv
<1>2. QED BY <1>1, SenderInvariant, PTL

\* createAndSeal records a link only after the server's answer, and no later read,
\* write or overlap of the blob brings in another: no upload that failed leaves a
\* record behind, however the app is killed or its storage fails.
THEOREM RecordsAreOfSentLinks == Spec => []NoOrphanRecord
<1>1. SenderInv => NoOrphanRecord
  BY DEF SenderInv, ShapeInv, TypeOK, SeenInv, Sent, NoOrphanRecord
<1>2. QED BY <1>1, SenderInvariant, PTL

\* reconcileSentLinks calls a link gone only when nobody can open it any more,
\* however stale the list it asked about and the answer it shows.
THEOREM GoneIsNeverClaimedEarly == Spec => []GoneIsGone
<1>1. SenderInv => GoneIsGone
  BY DEF SenderInv, SeenInv, Dead, GoneIsGone
<1>2. QED BY <1>1, SenderInvariant, PTL

\* While nothing overlaps, fails or is killed, recordSentLink, deleteSentLink, the
\* reminder's attachment, clearing and wiping keep exactly the records they owe.
THEOREM RecordsAreExact == Spec => []HistoryExact
<1>1. SenderInv => HistoryExact
  BY DEF SenderInv, CarefulInv, Records, HistoryExact
<1>2. QED BY <1>1, SenderInvariant, PTL

\* ... and a link the user was told is revoked cannot be opened: the token was
\* found when revokeCreatedLink looked it up, and the server has acted on it.
THEOREM ToldRevokedIsRevoked == Spec => []CarefulRevocation
<1>1. SenderInv => CarefulRevocation
  BY DEF SenderInv, CarefulInv, Revocations, Dead, CarefulRevocation, ToldRevokedIsDead
<1>2. QED BY <1>1, SenderInvariant, PTL

\* ... and the wipe destroys no live link's token but those whose failed revocation
\* the user accepted.
THEOREM WipeStrandsNothing == Spec => []NothingStranded
<1>1. SenderInv => NothingStranded
  BY DEF SenderInv, CarefulInv, Wiping, NothingStranded
<1>2. QED BY <1>1, SenderInvariant, PTL

-------------------------------------------------------------------------------
\* The flag that silences a send stands as long as a send cancelled since the last
\* submit might still come back.
SilenceInv == (flow.stopped # {} => flow.cancelled) /\ CancelledStaysSilent

\* What a step may do to the compose screen.
LEMMA FlowSteps ==
  ASSUME SenderInv, Next
  PROVE  \/ flow' \in {flow, FreshFlow}
         \/ Cancel \/ ComposeAnother
         \/ \E l \in Links : Submit(l)
         \/ \E l \in Links, ok \in BOOLEAN : AfterSend(l, ok) /\ Active(l)
<1>1. ASSUME NEW l \in Links, Served(l) \/ Refused(l) \/ NudgeStep(l)
      PROVE  flow' = flow
  BY <1>1 DEF Served, Refused, NudgeStep, NudgeRead, NudgeSkip, NudgeWrite
<1>2. ASSUME NEW l \in Links, SendStep(l)
      PROVE  flow' = flow \/ \E ok \in BOOLEAN : AfterSend(l, ok) /\ Active(l)
  <2>1. CASE Upload(l) \/ Answer(l) \/ ReadToken(l) \/ ReadBlob(l)
    BY <2>1 DEF Upload, Answer, ReadToken, ReadBlob
  <2>2. CASE WriteRecord(l) \/ PutRecord(l) \/ RecordFails(l)
    BY <2>2 DEF WriteRecord, PutRecord, RecordFails, Active
  <2>3. CASE SendFails(l)
    BY <2>3 DEF SendFails, MayFail, Active
  <2>4. QED BY <1>2, <2>1, <2>2, <2>3 DEF SendStep
<1>3. ASSUME NEW c \in Calls, CallStep(c)
      PROVE  flow' = flow
  BY <1>3 DEF CallStep, Lookup, RevokeServed, ForgetRead, ForgetWrite, RevokeShown, RevokeFails
<1>4. ASSUME NEW c \in Calls, NEW l \in Links,
             RevokeStart(c, l) \/ DeleteStart(c, l) \/ WipeRevoke(c, l)
      PROVE  flow' = flow
  BY <1>4 DEF RevokeStart, DeleteStart, WipeRevoke
<1>5. CASE Outside \/ ClearHistory \/ ListStep
  BY <1>5 DEF Outside, ClearHistory, ListStep, Refresh, ListServed, Display, app
<1>6. CASE SwitchTab \/ Kill \/ WipeDone
  BY <1>6 DEF SwitchTab, Kill, WipeDone, Unmount
<1>7. CASE WipeOpen \/ WipeListed \/ WipeConfirm \/ WipeRevoked \/ WipeAnswered
  BY <1>7 DEF WipeOpen, WipeListed, WipeConfirm, WipeRevoked, WipeAnswered
<1>8. QED BY <1>1, <1>2, <1>3, <1>4, <1>5, <1>6, <1>7 DEF Next, WipeStep

LEMMA SilenceKept ==
  ASSUME SenderInv, SilenceInv, [Next]_vars
  PROVE  SilenceInv'
<1> USE DEF SilenceInv, CancelledStaysSilent
<1>1. flow \in FlowState
  BY DEF SenderInv, ShapeInv, TypeOK
<1>2. CASE flow' \in {flow, FreshFlow}
  BY <1>2 DEF FreshFlow
<1>3. CASE Cancel
  <2>1. flow'.screen = "compose" /\ flow'.cancelled
    BY <1>1, <1>3 DEF Cancel, FlowState
  <2>2. QED BY <2>1
<1>4. CASE ComposeAnother
  <2>1. /\ flow'.screen = "compose" /\ flow'.cancelled = flow.cancelled
        /\ flow'.stopped = flow.stopped
    BY <1>1, <1>4 DEF ComposeAnother, FlowState
  <2>2. QED BY <2>1
<1>5. ASSUME NEW l \in Links, Submit(l)
      PROVE  SilenceInv'
  <2>1. flow'.screen = "encrypting" /\ flow'.stopped = {}
    BY <1>1, <1>5 DEF Submit, FlowState
  <2>2. QED BY <2>1
<1>6. ASSUME NEW l \in Links, NEW ok \in BOOLEAN, AfterSend(l, ok), Active(l)
      PROVE  SilenceInv'
  <2>1. /\ flow'.cancelled = flow.cancelled /\ flow'.stopped = flow.stopped
        /\ flow'.screen = "result" =>
             \/ flow.screen = "result" /\ flow'.link = flow.link
             \/ ok /\ flow'.link = l /\ l \in flow.mine /\ ~flow.cancelled
    BY <1>6, AfterSendFacts
  <2>2. QED BY <2>1
<1>7. CASE UNCHANGED vars
  <2>1. flow' = flow BY <1>7 DEF vars, app
  <2>2. QED BY <2>1
<1>8. QED BY <1>2, <1>3, <1>4, <1>5, <1>6, <1>7, FlowSteps

\* Whatever overlaps, fails or is killed: a send the user cancelled on the overlay is
\* not announced as the result before the user submits another on the same screen,
\* however late its answer (CreateFlow.tsx:55).  That submit resets the flag
\* (CreateFlow.tsx:48), and then the cancelled send may be announced.
THEOREM CancelledSendStaysSilent == Spec => []CancelledStaysSilent
<1>1. Init => SilenceInv
  BY DEF Init, FreshFlow, SilenceInv, CancelledStaysSilent
<1>2. SilenceInv => CancelledStaysSilent
  BY DEF SilenceInv
<1>3. QED BY <1>1, <1>2, SilenceKept, SenderInvariant, PTL DEF Spec
================================================================================
