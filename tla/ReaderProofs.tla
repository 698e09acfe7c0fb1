------------------------------- MODULE ReaderProofs -------------------------------
(* For any number of links, requests, handlers and mishaps: the biometric gate   *)
(* is never passed by, no second open of a link is spent while the first answer  *)
(* is kept, and no answer is held that the link's budget did not pay for.        *)
EXTENDS Reader, FiniteSetTheorems, TLAPS

\* An answer that the reader has or may still get, of a request that may have
\* consumed an open.
Pending(o) ==
  /\ post[o].client # "none"
  /\ post[o].fate = "kept"
  /\ post[o].server \in {"sent", "served"}

\* What the handlers, the session and a gate refer to was sent.
Posted ==
  /\ session.phase = "idle" => session.post = None
  /\ session.post # None => post[session.post].client # "none"
  /\ screen.post # None => post[screen.post].client # "none"
  /\ \A o \in Opens : post[o].server # "none" => post[o].client # "none"

\* The phone shows nothing of a reader, and runs none of its handlers, while the
\* identity is locked or no link is shown; only the browser waits for its gate.
Away ==
  ~web =>
    /\ identity = "locked" \/ link = None =>
         (\A t \in Threads : thread[t].pc = "idle") /\ screen.kind = "none"
    /\ \A t \in Threads : thread[t].pc # "wanting"

\* With the guard on, a decryption that runs, and a text that is shown, follow a prompt.
Asked ==
  /\ web => ~guard
  /\ ~web /\ guard =>
       /\ \A t \in Threads : thread[t].pc = "decrypting" => thread[t].authed
       /\ screen.kind = "decrypted" => screen.authed

\* The phone's one pending answer is the session's.
PhoneKeeps == ~web => \A o \in Opens : Pending(o) => session.post = o

\* The browser runs one handler at a time, and its one pending answer is the one
\* that handler awaits, or was the page's last.
WebKeeps ==
  web =>
    /\ screen.kind \in {"none", "landing", "unlock", "opening", "decrypted", "failed", "gone",
                        "network", "closed"}
    /\ link = None => screen.kind = "none"
    /\ \A t \in Threads :
         /\ thread[t].pc \in {"idle", "wanting", "posting", "decrypting"}
         /\ thread[t].pc = "wanting" => screen.kind \in {"landing", "unlock"}
         /\ thread[t].pc \in {"posting", "decrypting"} => screen.kind = "opening"
         /\ link = None => thread[t].pc = "idle"
         /\ \A u \in Threads : thread[t].pc # "idle" /\ thread[u].pc # "idle" => t = u
         /\ \A o \in Opens : thread[t].pc = "posting" /\ Pending(o) => thread[t].post = o
    /\ \A o \in Opens : Pending(o) =>
         /\ link # None
         /\ screen.kind \in {"opening", "decrypted", "failed", "closed"}
         /\ \A p \in Opens : Pending(p) => o = p

\* The server counts an open only for a request it served.
Counted == \A l \in Links : \A o \in used[l] : post[o].server = "served"

IInv == TypeOK /\ Posted /\ Away /\ Asked /\ PhoneKeeps /\ WebKeeps /\ Counted
-------------------------------------------------------------------------------
\* The records the code builds.
LEMMA ShowFacts ==
  ASSUME NEW k \in ScreenKinds
  PROVE  /\ Show(k) \in ScreenState
         /\ Show(k).kind = k /\ Show(k).post = None
BY DEF Show, ScreenState

LEMMA ShowOf ==
  ASSUME NEW k \in ScreenKinds, NEW l \in Links \cup {None}
  PROVE  /\ [Show(k) EXCEPT !.of = l] \in ScreenState
         /\ [Show(k) EXCEPT !.of = l].kind = k /\ [Show(k) EXCEPT !.of = l].post = None
BY DEF Show, ScreenState

LEMMA ShowMeta ==
  ASSUME NEW k \in ScreenKinds, NEW b \in BOOLEAN
  PROVE  /\ [Show(k) EXCEPT !.meta = b] \in ScreenState
         /\ [Show(k) EXCEPT !.meta = b].kind = k /\ [Show(k) EXCEPT !.meta = b].post = None
BY DEF Show, ScreenState

LEMMA ShowPost ==
  ASSUME NEW k \in ScreenKinds, NEW o \in Opens \cup {None}
  PROVE  /\ [Show(k) EXCEPT !.post = o] \in ScreenState
         /\ [Show(k) EXCEPT !.post = o].kind = k /\ [Show(k) EXCEPT !.post = o].post = o
BY DEF Show, ScreenState

LEMMA RestFacts ==
  /\ Rest \in ThreadState
  /\ Rest.pc = "idle" /\ Rest.post = None /\ Rest.authed = FALSE
BY DEF Rest, ThreadState

LEMMA RestingFacts ==
  /\ Resting \in [Threads -> ThreadState]
  /\ \A t \in Threads : Resting[t].pc = "idle" /\ Resting[t].post = None
BY RestFacts DEF Resting

LEMMA ProceedingFacts ==
  ASSUME TypeOK, NEW th \in ThreadState, NEW o \in Opens \cup {None}
  PROVE  /\ Proceeding(th, o) \in ThreadState
         /\ Proceeding(th, o).pc = IF guard THEN "probing" ELSE "decrypting"
         /\ Proceeding(th, o).post = o
         /\ Proceeding(th, o).authed = th.authed
BY DEF Proceeding, MustAsk, ThreadState, TypeOK

LEMMA UnmountFacts ==
  ASSUME Unmount
  PROVE  /\ screen' \in ScreenState /\ screen'.kind = "none" /\ screen'.post = None
         /\ thread' \in [Threads -> ThreadState]
         /\ \A t \in Threads : thread'[t].pc = "idle" /\ thread'[t].post = None
BY ShowFacts, RestingFacts DEF Unmount, ScreenKinds

\* What became of an open is recorded once, and changes nothing else of it.
LEMMA FatedFacts ==
  ASSUME NEW posts \in [Opens -> PostState], NEW o \in Opens \cup {None},
         NEW fate \in {"lost", "dismissed", "superseded"}
  PROVE  /\ Fated(posts, o, fate) \in [Opens -> PostState]
         /\ \A p \in Opens :
              /\ Fated(posts, o, fate)[p].client = posts[p].client
              /\ Fated(posts, o, fate)[p].server = posts[p].server
              /\ p # o => Fated(posts, o, fate)[p] = posts[p]
              /\ p = o => Fated(posts, o, fate)[p].fate # "kept"
<1>1. CASE o = None
  BY <1>1, ReaderAssumption DEF Fated
<1>2. CASE o \in Opens
  <2>1. o # None BY <1>2, ReaderAssumption
  <2>2. Fated(posts, o, fate) =
          [posts EXCEPT ![o] = [posts[o] EXCEPT !.fate = IF posts[o].fate = "kept" THEN fate
                                                         ELSE posts[o].fate]]
    BY <2>1 DEF Fated
  <2>3. [posts[o] EXCEPT !.fate = IF posts[o].fate = "kept" THEN fate ELSE posts[o].fate]
          \in PostState
    BY <1>2 DEF PostState
  <2>4. QED BY <1>2, <2>2, <2>3 DEF PostState
<1>3. QED BY <1>1, <1>2

-------------------------------------------------------------------------------
\* A handler that goes on, ends or starts while nothing but the screen changes.
LEMMA OneThread ==
  ASSUME IInv, NEW t \in Threads, NEW th \in ThreadState,
         thread' = [thread EXCEPT ![t] = th],
         th.post # None => post[th.post].client # "none",
         screen' \in ScreenState,
         screen'.post # None => post[screen'.post].client # "none",
         UNCHANGED <<pvars, web, guard, slips, identity, link, session, post>>
  PROVE  /\ TypeOK' /\ Posted' /\ PhoneKeeps' /\ Counted'
         /\ thread'[t] = th /\ \A u \in Threads \ {t} : thread'[u] = thread[u]
<1> USE DEF IInv
<1>1. /\ thread'[t] = th /\ \A u \in Threads \ {t} : thread'[u] = thread[u]
      /\ thread' \in [Threads -> ThreadState]
  BY DEF TypeOK
<1>2. \A u \in Threads : thread'[u].post # None => post'[thread'[u].post].client # "none"
  BY <1>1 DEF TypeOK
<1>3. TypeOK' BY <1>1, <1>2 DEF TypeOK, pvars
<1>4. Posted' BY DEF Posted
<1>5. PhoneKeeps' /\ Counted' BY DEF PhoneKeeps, Pending, Counted, pvars
<1>6. QED BY <1>1, <1>3, <1>4, <1>5

LEMMA KeepsMetadataHead ==
  ASSUME IInv, NEW t \in Threads, MetadataHead(t)
  PROVE  IInv'
<1> USE DEF IInv
<1> DEFINE th == [thread[t] EXCEPT !.pc = "body"]
<1>1. /\ th \in ThreadState /\ th.pc = "body" /\ th.post = thread[t].post
      /\ thread' = [thread EXCEPT ![t] = th]
      /\ screen \in ScreenState /\ screen' = screen
  BY DEF MetadataHead, TypeOK, ThreadState
<1> HIDE DEF th
<1>2. /\ TypeOK' /\ Posted' /\ PhoneKeeps' /\ Counted'
      /\ thread'[t] = th /\ \A u \in Threads \ {t} : thread'[u] = thread[u]
  <2>1. th.post # None => post[th.post].client # "none" BY <1>1 DEF TypeOK
  <2>2. screen'.post # None => post[screen'.post].client # "none" BY <1>1 DEF Posted
  <2>3. QED BY <1>1, <2>1, <2>2, OneThread DEF MetadataHead
<1>3. ~web /\ identity # "locked" /\ link # None
  BY DEF MetadataHead, Away, WebKeeps
<1>4. Away' /\ Asked' /\ WebKeeps'
  BY <1>1, <1>2, <1>3 DEF MetadataHead, Away, Asked, WebKeeps
<1>5. QED BY <1>2, <1>4

LEMMA KeepsMetadata ==
  ASSUME IInv, NEW t \in Threads, Metadata(t)
  PROVE  IInv'
<1> USE DEF IInv
<1>1. /\ screen' \in ScreenState /\ screen'.post = None
      /\ screen'.kind \in {"landing", "network", "gone"}
  <2>1. thread[t].id \in Links \cup {None}
    BY DEF Metadata, TypeOK, ThreadState
  <2>2. CASE screen' = [Show("landing") EXCEPT !.of = thread[t].id]
    BY <2>1, <2>2, ShowOf DEF ScreenKinds
  <2>3. CASE screen' \in {Show("network"), Show("gone")}
    BY <2>3, ShowFacts DEF ScreenKinds
  <2>4. QED BY <2>2, <2>3 DEF Metadata
<1>2. /\ TypeOK' /\ Posted' /\ PhoneKeeps' /\ Counted'
      /\ thread'[t] = Rest /\ \A u \in Threads \ {t} : thread'[u] = thread[u]
  BY <1>1, OneThread, RestFacts DEF Metadata
<1>3. ~web /\ identity # "locked" /\ link # None
  BY DEF Metadata, Away, WebKeeps
<1>4. Away' /\ Asked' /\ WebKeeps'
  BY <1>1, <1>2, <1>3, RestFacts DEF Metadata, Away, Asked, WebKeeps
<1>5. QED BY <1>2, <1>4

LEMMA KeepsProbe ==
  ASSUME IInv, NEW t \in Threads, Probe(t)
  PROVE  IInv'
<1> USE DEF IInv
<1>1. thread[t] \in ThreadState /\ thread[t].tap \in BOOLEAN /\ thread[t].post \in Opens \cup {None}
  BY DEF TypeOK, ThreadState
<1>2. /\ screen' \in ScreenState /\ screen'.post \in {thread[t].post, None}
      /\ screen'.kind \in {"gated", "unavailable", "network"}
  <2>1. CASE screen' = [Show("gated") EXCEPT !.post = thread[t].post]
    BY <1>1, <2>1, ShowPost DEF ScreenKinds
  <2>2. CASE screen' = Show("unavailable")
    BY <2>2, ShowFacts DEF ScreenKinds
  <2>3. CASE screen' = [Show("network") EXCEPT !.meta = thread[t].tap]
    BY <1>1, <2>3, ShowMeta DEF ScreenKinds
  <2>4. QED BY <2>1, <2>2, <2>3 DEF Probe
<1>3. /\ TypeOK' /\ Posted' /\ PhoneKeeps' /\ Counted'
      /\ thread'[t] = Rest /\ \A u \in Threads \ {t} : thread'[u] = thread[u]
  BY <1>2, OneThread, RestFacts DEF Probe, TypeOK
<1>4. ~web /\ identity # "locked" /\ link # None
  BY DEF Probe, Away, WebKeeps
<1>5. Away' /\ Asked' /\ WebKeeps'
  BY <1>2, <1>3, <1>4, RestFacts DEF Probe, Away, Asked, WebKeeps
<1>6. QED BY <1>3, <1>5

LEMMA KeepsAuthenticate ==
  ASSUME IInv, NEW t \in Threads, Authenticate(t)
  PROVE  IInv'
<1> USE DEF IInv
<1> DEFINE th == [Rest EXCEPT !.pc = "prompting", !.id = link, !.post = screen.post]
<1>1. th \in ThreadState /\ th.pc = "prompting" /\ th.post = screen.post
  BY DEF Rest, ThreadState, TypeOK, ScreenState
<1>2. /\ thread' = [thread EXCEPT ![t] = th] /\ screen' = screen
      /\ UNCHANGED <<pvars, web, guard, slips, identity, link, session, post>>
  BY DEF Authenticate
<1> HIDE DEF th
<1>3. /\ TypeOK' /\ Posted' /\ PhoneKeeps' /\ Counted'
      /\ thread'[t] = th /\ \A u \in Threads \ {t} : thread'[u] = thread[u]
  <2>1. screen \in ScreenState /\ (screen.post # None => post[screen.post].client # "none")
    BY DEF TypeOK, Posted
  <2>2. QED BY <1>1, <1>2, <2>1, OneThread
<1>4. ~web /\ identity # "locked" /\ link # None
  BY DEF Authenticate, Away, WebKeeps
<1>5. Away' /\ Asked' /\ WebKeeps'
  BY <1>1, <1>2, <1>3, <1>4 DEF Authenticate, Away, Asked, WebKeeps
<1>6. QED BY <1>3, <1>5

LEMMA KeepsPrompted ==
  ASSUME IInv, NEW t \in Threads, Prompted(t)
  PROVE  IInv'
<1> USE DEF IInv
<1>1. thread[t] \in ThreadState /\ thread[t].pc = "prompting"
  BY DEF TypeOK, Prompted
<1>2. ~web /\ identity # "locked" /\ link # None
  BY <1>1 DEF Away, WebKeeps
<1>3. CASE /\ thread' = [thread EXCEPT ![t].pc = "decrypting", ![t].authed = TRUE]
           /\ screen' = Show("opening")
  <2> DEFINE th == [thread[t] EXCEPT !.pc = "decrypting", !.authed = TRUE]
  <2>1. th \in ThreadState /\ th.pc = "decrypting" /\ th.authed = TRUE /\ th.post = thread[t].post
    BY <1>1 DEF ThreadState
  <2>2. thread' = [thread EXCEPT ![t] = th]
    BY <1>3 DEF TypeOK
  <2> HIDE DEF th
  <2>3. screen' \in ScreenState /\ screen'.post = None /\ screen'.kind = "opening"
    BY <1>3, ShowFacts DEF ScreenKinds
  <2>4. /\ TypeOK' /\ Posted' /\ PhoneKeeps' /\ Counted'
        /\ thread'[t] = th /\ \A u \in Threads \ {t} : thread'[u] = thread[u]
    BY <2>1, <2>2, <2>3, OneThread DEF Prompted, TypeOK
  <2>5. Away' /\ Asked' /\ WebKeeps'
    BY <1>2, <2>1, <2>3, <2>4 DEF Prompted, Away, Asked, WebKeeps
  <2>6. QED BY <2>4, <2>5
<1>4. CASE thread' = [thread EXCEPT ![t] = Rest] /\ UNCHANGED screen
  <2>1. /\ TypeOK' /\ Posted' /\ PhoneKeeps' /\ Counted'
        /\ thread'[t] = Rest /\ \A u \in Threads \ {t} : thread'[u] = thread[u]
    BY <1>4, OneThread, RestFacts DEF Prompted, TypeOK, Posted
  <2>2. Away' /\ Asked' /\ WebKeeps'
    BY <1>2, <1>4, <2>1, RestFacts DEF Prompted, Away, Asked, WebKeeps
  <2>3. QED BY <2>1, <2>2
<1>5. QED BY <1>3, <1>4 DEF Prompted

LEMMA KeepsDecrypt ==
  ASSUME IInv, NEW t \in Threads, Decrypt(t)
  PROVE  IInv'
<1> USE DEF IInv
<1>1. thread[t] \in ThreadState /\ thread[t].pc = "decrypting" /\ thread[t].authed \in BOOLEAN
      /\ thread[t].id \in Links \cup {None}
  BY DEF TypeOK, Decrypt, ThreadState
<1>2. /\ screen' \in ScreenState /\ screen'.post = None
      /\ screen'.kind \in {"decrypted", "failed"}
      /\ screen'.kind = "decrypted" => screen'.authed = thread[t].authed
  <2>1. CASE screen' = [Show("decrypted") EXCEPT !.of = thread[t].id,
                                                 !.authed = thread[t].authed]
    BY <1>1, <2>1 DEF Show, ScreenState, ScreenKinds
  <2>2. CASE screen' = Show("failed")
    BY <2>2, ShowFacts DEF ScreenKinds
  <2>3. QED BY <2>1, <2>2 DEF Decrypt
<1>3. /\ TypeOK' /\ Posted' /\ PhoneKeeps' /\ Counted'
      /\ thread'[t] = Rest /\ \A u \in Threads \ {t} : thread'[u] = thread[u]
  BY <1>2, OneThread, RestFacts DEF Decrypt
<1>4. web \/ (identity # "locked" /\ link # None)
  BY <1>1 DEF Away
<1>5. Away'
  BY <1>3, <1>4, RestFacts DEF Decrypt, Away
<1>6. Asked'
  BY <1>1, <1>2, <1>3, RestFacts DEF Decrypt, Asked
<1>7. WebKeeps'
  <2> SUFFICES ASSUME web PROVE WebKeeps'
    BY DEF Decrypt, WebKeeps
  <2>1. \A u \in Threads : thread'[u].pc = "idle"
    BY <1>1, <1>3, RestFacts DEF WebKeeps
  <2>2. \A o \in Opens : Pending(o)' => Pending(o)
    BY DEF Decrypt, Pending
  <2>3. QED BY <1>2, <2>1, <2>2 DEF Decrypt, WebKeeps
<1>8. QED BY <1>3, <1>5, <1>6, <1>7

LEMMA KeepsWantOpen ==
  ASSUME IInv, NEW t \in Threads, WantOpen(t)
  PROVE  IInv'
<1> USE DEF IInv
<1> DEFINE th == [Rest EXCEPT !.pc = "wanting", !.id = link]
<1>1. th \in ThreadState /\ th.pc = "wanting" /\ th.post = None
  BY DEF Rest, ThreadState, TypeOK
<1>2. thread' = [thread EXCEPT ![t] = th] /\ screen' = screen /\ web
  BY DEF WantOpen
<1> HIDE DEF th
<1>3. /\ TypeOK' /\ Posted' /\ PhoneKeeps' /\ Counted'
      /\ thread'[t] = th /\ \A u \in Threads \ {t} : thread'[u] = thread[u]
  BY <1>1, <1>2, OneThread DEF WantOpen, TypeOK, Posted
<1>4. Away' /\ Asked'
  BY <1>2 DEF WantOpen, Away, Asked
<1>5. WebKeeps'
  <2>1. \A u \in Threads \ {t} : thread'[u].pc = "idle"
    BY <1>3 DEF WantOpen, Busy
  <2>2. \A o \in Opens : ~Pending(o)'
    BY <1>2 DEF WantOpen, Pending, WebKeeps
  <2>3. screen'.kind = "landing" /\ link' # None
    BY <1>2 DEF WantOpen, WebKeeps
  <2>4. QED BY <1>1, <1>3, <2>1, <2>2, <2>3 DEF WebKeeps
<1>6. QED BY <1>3, <1>4, <1>5

LEMMA KeepsWebClose ==
  ASSUME IInv, WebClose
  PROVE  IInv'
<1> USE DEF IInv
<1>1. screen' \in ScreenState /\ screen'.post = None /\ screen'.kind = "closed"
  BY ShowFacts DEF WebClose, ScreenKinds
<1>2. TypeOK' BY <1>1 DEF WebClose, TypeOK, pvars
<1>3. Posted' /\ Away' /\ Asked' BY <1>1 DEF WebClose, Posted, Away, Asked
<1>4. PhoneKeeps' /\ Counted' BY DEF WebClose, PhoneKeeps, Counted, pvars
<1>5. WebKeeps'
  <2>1. \A u \in Threads : thread[u].pc = "idle"
    BY DEF WebClose, WebKeeps
  <2>2. \A o \in Opens : Pending(o)' => Pending(o)
    BY DEF WebClose, Pending
  <2>3. QED BY <1>1, <2>1, <2>2 DEF WebClose, WebKeeps
<1>6. QED BY <1>2, <1>3, <1>4, <1>5

-------------------------------------------------------------------------------
\* The screen goes away; what was pending stays so, or ceases to be.
LEMMA KeepsLock ==
  ASSUME IInv, Lock
  PROVE  IInv'
<1> USE DEF IInv
<1>1. TypeOK'
  <2>1. CASE web BY <2>1 DEF Lock, TypeOK, pvars
  <2>2. CASE ~web BY <2>2, UnmountFacts DEF Lock, TypeOK, pvars
  <2>3. QED BY <2>1, <2>2
<1>2. Posted' BY UnmountFacts DEF Lock, Posted
<1>3. Away' BY UnmountFacts DEF Lock, Away
<1>4. Asked' BY UnmountFacts DEF Lock, Asked
<1>5. PhoneKeeps' /\ Counted' BY DEF Lock, PhoneKeeps, Pending, Counted, pvars
<1>6. WebKeeps' BY DEF Lock, WebKeeps, Pending
<1>7. QED BY <1>1, <1>2, <1>3, <1>4, <1>5, <1>6

LEMMA KeepsLeaveForLinks ==
  ASSUME IInv, LeaveForLinks
  PROVE  IInv'
<1> USE DEF IInv
<1>1. TypeOK' BY UnmountFacts DEF LeaveForLinks, TypeOK, pvars
<1>2. Posted' BY UnmountFacts DEF LeaveForLinks, Posted
<1>3. Away' /\ Asked' BY UnmountFacts DEF LeaveForLinks, Away, Asked
<1>4. PhoneKeeps' /\ Counted' BY DEF LeaveForLinks, PhoneKeeps, Pending, Counted, pvars
<1>5. WebKeeps' BY DEF LeaveForLinks, WebKeeps
<1>6. QED BY <1>1, <1>2, <1>3, <1>4, <1>5

LEMMA KeepsFinish ==
  ASSUME IInv, Finish
  PROVE  IInv'
<1> USE DEF IInv
<1> DEFINE dropped == IF session.id = link THEN session.post ELSE None
<1>1. dropped \in Opens \cup {None} BY DEF TypeOK, SessionState
<1>2. post' = Fated(post, dropped, "dismissed") BY DEF Finish
<1>3. dropped # None => dropped = session.post OBVIOUS
<1>4. session' \in {session, NoSession} /\ (session' = session => dropped = None \/ session = NoSession)
  BY DEF Finish, Cleared
<1> HIDE DEF dropped
<1>5. /\ post' \in [Opens -> PostState]
      /\ \A p \in Opens : /\ post'[p].client = post[p].client
                          /\ post'[p].server = post[p].server
                          /\ p # dropped => post'[p] = post[p]
                          /\ p = dropped => post'[p].fate # "kept"
  BY <1>1, <1>2, FatedFacts DEF TypeOK
<1>6. \A p \in Opens : Pending(p)' => Pending(p) /\ p # dropped
  BY <1>5 DEF Pending
<1>7. session' \in SessionState /\ (session'.phase = "idle" <=> session'.id = None)
      /\ session'.post \in {session.post, None}
      /\ (session'.phase = "idle" => session'.post = None)
  BY <1>4 DEF TypeOK, SessionState, NoSession, Posted
<1>8. ~web /\ web' = web /\ UNCHANGED <<pvars, guard, slips, identity>> BY DEF Finish
<1>9. TypeOK' BY <1>5, <1>7, <1>8, UnmountFacts DEF Finish, TypeOK, pvars
<1>10. Posted' BY <1>5, <1>7, UnmountFacts DEF Finish, TypeOK, SessionState, Posted
<1>11. Away' /\ Asked' /\ WebKeeps' BY <1>8, UnmountFacts DEF Finish, Away, Asked, WebKeeps
<1>12. PhoneKeeps'
  <2> SUFFICES ASSUME NEW o \in Opens, Pending(o)' PROVE session'.post = o
    BY DEF PhoneKeeps
  <2>1. session.post = o /\ o # dropped BY <1>6, <1>8 DEF PhoneKeeps
  <2>2. session.id # link BY <2>1 DEF dropped
  <2>3. QED BY <2>1, <2>2 DEF Finish, Cleared
<1>13. Counted' BY <1>5, <1>8 DEF Counted, TypeOK, pvars
<1>14. QED BY <1>9, <1>10, <1>11, <1>12, <1>13

LEMMA KeepsKill ==
  ASSUME IInv, Kill
  PROVE  IInv'
<1> USE DEF IInv
<1>1. /\ post' \in [Opens -> PostState]
      /\ \A o \in Opens :
           /\ post[o].client # "none" => post'[o].client # "none" /\ post'[o].fate # "kept"
           /\ post[o].client = "none" => post'[o].client = "none"
           /\ post'[o].server = post[o].server
  BY DEF Kill, TypeOK, PostState
<1>2. \A o \in Opens : ~Pending(o)' BY <1>1 DEF Pending, TypeOK, PostState
<1>3. session' = NoSession /\ identity' = "locked" /\ link' = None /\ slips' \in 0 .. MaxSlips
      /\ UNCHANGED <<pvars, web, guard>>
  <2>1. slips' \in 0 .. MaxSlips
    <3>1. slips < MaxSlips /\ slips' = slips + 1 BY DEF Kill, Slip
    <3>2. QED BY <3>1, ReaderAssumption DEF TypeOK
  <2>2. QED BY <2>1 DEF Kill
<1>4. Unmount BY DEF Kill
<1>5. TypeOK' BY <1>1, <1>3, <1>4, UnmountFacts DEF TypeOK, NoSession, SessionState, pvars
<1>6. Posted' BY <1>1, <1>3, <1>4, UnmountFacts DEF Posted, NoSession
<1>7. Away' /\ Asked' BY <1>3, <1>4, UnmountFacts DEF Away, Asked
<1>8. PhoneKeeps' BY <1>2 DEF PhoneKeeps
<1>9. WebKeeps' BY <1>2, <1>3, <1>4, UnmountFacts DEF WebKeeps
<1>10. Counted' BY <1>1, <1>3 DEF Counted, TypeOK, pvars
<1>11. QED BY <1>5, <1>6, <1>7, <1>8, <1>9, <1>10

LEMMA KeepsToggleGuard ==
  ASSUME IInv, ToggleGuard
  PROVE  IInv'
<1> USE DEF IInv
<1>1. TypeOK' /\ Posted' /\ Away' BY DEF ToggleGuard, TypeOK, Posted, Away, pvars
<1>2. Asked' BY DEF ToggleGuard, Away, Asked
<1>3. PhoneKeeps' /\ WebKeeps' /\ Counted'
  BY DEF ToggleGuard, PhoneKeeps, WebKeeps, Pending, Counted, pvars
<1>4. QED BY <1>1, <1>2, <1>3

LEMMA KeepsPageLoad ==
  ASSUME IInv, NEW l \in Links, PageLoad(l)
  PROVE  IInv'
<1> USE DEF IInv
<1>1. /\ screen' \in ScreenState /\ screen'.kind = "landing" /\ screen'.post = None
      /\ link' \in Links /\ web
  BY ShowOf DEF PageLoad, ScreenKinds
<1>2. TypeOK' BY <1>1 DEF PageLoad, TypeOK, pvars
<1>3. Posted' /\ Away' /\ Asked' BY <1>1 DEF PageLoad, Posted, Away, Asked
<1>4. PhoneKeeps' /\ Counted' BY DEF PageLoad, PhoneKeeps, Counted, pvars
<1>5. WebKeeps'
  <2>1. \A o \in Opens : ~Pending(o)' BY <1>1 DEF PageLoad, Pending, WebKeeps
  <2>2. \A t \in Threads : thread'[t].pc = "idle" BY <1>1 DEF PageLoad, WebKeeps
  <2>3. link' # None BY <1>1, ReaderAssumption
  <2>4. QED BY <1>1, <2>1, <2>2, <2>3 DEF WebKeeps
<1>6. QED BY <1>2, <1>3, <1>4, <1>5

-------------------------------------------------------------------------------
\* The server.
LEMMA KeepsServe ==
  ASSUME IInv, NEW o \in Opens, Serve(o)
  PROVE  IInv'
<1> USE DEF IInv
<1>1. /\ post' \in [Opens -> PostState] /\ post'[o].server = "served"
      /\ post[o].server = "sent" /\ post[o].client # "none"
      /\ \A p \in Opens : /\ post'[p].client = post[p].client /\ post'[p].fate = post[p].fate
                          /\ p # o => post'[p] = post[p]
  BY DEF Serve, TypeOK, PostState, Posted
<1>2. phase' \in [Links -> Phases] /\ used' \in [Links -> SUBSET Opens]
  BY DEF Serve, Consume, TypeOK, Phases
<1>3. \A l \in Links : \A p \in used'[l] : p = o \/ p \in used[l]
  BY DEF Serve, Consume, TypeOK
<1>4. \A p \in Opens : Pending(p)' <=> Pending(p) BY <1>1 DEF Pending
<1>5. UNCHANGED <<web, guard, slips, identity, link, screen, thread, session>> BY DEF Serve
<1>6. TypeOK'
  <2>1. \A u \in Threads : thread[u].post \in Opens \cup {None} BY DEF TypeOK, ThreadState
  <2>2. QED BY <1>1, <1>2, <1>5, <2>1 DEF TypeOK
<1>7. Posted'
  <2>1. session.post \in Opens \cup {None} /\ screen.post \in Opens \cup {None}
    BY DEF TypeOK, SessionState, ScreenState
  <2>2. QED BY <1>1, <1>5, <2>1 DEF Posted
<1>8. Away' /\ Asked' BY <1>5 DEF Away, Asked
<1>9. PhoneKeeps' /\ WebKeeps' BY <1>4, <1>5 DEF PhoneKeeps, WebKeeps
<1>10. Counted'
  <2> SUFFICES ASSUME NEW l \in Links, NEW p \in used'[l] PROVE post'[p].server = "served"
    BY DEF Counted
  <2>1. p \in Opens BY <1>2
  <2>2. QED BY <1>1, <1>3, <2>1 DEF Counted
<1>11. QED BY <1>6, <1>7, <1>8, <1>9, <1>10

LEMMA KeepsRefuse ==
  ASSUME IInv, NEW o \in Opens, Refuse(o)
  PROVE  IInv'
<1> USE DEF IInv
<1>1. post[o].server = "sent" /\ post[o].client # "none" BY DEF Refuse, Posted
<1>2. /\ post' \in [Opens -> PostState] /\ post'[o].server \in {"gone", "busy"}
      /\ \A p \in Opens : /\ post'[p].client = post[p].client /\ post'[p].fate = post[p].fate
                          /\ p # o => post'[p] = post[p]
  BY DEF Refuse, TypeOK, PostState
<1>3. \A p \in Opens : Pending(p)' => Pending(p) BY <1>2 DEF Pending
<1>4. UNCHANGED <<pvars, web, guard, slips, identity, link, screen, thread, session>>
  BY DEF Refuse
<1>5. TypeOK'
  <2>1. \A u \in Threads : thread[u].post \in Opens \cup {None} BY DEF TypeOK, ThreadState
  <2>2. QED BY <1>2, <1>4, <2>1 DEF TypeOK, pvars
<1>6. Posted'
  <2>1. session.post \in Opens \cup {None} /\ screen.post \in Opens \cup {None}
    BY DEF TypeOK, SessionState, ScreenState
  <2>2. QED BY <1>1, <1>2, <1>4, <2>1 DEF Posted
<1>7. Away' /\ Asked' BY <1>4 DEF Away, Asked
<1>8. PhoneKeeps' BY <1>3, <1>4 DEF PhoneKeeps
<1>9. WebKeeps' BY <1>3, <1>4 DEF WebKeeps
<1>10. Counted'
  <2>1. \A l \in Links : o \notin used[l] BY <1>1 DEF Counted
  <2>2. QED BY <1>2, <1>4, <2>1 DEF Counted, TypeOK, pvars
<1>11. QED BY <1>5, <1>6, <1>7, <1>8, <1>9, <1>10

LEMMA KeepsRevoked ==
  ASSUME IInv, Revoked
  PROVE  IInv'
<1> USE DEF IInv
<1>1. phase' \in [Links -> Phases] /\ used' = used /\ UNCHANGED rvars
  BY DEF Revoked, Withdraw, TypeOK, Phases
<1>2. TypeOK' BY <1>1 DEF TypeOK, rvars
<1>3. Posted' /\ Away' /\ Asked' /\ Counted' BY <1>1 DEF Posted, Away, Asked, Counted, rvars
<1>4. PhoneKeeps' /\ WebKeeps' BY <1>1 DEF PhoneKeeps, WebKeeps, Pending, rvars
<1>5. QED BY <1>2, <1>3, <1>4

-------------------------------------------------------------------------------
\* The request settles.
LEMMA KeepsHead ==
  ASSUME IInv, NEW o \in Opens, Head(o)
  PROVE  IInv'
<1> USE DEF IInv
<1>1. /\ post' \in [Opens -> PostState]
      /\ \A p \in Opens : /\ post[p].client # "none" => post'[p].client # "none"
                          /\ post'[p].server = post[p].server
                          /\ Pending(p)' => Pending(p)
  BY DEF Head, TypeOK, PostState, Pending
<1>2. UNCHANGED <<pvars, web, guard, slips, identity, link, screen, thread, session>>
  BY DEF Head
<1>3. TypeOK'
  <2>1. \A u \in Threads : thread[u].post \in Opens \cup {None} BY DEF TypeOK, ThreadState
  <2>2. QED BY <1>1, <1>2, <2>1 DEF TypeOK, pvars
<1>4. Posted'
  <2>1. session.post \in Opens \cup {None} /\ screen.post \in Opens \cup {None}
    BY DEF TypeOK, SessionState, ScreenState
  <2>2. QED BY <1>1, <1>2, <2>1 DEF Posted
<1>5. Away' /\ Asked' BY <1>2 DEF Away, Asked
<1>6. PhoneKeeps' BY <1>1, <1>2 DEF PhoneKeeps
<1>7. WebKeeps' BY <1>1, <1>2 DEF WebKeeps
<1>8. Counted' BY <1>1, <1>2 DEF Counted, TypeOK, pvars
<1>9. QED BY <1>3, <1>4, <1>5, <1>6, <1>7, <1>8

LEMMA KeepsAnswered ==
  ASSUME IInv, NEW o \in Opens, Answered(o)
  PROVE  IInv'
<1> USE DEF IInv
<1>1. /\ post' \in [Opens -> PostState]
      /\ \A p \in Opens : /\ post[p].client # "none" => post'[p].client # "none"
                          /\ post'[p].server = post[p].server /\ post'[p].fate = post[p].fate
      /\ \A p \in Opens : Pending(p)' => Pending(p)
      /\ post'[o].client # "none"
  BY DEF Answered, TypeOK, PostState, Pending
<1>2. /\ thread' \in [Threads -> ThreadState]
      /\ \A t \in Threads :
           /\ t \notin Awaiting(o) => thread'[t] = thread[t]
           /\ t \in Awaiting(o) =>
                /\ thread[t].pc = "posting" /\ thread'[t].post = o
                /\ thread'[t].pc = IF guard THEN "probing" ELSE "decrypting"
  <2>1. \A t \in Threads : thread[t] \in ThreadState BY DEF TypeOK
  <2>2. thread' = [t \in Threads |->
                     IF t \in Awaiting(o) THEN Proceeding(thread[t], o) ELSE thread[t]]
    BY DEF Answered
  <2>3. QED BY <2>1, <2>2, ProceedingFacts DEF Awaiting
<1>3. session' \in SessionState /\ (session'.phase = "idle" <=> session'.id = None)
      /\ session'.post = session.post
      /\ (session'.phase = "idle" => session.phase = "idle")
  <2>1. CASE session.post = o
    <3>1. session' = [session EXCEPT !.phase = "held"] BY <2>1 DEF Answered
    <3>2. session.phase # "idle"
      BY <2>1, ReaderAssumption DEF Posted
    <3>3. QED BY <3>1, <3>2 DEF TypeOK, SessionState
  <2>2. CASE session.post # o BY <2>2 DEF Answered, TypeOK
  <2>3. QED BY <2>1, <2>2
<1>4. /\ screen' \in ScreenState /\ screen'.post \in {screen.post, None}
      /\ screen' = screen \/ (~guard /\ Awaiting(o) # {} /\ screen'.kind = "opening")
      /\ Awaiting(o) = {} => screen' = screen
  BY ShowFacts DEF Answered, Proceeded, MustAsk, TypeOK, ScreenKinds, ScreenState
<1>5. UNCHANGED <<pvars, web, guard, slips, identity, link>> BY DEF Answered
<1>6. TypeOK'
  <2>1. \A u \in Threads : thread[u].post \in Opens \cup {None} BY DEF TypeOK, ThreadState
  <2>2. \A u \in Threads : thread'[u].post # None => post'[thread'[u].post].client # "none"
    BY <1>1, <1>2, <2>1 DEF TypeOK
  <2>3. QED BY <1>1, <1>2, <1>3, <1>4, <1>5, <2>2 DEF TypeOK, pvars
<1>7. Posted'
  <2>1. session.post \in Opens \cup {None} /\ screen.post \in Opens \cup {None}
    BY DEF TypeOK, SessionState, ScreenState
  <2>2. QED BY <1>1, <1>3, <1>4, <2>1 DEF Posted
<1>8. Away'
  BY <1>2, <1>4, <1>5 DEF Away, Awaiting
<1>9. Asked'
  BY <1>2, <1>4, <1>5 DEF Asked
<1>10. PhoneKeeps' BY <1>1, <1>3, <1>5 DEF PhoneKeeps
<1>11. WebKeeps'
  <2> SUFFICES ASSUME web PROVE WebKeeps' BY <1>5 DEF WebKeeps
  <2>1. screen'.kind = screen.kind BY <1>2, <1>4 DEF WebKeeps, Awaiting
  <2>2. \A t \in Threads : \/ thread'[t] = thread[t]
                           \/ thread[t].pc = "posting" /\ thread'[t].pc = "decrypting"
    BY <1>2 DEF Asked
  <2>3. QED BY <1>1, <1>5, <2>1, <2>2 DEF WebKeeps
<1>12. Counted' BY <1>1, <1>5 DEF Counted, TypeOK, pvars
<1>13. QED BY <1>6, <1>7, <1>8, <1>9, <1>10, <1>11, <1>12

LEMMA KeepsFailed ==
  ASSUME IInv, NEW o \in Opens, Failed(o)
  PROVE  IInv'
<1> USE DEF IInv
<1>1. /\ post' \in [Opens -> PostState]
      /\ \A p \in Opens : /\ post[p].client # "none" => post'[p].client # "none"
                          /\ post'[p].server = post[p].server
                          /\ p # o => post'[p] = post[p]
      /\ ~Pending(o)'
  <2> DEFINE failed == [post EXCEPT ![o].client = "failed"]
  <2>1. failed \in [Opens -> PostState] /\ failed[o].client = "failed"
        /\ failed[o].server = post[o].server /\ \A p \in Opens \ {o} : failed[p] = post[p]
    BY DEF TypeOK, PostState
  <2>2. CASE CouldNotTell(o)
    <3>1. post' = Fated(failed, o, "lost") BY <2>2 DEF CouldNotTell
    <3> HIDE DEF failed
    <3>2. QED BY <2>1, <3>1, FatedFacts DEF Pending
  <2>3. CASE ToldGone(o)
    <3>1. post' = failed /\ post[o].server = "gone" BY <2>3 DEF ToldGone
    <3> HIDE DEF failed
    <3>2. QED BY <2>1, <3>1 DEF Pending
  <2>4. QED BY <2>2, <2>3 DEF Failed
<1>2. \A p \in Opens : Pending(p)' => Pending(p) /\ p # o BY <1>1 DEF Pending
<1>3. /\ thread' \in [Threads -> ThreadState]
      /\ \A t \in Threads : /\ t \notin Awaiting(o) => thread'[t] = thread[t]
                            /\ t \in Awaiting(o) => thread'[t] = Rest
  BY RestFacts DEF Failed, TypeOK
<1>4. /\ screen' \in ScreenState
      /\ Awaiting(o) = {} => screen' = screen
      /\ Awaiting(o) # {} => screen'.post = None /\ screen'.kind \in {"network", "gone"}
  <2>1. CASE CouldNotTell(o)
    <3>1. CASE Awaiting(o) = {} BY <2>1, <3>1 DEF CouldNotTell, TypeOK
    <3>2. CASE Awaiting(o) # {}
      <4>1. PICK t \in Awaiting(o) : screen' = [Show("network") EXCEPT !.meta = thread[t].tap]
        BY <2>1, <3>2 DEF CouldNotTell
      <4>2. thread[t].tap \in BOOLEAN BY DEF Awaiting, TypeOK, ThreadState
      <4>3. QED BY <3>2, <4>1, <4>2, ShowMeta DEF ScreenKinds
    <3>3. QED BY <3>1, <3>2
  <2>2. CASE ToldGone(o) BY <2>2, ShowFacts DEF ToldGone, TypeOK, ScreenKinds
  <2>3. QED BY <2>1, <2>2 DEF Failed
<1>5. session' \in SessionState /\ (session'.phase = "idle" <=> session'.id = None)
      /\ (session.post # o => session' = session)
      /\ (session.post = o => session'.post = None)
  BY DEF Failed, TypeOK, SessionState, NoSession
<1>6. UNCHANGED <<pvars, web, guard, slips, identity, link>> BY DEF Failed
<1>7. TypeOK'
  <2>1. \A u \in Threads : thread[u].post \in Opens \cup {None} BY DEF TypeOK, ThreadState
  <2>2. \A u \in Threads : thread'[u].post # None => post'[thread'[u].post].client # "none"
    BY <1>1, <1>3, <2>1, RestFacts DEF TypeOK
  <2>3. QED BY <1>1, <1>3, <1>4, <1>5, <1>6, <2>2 DEF TypeOK, pvars
<1>8. Posted'
  <2>1. session.post \in Opens \cup {None} /\ screen.post \in Opens \cup {None}
    BY DEF TypeOK, SessionState, ScreenState
  <2>2. QED BY <1>1, <1>4, <1>5, <2>1 DEF Posted
<1>9. Away'
  BY <1>3, <1>4, <1>6, RestFacts DEF Away, Awaiting
<1>10. Asked'
  BY <1>3, <1>4, <1>6, RestFacts DEF Asked
<1>11. PhoneKeeps' BY <1>2, <1>5, <1>6 DEF PhoneKeeps
<1>12. WebKeeps'
  <2> SUFFICES ASSUME web PROVE WebKeeps' BY <1>6 DEF WebKeeps
  <2>1. CASE Awaiting(o) = {}
    <3>1. \A t \in Threads : thread'[t] = thread[t] BY <1>3, <2>1
    <3>2. QED BY <1>2, <1>4, <1>6, <2>1, <3>1 DEF WebKeeps
  <2>2. CASE Awaiting(o) # {}
    <3>1. PICK t \in Threads : thread[t].pc = "posting" /\ thread[t].post = o /\ t \in Awaiting(o)
      BY <2>2 DEF Awaiting
    <3>2. \A u \in Threads : thread'[u].pc = "idle"
      BY <1>3, <3>1, RestFacts DEF WebKeeps
    <3>3. \A p \in Opens : ~Pending(p)' BY <1>2, <3>1 DEF WebKeeps
    <3>4. link # None BY <3>1 DEF WebKeeps
    <3>5. QED BY <1>4, <1>6, <2>2, <3>2, <3>3, <3>4 DEF WebKeeps
  <2>3. QED BY <2>1, <2>2
<1>13. Counted' BY <1>1, <1>6 DEF Counted, TypeOK, pvars
<1>14. QED BY <1>7, <1>8, <1>9, <1>10, <1>11, <1>12, <1>13

-------------------------------------------------------------------------------
\* The browser sends an open only when it holds and awaits none.
LEMMA KeepsRunOpen ==
  ASSUME IInv, NEW t \in Threads, RunOpen(t), web, link # None,
         \A u \in Threads \ {t} : thread[u].pc = "idle",
         \A o \in Opens : ~Pending(o),
         UNCHANGED <<pvars, web, guard, slips, identity, link, session>>
  PROVE  IInv'
<1> USE DEF IInv
<1>1. PICK o \in Opens :
        /\ post[o].client = "none"
        /\ screen' = Show("opening")
        /\ thread' = [thread EXCEPT ![t] = [Rest EXCEPT !.pc = "posting", !.id = link, !.post = o,
                                                        !.tap = TRUE]]
        /\ post' = [post EXCEPT ![o].link = link, ![o].server = "sent",
                                ![o].client = "waiting"]
  BY DEF RunOpen, Fresh
<1> DEFINE th == [Rest EXCEPT !.pc = "posting", !.id = link, !.post = o, !.tap = TRUE]
<1>2. th \in ThreadState /\ th.pc = "posting" /\ th.post = o
  BY DEF Rest, ThreadState, TypeOK
<1>3. thread' = [thread EXCEPT ![t] = th] BY <1>1
<1> HIDE DEF th
<1>4. /\ thread' \in [Threads -> ThreadState]
      /\ thread'[t] = th /\ \A u \in Threads \ {t} : thread'[u] = thread[u]
  BY <1>2, <1>3 DEF TypeOK
<1>5. /\ post' \in [Opens -> PostState] /\ post'[o].client = "waiting"
      /\ \A p \in Opens \ {o} : post'[p] = post[p]
  <2>1. link \in Links \cup {None} /\ post \in [Opens -> PostState] BY DEF TypeOK
  <2>2. QED BY <1>1, <2>1 DEF PostState
<1>6. \A p \in Opens : Pending(p)' => p = o BY <1>5 DEF Pending
<1>7. screen' \in ScreenState /\ screen'.kind = "opening" /\ screen'.post = None
  BY <1>1, ShowFacts DEF ScreenKinds
<1>8. TypeOK'
  <2>1. \A u \in Threads : thread[u].post \in Opens \cup {None} BY DEF TypeOK, ThreadState
  <2>2. \A u \in Threads : thread'[u].post # None => post'[thread'[u].post].client # "none"
    BY <1>2, <1>4, <1>5, <2>1 DEF TypeOK
  <2>3. QED BY <1>4, <1>5, <1>7, <2>2 DEF TypeOK, pvars
<1>9. Posted'
  <2>1. session.post \in Opens \cup {None} BY DEF TypeOK, SessionState
  <2>2. QED BY <1>5, <1>7, <2>1 DEF Posted
<1>10. Away' /\ Asked' /\ PhoneKeeps' BY DEF Away, Asked, PhoneKeeps
<1>11. WebKeeps' BY <1>2, <1>4, <1>6, <1>7 DEF WebKeeps
<1>12. Counted'
  <2>1. \A l \in Links : o \notin used[l] BY <1>1 DEF Counted, Posted
  <2>2. QED BY <1>5, <2>1 DEF Counted, TypeOK, pvars
<1>13. QED BY <1>8, <1>9, <1>10, <1>11, <1>12

LEMMA KeepsWebRetry ==
  ASSUME IInv, NEW t \in Threads, WebRetry(t)
  PROVE  IInv'
<1> USE DEF IInv
<1>1. /\ web /\ screen.kind = "network" /\ RunOpen(t)
      /\ UNCHANGED <<pvars, web, guard, slips, identity, link, session>>
  BY DEF WebRetry
<1>2. link # None /\ (\A u \in Threads : thread[u].pc = "idle") /\ \A o \in Opens : ~Pending(o)
  BY <1>1 DEF WebKeeps
<1>3. QED BY <1>1, <1>2, KeepsRunOpen

LEMMA KeepsIdentityGate ==
  ASSUME IInv, NEW t \in Threads, IdentityGate(t)
  PROVE  IInv'
<1> USE DEF IInv
<1>1. thread[t].pc = "wanting" /\ UNCHANGED <<pvars, web, guard, slips, identity, link, session>>
  BY DEF IdentityGate
<1>2. web
  BY <1>1 DEF Away
<1>3. /\ link # None /\ screen.kind \in {"landing", "unlock"}
      /\ \A u \in Threads \ {t} : thread[u].pc = "idle"
      /\ \A o \in Opens : ~Pending(o)
  BY <1>1, <1>2 DEF WebKeeps
<1>4. CASE screen' = Show("unlock") /\ UNCHANGED <<thread, post>>
  <2>1. screen' \in ScreenState /\ screen'.kind = "unlock" /\ screen'.post = None
    BY <1>4, ShowFacts DEF ScreenKinds
  <2>2. TypeOK' BY <1>1, <1>4, <2>1 DEF TypeOK, pvars
  <2>3. Posted' /\ Away' /\ Asked' BY <1>1, <1>2, <1>4, <2>1 DEF Posted, Away, Asked
  <2>4. PhoneKeeps' /\ Counted' BY <1>1, <1>2, <1>4 DEF PhoneKeeps, Counted, pvars
  <2>5. \A o \in Opens : ~Pending(o)' BY <1>3, <1>4 DEF Pending
  <2>6. WebKeeps' BY <1>1, <1>2, <1>3, <1>4, <2>1, <2>5 DEF WebKeeps
  <2>7. QED BY <2>2, <2>3, <2>4, <2>6
<1>5. CASE RunOpen(t) BY <1>1, <1>2, <1>3, <1>5, KeepsRunOpen
<1>6. QED BY <1>4, <1>5 DEF IdentityGate

-------------------------------------------------------------------------------
\* What begin does: it never forgets a pending answer of the link it is asked for.
LEMMA BeginFacts ==
  ASSUME IInv, ~web, NEW t \in Threads, NEW id \in Links, NEW th \in ThreadState,
         th.authed = FALSE, th.post = None,
         Begin(t, th, id)
  PROVE  /\ thread' \in [Threads -> ThreadState]
         /\ thread'[t].pc \in {"posting", "probing", "decrypting"}
         /\ guard => thread'[t].pc # "decrypting"
         /\ thread'[t].post # None => post'[thread'[t].post].client # "none"
         /\ \A u \in Threads \ {t} : thread'[u] = thread[u]
         /\ session' \in SessionState /\ (session'.phase = "idle" <=> session'.id = None)
         /\ session'.phase = "idle" => session'.post = None
         /\ session'.post # None => post'[session'.post].client # "none"
         /\ post' \in [Opens -> PostState]
         /\ \A o \in Opens :
              /\ post[o].client # "none" => post'[o].client # "none"
              /\ post'[o].server # "none" => post'[o].client # "none"
              /\ post[o].server = "served" => post'[o].server = "served"
              /\ Pending(o)' => session'.post = o
<1> USE ReaderAssumption DEF IInv
<1>1. /\ session \in SessionState /\ session.post \in Opens \cup {None}
      /\ thread \in [Threads -> ThreadState] /\ post \in [Opens -> PostState]
  BY DEF TypeOK, SessionState
<1>2. CASE Peek(id) = "held"
  <2>1. /\ thread' = [thread EXCEPT ![t] = Proceeding(th, session.post)]
        /\ session' = session /\ post' = post
    BY <1>2 DEF Begin
  <2>2. /\ Proceeding(th, session.post) \in ThreadState
        /\ Proceeding(th, session.post).pc = IF guard THEN "probing" ELSE "decrypting"
        /\ Proceeding(th, session.post).post = session.post
    BY <1>1, ProceedingFacts
  <2>3. \A o \in Opens : Pending(o)' => Pending(o) BY <2>1 DEF Pending
  <2>4. QED BY <1>1, <2>1, <2>2, <2>3 DEF TypeOK, Posted, PhoneKeeps
<1>3. CASE Peek(id) = "in-flight"
  <2> DEFINE at == [th EXCEPT !.pc = "posting", !.post = session.post]
  <2>1. thread' = [thread EXCEPT ![t] = at] /\ session' = session /\ post' = post
    BY <1>3 DEF Begin
  <2>2. at \in ThreadState /\ at.pc = "posting" /\ at.post = session.post
    BY <1>1 DEF ThreadState
  <2> HIDE DEF at
  <2>3. \A o \in Opens : Pending(o)' => Pending(o) BY <2>1 DEF Pending
  <2>4. QED BY <1>1, <2>1, <2>2, <2>3 DEF TypeOK, Posted, PhoneKeeps
<1>4. CASE Peek(id) = "idle"
  <2> DEFINE dropped == IF session.id = id THEN None ELSE session.post
             before == Fated(post, dropped, "superseded")
  <2>1. PICK o \in Opens :
          /\ post[o].client = "none"
          /\ session' = [id |-> id, post |-> o, phase |-> "in-flight"]
          /\ thread' = [thread EXCEPT ![t] = [th EXCEPT !.pc = "posting", !.post = o]]
          /\ post' = [before EXCEPT ![o].link = id, ![o].server = "sent",
                                    ![o].client = "waiting"]
    BY <1>2, <1>3, <1>4 DEF Begin, Fresh
  <2>2. session.post # None => dropped = session.post
    BY <1>4 DEF Peek, TypeOK
  <2>3. dropped \in Opens \cup {None} BY <1>1
  <2> HIDE DEF dropped
  <2>4. /\ before \in [Opens -> PostState]
        /\ \A p \in Opens : /\ before[p].client = post[p].client
                            /\ before[p].server = post[p].server
                            /\ p # dropped => before[p] = post[p]
                            /\ p = dropped => before[p].fate # "kept"
    BY <1>1, <2>3, FatedFacts
  <2> HIDE DEF before
  <2>5. /\ post' \in [Opens -> PostState] /\ post'[o].client = "waiting"
        /\ \A p \in Opens \ {o} : post'[p] = before[p]
    BY <2>1, <2>4 DEF PostState
  <2>6. /\ thread' \in [Threads -> ThreadState]
        /\ thread'[t].pc = "posting" /\ thread'[t].post = o
        /\ \A u \in Threads \ {t} : thread'[u] = thread[u]
    <3> DEFINE at == [th EXCEPT !.pc = "posting", !.post = o]
    <3>1. at \in ThreadState /\ at.pc = "posting" /\ at.post = o BY DEF ThreadState
    <3>2. thread' = [thread EXCEPT ![t] = at] BY <2>1
    <3> HIDE DEF at
    <3>3. QED BY <1>1, <3>1, <3>2
  <2>7. session' \in SessionState /\ session'.phase = "in-flight" /\ session'.id = id
        /\ session'.post = o /\ id # None
    BY <2>1 DEF SessionState
  <2>8. \A p \in Opens : Pending(p)' => p = o
    <3> SUFFICES ASSUME NEW p \in Opens, Pending(p)', p # o PROVE FALSE
      OBVIOUS
    <3>1. post'[p] = before[p] /\ p # dropped BY <2>4, <2>5 DEF Pending
    <3>2. Pending(p) BY <2>4, <3>1 DEF Pending
    <3>3. session.post = p BY <3>2 DEF PhoneKeeps
    <3>4. QED BY <2>2, <3>1, <3>3
  <2>9. /\ post[o].server # "served"
        /\ \A p \in Opens : post[p].server # "none" => post[p].client # "none"
    BY <2>1 DEF Posted
  <2>10. QED BY <2>4, <2>5, <2>6, <2>7, <2>8, <2>9
<1>5. QED BY <1>2, <1>3, <1>4 DEF Begin

\* A tap that opens or opens again, on a screen that then shows the spinner.
LEMMA KeepsBeginning ==
  ASSUME IInv, ~web, NEW t \in Threads, screen.kind # "none", thread[t].pc = "idle",
         Begin(t, [Rest EXCEPT !.id = link, !.tap = TRUE], link),
         screen' \in ScreenState, screen'.kind = "opening", screen'.post = None,
         slips' \in 0 .. MaxSlips,
         UNCHANGED <<pvars, web, guard, identity, link>>
  PROVE  IInv'
<1> USE ReaderAssumption DEF IInv
<1> DEFINE th == [Rest EXCEPT !.id = link, !.tap = TRUE]
<1>1. identity # "locked" /\ link # None /\ link \in Links
  BY DEF Away, TypeOK
<1>2. th \in ThreadState /\ th.authed = FALSE /\ th.post = None
  BY <1>1 DEF Rest, ThreadState
<1>3. Begin(t, th, link) OBVIOUS
<1> HIDE DEF th
<1>4. /\ thread' \in [Threads -> ThreadState]
      /\ thread'[t].pc \in {"posting", "probing", "decrypting"}
      /\ guard => thread'[t].pc # "decrypting"
      /\ thread'[t].post # None => post'[thread'[t].post].client # "none"
      /\ \A u \in Threads \ {t} : thread'[u] = thread[u]
      /\ session' \in SessionState /\ (session'.phase = "idle" <=> session'.id = None)
      /\ session'.phase = "idle" => session'.post = None
      /\ session'.post # None => post'[session'.post].client # "none"
      /\ post' \in [Opens -> PostState]
      /\ \A o \in Opens :
           /\ post[o].client # "none" => post'[o].client # "none"
           /\ post'[o].server # "none" => post'[o].client # "none"
           /\ post[o].server = "served" => post'[o].server = "served"
           /\ Pending(o)' => session'.post = o
  BY <1>1, <1>2, <1>3, BeginFacts
<1>5. TypeOK'
  <2>1. \A u \in Threads : thread[u].post \in Opens \cup {None} BY DEF TypeOK, ThreadState
  <2>2. \A u \in Threads : thread'[u].post # None => post'[thread'[u].post].client # "none"
    BY <1>4, <2>1 DEF TypeOK
  <2>3. QED BY <1>4, <2>2 DEF TypeOK, pvars
<1>6. Posted' BY <1>4 DEF Posted
<1>7. Away' /\ Asked' BY <1>1, <1>4 DEF Away, Asked
<1>8. PhoneKeeps' /\ WebKeeps' BY <1>4 DEF PhoneKeeps, WebKeeps
<1>9. Counted' BY <1>4 DEF Counted, TypeOK, pvars
<1>10. QED BY <1>5, <1>6, <1>7, <1>8, <1>9

LEMMA KeepsTapOpen ==
  ASSUME IInv, NEW t \in Threads, TapOpen(t)
  PROVE  IInv'
<1>1. screen' \in ScreenState /\ screen'.kind = "opening" /\ screen'.post = None
  BY ShowFacts DEF TapOpen, ScreenKinds
<1>2. ~web /\ screen.kind # "none" /\ thread[t].pc = "idle"
      /\ Begin(t, [Rest EXCEPT !.id = link, !.tap = TRUE], link)
      /\ UNCHANGED <<pvars, web, guard, identity, link>>
  BY DEF TapOpen, Idle
<1>3. slips' \in 0 .. MaxSlips BY DEF TapOpen, IInv, TypeOK
<1>4. QED BY <1>1, <1>2, <1>3, KeepsBeginning

LEMMA KeepsRetry ==
  ASSUME IInv, NEW t \in Threads, Retry(t)
  PROVE  IInv'
<1> USE DEF IInv
<1>1. ~web /\ thread[t].pc = "idle" /\ screen.kind # "none"
      /\ UNCHANGED <<pvars, web, guard, identity, link>>
  BY DEF Retry, Idle
<1>2. slips' \in 0 .. MaxSlips
  BY ReaderAssumption DEF Retry, Slip, TypeOK
<1>3. CASE /\ Begin(t, [Rest EXCEPT !.id = link, !.tap = TRUE], link)
           /\ screen' \in {Show("opening"), [Show("opening") EXCEPT !.meta = TRUE]}
  <2>1. screen' \in ScreenState /\ screen'.kind = "opening" /\ screen'.post = None
    <3>1. CASE screen' = Show("opening") BY <3>1, ShowFacts DEF ScreenKinds
    <3>2. CASE screen' = [Show("opening") EXCEPT !.meta = TRUE]
      BY <3>2 DEF Show, ScreenState, ScreenKinds
    <3>3. QED BY <1>3, <3>1, <3>2
  <2>2. QED BY <1>1, <1>2, <1>3, <2>1, KeepsBeginning
<1>4. CASE /\ UNCHANGED <<slips, session, post>>
           /\ thread' = [thread EXCEPT ![t] = [Rest EXCEPT !.pc = "metadata", !.id = link]]
           /\ screen' = Show("loading")
  <2> DEFINE th == [Rest EXCEPT !.pc = "metadata", !.id = link]
  <2>1. th \in ThreadState /\ th.pc = "metadata" /\ th.post = None
    BY DEF Rest, ThreadState, TypeOK
  <2>2. thread' = [thread EXCEPT ![t] = th] BY <1>4
  <2> HIDE DEF th
  <2>3. screen' \in ScreenState /\ screen'.kind = "loading" /\ screen'.post = None
    BY <1>4, ShowFacts DEF ScreenKinds
  <2>4. /\ TypeOK' /\ Posted' /\ PhoneKeeps' /\ Counted'
        /\ thread'[t] = th /\ \A u \in Threads \ {t} : thread'[u] = thread[u]
    BY <1>1, <1>4, <2>1, <2>2, <2>3, OneThread
  <2>5. Away' /\ Asked' /\ WebKeeps'
    BY <1>1, <2>1, <2>3, <2>4 DEF Away, Asked, WebKeeps
  <2>6. QED BY <2>4, <2>5
<1>5. QED BY <1>3, <1>4 DEF Retry

\* Mounting the reader for a link, or swapping the link under it.
LEMMA KeepsResume ==
  ASSUME IInv, ~web, NEW t \in Threads, NEW id \in Links, NEW before \in ScreenState,
         before.post # None => post[before.post].client # "none",
         guard /\ before.kind = "decrypted" => before.authed,
         Resume(t, id, before),
         slips' \in 0 .. MaxSlips, identity' = "unlocked", link' = id,
         UNCHANGED <<pvars, web, guard, session, post>>
  PROVE  IInv'
<1> USE ReaderAssumption DEF IInv
<1> DEFINE th == [Rest EXCEPT !.id = id]
<1>1. th \in ThreadState /\ th.post = None BY DEF Rest, ThreadState
<1>2. session.post \in Opens \cup {None} /\ thread \in [Threads -> ThreadState]
  BY DEF TypeOK, SessionState
<1>3. PICK at \in ThreadState :
        /\ thread' = [thread EXCEPT ![t] = at]
        /\ at.pc \in {"probing", "decrypting", "posting", "metadata"}
        /\ guard => at.pc # "decrypting"
        /\ at.post \in {session.post, None}
  <2>1. CASE Peek(id) = "held"
    <3>1. thread' = [thread EXCEPT ![t] = Proceeding(th, session.post)]
      BY <2>1 DEF Resume
    <3> HIDE DEF th
    <3>2. QED BY <1>1, <1>2, <3>1, ProceedingFacts
  <2>2. CASE Peek(id) = "in-flight"
    <3> DEFINE a == [th EXCEPT !.pc = "posting", !.post = session.post]
    <3>1. thread' = [thread EXCEPT ![t] = a] BY <2>2 DEF Resume
    <3>2. a \in ThreadState /\ a.pc = "posting" /\ a.post = session.post
      BY <1>1, <1>2 DEF ThreadState
    <3> HIDE DEF a
    <3>3. QED BY <3>1, <3>2
  <2>3. CASE Peek(id) = "idle"
    <3> DEFINE a == [th EXCEPT !.pc = "metadata"]
    <3>1. thread' = [thread EXCEPT ![t] = a] BY <2>3 DEF Resume
    <3>2. a \in ThreadState /\ a.pc = "metadata" /\ a.post = None
      BY <1>1 DEF ThreadState
    <3> HIDE DEF a
    <3>3. QED BY <3>1, <3>2
  <2>4. QED BY <2>1, <2>2, <2>3 DEF Resume
<1>4. /\ screen' \in ScreenState
      /\ screen' = before \/ (screen'.kind \in {"opening", "loading"} /\ screen'.post = None)
  <2>1. screen' \in {before, Show("opening"), Show("loading")} BY DEF Resume, Proceeded
  <2>2. QED BY <2>1, ShowFacts DEF ScreenKinds
<1>5. /\ thread' \in [Threads -> ThreadState]
      /\ thread'[t] = at /\ \A u \in Threads \ {t} : thread'[u] = thread[u]
  BY <1>2, <1>3
<1>6. TypeOK'
  <2>1. \A u \in Threads : thread'[u].post # None => post'[thread'[u].post].client # "none"
    BY <1>3, <1>5 DEF TypeOK, Posted
  <2>2. QED BY <1>4, <1>5, <2>1 DEF TypeOK, pvars
<1>7. Posted' BY <1>4 DEF Posted
<1>8. Away' BY <1>3, <1>5 DEF Away
<1>9. Asked' BY <1>3, <1>4, <1>5 DEF Asked
<1>10. PhoneKeeps' /\ WebKeeps' /\ Counted' BY DEF PhoneKeeps, WebKeeps, Pending, Counted, pvars
<1>11. QED BY <1>6, <1>7, <1>8, <1>9, <1>10

LEMMA LoadingFacts ==
  Show("loading") \in ScreenState /\ Show("loading").kind = "loading" /\ Show("loading").post = None
BY ShowFacts DEF ScreenKinds

LEMMA KeepsUnlock ==
  ASSUME IInv, Unlock
  PROVE  IInv'
<1> USE DEF IInv
<1>1. identity' = "unlocked" /\ UNCHANGED <<pvars, web, guard, slips, link, session, post>>
  BY DEF Unlock
<1>2. CASE web \/ link = None
  <2>1. UNCHANGED <<screen, thread>> BY <1>2 DEF Unlock
  <2>2. TypeOK' BY <1>1, <2>1 DEF TypeOK, pvars
  <2>3. Posted' /\ Away' /\ Asked' BY <1>1, <1>2, <2>1 DEF Posted, Away, Asked
  <2>4. PhoneKeeps' /\ Counted' BY <1>1 DEF PhoneKeeps, Pending, Counted, pvars
  <2>5. WebKeeps' BY <1>1, <2>1 DEF WebKeeps, Pending
  <2>6. QED BY <2>2, <2>3, <2>4, <2>5
<1>3. CASE ~(web \/ link = None)
  <2>1. PICK t \in Threads : Resume(t, link, Show("loading")) BY <1>3 DEF Unlock
  <2>2. link \in Links /\ slips' \in 0 .. MaxSlips BY <1>1, <1>3 DEF TypeOK
  <2>3. QED BY <1>1, <1>3, <2>1, <2>2, LoadingFacts, KeepsResume
<1>4. QED BY <1>2, <1>3

LEMMA KeepsDeepLink ==
  ASSUME IInv, NEW l \in Links, DeepLink(l)
  PROVE  IInv'
<1> USE ReaderAssumption DEF IInv
<1>1. ~web /\ link' = l /\ UNCHANGED <<pvars, web, guard, identity, session, post>>
  BY DEF DeepLink
<1>2. slips' \in 0 .. MaxSlips
  BY DEF DeepLink, Slip, TypeOK
<1>3. CASE identity = "locked"
  <2>1. UNCHANGED <<screen, thread>> BY <1>3 DEF DeepLink
  <2>2. TypeOK' BY <1>1, <1>2, <2>1 DEF TypeOK, pvars
  <2>3. Posted' /\ Away' /\ Asked' BY <1>1, <1>3, <2>1 DEF Posted, Away, Asked
  <2>4. PhoneKeeps' /\ WebKeeps' /\ Counted'
    BY <1>1 DEF PhoneKeeps, WebKeeps, Pending, Counted, pvars
  <2>5. QED BY <2>2, <2>3, <2>4
<1>4. CASE identity # "locked"
  <2> DEFINE before == IF screen.kind = "none" THEN Show("loading") ELSE screen
  <2>1. PICK t \in Threads : Resume(t, l, before) BY <1>4 DEF DeepLink
  <2>2. /\ before \in ScreenState
        /\ before.post # None => post[before.post].client # "none"
        /\ guard /\ before.kind = "decrypted" => before.authed
    BY <1>1, LoadingFacts DEF TypeOK, Posted, Asked
  <2>3. identity' = "unlocked" BY <1>1, <1>4 DEF TypeOK
  <2> HIDE DEF before
  <2>4. QED BY <1>1, <1>2, <2>1, <2>2, <2>3, KeepsResume
<1>5. QED BY <1>3, <1>4

-------------------------------------------------------------------------------
LEMMA InitIInv == Init => IInv
<1> SUFFICES ASSUME Init PROVE IInv
  OBVIOUS
<1> USE ReaderAssumption DEF IInv
<1>1. screen \in ScreenState /\ screen.kind = "none" /\ screen.post = None
  BY ShowFacts DEF Init, ScreenKinds
<1>2. /\ thread \in [Threads -> ThreadState]
      /\ \A t \in Threads : thread[t].pc = "idle" /\ thread[t].post = None
  BY RestingFacts DEF Init
<1>3. session \in SessionState /\ session.post = None /\ session.id = None
      /\ session.phase = "idle"
  BY DEF Init, NoSession, SessionState
<1>4. /\ post \in [Opens -> PostState]
      /\ \A o \in Opens : post[o].client = "none" /\ post[o].server = "none"
  BY DEF Init, NoPost, PostState
<1>5. TypeOK
  <2>1. phase \in [Links -> Phases] /\ used \in [Links -> SUBSET Opens]
    BY DEF Init, Phases
  <2>2. slips \in 0 .. MaxSlips BY DEF Init
  <2>3. QED BY <1>1, <1>2, <1>3, <1>4, <2>1, <2>2 DEF Init, TypeOK
<1>6. Posted BY <1>1, <1>3, <1>4 DEF Posted
<1>7. Away /\ Asked BY <1>1, <1>2 DEF Init, Away, Asked
<1>8. \A o \in Opens : ~Pending(o) BY <1>4 DEF Pending
<1>9. PhoneKeeps /\ WebKeeps BY <1>1, <1>2, <1>8 DEF PhoneKeeps, WebKeeps
<1>10. Counted BY DEF Init, Counted
<1>11. QED BY <1>5, <1>6, <1>7, <1>9, <1>10

LEMMA NextIInv == IInv /\ [Next]_vars => IInv'
<1> SUFFICES ASSUME IInv, [Next]_vars PROVE IInv'
  OBVIOUS
<1>1. CASE Server
  BY <1>1, KeepsServe, KeepsRefuse, KeepsRevoked DEF Server
<1>2. CASE App
  BY <1>2, KeepsUnlock, KeepsLock, KeepsLeaveForLinks, KeepsToggleGuard, KeepsFinish,
     KeepsKill, KeepsWebClose, KeepsDeepLink, KeepsPageLoad DEF App
<1>3. CASE Taps
  BY <1>3, KeepsTapOpen, KeepsRetry, KeepsAuthenticate, KeepsPrompted, KeepsWantOpen,
     KeepsWebRetry DEF Taps
<1>4. ASSUME NEW t \in Threads, Handlers(t) PROVE IInv'
  BY <1>4, KeepsMetadataHead, KeepsMetadata, KeepsProbe, KeepsDecrypt, KeepsIdentityGate
  DEF Handlers
<1>5. ASSUME NEW o \in Opens, Settles(o) PROVE IInv'
  BY <1>5, KeepsHead, KeepsAnswered, KeepsFailed DEF Settles
<1>6. CASE UNCHANGED vars
  <2>1. UNCHANGED <<pvars, rvars>> BY <1>6 DEF vars
  <2>2. TypeOK' /\ Posted' /\ Away' /\ Asked'
    BY <2>1 DEF IInv, TypeOK, Posted, Away, Asked, pvars, rvars
  <2>3. PhoneKeeps' /\ WebKeeps' /\ Counted'
    BY <2>1 DEF IInv, PhoneKeeps, WebKeeps, Counted, Pending, pvars, rvars
  <2>4. QED BY <2>2, <2>3 DEF IInv
<1>7. QED BY <1>1, <1>2, <1>3, <1>4, <1>5, <1>6 DEF Next

-------------------------------------------------------------------------------
\* The reader's state is always of its type, and a handler only awaits a request that
\* was sent (ReaderFlow.tsx, open-coordinator.ts).
THEOREM ReaderTypeCorrect == Spec => []TypeOK
<1>1. IInv => TypeOK BY DEF IInv
<1>2. QED BY <1>1, InitIInv, NextIInv, PTL DEF Spec

\* Whatever is tapped, locked, swapped or resumed, on the phone the text is shown only
\* unlocked and, with the guard on, after a prompt (decrypt-gate.ts:1-8).
THEOREM GateNeverPassedBy == Spec => []GuardHolds
<1>1. IInv => GuardHolds BY DEF IInv, TypeOK, Away, Asked, GuardHolds
<1>2. QED BY <1>1, InitIInv, NextIInv, PTL DEF Spec

\* The invariant leaves at most one pending answer, so at most one kept open of a link.
LEMMA AtMostOneKept == IInv => OpenedOnce
<1> SUFFICES ASSUME IInv, NEW l \in Links
             PROVE  Cardinality({o \in used[l] : post[o].fate = "kept"}) <= 1
  BY DEF OpenedOnce
<1> DEFINE kept == {o \in used[l] : post[o].fate = "kept"}
<1>1. \A o \in kept : o \in Opens /\ Pending(o)
  BY DEF IInv, TypeOK, Counted, Posted, Pending
<1>2. \A o, p \in kept : o = p
  BY <1>1 DEF IInv, PhoneKeeps, WebKeeps
<1>3. CASE kept = {} BY <1>3, FS_EmptySet
<1>4. CASE kept # {}
  <2>1. PICK o \in kept : kept = {o} BY <1>2, <1>4
  <2>2. Cardinality({o}) = 1 BY FS_Singleton
  <2>3. Cardinality(kept) = 1 BY <2>1, <2>2
  <2> HIDE DEF kept
  <2>4. Cardinality(kept) <= 1 BY <2>3
  <2>5. QED BY <2>4 DEF kept
<1>5. QED BY <1>3, <1>4

\* However the phone is locked, tapped or swapped, and whatever is lost or late, no
\* second open of a link is spent while the first answer is kept
\* (open-coordinator.ts:13-19).
THEOREM NoOpenWasted == Spec => []OpenedOnce
<1>1. QED BY AtMostOneKept, InitIInv, NextIInv, PTL DEF Spec

-------------------------------------------------------------------------------
\* What LinkPromise promises of a link, whoever consumes it: no more opens than its
\* sender allowed, none counted for two links, and no ciphertext once they are spent.
Rationed ==
  /\ \A l \in Links :
       /\ IsFiniteSet(used[l])
       /\ budget[l] # -1 => used[l] = {} \/ Cardinality(used[l]) <= budget[l]
       /\ used[l] # {} /\ Cardinality(used[l]) = budget[l] => phase[l] = "erased"
  /\ \A k, l \in Links : k # l => used[k] \cap used[l] = {}

\* With the types the promise keeps, and what makes the above inductive.
Promised ==
  /\ phase \in [Links -> Phases] /\ budget \in [Links -> Int] /\ used \in [Links -> SUBSET Opens]
  /\ \A l \in Links : phase[l] = "unsent" => used[l] = {}
  /\ Rationed

LEMMA ConsumeRations ==
  ASSUME Promised, NEW l \in Links, NEW o \in Opens, Consume(l, o)
  PROVE  Promised'
<1> USE DEF Promised
<1>1. /\ used' = [used EXCEPT ![l] = @ \cup {o}] /\ budget' = budget /\ phase[l] = "live"
      /\ \A k \in Links : o \notin used[k]
      /\ budget[l] # -1 => Cardinality(used[l]) + 1 <= budget[l]
      /\ phase' = [phase EXCEPT ![l] = IF Cardinality(used[l]) + 1 = budget[l] THEN "erased"
                                       ELSE @]
  BY DEF Consume
<1>2. /\ phase' \in [Links -> Phases] /\ used' \in [Links -> SUBSET Opens]
      /\ used'[l] = used[l] \cup {o}
      /\ \A k \in Links \ {l} : used'[k] = used[k] /\ phase'[k] = phase[k]
      /\ phase'[l] = IF Cardinality(used[l]) + 1 = budget[l] THEN "erased" ELSE "live"
  BY <1>1 DEF Phases
<1>3. IsFiniteSet(used'[l]) /\ Cardinality(used'[l]) = Cardinality(used[l]) + 1
  <2>1. IsFiniteSet(used[l]) /\ o \notin used[l] BY <1>1 DEF Rationed
  <2>2. IsFiniteSet(used[l] \cup {o}) /\ Cardinality(used[l] \cup {o}) = Cardinality(used[l]) + 1
    BY <2>1, FS_AddElement
  <2>3. QED BY <1>2, <2>2
<1>4. \A k \in Links :
        /\ IsFiniteSet(used'[k])
        /\ budget'[k] # -1 => used'[k] = {} \/ Cardinality(used'[k]) <= budget'[k]
        /\ used'[k] # {} /\ Cardinality(used'[k]) = budget'[k] => phase'[k] = "erased"
  BY <1>1, <1>2, <1>3 DEF Rationed
<1>5. \A j, k \in Links : j # k => used'[j] \cap used'[k] = {}
  BY <1>1, <1>2 DEF Rationed
<1>6. \A k \in Links : phase'[k] = "unsent" => used'[k] = {} BY <1>2
<1>7. QED BY <1>1, <1>2, <1>4, <1>5, <1>6 DEF Rationed

LEMMA PromiseStepRations == Promised /\ [PromiseNext]_pvars => Promised'
<1> SUFFICES ASSUME Promised, [PromiseNext]_pvars PROVE Promised'
  OBVIOUS
<1> USE DEF Promised
<1>1. ASSUME NEW l \in Links, NEW o \in Opens, Consume(l, o) PROVE Promised'
  BY <1>1, ConsumeRations
<1>2. ASSUME NEW l \in Links, Send(l) PROVE Promised'
  <2>1. /\ phase[l] = "unsent" /\ used' = used /\ phase' = [phase EXCEPT ![l] = "live"]
        /\ budget' \in [Links -> Int] /\ \A k \in Links \ {l} : budget'[k] = budget[k]
    BY <1>2 DEF Send
  <2>2. phase' \in [Links -> Phases] /\ \A k \in Links \ {l} : phase'[k] = phase[k]
    BY <2>1 DEF Phases
  <2>3. used[l] = {} BY <2>1
  <2>4. QED BY <2>1, <2>2, <2>3 DEF Rationed
<1>3. ASSUME \/ \E l \in Links : Withdraw(l)
             \/ \E S \in SUBSET Links : Expire(S) \/ Erase(S)
             \/ UNCHANGED pvars
      PROVE  Promised'
  <2>1. /\ budget' = budget /\ used' = used /\ phase' \in [Links -> Phases]
        /\ \A k \in Links : /\ phase'[k] = "unsent" => phase[k] = "unsent"
                            /\ phase[k] = "erased" => phase'[k] = "erased"
    <3> DEFINE Onward == /\ budget' = budget /\ used' = used /\ phase' \in [Links -> Phases]
                         /\ \A k \in Links : /\ phase'[k] = "unsent" => phase[k] = "unsent"
                                             /\ phase[k] = "erased" => phase'[k] = "erased"
    <3>1. ASSUME \E l \in Links : Withdraw(l) PROVE Onward
      BY <3>1 DEF Withdraw, Phases
    <3>2. ASSUME NEW S \in SUBSET Links, Expire(S) PROVE Onward
      BY <3>2 DEF Expire, Phases
    <3>3. ASSUME NEW S \in SUBSET Links, Erase(S) PROVE Onward
      BY <3>3 DEF Erase, Phases
    <3>4. ASSUME UNCHANGED pvars PROVE Onward BY <3>4 DEF pvars
    <3>5. QED BY <1>3, <3>1, <3>2, <3>3, <3>4
  <2>2. QED BY <2>1 DEF Rationed
<1>4. QED BY <1>1, <1>2, <1>3 DEF PromiseNext

\* However opens, revocations and sweeps interleave, the promise itself never lets a
\* link be opened beyond its budget, counts one open for one link only, and keeps no
\* ciphertext of a link whose budget is spent (interfaces.ts, incrementOpens).
THEOREM PromiseRationed == PromiseSpec => []Rationed
<1>1. PromiseInit => Promised
  BY FS_EmptySet DEF PromiseInit, Promised, Rationed, Phases
<1>2. Promised => Rationed BY DEF Promised
<1>3. QED BY <1>1, <1>2, PromiseStepRations, PTL DEF PromiseSpec

-------------------------------------------------------------------------------
\* A request is for a link, whichever screen or page sent it; and the one the client
\* holds an answer to was counted by the server, for that link.
Paid ==
  \A o \in Opens :
    /\ post[o].server # "none" => post[o].link \in Links
    /\ post[o].server = "served" => o \in used[post[o].link]
    /\ post[o].client \in {"reading", "answered"} => post[o].server = "served"

\* What one step does to a request.
SameRequest(o) ==
  /\ post'[o].link = post[o].link /\ post'[o].server = post[o].server
  /\ post'[o].client \in {"reading", "answered"} =>
       post[o].client \in {"reading", "answered"} \/ post[o].server = "served"
NewRequest(o) ==
  /\ post[o].server = "none"
  /\ post'[o].link \in Links /\ post'[o].server = "sent" /\ post'[o].client = "waiting"

LEMMA RunOpenRequests ==
  ASSUME IInv, NEW t \in Threads, RunOpen(t), link # None
  PROVE  \A p \in Opens : SameRequest(p) \/ NewRequest(p)
<1> USE DEF IInv
<1>1. PICK o \in Opens :
        /\ post[o].client = "none"
        /\ post' = [post EXCEPT ![o].link = link, ![o].server = "sent", ![o].client = "waiting"]
  BY DEF RunOpen, Fresh
<1>2. link \in Links /\ post \in [Opens -> PostState] BY DEF TypeOK
<1>3. post'[o].link = link /\ post'[o].server = "sent" /\ post'[o].client = "waiting"
  BY <1>1, <1>2 DEF PostState
<1>4. post[o].server = "none" BY <1>1 DEF Posted
<1>5. \A p \in Opens \ {o} : post'[p] = post[p] BY <1>1, <1>2
<1>6. QED BY <1>2, <1>3, <1>4, <1>5 DEF SameRequest, NewRequest

LEMMA BeginRequests ==
  ASSUME IInv, NEW t \in Threads, NEW th, NEW id \in Links, Begin(t, th, id)
  PROVE  \A p \in Opens : SameRequest(p) \/ NewRequest(p)
<1> USE ReaderAssumption DEF IInv
<1>1. CASE post' = post BY <1>1 DEF SameRequest
<1>2. ASSUME NEW o \in Opens, post[o].client = "none",
             post' = [Fated(post, IF session.id = id THEN None ELSE session.post, "superseded")
                        EXCEPT ![o].link = id, ![o].server = "sent", ![o].client = "waiting"]
      PROVE  \A p \in Opens : SameRequest(p) \/ NewRequest(p)
  <2> DEFINE dropped == IF session.id = id THEN None ELSE session.post
             before == Fated(post, dropped, "superseded")
  <2>1. dropped \in Opens \cup {None} /\ post \in [Opens -> PostState]
    BY DEF TypeOK, SessionState
  <2> HIDE DEF dropped
  <2>2. /\ before \in [Opens -> PostState]
        /\ \A p \in Opens : /\ before[p].client = post[p].client
                            /\ before[p].server = post[p].server
                            /\ before[p].link = post[p].link
    <3>1. before \in [Opens -> PostState]
          /\ \A p \in Opens : /\ before[p].client = post[p].client
                              /\ before[p].server = post[p].server
                              /\ p # dropped => before[p] = post[p]
      BY <2>1, FatedFacts
    <3>2. dropped # None => before[dropped].link = post[dropped].link
      BY <2>1 DEF Fated, PostState
    <3>3. QED BY <3>1, <3>2, <2>1
  <2>3. post' = [before EXCEPT ![o].link = id, ![o].server = "sent", ![o].client = "waiting"]
    BY <1>2 DEF dropped
  <2> HIDE DEF before
  <2>4. /\ post'[o].link = id /\ post'[o].server = "sent" /\ post'[o].client = "waiting"
        /\ \A p \in Opens \ {o} : post'[p] = before[p]
    BY <2>2, <2>3 DEF PostState
  <2>5. post[o].server = "none" BY <1>2 DEF Posted
  <2>6. QED BY <2>2, <2>4, <2>5 DEF SameRequest, NewRequest
<1>3. QED BY <1>1, <1>2 DEF Begin, Fresh

\* Everything the app does but the server's part of it.
LEMMA ClientRequests ==
  ASSUME IInv, \/ App \/ Taps
               \/ \E t \in Threads : Handlers(t)
               \/ \E o \in Opens : Settles(o)
               \/ UNCHANGED vars
  PROVE  /\ UNCHANGED pvars
         /\ \A p \in Opens : SameRequest(p) \/ NewRequest(p)
<1> USE DEF IInv
<1>0. post' = post => \A p \in Opens : SameRequest(p) BY DEF SameRequest
<1>1. CASE UNCHANGED vars BY <1>0, <1>1 DEF vars, rvars
<1>2. ASSUME NEW l \in Links, DeepLink(l) \/ PageLoad(l)
      PROVE  UNCHANGED pvars /\ post' = post
  BY <1>2 DEF DeepLink, PageLoad
<1>3. CASE Unlock \/ Lock \/ LeaveForLinks \/ ToggleGuard \/ WebClose
  BY <1>0, <1>3 DEF Unlock, Lock, LeaveForLinks, ToggleGuard, WebClose
<1>4. CASE Finish
  <2> DEFINE dropped == IF session.id = link THEN session.post ELSE None
  <2>1. dropped \in Opens \cup {None} BY DEF TypeOK, SessionState
  <2>2. post' = Fated(post, dropped, "dismissed") /\ UNCHANGED pvars BY <1>4 DEF Finish
  <2> HIDE DEF dropped
  <2>3. \A p \in Opens : /\ post'[p].client = post[p].client
                         /\ post'[p].server = post[p].server
                         /\ p # dropped => post'[p] = post[p]
    BY <2>1, <2>2, FatedFacts DEF TypeOK
  <2>4. dropped # None => post'[dropped].link = post[dropped].link
    BY <2>1, <2>2 DEF Fated, TypeOK, PostState
  <2>5. QED BY <2>1, <2>2, <2>3, <2>4, ReaderAssumption DEF SameRequest
<1>5. CASE Kill
  BY <1>5 DEF Kill, SameRequest, TypeOK, PostState
<1>6. ASSUME NEW t \in Threads, TapOpen(t) \/ Retry(t)
      PROVE  UNCHANGED pvars /\ \A p \in Opens : SameRequest(p) \/ NewRequest(p)
  <2>1. UNCHANGED pvars /\ screen.kind # "none" /\ ~web BY <1>6 DEF TapOpen, Retry
  <2>2. link \in Links BY <2>1 DEF Away, TypeOK
  <2>3. post' = post \/ \E th : Begin(t, th, link) BY <1>6 DEF TapOpen, Retry
  <2>4. QED BY <1>0, <2>1, <2>2, <2>3, BeginRequests
<1>7. ASSUME NEW t \in Threads, IdentityGate(t) \/ WebRetry(t)
      PROVE  UNCHANGED pvars /\ \A p \in Opens : SameRequest(p) \/ NewRequest(p)
  <2>1. UNCHANGED pvars /\ (post' = post \/ RunOpen(t)) BY <1>7 DEF IdentityGate, WebRetry
  <2>2. link # None
    <3>1. CASE WebRetry(t) BY <3>1 DEF WebRetry, WebKeeps
    <3>2. CASE IdentityGate(t) BY <3>2 DEF IdentityGate, Away, WebKeeps
    <3>3. QED BY <1>7, <3>1, <3>2
  <2>3. QED BY <1>0, <2>1, <2>2, RunOpenRequests
<1>8. ASSUME NEW t \in Threads, \/ Authenticate(t) \/ Prompted(t) \/ WantOpen(t)
                                \/ MetadataHead(t) \/ Metadata(t) \/ Probe(t) \/ Decrypt(t)
      PROVE  UNCHANGED pvars /\ post' = post
  BY <1>8 DEF Authenticate, Prompted, WantOpen, MetadataHead, Metadata, Probe, Decrypt
<1>9. ASSUME NEW o \in Opens, Settles(o)
      PROVE  UNCHANGED pvars /\ \A p \in Opens : SameRequest(p)
  <2>1. CASE Head(o) \/ Answered(o)
    BY <2>1 DEF Head, Answered, SameRequest, TypeOK, PostState
  <2>2. CASE Failed(o)
    <3> DEFINE failed == [post EXCEPT ![o].client = "failed"]
    <3>1. /\ failed \in [Opens -> PostState] /\ failed[o].client = "failed"
          /\ failed[o].server = post[o].server /\ failed[o].link = post[o].link
          /\ \A p \in Opens \ {o} : failed[p] = post[p]
      BY DEF TypeOK, PostState
    <3>2. post' \in {failed, Fated(failed, o, "lost")} /\ UNCHANGED pvars
      BY <2>2 DEF Failed, CouldNotTell, ToldGone
    <3> HIDE DEF failed
    <3>3. \A p \in Opens : /\ Fated(failed, o, "lost")[p].client = failed[p].client
                           /\ Fated(failed, o, "lost")[p].server = failed[p].server
                           /\ p # o => Fated(failed, o, "lost")[p] = failed[p]
      BY <3>1, FatedFacts
    <3>4. Fated(failed, o, "lost")[o].link = failed[o].link
      BY <3>1 DEF Fated, PostState
    <3>5. QED BY <3>1, <3>2, <3>3, <3>4 DEF SameRequest
  <2>3. QED BY <1>9, <2>1, <2>2 DEF Settles
<1>10. QED
  BY <1>0, <1>1, <1>2, <1>3, <1>4, <1>5, <1>6, <1>7, <1>8, <1>9 DEF App, Taps, Handlers

\* The server's part takes its link from the request it serves.
LEMMA ServerRequests ==
  ASSUME IInv, Paid, Server
  PROVE  [PromiseNext]_pvars /\ Paid'
<1> USE DEF IInv
<1>1. ASSUME NEW o \in Opens, Serve(o) PROVE PromiseNext /\ Paid'
  <2>1. post[o].link \in Links /\ Consume(post[o].link, o) /\ post[o].server = "sent"
    BY <1>1 DEF Serve, Paid
  <2>2. /\ post'[o].link = post[o].link /\ post'[o].server = "served"
        /\ \A p \in Opens \ {o} : post'[p] = post[p]
    BY <1>1 DEF Serve, TypeOK, PostState
  <2>3. /\ o \in used'[post[o].link]
        /\ \A l \in Links : used[l] \subseteq used'[l]
    BY <2>1 DEF Consume, TypeOK
  <2>4. PromiseNext BY <2>1 DEF PromiseNext
  <2>5. QED BY <2>1, <2>2, <2>3, <2>4 DEF Paid
<1>2. ASSUME NEW o \in Opens, Refuse(o) PROVE UNCHANGED pvars /\ Paid'
  <2>1. /\ post'[o].link = post[o].link /\ post'[o].server \in {"busy", "gone"}
        /\ post'[o].client = post[o].client /\ post[o].server = "sent"
        /\ \A p \in Opens \ {o} : post'[p] = post[p]
    BY <1>2 DEF Refuse, TypeOK, PostState
  <2>2. UNCHANGED pvars BY <1>2 DEF Refuse
  <2>3. QED BY <2>1, <2>2 DEF Paid, pvars
<1>3. CASE Revoked
  BY <1>3 DEF Revoked, Withdraw, PromiseNext, Paid, rvars
<1>4. QED BY <1>1, <1>2, <1>3 DEF Server

\* No client of a link ever holds more answers of it (fetch-and-open.ts) than its sender
\* allowed opens.
AnswersRationed ==
  \A l \in Links :
    Cardinality({o \in Opens : post[o].link = l /\ post[o].client = "answered"}) <= budget[l]

RationInv == IInv /\ Paid /\ Promised /\ budget \in [Links -> {1, 2}]

LEMMA InitRationInv == Init => RationInv
<1> SUFFICES ASSUME Init PROVE RationInv
  OBVIOUS
<1>1. Promised
  BY FS_EmptySet DEF Init, Promised, Rationed, Phases
<1>2. Paid BY DEF Init, Paid, NoPost
<1>3. QED BY <1>1, <1>2, InitIInv DEF Init, RationInv

LEMMA StepRationInv == RationInv /\ [Next]_vars => RationInv'
<1> SUFFICES ASSUME RationInv, [Next]_vars PROVE RationInv'
  OBVIOUS
<1> USE DEF RationInv
<1>1. IInv' BY NextIInv
<1>2. [PromiseNext]_pvars /\ Paid'
  <2>1. CASE Server BY <2>1, ServerRequests
  <2>2. CASE ~Server
    <3>1. UNCHANGED pvars /\ \A p \in Opens : SameRequest(p) \/ NewRequest(p)
      BY <2>2, ClientRequests DEF Next
    <3>2. QED BY <3>1 DEF Paid, SameRequest, NewRequest, pvars
  <2>3. QED BY <2>1, <2>2
<1>3. Promised' BY <1>2, PromiseStepRations
<1>4. budget' = budget
  <2>1. CASE Server
    BY <2>1 DEF Server, Serve, Refuse, Revoked, Consume, Withdraw, pvars
  <2>2. CASE ~Server
    BY <2>2, ClientRequests DEF Next, pvars
  <2>3. QED BY <2>1, <2>2
<1>5. QED BY <1>1, <1>2, <1>3, <1>4

LEMMA AnswersArePaid == RationInv => AnswersRationed
<1> SUFFICES ASSUME RationInv, NEW l \in Links
             PROVE  Cardinality({o \in Opens : post[o].link = l /\ post[o].client = "answered"})
                      <= budget[l]
  BY DEF AnswersRationed
<1> DEFINE held == {o \in Opens : post[o].link = l /\ post[o].client = "answered"}
<1>1. held \subseteq used[l] BY DEF RationInv, Paid
<1>2. IsFiniteSet(used[l]) /\ budget[l] \in {1, 2}
      /\ (used[l] = {} \/ Cardinality(used[l]) <= budget[l])
  BY DEF RationInv, Promised, Rationed
<1> HIDE DEF held
<1>3. IsFiniteSet(held) /\ Cardinality(held) <= Cardinality(used[l]) BY <1>1, <1>2, FS_Subset
<1>4. Cardinality(held) \in Nat /\ Cardinality(used[l]) \in Nat
  BY <1>2, <1>3, FS_CardinalityType
<1>5. Cardinality(held) <= budget[l]
  <2>1. CASE used[l] = {}
    <3>1. Cardinality(used[l]) = 0 BY <1>2, <2>1, FS_EmptySet
    <3>2. QED BY <1>2, <1>3, <1>4, <3>1
  <2>2. CASE used[l] # {} BY <1>2, <1>3, <1>4, <2>2
  <2>3. QED BY <2>1, <2>2
<1>6. QED BY <1>5 DEF held

\* A link's text reaches its recipient at most as often as its sender allowed, however
\* often the open is retried, resumed, timed out or repeated after a kill: each answer a
\* client holds was counted against that very link (messages-handler.ts:278).
THEOREM NoAnswerUnpaid == Spec => []AnswersRationed
<1>1. QED BY InitRationInv, StepRationInv, AnswersArePaid, PTL DEF Spec
=================================================================================
