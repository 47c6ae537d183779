-------------------------- MODULE SessionStoreProofs ---------------------------
(***************************************************************************)
(* Safety of SessionStore for any callers, hosts, tasks and users, and     *)
(* with every trouble there may be.                                        *)
(***************************************************************************)
EXTENDS SessionStore, TLAPS

(* While mutation_lock is free the hook has been called with the session's *)
(* user.  While set_session holds it the hook lacks the new user; while    *)
(* clear_session holds it the session is gone and, if there was one, the   *)
(* hook is still to be called.                                             *)
HookInv ==
    NoneDropped =>
        /\ mutation = Nobody => hookUser = session.user
        /\ \A p \in Procs :
              /\ pc[p] = "announcing" => session.user = hand[p].user
              /\ pc[p] = "emptying" =>
                    session = None /\ (hand[p] = None => hookUser = Nobody)

LeaderLabels ==
    {"requesting", "installing", "announcing", "recording", "clearing",
     "emptying", "posting", "taking", "dropped", "dropped late"}

(* Whoever's sender is in the slot is between its claim and its return.    *)
SlotInv == slot # Nobody => pc[slot] \in LeaderLabels

(* The counter has passed every watermark that was handed out, none was    *)
(* handed out for no session, and a session's is the last one.             *)
WatermarkInv ==
    /\ session.at < stamp
    /\ session # None => session.at >= 1
    /\ \A w \in Workers :
          /\ work[w].at < stamp
          /\ work[w] # None => work[w].at >= 1
    /\ OnlySignedOutCancels

IInv == TypeOK /\ HookInv /\ SlotInv /\ WatermarkInv

LEMMA InitEstablishes == ASSUME Init PROVE IInv
<1> USE SessionAssumption
<1>1. TypeOK
  BY DEF Init, TypeOK, Procs, Labels, SessionOf, None
<1>2. HookInv
  BY DEF Init, HookInv, None
<1>3. SlotInv
  BY DEF Init, SlotInv
<1>4. WatermarkInv
  BY DEF Init, WatermarkInv, OnlySignedOutCancels, IsSessionValid, None
<1>5. QED  BY <1>1, <1>2, <1>3, <1>4 DEF IInv

(* The step of a caller that leaves session, hook and lock alone and goes  *)
(* from one label outside the lock to another.                             *)
LEMMA QuietStep ==
    ASSUME IInv, NEW c \in Procs, NEW label \in Labels,
           Goto(c, label),
           label \notin {"announcing", "emptying"},
           pc[c] \notin {"announcing", "emptying", "dropped", "dropped late"},
           \A p \in Procs : p # c => hand'[p] = hand[p],
           hand' \in [Procs -> SessionOf],
           issued' \in Nat, cooling' \in BOOLEAN,
           slot' = slot \/ slot' = Nobody \/ (slot' = c /\ c \in Callers /\ label \in LeaderLabels),
           slot' = c => label \in LeaderLabels,
           UNCHANGED <<session, stamp, hookUser, mutation, expiring, work>>
    PROVE  IInv'
<1> USE SessionAssumption DEF IInv
<1>1. pc' = [pc EXCEPT ![c] = label] /\ pc \in [Procs -> Labels]
  BY DEF Goto, TypeOK
<1>2. TypeOK'
  <2>1. pc' \in [Procs -> Labels]
    BY <1>1
  <2>2. slot' \in Callers \cup {Nobody}
    BY DEF TypeOK
  <2>3. \A p \in Procs : pc'[p] \in {"announcing", "emptying"} <=> mutation' = p
    BY <1>1 DEF TypeOK
  <2>4. QED  BY <2>1, <2>2, <2>3 DEF TypeOK
<1>3. HookInv'
  <2> SUFFICES ASSUME NoneDropped' PROVE HookInv'
    BY DEF HookInv
  <2>1. NoneDropped
    BY <1>1 DEF NoneDropped, Procs
  <2>2. \A p \in Procs : pc'[p] \in {"announcing", "emptying"} =>
            pc'[p] = pc[p] /\ hand'[p] = hand[p]
    BY <1>1
  <2>3. QED  BY <2>1, <2>2 DEF HookInv
<1>4. SlotInv'
  BY <1>1 DEF SlotInv, TypeOK, Procs
<1>5. WatermarkInv'
  BY DEF WatermarkInv, OnlySignedOutCancels, IsSessionValid
<1>6. QED  BY <1>2, <1>3, <1>4, <1>5

LEMMA NoneTyped == None \in SessionOf /\ (\A x \in SessionOf : Payload(x) \in SessionOf)
BY SessionAssumption DEF None, SessionOf, Payload

(* Join, Enter, Receive, Check, Reread, Post, Refused and Record.          *)
LEMMA WaitingPreserves ==
    ASSUME IInv, NEW c \in Callers,
           Join(c) \/ Enter(c) \/ Receive(c) \/ Check(c) \/ Reread(c) \/ Post(c)
           \/ Refused(c) \/ Record(c)
    PROVE  IInv'
<1> USE SessionAssumption
<1>1. TypeOK /\ SlotInv /\ c \in Procs
  BY DEF IInv, Procs
<1>2. CASE Join(c)
  <2>1. Goto(c, "waiting") /\ "waiting" \in Labels
    BY <1>2 DEF Join, Labels
  <2>2. QED
    BY <1>1, <1>2, <2>1, QuietStep
    DEF Join, TypeOK, SlotInv, LeaderLabels, tokenVars
<1>3. CASE Enter(c)
  <2>1. Goto(c, "checking") /\ "checking" \in Labels
    BY <1>3 DEF Enter, Labels
  <2>2. QED
    BY <1>1, <1>3, <2>1, QuietStep
    DEF Enter, TypeOK, SlotInv, LeaderLabels, tokenVars
<1>4. CASE Receive(c)
  <2>1. Goto(c, "done") /\ "done" \in Labels
    BY <1>4 DEF Receive, Labels
  <2>2. QED
    BY <1>1, <1>4, <2>1, QuietStep
    DEF Receive, TypeOK, SlotInv, LeaderLabels, tokenVars
<1>5. CASE Check(c)
  <2>1. PICK label \in {"rereading", "done"} : Goto(c, label)
    BY <1>5 DEF Check
  <2>2. QED
    BY <1>1, <1>5, <2>1, QuietStep
    DEF Check, TypeOK, SlotInv, LeaderLabels, Labels, tokenVars
<1>6. CASE Reread(c)
  <2>1. PICK label \in {"claiming", "done"} : Goto(c, label)
    BY <1>6 DEF Reread
  <2>2. /\ hand' \in [Procs -> SessionOf]
        /\ \A p \in Procs : p # c => hand'[p] = hand[p]
    BY <1>1, <1>6, NoneTyped DEF Reread, TypeOK
  <2>3. QED
    BY <1>1, <1>6, <2>1, <2>2, QuietStep
    DEF Reread, TypeOK, SlotInv, LeaderLabels, Labels, tokenVars
<1>7. CASE Post(c)
  <2>1. Goto(c, "taking") /\ "taking" \in Labels
    BY <1>7 DEF Post, Labels
  <2>2. QED
    BY <1>1, <1>7, <2>1, QuietStep DEF Post, TypeOK, LeaderLabels, tokenVars
<1>8. CASE Refused(c)
  <2>1. Goto(c, "clearing") /\ "clearing" \in Labels
    BY <1>8 DEF Refused, Labels
  <2>2. QED
    BY <1>1, <1>8, <2>1, QuietStep DEF Refused, TypeOK, LeaderLabels, tokenVars
<1>9. CASE Record(c)
  <2>1. Goto(c, "posting") /\ "posting" \in Labels
    BY <1>9 DEF Record, Labels
  <2>2. QED
    BY <1>1, <1>9, <2>1, QuietStep DEF Record, TypeOK, LeaderLabels, tokenVars
<1>10. QED  BY <1>2, <1>3, <1>4, <1>5, <1>6, <1>7, <1>8, <1>9

(* Claim, Take, Rotated and Unanswered.                                    *)
LEMMA LeadingPreserves ==
    ASSUME IInv, NEW c \in Callers,
           Claim(c) \/ Take(c) \/ Rotated(c) \/ Unanswered(c)
    PROVE  IInv'
<1> USE SessionAssumption
<1>1. TypeOK /\ SlotInv /\ c \in Procs
  BY DEF IInv, Procs
<1>2. CASE Claim(c)
  <2>1. CASE slot = Nobody
    <3>1. Goto(c, "requesting") /\ slot' = c /\ UNCHANGED hand
      BY <1>2, <2>1 DEF Claim
    <3>2. QED
      BY <1>1, <1>2, <3>1, QuietStep
      DEF Claim, TypeOK, LeaderLabels, Labels, tokenVars
  <2>2. CASE slot # Nobody
    <3>1. Goto(c, "entering") /\ slot' = slot /\ hand' = [hand EXCEPT ![c] = None]
      BY <1>2, <2>2 DEF Claim, Leave
    <3>2. /\ hand' \in [Procs -> SessionOf]
          /\ \A p \in Procs : p # c => hand'[p] = hand[p]
      BY <1>1, <3>1, NoneTyped DEF TypeOK
    <3>3. slot # c
      BY <1>1, <1>2, <2>2 DEF Claim, SlotInv, LeaderLabels
    <3>4. QED
      BY <1>1, <1>2, <3>1, <3>2, <3>3, QuietStep
      DEF Claim, TypeOK, Labels, tokenVars
  <2>3. QED  BY <2>1, <2>2
<1>3. CASE Take(c)
  <2>1. Goto(c, "done") /\ slot' = Nobody /\ c # Nobody
    BY <1>3 DEF Take
  <2>2. QED
    BY <1>1, <1>3, <2>1, QuietStep DEF Take, TypeOK, Labels, tokenVars
<1>4. CASE Rotated(c)
  <2>1. Goto(c, "installing") /\ hand' = [hand EXCEPT ![c].token = issued + 1]
    BY <1>4 DEF Rotated
  <2>2. /\ hand' \in [Procs -> SessionOf]
        /\ \A p \in Procs : p # c => hand'[p] = hand[p]
    BY <1>1, <2>1 DEF TypeOK, SessionOf
  <2>3. issued' \in Nat
    BY <1>1, <1>4 DEF Rotated, TypeOK
  <2>4. QED
    BY <1>1, <1>4, <2>1, <2>2, <2>3, QuietStep
    DEF Rotated, TypeOK, LeaderLabels, Labels, tokenVars
<1>5. CASE Unanswered(c)
  <2>1. Goto(c, "posting") /\ hand' = [hand EXCEPT ![c] = None]
    BY <1>5 DEF Unanswered, Leave
  <2>2. /\ hand' \in [Procs -> SessionOf]
        /\ \A p \in Procs : p # c => hand'[p] = hand[p]
    BY <1>1, <2>1, NoneTyped DEF TypeOK
  <2>3. QED
    BY <1>1, <1>5, <2>1, <2>2, QuietStep
    DEF Unanswered, TypeOK, LeaderLabels, Labels, tokenVars
<1>6. QED  BY <1>2, <1>3, <1>4, <1>5

(* What the host brings.                                                   *)
LEMMA HostPreserves ==
    ASSUME IInv, NEW h \in Hosts, HostStarts(h)
    PROVE  IInv'
<1> USE SessionAssumption
<1>1. TypeOK /\ h \in Procs /\ slot # h
  BY DEF IInv, TypeOK, Procs
<1>2. ASSUME NEW u \in Users, BringNew(h, u) PROVE IInv'
  <2>1. /\ Goto(h, "installing")
        /\ hand' = [hand EXCEPT ![h] = [user |-> u, token |-> issued + 1, at |-> 0]]
    BY <1>2 DEF BringNew
  <2>2. /\ hand' \in [Procs -> SessionOf]
        /\ \A p \in Procs : p # h => hand'[p] = hand[p]
    BY <1>1, <2>1 DEF TypeOK, SessionOf
  <2>3. issued' \in Nat
    BY <1>1, <1>2 DEF BringNew, TypeOK
  <2>4. QED
    BY <1>1, <1>2, <2>1, <2>2, <2>3, QuietStep DEF BringNew, TypeOK, Labels, tokenVars
<1>3. CASE BringAgain(h)
  <2>1. Goto(h, "installing") /\ hand' = [hand EXCEPT ![h] = Payload(session)]
    BY <1>3 DEF BringAgain
  <2>2. /\ hand' \in [Procs -> SessionOf]
        /\ \A p \in Procs : p # h => hand'[p] = hand[p]
    BY <1>1, <2>1, NoneTyped DEF TypeOK
  <2>3. QED
    BY <1>1, <1>3, <2>1, <2>2, QuietStep DEF BringAgain, TypeOK, Labels, tokenVars
<1>4. CASE BeginSignOut(h)
  <2>1. Goto(h, "clearing")
    BY <1>4 DEF BeginSignOut
  <2>2. QED
    BY <1>1, <1>4, <2>1, QuietStep DEF BeginSignOut, TypeOK, Labels, tokenVars
<1>5. QED  BY <1>2, <1>3, <1>4 DEF HostStarts

(* A process takes or gives back the lock, or is dropped: the parts of the *)
(* types and of the slot that all these steps share.                       *)
LEMMA LockStep ==
    ASSUME IInv, NEW p \in Procs, NEW label \in Labels,
           Goto(p, label),
           hand' \in [Procs -> SessionOf],
           session' \in SessionOf, stamp' \in Nat,
           hookUser' \in Users \cup {Nobody}, cooling' \in BOOLEAN,
           mutation' \in {mutation, p, Nobody},
           mutation \in {p, Nobody} \/ mutation' = mutation,
           label \in {"announcing", "emptying"} <=> mutation' = p,
           slot' = slot \/ slot' = Nobody,
           p \in Callers => label \in LeaderLabels \/ slot' # p,
           UNCHANGED <<issued, expiring, work>>
    PROVE  TypeOK' /\ SlotInv'
<1> USE SessionAssumption
<1>1. TypeOK /\ SlotInv /\ pc' = [pc EXCEPT ![p] = label]
  BY DEF IInv, Goto
<1>2. \A q \in Procs : pc'[q] \in {"announcing", "emptying"} <=> mutation' = q
  BY <1>1 DEF TypeOK, Procs
<1>3. pc' \in [Procs -> Labels]
  BY <1>1 DEF TypeOK
<1>4. TypeOK'
  BY <1>1, <1>2, <1>3 DEF TypeOK
<1>5. SlotInv'
  BY <1>1 DEF SlotInv, TypeOK, Procs
<1>6. QED  BY <1>4, <1>5

(* set_session up to the change of the session.                            *)
LEMMA InstallPreserves ==
    ASSUME IInv, NEW p \in Procs, Install(p)
    PROVE  IInv'
<1> USE SessionAssumption
<1>1. TypeOK /\ HookInv /\ SlotInv /\ WatermarkInv
  BY DEF IInv
<1>2. /\ pc[p] = "installing" /\ mutation = Nobody
      /\ UNCHANGED <<hookUser, slot, cooling, issued, expiring, work>>
  BY DEF Install, tokenVars
<1>3. \/ UNCHANGED <<session, stamp>>
      \/ session' = [hand[p] EXCEPT !.at = stamp] /\ stamp' = stamp + 1
  BY DEF Install, NextStamp
<1>4. PICK label \in {"recording", "idle", "announcing"} :
        /\ Goto(p, label)
        /\ label = "recording" => p \in Callers
        /\ label = "idle" => p \in Hosts
        /\ label # "announcing" =>
              /\ mutation' = mutation
              /\ hand' = [hand EXCEPT ![p] = None]
              /\ session'.user = session.user
        /\ label = "announcing" =>
              /\ mutation' = p /\ hand' = hand
              /\ session' = [hand[p] EXCEPT !.at = stamp]
  <2>1. CASE Matches(p)
    BY <2>1 DEF Install, Leave, AfterInstall, Procs
  <2>2. CASE ~Matches(p) /\ SameUser(p)
    <3>1. session' = [hand[p] EXCEPT !.at = stamp]
      BY <2>2 DEF Install
    <3>2. session'.user = session.user
      BY <1>1, <2>2, <3>1 DEF SameUser, TypeOK, SessionOf
    <3>3. QED  BY <2>2, <3>2 DEF Install, Leave, AfterInstall, Procs
  <2>3. CASE ~Matches(p) /\ ~SameUser(p)
    BY <2>3 DEF Install
  <2>4. QED  BY <2>1, <2>2, <2>3
<1>5. hand' \in [Procs -> SessionOf]
  BY <1>1, <1>4, NoneTyped DEF TypeOK
<1>6. session' \in SessionOf /\ stamp' \in Nat
  BY <1>1, <1>3 DEF TypeOK, SessionOf
<1>7. TypeOK' /\ SlotInv'
  <2>1. label \in Labels /\ (label \in {"announcing", "emptying"} <=> mutation' = p)
    BY <1>2, <1>4 DEF Labels, Procs
  <2>2. p \in Callers => label \in LeaderLabels
    BY <1>4 DEF LeaderLabels
  <2>3. hookUser' \in Users \cup {Nobody} /\ cooling' \in BOOLEAN
    BY <1>1, <1>2 DEF TypeOK
  <2>4. mutation' \in {mutation, p, Nobody}
    BY <1>4
  <2>5. QED  BY <1>2, <1>4, <1>5, <1>6, <2>1, <2>2, <2>3, <2>4, LockStep
<1>8. HookInv'
  <2> SUFFICES ASSUME NoneDropped' PROVE HookInv'
    BY DEF HookInv
  <2>1. pc' = [pc EXCEPT ![p] = label] /\ pc \in [Procs -> Labels]
    BY <1>1, <1>4 DEF Goto, TypeOK
  <2>2. NoneDropped
    BY <1>2, <2>1 DEF NoneDropped, Procs
  <2>3. hookUser = session.user
    BY <1>1, <1>2, <2>2 DEF HookInv
  <2>4. \A q \in Procs : q # p => pc'[q] \notin {"announcing", "emptying"}
    BY <1>1, <1>2, <2>1 DEF TypeOK, Procs
  <2>5. CASE label = "announcing"
    <3>1. session'.user = hand[p].user
      BY <1>1, <1>4, <2>5 DEF TypeOK, SessionOf
    <3>2. mutation' # Nobody
      BY <1>4, <2>5 DEF Procs
    <3>3. QED  BY <1>4, <2>1, <2>4, <2>5, <3>1, <3>2 DEF HookInv
  <2>6. CASE label # "announcing"
    BY <1>2, <1>4, <2>1, <2>3, <2>4, <2>6 DEF HookInv
  <2>7. QED  BY <2>5, <2>6
<1>9. WatermarkInv'
  <2>1. CASE UNCHANGED <<session, stamp>>
    BY <1>1, <1>2, <2>1 DEF WatermarkInv, OnlySignedOutCancels, IsSessionValid
  <2>2. CASE session' = [hand[p] EXCEPT !.at = stamp] /\ stamp' = stamp + 1
    <3>1. session'.at = stamp /\ stamp \in Nat /\ stamp >= 1
      BY <1>1, <2>2 DEF TypeOK, SessionOf, WatermarkInv
    <3>2. \A w \in Workers : work'[w].at < stamp /\ work'[w].at \in Nat
      BY <1>1, <1>2 DEF WatermarkInv, TypeOK, SessionOf
    <3>3. QED
      BY <1>1, <1>2, <2>2, <3>1, <3>2 DEF WatermarkInv, OnlySignedOutCancels, IsSessionValid
  <2>3. QED  BY <1>3, <2>1, <2>2
<1>10. QED  BY <1>7, <1>8, <1>9 DEF IInv

(* The hook of set_session; the lock is released.                          *)
LEMMA AnnouncePreserves ==
    ASSUME IInv, NEW p \in Procs, Announce(p)
    PROVE  IInv'
<1> USE SessionAssumption
<1>1. TypeOK /\ HookInv /\ SlotInv /\ WatermarkInv
  BY DEF IInv
<1>2. /\ pc[p] = "announcing" /\ mutation = p /\ mutation' = Nobody
      /\ hookUser' = hand[p].user
      /\ hand' = [hand EXCEPT ![p] = None]
      /\ UNCHANGED <<session, stamp, slot, cooling, issued, expiring, work>>
  BY <1>1 DEF Announce, Leave, TypeOK, tokenVars
<1>3. PICK label \in {"recording", "idle"} :
        /\ Goto(p, label)
        /\ label = "recording" => p \in Callers
        /\ label = "idle" => p \in Hosts
  BY DEF Announce, Leave, AfterInstall, Procs
<1>4. hand' \in [Procs -> SessionOf] /\ hookUser' \in Users \cup {Nobody}
  BY <1>1, <1>2, NoneTyped DEF TypeOK, SessionOf
<1>5. TypeOK' /\ SlotInv'
  <2>1. label \in Labels /\ ~(label \in {"announcing", "emptying"}) /\ mutation' # p
    BY <1>2, <1>3 DEF Labels, Procs
  <2>2. p \in Callers => label \in LeaderLabels
    BY <1>3 DEF LeaderLabels
  <2>3. session' \in SessionOf /\ stamp' \in Nat /\ cooling' \in BOOLEAN
    BY <1>1, <1>2 DEF TypeOK
  <2>4. QED  BY <1>2, <1>3, <1>4, <2>1, <2>2, <2>3, LockStep
<1>6. HookInv'
  <2> SUFFICES ASSUME NoneDropped' PROVE HookInv'
    BY DEF HookInv
  <2>1. pc' = [pc EXCEPT ![p] = label] /\ pc \in [Procs -> Labels]
    BY <1>1, <1>3 DEF Goto, TypeOK
  <2>2. NoneDropped
    BY <1>2, <2>1 DEF NoneDropped, Procs
  <2>3. \A q \in Procs : pc'[q] \notin {"announcing", "emptying"}
    BY <1>1, <1>2, <1>3, <2>1 DEF TypeOK, Procs
  <2>4. QED  BY <1>1, <1>2, <2>2, <2>3 DEF HookInv
<1>7. WatermarkInv'
  BY <1>1, <1>2 DEF WatermarkInv, OnlySignedOutCancels, IsSessionValid
<1>8. QED  BY <1>5, <1>6, <1>7 DEF IInv

(* clear_session up to the wait for the slot.                              *)
LEMMA ClearPreserves ==
    ASSUME IInv, NEW p \in Procs, Clear(p)
    PROVE  IInv'
<1> USE SessionAssumption
<1>1. TypeOK /\ HookInv /\ SlotInv /\ WatermarkInv
  BY DEF IInv
<1>2. /\ pc[p] = "clearing" /\ mutation = Nobody /\ mutation' = p
      /\ Goto(p, "emptying")
      /\ session' = None /\ cooling' = FALSE
      /\ hand' = [hand EXCEPT ![p] = Payload(session)]
      /\ UNCHANGED <<stamp, hookUser, slot, issued, expiring, work>>
  BY DEF Clear, tokenVars
<1>3. hand' \in [Procs -> SessionOf] /\ session' \in SessionOf
  BY <1>1, <1>2, NoneTyped DEF TypeOK
<1>4. TypeOK' /\ SlotInv'
  <2>1. "emptying" \in Labels /\ "emptying" \in LeaderLabels
    BY DEF Labels, LeaderLabels
  <2>2. stamp' \in Nat /\ hookUser' \in Users \cup {Nobody}
    BY <1>1, <1>2 DEF TypeOK
  <2>3. QED  BY <1>2, <1>3, <2>1, <2>2, LockStep
<1>5. HookInv'
  <2> SUFFICES ASSUME NoneDropped' PROVE HookInv'
    BY DEF HookInv
  <2>1. pc' = [pc EXCEPT ![p] = "emptying"] /\ pc \in [Procs -> Labels]
    BY <1>1, <1>2 DEF Goto, TypeOK
  <2>2. NoneDropped
    BY <1>2, <2>1 DEF NoneDropped, Procs
  <2>3. hookUser = session.user
    BY <1>1, <1>2, <2>2 DEF HookInv
  <2>4. \A q \in Procs : q # p => pc'[q] \notin {"announcing", "emptying"}
    BY <1>1, <1>2, <2>1 DEF TypeOK, Procs
  <2>5. hand'[p] = None => hookUser' = Nobody
    <3>1. hand'[p] = [session EXCEPT !.at = 0] /\ session \in SessionOf
      BY <1>1, <1>2 DEF TypeOK, Payload
    <3>2. hand'[p].user = session.user
      BY <3>1 DEF SessionOf
    <3>3. QED  BY <1>2, <2>3, <3>2 DEF None
  <2>6. mutation' # Nobody
    BY <1>2 DEF Procs
  <2>7. QED  BY <1>2, <2>1, <2>4, <2>5, <2>6 DEF HookInv
<1>6. WatermarkInv'
  <2>1. session' = None /\ session'.at = 0
    BY <1>2 DEF None
  <2>2. \A w \in Workers : work'[w] # None => work'[w].at # 0
    BY <1>1, <1>2 DEF WatermarkInv, TypeOK, SessionOf
  <2>3. stamp' = stamp /\ 0 < stamp
    BY <1>1, <1>2 DEF WatermarkInv, TypeOK, SessionOf
  <2>4. QED
    BY <1>1, <1>2, <2>1, <2>2, <2>3 DEF WatermarkInv, OnlySignedOutCancels, IsSessionValid
<1>7. QED  BY <1>4, <1>5, <1>6 DEF IInv

(* The rest of clear_session; the lock is released.                        *)
LEMMA EmptySlotPreserves ==
    ASSUME IInv, NEW p \in Procs, EmptySlot(p)
    PROVE  IInv'
<1> USE SessionAssumption
<1>1. TypeOK /\ HookInv /\ SlotInv /\ WatermarkInv
  BY DEF IInv
<1>2. /\ pc[p] = "emptying" /\ mutation = p /\ mutation' = Nobody
      /\ slot' = Nobody
      /\ hookUser' = IF hand[p] # None THEN Nobody ELSE hookUser
      /\ hand' = [hand EXCEPT ![p] = None]
      /\ UNCHANGED <<session, stamp, cooling, issued, expiring, work>>
  BY <1>1 DEF EmptySlot, Leave, TypeOK, tokenVars
<1>3. PICK label \in {"posting", "idle"} : Goto(p, label)
  BY DEF EmptySlot, Leave, AfterClear
<1>4. hand' \in [Procs -> SessionOf] /\ hookUser' \in Users \cup {Nobody}
  BY <1>1, <1>2, NoneTyped DEF TypeOK
<1>5. TypeOK' /\ SlotInv'
  <2>1. label \in Labels /\ ~(label \in {"announcing", "emptying"})
    BY <1>3 DEF Labels
  <2>2. mutation' # p /\ slot' # p
    BY <1>2 DEF Procs
  <2>3. session' \in SessionOf /\ stamp' \in Nat /\ cooling' \in BOOLEAN
    BY <1>1, <1>2 DEF TypeOK
  <2>4. QED  BY <1>2, <1>3, <1>4, <2>1, <2>2, <2>3, LockStep
<1>6. HookInv'
  <2> SUFFICES ASSUME NoneDropped' PROVE HookInv'
    BY DEF HookInv
  <2>1. pc' = [pc EXCEPT ![p] = label] /\ pc \in [Procs -> Labels]
    BY <1>1, <1>3 DEF Goto, TypeOK
  <2>2. NoneDropped
    BY <1>2, <2>1 DEF NoneDropped, Procs
  <2>3. \A q \in Procs : pc'[q] \notin {"announcing", "emptying"}
    BY <1>1, <1>2, <1>3, <2>1 DEF TypeOK, Procs
  <2>4. hookUser' = Nobody /\ session'.user = Nobody
    BY <1>1, <1>2, <2>2 DEF HookInv, None
  <2>5. QED  BY <2>3, <2>4 DEF HookInv
<1>7. WatermarkInv'
  BY <1>1, <1>2 DEF WatermarkInv, OnlySignedOutCancels, IsSessionValid
<1>8. QED  BY <1>5, <1>6, <1>7 DEF IInv

(* A caller's future is dropped.                                           *)
LEMMA CancelPreserves ==
    ASSUME IInv, NEW c \in Callers, Cancel(c)
    PROVE  IInv'
<1> USE SessionAssumption
<1>1. TypeOK /\ SlotInv /\ WatermarkInv /\ c \in Procs
  BY DEF IInv, Procs
<1>2. /\ mutation' = IF mutation = c THEN Nobody ELSE mutation
      /\ hand' = [hand EXCEPT ![c] = None]
      /\ UNCHANGED <<session, stamp, hookUser, slot, cooling, issued, expiring, work>>
  BY DEF Cancel, Leave, tokenVars
<1>3. PICK label \in {"dropped", "dropped late"} : Goto(c, label)
  BY DEF Cancel, Leave
<1>4. hand' \in [Procs -> SessionOf]
  BY <1>1, <1>2, NoneTyped DEF TypeOK
<1>5. TypeOK' /\ SlotInv'
  <2>1. /\ label \in Labels /\ label \in LeaderLabels
        /\ ~(label \in {"announcing", "emptying"})
    BY <1>3 DEF Labels, LeaderLabels
  <2>2. mutation' # c /\ mutation' \in {mutation, c, Nobody}
    BY <1>2
  <2>3. mutation \in {c, Nobody} \/ mutation' = mutation
    BY <1>2
  <2>4. /\ session' \in SessionOf /\ stamp' \in Nat /\ cooling' \in BOOLEAN
        /\ hookUser' \in Users \cup {Nobody}
    BY <1>1, <1>2 DEF TypeOK
  <2>5. QED  BY <1>1, <1>2, <1>3, <1>4, <2>1, <2>2, <2>3, <2>4, LockStep
<1>6. HookInv'
  <2>1. ~NoneDropped'
    BY <1>1, <1>3 DEF NoneDropped, Goto, TypeOK
  <2>2. QED  BY <2>1 DEF HookInv
<1>7. WatermarkInv'
  BY <1>1, <1>2 DEF WatermarkInv, OnlySignedOutCancels, IsSessionValid
<1>8. QED  BY <1>5, <1>6, <1>7 DEF IInv

(* Time passes, or a task starts.                                          *)
LEMMA OutsidePreserves ==
    ASSUME IInv, ExpireSoon \/ CoolDown \/ (\E w \in Workers : StartWork(w))
    PROVE  IInv'
<1>1. TypeOK /\ HookInv /\ SlotInv /\ WatermarkInv
  BY DEF IInv
<1>2. UNCHANGED <<session, stamp, hookUser, mutation, slot, pc, hand>>
  BY DEF ExpireSoon, CoolDown, StartWork
<1>3. TypeOK'
  <2>1. session \in SessionOf /\ session.token \in Nat
    BY <1>1 DEF TypeOK, SessionOf
  <2>2. issued' \in Nat /\ expiring' \subseteq Nat /\ cooling' \in BOOLEAN
    BY <1>1, <2>1 DEF ExpireSoon, CoolDown, StartWork, TypeOK, tokenVars
  <2>3. work' \in [Workers -> SessionOf]
    BY <1>1, <2>1 DEF ExpireSoon, CoolDown, StartWork, TypeOK
  <2>4. QED  BY <1>1, <1>2, <2>2, <2>3 DEF TypeOK
<1>4. HookInv' /\ SlotInv'
  BY <1>1, <1>2 DEF HookInv, NoneDropped, SlotInv
<1>5. WatermarkInv'
  <2>1. CASE UNCHANGED work
    BY <1>1, <1>2, <2>1 DEF WatermarkInv, OnlySignedOutCancels, IsSessionValid
  <2>2. ASSUME NEW w \in Workers, StartWork(w) PROVE WatermarkInv'
    <3>1. session # None /\ work' = [work EXCEPT ![w] = session]
      BY <2>2 DEF StartWork
    <3>2. \A v \in Workers : work'[v] = IF v = w THEN session ELSE work[v]
      BY <1>1, <3>1 DEF TypeOK
    <3>3. session.at \in Nat
      BY <1>1 DEF TypeOK, SessionOf
    <3>4. QED
      BY <1>1, <1>2, <3>1, <3>2, <3>3
      DEF WatermarkInv, OnlySignedOutCancels, IsSessionValid
  <2>3. QED  BY <2>1, <2>2 DEF ExpireSoon, CoolDown
<1>6. QED  BY <1>3, <1>4, <1>5 DEF IInv

LEMMA StepPreserves ==
    ASSUME IInv, [Next]_vars
    PROVE  IInv'
<1>1. ASSUME NEW c \in Callers, Refreshing(c) PROVE IInv'
  BY <1>1, WaitingPreserves, LeadingPreserves DEF Refreshing
<1>2. ASSUME NEW c \in Callers, Cancel(c) PROVE IInv'
  BY <1>2, CancelPreserves
<1>3. ASSUME NEW p \in Procs, Mutating(p) PROVE IInv'
  BY <1>3, InstallPreserves, AnnouncePreserves, ClearPreserves, EmptySlotPreserves
  DEF Mutating
<1>4. ASSUME NEW h \in Hosts, HostStarts(h) PROVE IInv'
  BY <1>4, HostPreserves
<1>5. CASE UNCHANGED vars
  BY <1>5 DEF vars, tokenVars, IInv, TypeOK, HookInv, NoneDropped, SlotInv,
              WatermarkInv, OnlySignedOutCancels, IsSessionValid
<1>6. QED  BY <1>1, <1>2, <1>3, <1>4, <1>5, OutsidePreserves DEF Next

(* The strengthening holds in every reachable state, whatever callers and  *)
(* hosts do and whichever futures are dropped.                             *)
THEOREM Invariance == Spec => []IInv
<1>1. Init => IInv
  BY InitEstablishes
<1>2. IInv /\ [Next]_vars => IInv'
  BY StepPreserves
<1>3. QED  BY <1>1, <1>2, PTL DEF Spec

(* Types, and mutation_lock's holder is between its change of the session  *)
(* and the hook.                                                           *)
THEOREM TypeCorrect == Spec => []TypeOK
<1>1. IInv => TypeOK
  BY DEF IInv
<1>2. QED  BY <1>1, Invariance, PTL

(* Whenever mutation_lock is free, fire_user_change_hook was last called   *)
(* with the user of the session.                                           *)
THEOREM HookCorrect == Spec => []HookFollowsSession
<1>1. IInv => HookFollowsSession
  BY DEF IInv, HookInv, HookFollowsSession
<1>2. QED  BY <1>1, Invariance, PTL

(* The sender in refresh_in_flight belongs to a call that has not returned.*)
THEOREM SlotCorrect == Spec => []SlotIsLive
<1>1. IInv => SlotIsLive
  BY DEF IInv, SlotInv, SlotIsLive, LeaderLabels
<1>2. QED  BY <1>1, Invariance, PTL

(* is_session_valid cancels work as long as nobody is signed in, and only  *)
(* then.                                                                   *)
THEOREM CheckTellsPresence == Spec => []OnlySignedOutCancels
<1>1. IInv => OnlySignedOutCancels
  BY DEF IInv, WatermarkInv
<1>2. QED  BY <1>1, Invariance, PTL

-----------------------------------------------------------------------------
(* One leader at a time, where nobody clears the session.                  *)

Leading ==
    {"requesting", "installing", "announcing", "recording", "posting", "taking"}

(* A leader's sender is in the slot, and stays there.                      *)
LeadersInSlot ==
    /\ \A c \in Callers : pc[c] \in Leading => slot = c
    /\ \A p \in Procs : pc[p] \notin {"clearing", "emptying"}

LEMMA LeadersKept ==
    ASSUME TypeOK, LeadersInSlot, NEW p \in Procs, NEW label,
           Goto(p, label), slot' = slot,
           label \notin {"clearing", "emptying"},
           p \in Callers /\ label \in Leading => pc[p] \in Leading
    PROVE  LeadersInSlot'
<1>1. pc' = [pc EXCEPT ![p] = label] /\ pc \in [Procs -> Labels]
  BY DEF Goto, TypeOK
<1>2. QED  BY <1>1 DEF LeadersInSlot, Procs

LEMMA LeadersStep ==
    ASSUME Troubles \cap {"sign-out", "refusal"} = {},
           TypeOK, LeadersInSlot, [Next]_vars
    PROVE  LeadersInSlot'
<1> USE SessionAssumption
<1>1. ASSUME NEW c \in Callers, Claim(c) PROVE LeadersInSlot'
  <2>1. CASE slot = Nobody
    <3>1. \A e \in Callers : pc[e] \notin Leading
      BY <2>1 DEF LeadersInSlot
    <3>2. slot' = c /\ pc' = [pc EXCEPT ![c] = "requesting"]
      BY <1>1, <2>1 DEF Claim, Goto
    <3>3. QED  BY <3>1, <3>2 DEF LeadersInSlot, TypeOK, Procs
  <2>2. CASE slot # Nobody
    <3>1. Goto(c, "entering") /\ slot' = slot /\ "entering" \notin Leading
      BY <1>1, <2>2 DEF Claim, Leave, Leading
    <3>2. QED  BY <3>1, LeadersKept DEF Procs
  <2>3. QED  BY <2>1, <2>2
<1>2. ASSUME NEW c \in Callers, Take(c) PROVE LeadersInSlot'
  <2>1. pc[c] \in Leading /\ pc' = [pc EXCEPT ![c] = "done"]
    BY <1>2 DEF Take, Goto, Leading
  <2>2. \A e \in Callers : e # c => pc[e] \notin Leading
    BY <2>1 DEF LeadersInSlot
  <2>3. QED  BY <2>1, <2>2 DEF LeadersInSlot, TypeOK, Procs, Leading
<1>3. ASSUME NEW c \in Callers,
             Join(c) \/ Enter(c) \/ Receive(c) \/ Check(c) \/ Reread(c) \/ Cancel(c)
      PROVE  LeadersInSlot'
  <2>1. PICK label \in {"waiting", "checking", "done", "rereading", "claiming",
                        "dropped", "dropped late"} : Goto(c, label)
    BY <1>3 DEF Join, Enter, Receive, Check, Reread, Cancel, Leave
  <2>2. slot' = slot
    BY <1>3 DEF Join, Enter, Receive, Check, Reread, Cancel
  <2>3. QED  BY <2>1, <2>2, LeadersKept DEF Procs, Leading
<1>4. ASSUME NEW c \in Callers,
             Post(c) \/ Rotated(c) \/ Unanswered(c) \/ Record(c)
      PROVE  LeadersInSlot'
  <2>1. PICK label \in {"taking", "installing", "posting"} : Goto(c, label)
    BY <1>4 DEF Post, Rotated, Unanswered, Record, Leave
  <2>2. slot' = slot /\ pc[c] \in Leading
    BY <1>4 DEF Post, Rotated, Unanswered, Record, Leading
  <2>3. QED  BY <2>1, <2>2, LeadersKept DEF Procs
<1>5. ASSUME NEW p \in Procs, Mutating(p) PROVE LeadersInSlot'
  <2>1. Install(p) \/ Announce(p)
    BY <1>5 DEF Mutating, Clear, EmptySlot, LeadersInSlot
  <2>2. PICK label \in {"recording", "idle", "announcing"} : Goto(p, label)
    BY <2>1 DEF Install, Announce, Leave, AfterInstall
  <2>3. slot' = slot /\ pc[p] \in Leading
    BY <2>1 DEF Install, Announce, Leading
  <2>4. QED  BY <2>2, <2>3, LeadersKept
<1>6. ASSUME NEW h \in Hosts, HostStarts(h) PROVE LeadersInSlot'
  <2>1. Goto(h, "installing") /\ slot' = slot /\ h \notin Callers
    BY <1>6 DEF HostStarts, BringNew, BringAgain, BeginSignOut
  <2>2. QED  BY <2>1, LeadersKept DEF Procs
<1>7. ASSUME UNCHANGED <<pc, slot>> PROVE LeadersInSlot'
  BY <1>7 DEF LeadersInSlot
<1>8. \A c \in Callers : ~Refused(c)
  BY DEF Refused
<1>9. ExpireSoon \/ CoolDown \/ (\E w \in Workers : StartWork(w)) \/ UNCHANGED vars
        => UNCHANGED <<pc, slot>>
  BY DEF ExpireSoon, CoolDown, StartWork, vars
<1>10. QED
  BY <1>1, <1>2, <1>3, <1>4, <1>5, <1>6, <1>7, <1>8, <1>9 DEF Next, Refreshing

(* Concurrent ensure_fresh calls never ask for two refreshes at once, as   *)
(* long as neither the host nor a refused refresh clears the session.      *)
THEOREM LeaderAlone ==
    ASSUME Troubles \cap {"sign-out", "refusal"} = {}
    PROVE  Spec => []OneLeader
<1>1. Init => LeadersInSlot
  BY DEF Init, LeadersInSlot, Leading, Procs
<1>2. TypeOK /\ LeadersInSlot /\ [Next]_vars => LeadersInSlot'
  BY LeadersStep
<1>3. LeadersInSlot => OneLeader
  BY DEF LeadersInSlot, OneLeader, Leading
<1>4. QED  BY <1>1, <1>2, <1>3, TypeCorrect, PTL DEF Spec
=============================================================================
