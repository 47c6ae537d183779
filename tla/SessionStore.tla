---------------------------- MODULE SessionStore ----------------------------
(***************************************************************************)
(* SessionStore of crates/polybase/src/auth.rs: the session, its mutation  *)
(* lock, and the coordination of callers that find it about to expire.     *)
(* The host sets and clears the session at any moment (commands.rs).       *)
(*                                                                         *)
(* A step ends where the code awaits.  Of the locks, mutation_lock and     *)
(* refresh_in_flight are held across an await; a caller that waits for     *)
(* another's refresh holds refresh_in_flight all that time, because the    *)
(* guard in the head of the if-let lives as long as its body.              *)
(*                                                                         *)
(* A token stands for the access and refresh tokens the auth server issues *)
(* together.  What makes the server refuse one is left open: revoked, or   *)
(* already used outside the interval in which it tolerates a reuse.        *)
(***************************************************************************)
EXTENDS Integers

CONSTANTS
    Callers,      \* calls of ensure_fresh or force_refresh, one each
    Forced,       \* those that are force_refresh
    Hosts,        \* commands of the host: set_session and clear_session
    Workers,      \* long tasks gated on the session's watermark
    Users,
    Nobody,
    MaxTokens,    \* no sign-in once so many tokens have been issued
    Troubles      \* what may happen besides sign-ins and refreshes

(* The host calls clear_session; the auth server refuses a token; it does  *)
(* not answer; a caller's future is dropped at an await.                   *)
AllTroubles == {"sign-out", "refusal", "silence", "cancel"}

ASSUME SessionAssumption ==
    /\ Forced \subseteq Callers
    /\ Callers \cap Hosts = {}
    /\ Nobody \notin Callers \cup Hosts \cup Users
    /\ MaxTokens \in Nat
    /\ Troubles \subseteq AllTroubles

VARIABLES
    session,    \* the session, or None
    stamp,      \* update_counter
    hookUser,   \* what the user-changed hook was last called with
    mutation,   \* who holds mutation_lock
    slot,       \* the leader whose sender is in refresh_in_flight
    cooling,    \* the last refresh failed less than REFRESH_COOLDOWN ago
    pc,         \* where each process is
    hand,       \* the session a process has read, or the payload it brings
    issued,     \* number of tokens the auth server has issued
    expiring,   \* tokens that expire within min_valid_for
    work        \* what a long task captured of the session when it started

tokenVars == <<issued, expiring>>

vars == <<session, stamp, hookUser, mutation, slot, cooling, pc, hand, tokenVars,
          work>>

Procs == Callers \cup Hosts

None == [user |-> Nobody, token |-> 0, at |-> 0]

Payload(s) == [s EXCEPT !.at = 0]

Init ==
    /\ session = None
    /\ stamp = 1
    /\ hookUser = Nobody
    /\ mutation = Nobody
    /\ slot = Nobody
    /\ cooling = FALSE
    /\ pc = [p \in Procs |-> "idle"]
    /\ hand = [p \in Procs |-> None]
    /\ issued = 0
    /\ expiring = {}
    /\ work = [w \in Workers |-> None]

Goto(p, label) == pc' = [pc EXCEPT ![p] = label]

(* Its locals go out of scope.                                             *)
Leave(p, label) ==
    /\ Goto(p, label)
    /\ hand' = [hand EXCEPT ![p] = None]

(* refresh_in_flight: the only holder across an await is a waiting caller. *)
SlotFree == \A c \in Callers : pc[c] # "waiting"

NeedsRefresh(c) == c \in Forced \/ session.token \in expiring

-----------------------------------------------------------------------------
(* refresh_if_needed                                                       *)

(* A refresh is in flight: subscribe, keeping the lock.                    *)
Join(c) ==
    /\ pc[c] \in {"idle", "entering"}
    /\ SlotFree
    /\ slot # Nobody
    /\ Goto(c, "waiting")
    /\ UNCHANGED <<session, stamp, hookUser, mutation, slot, cooling, hand,
                   tokenVars, work>>

Enter(c) ==
    /\ pc[c] \in {"idle", "entering"}
    /\ SlotFree
    /\ slot = Nobody
    /\ Goto(c, "checking")
    /\ UNCHANGED <<session, stamp, hookUser, mutation, slot, cooling, hand,
                   tokenVars, work>>

(* Mutant: the slot is emptied before the outcome is sent.                 *)
PostedLate(c) == pc[c] \in {"done", "dropped late"}

(* The leader has sent its outcome.                                        *)
Posted(c) == pc[c] \in {"taking", "done", "dropped late"}

(* await_refresh_watch.  Nobody replaces the sender meanwhile: that would  *)
(* take the lock.                                                          *)
Receive(c) ==
    /\ pc[c] = "waiting"
    /\ Posted(slot)
    /\ Goto(c, "done")
    /\ UNCHANGED <<session, stamp, hookUser, mutation, slot, cooling, hand,
                   tokenVars, work>>

(* No session or a fresh one: return.  A recent failure: return as well.   *)
(* The lock of refresh_state is never held across an await.                *)
Check(c) ==
    /\ pc[c] = "checking"
    /\ Goto(c, IF session # None /\ NeedsRefresh(c) /\ ~cooling
               THEN "rereading" ELSE "done")
    /\ UNCHANGED <<session, stamp, hookUser, mutation, slot, cooling, hand,
                   tokenVars, work>>

Reread(c) ==
    /\ pc[c] = "rereading"
    /\ IF session # None /\ NeedsRefresh(c)
       THEN Goto(c, "claiming") /\ hand' = [hand EXCEPT ![c] = Payload(session)]
       ELSE Goto(c, "done") /\ UNCHANGED hand
    /\ UNCHANGED <<session, stamp, hookUser, mutation, slot, cooling,
                   tokenVars, work>>

(* Mutant: the slot is taken whoever is in it.                             *)
ClaimAnyway(c) ==
    /\ pc[c] = "claiming"
    /\ SlotFree
    /\ slot' = c
    /\ Goto(c, "requesting")
    /\ UNCHANGED <<session, stamp, hookUser, mutation, cooling, hand,
                   tokenVars, work>>

(* Become the leader, or start over when another caller was faster.        *)
Claim(c) ==
    /\ pc[c] = "claiming"
    /\ SlotFree
    /\ IF slot = Nobody
       THEN slot' = c /\ Goto(c, "requesting") /\ UNCHANGED hand
       ELSE Leave(c, "entering") /\ UNCHANGED slot
    /\ UNCHANGED <<session, stamp, hookUser, mutation, cooling, tokenVars, work>>

(* The leader's outcome reaches the subscribers, then its slot is emptied. *)
Post(c) ==
    /\ pc[c] = "posting"
    /\ Goto(c, "taking")
    /\ UNCHANGED <<session, stamp, hookUser, mutation, slot, cooling, hand,
                   tokenVars, work>>

(* Mutant: the sender stays in the slot.                                   *)
LeaveInSlot(c) ==
    /\ pc[c] = "taking"
    /\ SlotFree
    /\ Goto(c, "done")
    /\ UNCHANGED <<session, stamp, hookUser, mutation, slot, cooling, hand,
                   tokenVars, work>>

Take(c) ==
    /\ pc[c] = "taking"
    /\ SlotFree
    /\ slot' = Nobody
    /\ Goto(c, "done")
    /\ UNCHANGED <<session, stamp, hookUser, mutation, cooling, hand,
                   tokenVars, work>>

(* The runtime drops the future of a caller that is at an await: its locks *)
(* are released, but a clone of its sender stays in the slot.              *)
Cancel(c) ==
    /\ "cancel" \in Troubles
    /\ pc[c] \in {"entering", "waiting", "checking", "rereading", "claiming",
                  "requesting", "installing", "recording", "clearing",
                  "emptying", "taking"}
    /\ Leave(c, IF pc[c] = "taking" THEN "dropped late" ELSE "dropped")
    /\ mutation' = IF mutation = c THEN Nobody ELSE mutation
    /\ UNCHANGED <<session, stamp, hookUser, slot, cooling, tokenVars, work>>

-----------------------------------------------------------------------------
(* perform_refresh and refresh_payload: one exchange with the auth server. *)

Rotated(c) ==
    /\ pc[c] = "requesting"
    /\ issued' = issued + 1
    /\ hand' = [hand EXCEPT ![c].token = issued + 1]
    /\ Goto(c, "installing")
    /\ UNCHANGED <<session, stamp, hookUser, mutation, slot, cooling, expiring,
                   work>>

(* No answer arrives, or one that may be retried: cool down.               *)
Unanswered(c) ==
    /\ "silence" \in Troubles
    /\ pc[c] = "requesting"
    /\ cooling' = TRUE
    /\ Leave(c, "posting")
    /\ UNCHANGED <<session, stamp, hookUser, mutation, slot, tokenVars, work>>

(* refresh_token_already_used, invalid_grant: sign the user out.           *)
Refused(c) ==
    /\ pc[c] = "requesting"
    /\ "refusal" \in Troubles
    /\ Goto(c, "clearing")
    /\ UNCHANGED <<session, stamp, hookUser, mutation, slot, cooling, hand,
                   tokenVars, work>>

(* After set_session has returned.                                         *)
Record(c) ==
    /\ pc[c] = "recording"
    /\ cooling' = FALSE
    /\ Goto(c, "posting")
    /\ UNCHANGED <<session, stamp, hookUser, mutation, slot, hand, tokenVars,
                   work>>

-----------------------------------------------------------------------------
(* set_session and clear_session, by the host or by a leader.              *)

AfterInstall(p) == IF p \in Callers THEN "recording" ELSE "idle"

AfterClear(p) == IF p \in Callers THEN "posting" ELSE "idle"

(* The host brings the session of a sign-in, of a refresh that supabase-js *)
(* did itself, or again the one it believes current.                       *)
BringNew(h, u) ==
    /\ pc[h] = "idle"
    /\ issued < MaxTokens
    /\ issued' = issued + 1
    /\ hand' = [hand EXCEPT ![h] = [user |-> u, token |-> issued + 1, at |-> 0]]
    /\ Goto(h, "installing")
    /\ UNCHANGED <<session, stamp, hookUser, mutation, slot, cooling,
                   expiring, work>>

BringAgain(h) ==
    /\ pc[h] = "idle"
    /\ session # None
    /\ hand' = [hand EXCEPT ![h] = Payload(session)]
    /\ Goto(h, "installing")
    /\ UNCHANGED <<session, stamp, hookUser, mutation, slot, cooling,
                   tokenVars, work>>

BeginSignOut(h) ==
    /\ "sign-out" \in Troubles
    /\ pc[h] = "idle"
    /\ Goto(h, "clearing")
    /\ UNCHANGED <<session, stamp, hookUser, mutation, slot, cooling, hand,
                   tokenVars, work>>

(* session_matches                                                         *)
Matches(p) == session.user = hand[p].user /\ session.token = hand[p].token

(* Mutant: any session before this one counts as the same user's.          *)
SomeSession(p) == session # None

SameUser(p) == session.user = hand[p].user

NextStamp == stamp + 1

(* Mutant: a refresh keeps the watermark of the payload it brings.         *)
InstallUnstamped(p) ==
    /\ pc[p] = "installing"
    /\ mutation = Nobody
    /\ IF Matches(p) THEN UNCHANGED <<session, stamp>>
       ELSE IF SameUser(p) THEN session' = hand[p] /\ UNCHANGED stamp
       ELSE session' = [hand[p] EXCEPT !.at = stamp] /\ stamp' = NextStamp
    /\ IF Matches(p) \/ SameUser(p)
       THEN Leave(p, AfterInstall(p)) /\ UNCHANGED mutation
       ELSE Goto(p, "announcing") /\ mutation' = p /\ UNCHANGED hand
    /\ UNCHANGED <<hookUser, slot, cooling, tokenVars, work>>

(* Noop, CredentialsRefreshed and UserChanged.  Only the last one has      *)
(* something left to do under the lock: the hook.                          *)
Install(p) ==
    /\ pc[p] = "installing"
    /\ mutation = Nobody
    /\ IF Matches(p)
       THEN UNCHANGED <<session, stamp>>
       ELSE session' = [hand[p] EXCEPT !.at = stamp] /\ stamp' = NextStamp
    /\ IF Matches(p) \/ SameUser(p)
       THEN Leave(p, AfterInstall(p)) /\ UNCHANGED mutation
       ELSE Goto(p, "announcing") /\ mutation' = p /\ UNCHANGED hand
    /\ UNCHANGED <<hookUser, slot, cooling, tokenVars, work>>

Announce(p) ==
    /\ pc[p] = "announcing"
    /\ hookUser' = hand[p].user
    /\ mutation' = Nobody
    /\ Leave(p, AfterInstall(p))
    /\ UNCHANGED <<session, stamp, slot, cooling, tokenVars, work>>

(* Remove the session and the cooldown; hand keeps had_session.            *)
Clear(p) ==
    /\ pc[p] = "clearing"
    /\ mutation = Nobody
    /\ mutation' = p
    /\ hand' = [hand EXCEPT ![p] = Payload(session)]
    /\ session' = None
    /\ cooling' = FALSE
    /\ Goto(p, "emptying")
    /\ UNCHANGED <<stamp, hookUser, slot, tokenVars, work>>

(* Still under mutation_lock: refresh_in_flight.lock().await.take().       *)
EmptySlot(p) ==
    /\ pc[p] = "emptying"
    /\ SlotFree
    /\ slot' = Nobody
    /\ hookUser' = IF hand[p] # None THEN Nobody ELSE hookUser
    /\ mutation' = Nobody
    /\ Leave(p, AfterClear(p))
    /\ UNCHANGED <<session, stamp, cooling, tokenVars, work>>

-----------------------------------------------------------------------------
(* Time, and the tasks gated on the session.                               *)

ExpireSoon ==
    /\ session # None
    /\ session.token \notin expiring
    /\ expiring' = expiring \cup {session.token}
    /\ UNCHANGED <<session, stamp, hookUser, mutation, slot, cooling, pc, hand,
                   issued, work>>

CoolDown ==
    /\ cooling
    /\ cooling' = FALSE
    /\ UNCHANGED <<session, stamp, hookUser, mutation, slot, pc, hand,
                   tokenVars, work>>

(* is_session_valid, asked with the watermark that a task captured.        *)
IsSessionValid(at) == session # None /\ session.at >= at

(* current_updated_at, for a task on behalf of the active user.            *)
StartWork(w) ==
    /\ session # None
    /\ work' = [work EXCEPT ![w] = session]
    /\ UNCHANGED <<session, stamp, hookUser, mutation, slot, cooling, pc,
                   hand, tokenVars>>

-----------------------------------------------------------------------------

Refreshing(c) ==
    \/ Join(c) \/ Enter(c) \/ Receive(c) \/ Check(c) \/ Reread(c)
    \/ Claim(c) \/ Post(c) \/ Take(c)
    \/ Rotated(c) \/ Unanswered(c) \/ Refused(c) \/ Record(c)

Mutating(p) == Install(p) \/ Announce(p) \/ Clear(p) \/ EmptySlot(p)

HostStarts(h) == (\E u \in Users : BringNew(h, u)) \/ BringAgain(h) \/ BeginSignOut(h)

Next ==
    \/ \E c \in Callers : Refreshing(c) \/ Cancel(c)
    \/ \E p \in Procs : Mutating(p)
    \/ \E h \in Hosts : HostStarts(h)
    \/ ExpireSoon
    \/ CoolDown
    \/ \E w \in Workers : StartWork(w)

Spec == Init /\ [][Next]_vars

(* A call that has begun is driven to its end: the runtime polls its task, *)
(* the auth server answers or the connection fails, and tokio's mutexes    *)
(* serve their waiters in order (hence strong fairness).  Nothing obliges  *)
(* the host to begin a call.                                               *)
Fairness ==
    /\ \A c \in Callers : SF_vars(pc[c] # "idle" /\ Refreshing(c))
    /\ \A p \in Procs : SF_vars(Mutating(p))

FairSpec == Spec /\ Fairness

-----------------------------------------------------------------------------

Labels == {"idle", "entering", "waiting", "checking", "rereading",
           "claiming", "requesting", "recording", "posting", "taking",
           "installing", "announcing", "clearing", "emptying", "done",
           "dropped", "dropped late"}

Ended(c) == pc[c] \in {"done", "dropped", "dropped late"}

NoneDropped == \A c \in Callers : pc[c] \notin {"dropped", "dropped late"}

SessionOf == [user : Users \cup {Nobody}, token : Nat, at : Nat]

(* The variables hold values of their types, and mutation_lock is held     *)
(* exactly by a process between its change of the session and the hook.    *)
TypeOK ==
    /\ session \in SessionOf
    /\ stamp \in Nat
    /\ hookUser \in Users \cup {Nobody}
    /\ mutation \in Procs \cup {Nobody}
    /\ slot \in Callers \cup {Nobody}
    /\ cooling \in BOOLEAN
    /\ pc \in [Procs -> Labels]
    /\ hand \in [Procs -> SessionOf]
    /\ issued \in Nat
    /\ expiring \subseteq Nat
    /\ work \in [Workers -> SessionOf]
    /\ \A p \in Procs : pc[p] \in {"announcing", "emptying"} <=> mutation = p

(* "polybase invokes it deterministically on every session boundary": no   *)
(* matter how sign-ins, sign-outs and refreshes overlap, whenever no       *)
(* mutation is under way the hook was last called with the active user.    *)
(* (A caller dropped in the midst of its clear_session leaves the hook     *)
(* behind.)                                                                *)
HookFollowsSession ==
    NoneDropped /\ mutation = Nobody => hookUser = session.user

(* "A sign-out / account switch in the middle of a long task cleanly       *)
(* cancels the work instead of leaking writes onto the new user": while a  *)
(* task may publish, the user is the one it was started under.             *)
ValidMeansSameUser ==
    \A w \in Workers :
        work[w] # None /\ IsSessionValid(work[w].at) => session.user = work[w].user

(* What the check does tell: watermarks grow with every session, a refresh *)
(* and another user's alike, so that work is cancelled as long as nobody   *)
(* is signed in, and only then.  No refresh and no repeated sign-in, by    *)
(* whichever caller or host, cancels the work of a user.                   *)
OnlySignedOutCancels ==
    \A w \in Workers :
        work[w] # None => (IsSessionValid(work[w].at) <=> session # None)

(* A sender in the slot belongs to a leader that has not returned, so that *)
(* no caller is served the outcome of a refresh from the past.  Only a     *)
(* leader that was dropped leaves its sender behind.                       *)
SlotIsLive == slot # Nobody => pc[slot] \notin {"idle", "done"}

(* At most one leader at a time, as long as no session is cleared:         *)
(* concurrent callers do not spend a refresh token twice at one moment.    *)
OneLeader ==
    \A c, e \in Callers :
        pc[c] \in {"requesting", "recording", "posting", "taking"}
        /\ pc[e] = "requesting" => c = e

(* The leader's future was dropped before its outcome was sent: a clone of *)
(* its sender stays, and nothing will ever come through it.                *)
Abandoned == slot # Nobody /\ pc[slot] = "dropped"

(* Every call of ensure_fresh or force_refresh returns, "concurrent        *)
(* ensure_fresh waiters share one refresh outcome", whichever other calls  *)
(* are dropped, unless the leader itself was.                              *)
EveryCallReturns ==
    \A c \in Callers : pc[c] # "idle" ~> Ended(c) \/ Abandoned
=============================================================================
