----------------------------- MODULE Connection -----------------------------
(***************************************************************************)
(* One connection of the realtime transport, from the socket's opening to  *)
(* Connection::run's return: crates/polybase/src/realtime/mod.rs.  Four    *)
(* tasks run beside the supervisor: read, write, and two that ask the      *)
(* server for a reply, the heartbeat on its interval and the liveness      *)
(* probe after a silence, and give the connection up when none comes.      *)
(* Times are abstract: a reply comes in time or it does not.               *)
(***************************************************************************)
EXTENDS Naturals, FiniteSets

VARIABLES socket,   \* "up" or how it died, "closed" when run has returned
          tasks,    \* inner tasks that run
          awaiting, \* those that wait for a reply, and
          pending,  \* those whose ref is still in the HeartbeatTracker
          reason,   \* the first DisconnectReason a task sent, or NoReason
          returned, \* what run returned, or NoReason
          shutting, \* "no", "told", or "dropped" with the transport
          replied,  \* those whose reply the reader has handled
          late      \* those a live server was once late to answer

connVars == <<socket, tasks, awaiting, pending, reason, returned, shutting, replied, late>>

NoReason == "none"
Pingers == {"heartbeat", "liveness"}
AllTasks == {"read", "write"} \cup Pingers
SocketDeaths == {"silent", "reset", "goodbye", "ended"}

ConnInit ==
    /\ socket = "up"
    /\ tasks = AllTasks
    /\ awaiting = {} /\ pending = {}
    /\ reason = NoReason /\ returned = NoReason
    /\ shutting = "no" /\ replied = {} /\ late = {}

-----------------------------------------------------------------------------
(* A reason joins those the tasks sent; run takes the first.               *)
Tell(why) == reason' = IF reason = NoReason THEN why ELSE reason

(* The reader meets an error, the server's goodbye (a close frame,         *)
(* phx_close, phx_error or a bad system message), or the stream's end, of  *)
(* which it tells nobody.                                                  *)
ReadEnds ==
    /\ "read" \in tasks
    /\ \/ socket = "reset" /\ Tell("WebsocketError")
       \/ socket = "goodbye" /\ Tell("ChannelClosed")
       \/ socket = "ended" /\ UNCHANGED reason
    /\ tasks' = tasks \ {"read"}
    /\ UNCHANGED <<socket, awaiting, pending, returned, shutting, replied, late>>

(* A frame cannot be sent.                                                 *)
WriteEnds ==
    /\ "write" \in tasks /\ socket \in SocketDeaths \ {"silent"}
    /\ tasks' = tasks \ {"write"}
    /\ UNCHANGED <<socket, awaiting, pending, reason, returned, shutting, replied, late>>

(* A ref goes into the tracker and a frame to the writer; without a writer *)
(* the task that asks ends and tells nobody.                               *)
Ask(p) ==
    /\ p \in tasks \ awaiting
    /\ pending' = pending \cup {p}
    /\ IF "write" \in tasks
       THEN awaiting' = awaiting \cup {p} /\ UNCHANGED tasks
       ELSE tasks' = tasks \ {p} /\ UNCHANGED awaiting
    /\ UNCHANGED <<socket, reason, returned, shutting, replied, late>>

(* Mutant: the ref of a reply stays in the tracker.                        *)
AnswerUnmatched(p) ==
    /\ "read" \in tasks /\ socket = "up" /\ p \in awaiting \ replied
    /\ replied' = replied \cup {p}
    /\ UNCHANGED <<socket, tasks, awaiting, pending, reason, returned, shutting, late>>

(* The reader takes the ref of a phx_reply out of the tracker.             *)
Answer(p) ==
    /\ "read" \in tasks /\ socket = "up" /\ p \in awaiting \ replied
    /\ pending' = pending \ {p}
    /\ replied' = replied \cup {p}
    /\ UNCHANGED <<socket, tasks, awaiting, reason, returned, shutting, late>>

(* A live server answers within the time a task waits, or is late.         *)
TimeIsUp(p) == p \in awaiting /\ (socket = "up" => p \in replied \cup late)

BeLate(p) ==
    /\ socket = "up" /\ p \in pending
    /\ late' = late \cup {p}
    /\ UNCHANGED <<socket, tasks, awaiting, pending, reason, returned, shutting, replied>>

(* The wait is over and the ref is gone.                                   *)
Resume(p) ==
    /\ TimeIsUp(p) /\ p \notin pending
    /\ awaiting' = awaiting \ {p}
    /\ replied' = replied \ {p}
    /\ UNCHANGED <<socket, tasks, pending, reason, returned, shutting, late>>

TimeoutOf(p) == IF p = "heartbeat" THEN "HeartbeatTimeout" ELSE "LivenessTimeout"

(* Mutant: a task that gets no reply ends and tells nobody.                *)
ExpireSilently(p) ==
    /\ TimeIsUp(p) /\ p \in pending
    /\ tasks' = tasks \ {p} /\ awaiting' = awaiting \ {p}
    /\ UNCHANGED <<socket, pending, reason, returned, shutting, replied, late>>

(* The wait is over and the ref is still there.                            *)
Expire(p) ==
    /\ TimeIsUp(p) /\ p \in pending
    /\ Tell(TimeoutOf(p))
    /\ tasks' = tasks \ {p} /\ awaiting' = awaiting \ {p}
    /\ UNCHANGED <<socket, pending, returned, shutting, replied, late>>

-----------------------------------------------------------------------------
(* Connection::run: the reasons' channel or the shutdown signal, whichever *)
(* it finds first.  A channel with no sender left, and a signal with none, *)
(* count as a closed channel.  The tasks are aborted.                      *)
Return ==
    /\ returned = NoReason
    /\ \/ reason # NoReason /\ returned' = reason
       \/ reason = NoReason /\ tasks \subseteq {"write"} /\ returned' = "ChannelClosed"
       \/ shutting = "told" /\ returned' = "Manual"
       \/ shutting = "dropped" /\ returned' = "ChannelClosed"
    /\ socket' = "closed"
    /\ tasks' = {} /\ awaiting' = {} /\ pending' = {} /\ replied' = {}
    /\ UNCHANGED <<reason, shutting, late>>

(* The caller unsubscribes, or drops the transport.                        *)
Shut ==
    /\ shutting = "no"
    /\ shutting' \in {"told", "dropped"}
    /\ UNCHANGED <<socket, tasks, awaiting, pending, reason, returned, replied, late>>

SocketDies ==
    /\ socket = "up"
    /\ socket' \in SocketDeaths
    /\ UNCHANGED <<tasks, awaiting, pending, reason, returned, shutting, replied, late>>

ConnNext ==
    \/ ReadEnds \/ WriteEnds
    \/ \E p \in Pingers : \/ Ask(p) \/ Answer(p) \/ BeLate(p)
                          \/ Resume(p) \/ Expire(p)
    \/ Return \/ Shut \/ SocketDies

(* The supervisor and the tasks run, and a live server's replies come; the *)
(* probe is owed only once the socket is dead, when silence is sure.       *)
ConnFairness ==
    /\ WF_connVars(Return) /\ WF_connVars(ReadEnds)
    /\ WF_connVars(Ask("heartbeat")) /\ WF_connVars(socket # "up" /\ Ask("liveness"))
    /\ \A p \in Pingers :
          WF_connVars(Resume(p)) /\ WF_connVars(Expire(p)) /\ WF_connVars(Answer(p))

ConnSpec == ConnInit /\ [][ConnNext]_connVars /\ ConnFairness

-----------------------------------------------------------------------------
(* A connection is given up for a timeout only when its server was late or *)
(* its socket had died: a reply that came in time, between the question    *)
(* and the look at the tracker, is never taken for none.                   *)
NoFalseAlarm ==
    (socket = "up" /\ late = {}) => reason = NoReason /\ tasks = AllTasks

(* However the socket dies and whichever task ends first, run returns:     *)
(* also when the reader says nothing of the stream's end and the writer's  *)
(* end stops both pingers before they can ask.                             *)
DeathNoticed == socket \in SocketDeaths ~> returned # NoReason

(* Why NoFalseAlarm holds: the ref of a reply that has been read is no     *)
(* longer in the tracker, and it is read only while its task waits.        *)
ConnInv ==
    /\ replied \subseteq awaiting
    /\ replied \cap pending = {}
    /\ NoFalseAlarm
=============================================================================
