---------------------------- MODULE UserPartition ----------------------------
(***************************************************************************)
(* Whose database the app writes to.  The plugin's runtime                 *)
(* (tauri-plugin-polybase/src/commands.rs) registers a hook on its session *)
(* store; each change of the user spawns a task that switches the          *)
(* DbManager (polybase-sqlite/src/manager.rs) to that user; commands read  *)
(* the session, take the manager's pool and run their statement on it, and *)
(* each of the three is a step of its own.                                 *)
(*                                                                         *)
(* A row is its owner: the user whose session the writing command read.    *)
(***************************************************************************)
EXTENDS Integers, FiniteSets

CONSTANTS Users, Nobody,
          Commands,     \* tasks that read or write rows
          MaxSwitches,  \* bound: changes of the session's user
          MaxTroubles,  \* bound: wipes and openings that fail
          MaxRestarts,  \* bound: restarts of the app
          MaxCommands   \* bound: statements run

ASSUME PartitionAssumption ==
    /\ Nobody \notin Users
    /\ {MaxSwitches, MaxTroubles, MaxRestarts, MaxCommands} \subseteq Nat

VARIABLES
    runtime,   \* which of "attached", "configured", "hooked" have happened
    session,   \* the session store's user
    tasks,     \* spawned switches not yet run, [nr, to]; no user is Nobody
    spawned,   \* number and target of the latest spawned switch
    switching, \* what holds the manager's write lock: [nr, to, stage]
    user,      \* DbManagerState.user_id
    pool,      \* DbManagerState.pool: [user, nr], or NoPool
    disk,      \* for each user: exists, 1 with a directory, and the rows in it
    kept,      \* users whose directory outlived a failure or a restart
    settled,   \* number of the switch that ran last, 0 unless it succeeded
    cmd,       \* for each command: [at, owner, handle]
    spent      \* how much of each bound is used up

managerVars == <<switching, user, pool, disk, kept, settled>>
hostVars == <<runtime, session, tasks, spawned>>
vars == <<hostVars, managerVars, cmd, spent>>

NoPool == [user |-> Nobody, nr |-> 0]
NoTask == [to |-> Nobody, nr |-> 0]
Idle == [nr |-> 0, to |-> Nobody, stage |-> "free"]
Resting == [at |-> "rest", owner |-> Nobody, handle |-> NoPool]

NoFile == [exists |-> 0, rows |-> {}]
Present(u) == disk[u].exists = 1

Budget == [switches |-> MaxSwitches, troubles |-> MaxTroubles,
           restarts |-> MaxRestarts, commands |-> MaxCommands]

Spend(what) ==
    /\ spent[what] < Budget[what]
    /\ spent' = [spent EXCEPT ![what] = @ + 1]

Init ==
    /\ runtime = {}
    /\ session = Nobody
    /\ tasks = {}
    /\ spawned = NoTask
    /\ switching = Idle
    /\ user = Nobody /\ pool = NoPool
    /\ disk = [u \in Users |-> NoFile]
    /\ kept = {}
    /\ settled = 0
    /\ cmd = [c \in Commands |-> Resting]
    /\ spent = [switches |-> 0, troubles |-> 0, restarts |-> 0, commands |-> 0]

-----------------------------------------------------------------------------
(* The runtime and its session.                                            *)

Attach ==
    /\ "attached" \notin runtime
    /\ runtime' = runtime \cup {"attached"}
    /\ UNCHANGED <<session, tasks, spawned, managerVars, cmd, spent>>

(* Mutant: a new configuration drops the session.                          *)
ConfigureAfresh ==
    /\ runtime' = runtime \cup {"configured"}
                  \cup (IF "attached" \in runtime THEN {"hooked"} ELSE {})
    /\ session' = Nobody
    /\ UNCHANGED <<tasks, spawned, managerVars, cmd, spent>>

(* The session outlives a new configuration.  The hook and the coordinator *)
(* come with the first one that finds a store attached; no switch is made  *)
(* for a session that is already there.                                    *)
Configure ==
    /\ runtime' = runtime \cup {"configured"}
                  \cup (IF "attached" \in runtime THEN {"hooked"} ELSE {})
    /\ UNCHANGED <<session, tasks, spawned, managerVars, cmd, spent>>

(* The hook spawns a switch to the new user and does not wait for it.      *)
Hook(u) ==
    IF "hooked" \in runtime
    THEN /\ spawned' = [to |-> u, nr |-> spawned.nr + 1]
         /\ tasks' = tasks \cup {spawned'}
    ELSE UNCHANGED <<tasks, spawned>>

SetSession(u) ==
    /\ "configured" \in runtime
    /\ session # u
    /\ Spend("switches")
    /\ session' = u
    /\ Hook(u)
    /\ UNCHANGED <<runtime, managerVars, cmd>>

ClearSession ==
    /\ session # Nobody
    /\ Spend("switches")
    /\ session' = Nobody
    /\ Hook(Nobody)
    /\ UNCHANGED <<runtime, managerVars, cmd>>

-----------------------------------------------------------------------------
(* DbManager::switch_user, under the write lock from Begin to its end.     *)

Running(t) == [nr |-> t.nr, to |-> t.to, stage |-> "wiping"]

(* A switch to the active user is done at once.                            *)
SwitchToSame(t) ==
    /\ t \in tasks /\ switching = Idle
    /\ t.to = user /\ user # Nobody
    /\ tasks' = tasks \ {t}
    /\ settled' = t.nr
    /\ UNCHANGED <<runtime, session, spawned, switching, user, pool, disk, kept,
                    cmd, spent>>

(* Mutant: the pool stays in the state while its switch runs.              *)
BeginKeepingPool(t) ==
    /\ t \in tasks /\ switching = Idle
    /\ t.to # user \/ user = Nobody
    /\ tasks' = tasks \ {t}
    /\ switching' = Running(t)
    /\ settled' = 0
    /\ UNCHANGED <<runtime, session, spawned, user, pool, disk, kept, cmd, spent>>

(* Take the pool and close it: statements on it fail from here on.         *)
Begin(t) ==
    /\ t \in tasks /\ switching = Idle
    /\ t.to # user \/ user = Nobody
    /\ tasks' = tasks \ {t}
    /\ switching' = Running(t)
    /\ pool' = NoPool
    /\ settled' = 0
    /\ UNCHANGED <<runtime, session, spawned, user, disk, kept, cmd, spent>>

(* Mutant: the directory of the user who leaves stays.                     *)
WipeNothing ==
    /\ switching.stage = "wiping"
    /\ user' = Nobody
    /\ switching' = [switching EXCEPT !.stage = "opening"]
    /\ UNCHANGED <<hostVars, pool, disk, kept, settled, cmd, spent>>

Wipe ==
    /\ switching.stage = "wiping"
    /\ user' = Nobody
    /\ disk' = IF user = Nobody THEN disk ELSE [disk EXCEPT ![user] = NoFile]
    /\ switching' = [switching EXCEPT !.stage = "opening"]
    /\ UNCHANGED <<hostVars, pool, kept, settled, cmd, spent>>

(* The removal fails: the call returns with the user already forgotten.    *)
WipeFails ==
    /\ switching.stage = "wiping"
    /\ user # Nobody
    /\ Spend("troubles")
    /\ user' = Nobody
    /\ kept' = kept \cup {user}
    /\ switching' = Idle
    /\ UNCHANGED <<hostVars, pool, disk, settled, cmd>>

(* Sign-out ends with the wipe.                                            *)
SignedOut ==
    /\ switching.stage = "opening" /\ switching.to = Nobody
    /\ switching' = Idle
    /\ settled' = switching.nr
    /\ UNCHANGED <<hostVars, user, pool, disk, kept, cmd, spent>>

(* What is in the directory already is opened with it.                     *)
Open ==
    /\ switching.stage = "opening" /\ switching.to # Nobody
    /\ user' = switching.to
    /\ pool' = [user |-> switching.to, nr |-> switching.nr]
    /\ disk' = [disk EXCEPT ![switching.to].exists = 1]
    /\ kept' = kept \ {switching.to}
    /\ switching' = Idle
    /\ settled' = switching.nr
    /\ UNCHANGED <<hostVars, cmd, spent>>

(* The id is refused or the directory cannot be made; or it can, and the   *)
(* pool does not open or a migration fails.                                *)
OpenFails ==
    /\ switching.stage = "opening" /\ switching.to # Nobody
    /\ Spend("troubles")
    /\ \/ UNCHANGED <<disk, kept>>
       \/ /\ disk' = [disk EXCEPT ![switching.to].exists = 1]
          /\ kept' = kept \cup {switching.to}
    /\ switching' = Idle
    /\ UNCHANGED <<hostVars, user, pool, settled, cmd>>

Switching ==
    \/ \E t \in tasks : SwitchToSame(t) \/ Begin(t)
    \/ Wipe \/ WipeFails \/ SignedOut \/ Open \/ OpenFails

-----------------------------------------------------------------------------
(* The commands: the session first, then the pool, then the statement.     *)

ReadSession(c) ==
    /\ cmd[c] = Resting
    /\ "hooked" \in runtime
    /\ session # Nobody
    /\ Spend("commands")
    /\ cmd' = [cmd EXCEPT ![c] = [at |-> "session", owner |-> session,
                                  handle |-> NoPool]]
    /\ UNCHANGED <<hostVars, managerVars>>

(* The read lock is not had while a switch holds the write lock; without   *)
(* a pool the command fails: "no active user pool".                        *)
TakePool(c) ==
    /\ cmd[c].at = "session"
    /\ switching = Idle
    /\ cmd' = [cmd EXCEPT ![c] = IF pool = NoPool THEN Resting
                                 ELSE [at |-> "pool", owner |-> @.owner, handle |-> pool]]
    /\ UNCHANGED <<hostVars, managerVars, spent>>

(* The statement runs on the pool that was taken, unless it was closed.    *)
Statement(c, file) ==
    /\ cmd[c].at = "pool"
    /\ IF cmd[c].handle = pool
       THEN disk' = [disk EXCEPT ![pool.user].rows = file]
       ELSE UNCHANGED disk
    /\ cmd' = [cmd EXCEPT ![c] = Resting]
    /\ UNCHANGED <<hostVars, switching, user, pool, kept, settled, spent>>

UpsertRecord(c) == Statement(c, disk[cmd[c].handle.user].rows \cup {cmd[c].owner})

HardDelete(c) == Statement(c, disk[cmd[c].handle.user].rows \ {cmd[c].owner})

(* read_versions, read_record, read_all_ids, and mark_deleted, an UPDATE   *)
(* that leaves the row its owner.                                          *)
ReadOrMark(c) == Statement(c, disk[cmd[c].handle.user].rows)

(* The app dies and starts again: the directories are what persists, and   *)
(* nothing remembers whose the last one was.                               *)
Restart ==
    /\ Spend("restarts")
    /\ runtime' = {} /\ session' = Nobody /\ tasks' = {} /\ spawned' = NoTask
    /\ switching' = Idle /\ user' = Nobody /\ pool' = NoPool /\ settled' = 0
    /\ kept' = kept \cup {u \in Users : Present(u)}
    /\ cmd' = [c \in Commands |-> Resting]
    /\ UNCHANGED disk

Commanding ==
    \E c \in Commands :
       \/ ReadSession(c) \/ TakePool(c)
       \/ cmd[c].at = "pool" /\ (UpsertRecord(c) \/ HardDelete(c) \/ ReadOrMark(c))

Hosting == Attach \/ Configure \/ (\E u \in Users : SetSession(u)) \/ ClearSession

Next == Hosting \/ Switching \/ Commanding \/ Restart

Spec == Init /\ [][Next]_vars

-----------------------------------------------------------------------------

(* Every variable stays in its range. *)
TypeOK ==
    /\ runtime \subseteq {"attached", "configured", "hooked"}
    /\ session \in Users \cup {Nobody}
    /\ spawned \in [to : Users \cup {Nobody}, nr : Nat]
    /\ tasks \subseteq [to : Users \cup {Nobody}, nr : 1..spawned.nr]
    /\ switching \in [nr : 0..spawned.nr, to : Users \cup {Nobody},
                      stage : {"free", "wiping", "opening"}]
    /\ user \in Users \cup {Nobody}
    /\ pool \in [user : Users \cup {Nobody}, nr : 0..spawned.nr]
    /\ disk \in [Users -> [exists : {0, 1}, rows : SUBSET Users]]
    /\ kept \subseteq Users
    /\ settled \in 0..spawned.nr
    /\ cmd \in [Commands -> [at : {"rest", "session", "pool"},
                             owner : Users \cup {Nobody},
                             handle : [user : Users \cup {Nobody}, nr : Nat]]]
    /\ spent \in [switches : Nat, troubles : Nat, restarts : Nat, commands : Nat]

(* A pool is handed out for the active user only, and never for a          *)
(* directory that has been removed: a failed, overtaken or interrupted     *)
(* switch leaves no pool rather than the wrong one (manager.rs:124-170).   *)
PoolIsActiveUsers ==
    /\ pool # NoPool => pool.user = user /\ user # Nobody /\ Present(user)
    /\ switching = Idle /\ user # Nobody => pool # NoPool
    /\ switching # Idle => pool = NoPool
    /\ switching.stage = "opening" => user = Nobody

(* The directory of every user but the active one is gone, except where a  *)
(* removal or an opening failed or a restart forgot whose it was           *)
(* (manager.rs:113, contract.rs:21): nothing else lets data outlive a      *)
(* switch.                                                                 *)
OthersWiped == \A u \in Users : Present(u) => u = user \/ u \in kept

(* When the switch that was spawned last also ran last and succeeded, the  *)
(* mirror is the session's user's: the hook misses no change of the user,  *)
(* whatever was configured again in between (commands.rs:161).  The tasks  *)
(* are not ordered, so the switch that ran last may be an earlier one.     *)
MirrorFollowsHook ==
    switching = Idle /\ spawned.nr > 0 /\ settled = spawned.nr => user = session

(* A row is in its owner's file.  Does not hold: a command that read the   *)
(* session before a switch, or after the session changed and before the    *)
(* spawned switch, writes its row into the other user's file, though       *)
(* manager.rs:6 says each user owns one SQLite file.                       *)
RowsInOwnersFile == \A u \in Users : disk[u].rows \subseteq {u}
=============================================================================
