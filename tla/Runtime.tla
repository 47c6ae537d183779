------------------------------ MODULE Runtime -------------------------------
(***************************************************************************)
(* The handles of the plugin's commands,                                   *)
(* crates/tauri-plugin-polybase/src/commands.rs: what a command takes from *)
(* RuntimeInner under its lock and goes on using after it, while the host  *)
(* attaches stores, replaces the registry and configures again.  A handle  *)
(* is known by the call of configure that built it, 0 if there is none.    *)
(*                                                                         *)
(* External: the host and the frontend, who call all of this; what the     *)
(* handles then do is in the modules of their own.                         *)
(***************************************************************************)
EXTENDS Integers

CONSTANTS MaxConfigures,  \* bound on the calls of configure
          Locals,         \* the LocalStores a host may attach
          Registries      \* the registries it may set; the default is "default"

VARIABLES inner,       \* RuntimeInner
          kvsIn,       \* the registries that have the key-value store
          hooked,      \* the LocalStore that follows the session store's user
          stored,      \* the session store has a session
          running,     \* the command that is running and its handles
          shim         \* the session store the host has kept a clone of

runtimeVars == <<inner, kvsIn, hooked, stored, running, shim>>

NotAttached == "not attached"
NoCoordinator == [built |-> 0, store |-> 0, registry |-> "default", local |-> NotAttached]
NotRunning == [kind |-> "none", client |-> 0, store |-> 0, secret |-> 0]

(* RuntimeHandle::default: nothing but a bus and an empty registry.        *)
RuntimeInit ==
    /\ inner = [client |-> 0, store |-> 0, secret |-> 0, registry |-> "default",
                local |-> NotAttached, coordinator |-> NoCoordinator]
    /\ kvsIn = {}
    /\ hooked = NotAttached
    /\ stored = FALSE
    /\ running = NotRunning
    /\ shim = 0

(* RuntimeHandle::attach and set_registry: the coordinator, if there is    *)
(* one, keeps what it was built with.                                      *)
AttachStores ==
    /\ \E l \in Locals : inner' = [inner EXCEPT !.local = l]
    /\ UNCHANGED <<kvsIn, hooked, stored, running, shim>>

SetRegistry ==
    /\ \E r \in Registries : inner' = [inner EXCEPT !.registry = r]
    /\ UNCHANGED <<kvsIn, hooked, stored, running, shim>>

(* RuntimeHandle::sessions *)
Sessions ==
    /\ shim' = inner.store
    /\ UNCHANGED <<inner, kvsIn, hooked, stored, running>>

Rebuilt(store, encrypts) ==
    LET n == inner.client + 1
        new == IF inner.local = NotAttached THEN NoCoordinator
               ELSE [built |-> n, store |-> store, registry |-> inner.registry,
                     local |-> inner.local]
    IN  [inner EXCEPT !.client = n, !.store = store, !.secret = IF encrypts THEN n ELSE 0,
                      !.coordinator = new]

(* Mutant: the session store is built anew like the rest.                  *)
ConfigureStore ==
    /\ inner.client < MaxConfigures
    /\ \E encrypts \in BOOLEAN : inner' = Rebuilt(inner.client + 1, encrypts)
    /\ kvsIn' = kvsIn \cup {inner.registry}
    /\ hooked' = inner.local
    /\ stored' = FALSE
    /\ UNCHANGED <<running, shim>>

(* configure, when the client and the encryption can be built; it changes  *)
(* nothing if they cannot.  The session store, with the client it refreshes*)
(* with, stays the first one, and so does its session.                     *)
ConfigureAll ==
    /\ inner.client < MaxConfigures
    /\ LET store == IF inner.store = 0 THEN inner.client + 1 ELSE inner.store
       IN  \E encrypts \in BOOLEAN : inner' = Rebuilt(store, encrypts)
    /\ kvsIn' = kvsIn \cup {inner.registry}
    /\ hooked' = inner.local
    /\ UNCHANGED <<stored, running, shim>>

(* set_session and clear_session, refreshes that end the session included; *)
(* the host may also go through its clone.                                 *)
SessionComesOrGoes ==
    /\ inner.store # 0
    /\ stored' = ~stored
    /\ UNCHANGED <<inner, kvsIn, hooked, running, shim>>

-----------------------------------------------------------------------------
(* Commands.  Each takes its handles in one critical section.              *)

Take(kind, client, store, secret) ==
    /\ running = NotRunning
    /\ running' = [kind |-> kind, client |-> client, store |-> store, secret |-> secret]
    /\ UNCHANGED <<inner, kvsIn, hooked, stored, shim>>

IsConfigured == inner.client # 0

(* current_encryption_context, for encrypt, decrypt and their batches.     *)
CurrentEncryptionContext ==
    /\ inner.secret # 0
    /\ Take("encryption", 0, inner.store, inner.secret)

(* edge_call *)
EdgeCall == IsConfigured /\ Take("edge", inner.client, inner.store, 0)

(* kvs_get, kvs_set and kvs_delete: the store over the coordinator.        *)
KvsCommand ==
    /\ inner.coordinator.built # 0
    /\ Take("kvs", inner.coordinator.built, inner.coordinator.store, inner.secret)

(* require_client_session_and_encryption: storage_upload and _download.    *)
RequireClientSessionAndEncryption ==
    IsConfigured /\ Take("sealed", inner.client, inner.store, inner.secret)

(* require_client_and_session: storage_delete, _list and _signed_url.      *)
RequireClientAndSession == IsConfigured /\ Take("plain", inner.client, inner.store, 0)

(* The session is asked for after the lock, and may be gone; the bucket is *)
(* the one in the configuration of the command's own client.               *)
Runs ==
    /\ running # NotRunning
    /\ stored \/ running.kind = "kvs"
    /\ running' = NotRunning
    /\ UNCHANGED <<inner, kvsIn, hooked, stored, shim>>

HasNoSession ==
    /\ running # NotRunning
    /\ ~stored
    /\ running' = NotRunning
    /\ UNCHANGED <<inner, kvsIn, hooked, stored, shim>>

RuntimeNext ==
    \/ AttachStores \/ SetRegistry \/ Sessions \/ ConfigureAll \/ SessionComesOrGoes
    \/ CurrentEncryptionContext \/ EdgeCall \/ KvsCommand
    \/ RequireClientSessionAndEncryption \/ RequireClientAndSession
    \/ Runs \/ HasNoSession

RuntimeSpec == RuntimeInit /\ [][RuntimeNext]_runtimeVars

-----------------------------------------------------------------------------
(* However configure, attach and the commands interleave: whoever asks for *)
(* the session, a command on its way or the host through its clone, asks   *)
(* the store that a sign-in and a sign-out reach;                          *)
OneSessionStore ==
    /\ running # NotRunning => running.store = inner.store
    /\ shim # 0 => shim = inner.store
    /\ inner.coordinator.built # 0 => inner.coordinator.store = inner.store

(* what is sealed goes to the bucket of the configuration that has the     *)
(* secret, or is not sealed as that has none;                              *)
SealedForItsBucket == running.kind = "sealed" => running.secret \in {0, running.client}

(* and a coordinator is never that of an older configuration, finds the    *)
(* key-value store in its registry, and has the mirror that follows the    *)
(* session's user.                                                         *)
CoordinatorWhole ==
    LET c == inner.coordinator
    IN  c.built # 0 => c.built = inner.client /\ c.registry \in kvsIn /\ c.local = hooked

RuntimeKeeps == OneSessionStore /\ SealedForItsBucket /\ CoordinatorWhole

(* Why: a store is there as soon as anything is configured, and is never   *)
(* another one.                                                            *)
RuntimeInv ==
    /\ inner \in [client : Nat, store : Nat, secret : Nat,
                  registry : Registries \cup {"default"},
                  local : Locals \cup {NotAttached},
                  coordinator : [built : Nat, store : Nat,
                                 registry : Registries \cup {"default"},
                                 local : Locals \cup {NotAttached}]]
    /\ inner.client # 0 <=> inner.store # 0
    /\ inner.secret \in {0, inner.client}
    /\ inner.coordinator.built # 0 => inner.client # 0
    /\ running # NotRunning => inner.store # 0
    /\ RuntimeKeeps
=============================================================================
