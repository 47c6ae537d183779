------------------------------ MODULE Columns ------------------------------
(***************************************************************************)
(* One encrypted column of a row of one user, between the frontend, the    *)
(* local mirror, the offline queue and the server: serialize_for_remote in *)
(* crates/polybase/src/registry/mod.rs, the coordinator's persist and      *)
(* apply paths, and the plugin's encrypt and decrypt commands.  A write    *)
(* leaves the sealed value in the mirror, a pull the plain one.            *)
(***************************************************************************)
EXTENDS Encryption

CONSTANTS Owner, ColumnSecrets

VARIABLES configured, \* the device's secret, or NoSecret
          desk,       \* the value the frontend works with
          mirror,     \* the local row's, and
          mirrored,   \* the secret it was persisted with, or NoSecret
          waiting,    \* an operation in the queue: [value, with], or NoWrite
          remote      \* the server's row, with the secret configured at its
                      \* writer

columnVars == <<configured, desk, mirror, mirrored, waiting, remote>>

NoWrite == [value |-> Empty, with |-> "nothing waits"]

ColumnInit ==
    /\ configured \in ColumnSecrets \cup {NoSecret}
    /\ desk = Empty
    /\ mirror = Empty /\ mirrored = NoSecret
    /\ waiting = NoWrite
    /\ remote = [value |-> Empty, with |-> NoSecret]

-----------------------------------------------------------------------------
ConfigureSecret ==
    /\ configured' \in (ColumnSecrets \cup {NoSecret}) \ {configured}
    /\ UNCHANGED <<desk, mirror, mirrored, waiting, remote>>

(* The frontend: the user types, or it reads the mirror.                   *)
Type ==
    /\ desk' \in {Empty, Forged, Written(Owner)}
    /\ UNCHANGED <<configured, mirror, mirrored, waiting, remote>>

ReadRecord ==
    /\ desk' = mirror
    /\ UNCHANGED <<configured, mirror, mirrored, waiting, remote>>

(* encrypt and encrypt_batch, for what is plain.                           *)
EncryptText ==
    /\ configured # NoSecret
    /\ desk.layers = <<>>
    /\ desk' = Encrypt(desk, KeyOf(Owner, configured))
    /\ UNCHANGED <<configured, mirror, mirrored, waiting, remote>>

(* decrypt and decrypt_batch; where it fails the frontend keeps the        *)
(* ciphertext.                                                             *)
DecryptText ==
    /\ configured # NoSecret
    /\ LET plain == Decrypt(desk, KeyOf(Owner, configured))
       IN  desk' = IF plain = Unreadable THEN desk ELSE plain
    /\ UNCHANGED <<configured, mirror, mirrored, waiting, remote>>

-----------------------------------------------------------------------------
(* Mutant: what is sealed already is sealed again.                         *)
SerializeAnyway(v) ==
    IF configured = NoSecret THEN v ELSE Encrypt(v, KeyOf(Owner, configured))

(* serialize_for_remote                                                    *)
Serialize(v) ==
    IF configured = NoSecret \/ IsEncrypted(v) THEN v
    ELSE Encrypt(v, KeyOf(Owner, configured))

(* persist_change: the mirror, then the server or, if it is out of reach,  *)
(* the queue.                                                              *)
PersistColumn ==
    /\ mirror' = Serialize(desk)
    /\ mirrored' = configured
    /\ LET sent == [value |-> mirror', with |-> configured]
       IN  \/ remote' = sent /\ UNCHANGED waiting
           \/ waiting' = sent /\ UNCHANGED remote
    /\ UNCHANGED <<configured, desk>>

(* The host's replay sends the payload as it was queued.                   *)
ReplayColumn ==
    /\ waiting # NoWrite
    /\ remote' = waiting
    /\ waiting' = NoWrite
    /\ UNCHANGED <<configured, desk, mirror, mirrored>>

(* decrypt_record_columns: without a secret, and for what does not look    *)
(* sealed, the value itself.                                               *)
Opened(v) ==
    IF configured = NoSecret \/ ~IsEncrypted(v) THEN v
    ELSE Decrypt(v, KeyOf(Owner, configured))

(* apply_remote_record: an error leaves the mirror alone.                  *)
ApplyColumn ==
    /\ Opened(remote.value) # Unreadable
    /\ mirror' = Opened(remote.value)
    /\ mirrored' = NoSecret
    /\ UNCHANGED <<configured, desk, waiting, remote>>

(* Another device of the user (external), perhaps without a secret.        *)
OtherDeviceWrites ==
    /\ \E s \in ColumnSecrets \cup {NoSecret}, v \in {Empty, Written(Owner)} :
          remote' = [value |-> IF s = NoSecret THEN v ELSE Encrypt(v, KeyOf(Owner, s)),
                     with |-> s]
    /\ UNCHANGED <<configured, desk, mirror, mirrored, waiting>>

ColumnNext ==
    \/ ConfigureSecret \/ Type \/ ReadRecord \/ EncryptText \/ DecryptText
    \/ PersistColumn \/ ReplayColumn \/ ApplyColumn \/ OtherDeviceWrites

ColumnSpec == ColumnInit /\ [][ColumnNext]_columnVars

-----------------------------------------------------------------------------
(* Wherever a column's value has been, mirror, frontend, queue or server,  *)
(* and in what order: a value that was persisted with a secret is not      *)
(* readable, and none is sealed twice, so that one decryption always gives *)
(* the text.                                                               *)
SealedOnce ==
    /\ \A v \in {desk, mirror, waiting.value, remote.value} : Len(v.layers) =< 1
    /\ mirrored # NoSecret => ~InClear(mirror)
    /\ \A w \in {waiting, remote} : w.with # NoSecret => ~InClear(w.value)

ColumnValues == [body : {"empty", "forged", "error", Owner}, layers : Seq(
                    {KeyOf(Owner, s) : s \in ColumnSecrets \cup {NoSecret}})]

ColumnInv ==
    /\ desk \in ColumnValues /\ mirror \in ColumnValues
    /\ waiting.value \in ColumnValues /\ remote.value \in ColumnValues
    /\ configured \in ColumnSecrets \cup {NoSecret}
    /\ SealedOnce
=============================================================================
