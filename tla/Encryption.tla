----------------------------- MODULE Encryption -----------------------------
(***************************************************************************)
(* What crates/polybase/src/encryption.rs does to a text or to bytes.  A   *)
(* value is a plain body under some layers of sealing, each made with the  *)
(* key of a user and a secret.  A plain body may itself begin as sealed    *)
(* ones do, with the prefix "enc:" or the header "ENC\0".  Ciphers are     *)
(* taken to be perfect: only the key that sealed a layer opens it.         *)
(***************************************************************************)
EXTENDS Sequences, SequencesExt

NoSecret == "no secret"
Empty == [body |-> "empty", layers |-> <<>>]
Forged == [body |-> "forged", layers |-> <<>>]
Written(by) == [body |-> by, layers |-> <<>>]
Unreadable == [body |-> "error", layers |-> <<>>]  \* an EncryptionError

(* Mutant: every user has the same key.                                    *)
KeyOfSecret(user, secret) == <<"any user", secret>>

(* derive_key: the user's UUID is the salt.                                *)
KeyOf(user, secret) == <<user, secret>>

(* is_encrypted and is_data_encrypted look at the first characters.        *)
IsEncrypted(v) == v.layers # <<>> \/ v.body = "forged"

(* encrypt and encrypt_data: what is sealed already is sealed again.       *)
Encrypt(v, key) ==
    IF v = Empty THEN v ELSE [v EXCEPT !.layers = Append(@, key)]

(* decrypt and decrypt_data: what has no prefix is returned as it is.      *)
Decrypt(v, key) ==
    CASE ~IsEncrypted(v) -> v
      [] v.layers # <<>> /\ Last(v.layers) = key -> [v EXCEPT !.layers = Front(@)]
      [] OTHER -> Unreadable

(* A text that anyone can read.                                            *)
InClear(v) == v.layers = <<>> /\ v \notin {Empty, Forged, Unreadable}
=============================================================================
