------------------------------- MODULE Bucket -------------------------------
(***************************************************************************)
(* One object of a storage bucket, and the plugin's storage commands on it *)
(* as one user after another signs in on the device: crates/polybase/src/  *)
(* storage.rs and the storage_* commands of the plugin's commands.rs.      *)
(*                                                                         *)
(* A command takes client, session and encryption when it is called; its   *)
(* request reaches the server later, when the session may be another one.  *)
(* The server (external) lets every user read and replace the object.      *)
(***************************************************************************)
EXTENDS Encryption

CONSTANTS BucketUsers, Secret

VARIABLES reader,    \* the session's user, or NoUser
          secret,    \* Secret, or NoSecret: the host may leave it away
          command,   \* the one on its way, or NoCommand
          object,    \* what the server holds, or NoObject
          shown,     \* what the frontend was last given, and
          shownTo,   \* to whom, or NoUser
          exposed    \* authors of a text that was uploaded in the clear

bucketVars == <<reader, secret, command, object, shown, shownTo, exposed>>

NoUser == "nobody"
NoCommand == [kind |-> "none"]
NoObject == [held |-> Empty, was |-> Empty, by |-> NoUser, with |-> NoSecret]

BucketInit ==
    /\ reader = NoUser
    /\ secret \in {Secret, NoSecret}
    /\ command = NoCommand
    /\ object = NoObject
    /\ shown = Empty /\ shownTo = NoUser
    /\ exposed = {}

-----------------------------------------------------------------------------
(* set_session, clear_session, and configure with another secret.          *)
SwitchSession ==
    /\ reader' \in (BucketUsers \cup {NoUser}) \ {reader}
    /\ UNCHANGED <<secret, command, object, shown, shownTo, exposed>>

Reconfigure ==
    /\ secret' = IF secret = Secret THEN NoSecret ELSE Secret
    /\ UNCHANGED <<reader, command, object, shown, shownTo, exposed>>

(* A bucket with the engine attached if there is a secret.                 *)
MaybeEncrypt(v, by, with) ==
    IF with = NoSecret THEN v ELSE Encrypt(v, KeyOf(by, with))

MaybeDecrypt(v, by, with) ==
    IF with = NoSecret \/ ~IsEncrypted(v) THEN v ELSE Decrypt(v, KeyOf(by, with))

(* What a frontend may upload: a text of its user, something that begins   *)
(* as sealed bytes do, or sealed bytes that it was given.                  *)
Uploads ==
    {Written(reader), Forged}
    \cup {v \in {shown} : shownTo = reader /\ Len(v.layers) = 1}

(* No command without a session; "no active session".                      *)
BeginUpload(v) ==
    /\ reader # NoUser /\ command = NoCommand
    /\ v \in Uploads
    /\ command' = [kind |-> "upload", by |-> reader, with |-> secret, was |-> v,
                   body |-> MaybeEncrypt(v, reader, secret)]
    /\ exposed' = exposed \cup (IF InClear(v) /\ secret = NoSecret THEN {v.body} ELSE {})
    /\ UNCHANGED <<reader, secret, object, shown, shownTo>>

UploadServed ==
    /\ command.kind = "upload"
    /\ object' = [held |-> command.body, was |-> command.was,
                  by |-> command.by, with |-> command.with]
    /\ command' = NoCommand
    /\ UNCHANGED <<reader, secret, shown, shownTo, exposed>>

BeginDownload ==
    /\ reader # NoUser /\ command = NoCommand
    /\ command' = [kind |-> "download", by |-> reader, with |-> secret]
    /\ UNCHANGED <<reader, secret, object, shown, shownTo, exposed>>

(* NotFound gives the frontend nothing new.                                *)
DownloadServed ==
    /\ command.kind = "download" /\ object # NoObject
    /\ shown' = MaybeDecrypt(object.held, command.by, command.with)
    /\ shownTo' = command.by
    /\ command' = NoCommand
    /\ UNCHANGED <<reader, secret, object, exposed>>

(* The request is lost or refused: NotFound, or an object that is there    *)
(* and an upload without x-upsert.                                         *)
CommandFails ==
    /\ command # NoCommand
    /\ command' = NoCommand
    /\ UNCHANGED <<reader, secret, object, shown, shownTo, exposed>>

(* storage_delete; an object that is not there counts as deleted.          *)
DeleteObject ==
    /\ reader # NoUser
    /\ object' = NoObject
    /\ UNCHANGED <<reader, secret, command, shown, shownTo, exposed>>

(* storage_signed_url: who follows the URL is given what the server holds. *)
FollowSignedUrl ==
    /\ reader # NoUser /\ object # NoObject
    /\ shown' = object.held
    /\ shownTo' = reader
    /\ UNCHANGED <<reader, secret, command, object, exposed>>

BucketNext ==
    \/ SwitchSession \/ Reconfigure
    \/ \E v \in Uploads : BeginUpload(v)
    \/ UploadServed \/ BeginDownload \/ DownloadServed \/ CommandFails
    \/ DeleteObject \/ FollowSignedUrl

BucketSpec == BucketInit /\ [][BucketNext]_bucketVars

-----------------------------------------------------------------------------
(* Whatever is uploaded, downloaded, replaced and uploaded once more by    *)
(* whom, with sessions and secrets that change under a command: a text is  *)
(* shown to nobody but its author, unless it was uploaded while no secret  *)
(* was configured.                                                         *)
OnlyAuthorsRead ==
    InClear(shown) =>
        shownTo = shown.body \/ shown.body \in exposed

(* Who downloads what he uploaded with the same secret is given the bytes  *)
(* he uploaded, sealed ones and such as look sealed included.              *)
RoundTrip == MaybeDecrypt(object.held, object.by, object.with) = object.was

(* What a bucket promises.                                                 *)
BucketKeeps == OnlyAuthorsRead /\ RoundTrip

(* Why: a text is sealed first with a key of its author, wherever it goes  *)
(* from there, and lies open only if it was uploaded so.                   *)
BucketKeys == {KeyOf(u, s) : u \in BucketUsers, s \in {Secret, NoSecret}}
BucketValues == [body : BucketUsers \cup {"empty", "forged", "error"},
                 layers : Seq(BucketKeys)]

AuthorsSeal(v) ==
    v.layers # <<>> =>
        \/ v.body \in exposed \cup {"empty", "forged", "error"}
        \/ Head(v.layers)[1] = v.body

OpenIsExposed(v) == InClear(v) => v.body \in exposed

UploadInv ==
    command.kind = "upload" =>
        /\ command.by \in BucketUsers /\ command.with \in {Secret, NoSecret}
        /\ command.was \in BucketValues /\ command.body \in BucketValues
        /\ command.body = MaybeEncrypt(command.was, command.by, command.with)
        /\ AuthorsSeal(command.body) /\ OpenIsExposed(command.body)

BucketInv ==
    /\ reader \in BucketUsers \cup {NoUser} /\ secret \in {Secret, NoSecret}
    /\ shown \in BucketValues /\ object.held \in BucketValues
    /\ object.by \in BucketUsers \cup {NoUser} /\ object.with \in {Secret, NoSecret}
    /\ command.kind = "download" =>
          command.by \in BucketUsers /\ command.with \in {Secret, NoSecret}
    /\ UploadInv
    /\ AuthorsSeal(shown) /\ AuthorsSeal(object.held) /\ OpenIsExposed(object.held)
    /\ BucketKeeps
=============================================================================
