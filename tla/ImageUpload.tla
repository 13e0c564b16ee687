------------------------------ MODULE ImageUpload ------------------------------
(***************************************************************************)
(* social.Client.UploadProfileImage: an image is announced with its size   *)
(* and its number of blocks, sent block by block as it is read, and then   *)
(* published.  The reader keeps its position: after an upload that failed, *)
(* the application may pass it again, with what has not been read.         *)
(*                                                                         *)
(* Sizes are counted in a unit of which a block has a few.  Len of the     *)
(* reader is what it has not been read of, as for bytes.Reader and         *)
(* bytes.Buffer, which are the readers that MediaReader names.             *)
(***************************************************************************)
EXTENDS Naturals, SequencesExt

CONSTANTS
    blockSize,              \* 25 MiB
    maxProfileImageSize,    \* 50 MiB
    MaxLength,              \* bound: size of the image
    MaxUploads              \* bound: calls of UploadProfileImage

ASSUME ImageAssumption ==
    /\ blockSize \in Nat \ {0}
    /\ maxProfileImageSize \in Nat
    /\ MaxLength \in Nat /\ MaxUploads \in Nat

VARIABLES
    upload,         \* "idle", "create", "blocks", "publish" or "published"
    unread,         \* MediaReader.Len
    announced,      \* ExpectedBlocks and FileSize of the upload session
    stored,         \* the sizes of the blocks the service has, by their number
    uploads         \* number of calls so far

imageVars == <<upload, unread, announced, stored, uploads>>

-----------------------------------------------------------------------------

NothingAnnounced == [blocks |-> 0, size |-> 0]

ImageInit ==
    /\ upload = "idle"
    /\ unread \in 0..MaxLength
    /\ announced = NothingAnnounced
    /\ stored = <<>>
    /\ uploads = 0

\* Mutant: a last block that is not full is not counted.
fullBlocks(length) == length \div blockSize

blockCount(length) == (length + blockSize - 1) \div blockSize

UploadProfileImage ==
    /\ upload \in {"idle", "published"}
    /\ uploads < MaxUploads
    /\ uploads' = uploads + 1
    /\ announced' = NothingAnnounced
    /\ stored' = <<>>
    /\ upload' = IF unread > maxProfileImageSize THEN "idle" ELSE "create"
    /\ UNCHANGED unread

\* profileUploadURL: a session with an URL for the blocks and one to publish.
UploadCreated ==
    /\ upload = "create"
    /\ announced' = [blocks |-> blockCount(unread), size |-> unread]
    /\ upload' = "blocks"
    /\ UNCHANGED <<unread, stored, uploads>>

\* uploadBlock: the service says that it has the next block.
BlockUploaded ==
    /\ upload = "blocks"
    /\ unread > 0
    /\ LET size == Min({blockSize, unread})
       IN  /\ stored' = Append(stored, size)
           /\ unread' = unread - size
    /\ UNCHANGED <<upload, announced, uploads>>

\* It fails; any part of the block has been read, and the service may have it
\* all the same.
BlockFails ==
    /\ upload = "blocks"
    /\ unread > 0
    /\ LET size == Min({blockSize, unread})
       IN  \/ \E read \in 0..size : unread' = unread - read /\ UNCHANGED stored
           \/ unread' = unread - size /\ stored' = Append(stored, size)
    /\ upload' = "idle"
    /\ UNCHANGED <<announced, uploads>>

\* The loop ends, and the request to publish is sent.
PublishBegins ==
    /\ upload = "blocks"
    /\ unread = 0
    /\ upload' = "publish"
    /\ UNCHANGED <<unread, announced, stored, uploads>>

Published ==
    /\ upload = "publish"
    /\ upload' = "published"
    /\ UNCHANGED <<unread, announced, stored, uploads>>

\* The session cannot be created, or the image not be published.
UploadFails ==
    /\ upload \in {"create", "publish"}
    /\ upload' = "idle"
    /\ UNCHANGED <<unread, announced, stored, uploads>>

\* The application passes another reader.
ReaderIsReplaced ==
    /\ upload \in {"idle", "published"}
    /\ uploads < MaxUploads
    /\ unread' \in 0..MaxLength
    /\ UNCHANGED <<upload, announced, stored, uploads>>

ImageNext ==
    \/ UploadProfileImage \/ UploadCreated \/ BlockUploaded \/ BlockFails
    \/ PublishBegins \/ Published \/ UploadFails \/ ReaderIsReplaced

ImageSpec == ImageInit /\ [][ImageNext]_imageVars

-----------------------------------------------------------------------------

\* An image is published when the service has the announced number of blocks,
\* none of them empty or larger than a block may be, which make up the announced
\* size: no upload that stopped half-way is published, whatever the size and
\* wherever an earlier one of the same reader has failed.
\* About: UploadProfileImage, whose loop must agree with the count that was
\* announced before it ("Media content larger than this limit is split into
\* multiple blocks when uploaded", blockSize).
PublishedIsComplete ==
    upload \in {"publish", "published"} =>
        /\ Len(stored) = announced.blocks
        /\ \A i \in DOMAIN stored : stored[i] \in 1..blockSize
        /\ FoldLeft(+, 0, stored) = announced.size
=============================================================================
