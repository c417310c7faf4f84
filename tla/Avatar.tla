-------------------------------- MODULE Avatar ---------------------------------
(***************************************************************************)
(* Avatars in the storage service: one file for each user, which an upload *)
(* empties and then fills part by part, while others do the same.          *)
(*                                                                         *)
(* UploadAvatar reads the whole form before it touches the file: what is   *)
(* cut off, of another type or of nobody changes nothing, and is no step   *)
(* here.  A disk that is full, a limit of time or a crash ends an upload   *)
(* where it is.                                                            *)
(***************************************************************************)
EXTENDS Naturals, Sequences

CONSTANTS
    Owners,           \* users
    Pictures,
    Length,           \* of a picture, in the parts that io.Copy writes
    Uploads,          \* slots for requests under way
    NoPicture

ASSUME AvatarAssumption ==
    /\ Length \in [Pictures -> Nat \ {0}]
    /\ NoPicture \notin Pictures

VARIABLES
    file,             \* the contents of the files; one that is missing is empty
    upload,           \* what each request is doing
    kept              \* history: the picture that the upload which emptied the file last
                      \* has written to its end, if all that it overlapped send the same

avatarVars == <<file, upload, kept>>

NoUpload == [pc |-> "none"]

Part(p, i) == [picture |-> p, part |-> i]

Whole(p) == [i \in 1 .. Length[p] |-> Part(p, i)]

\* What a file holds where nobody has written.
Gap == [picture |-> NoPicture]

\* A write at offset i, whoever has made the file longer or shorter.
WriteAt(f, i, part) ==
    [j \in 1 .. (IF i > Len(f) THEN i ELSE Len(f)) |->
        IF j = i THEN part ELSE IF j <= Len(f) THEN f[j] ELSE Gap]

AvatarInit ==
    /\ file = [u \in Owners |-> <<>>]
    /\ upload = [r \in Uploads |-> NoUpload]
    /\ kept = [u \in Owners |-> NoPicture]

Of(r, u) == upload[r] # NoUpload /\ upload[r].owner = u

\* The form has been read.
UploadAvatar(r, u, p) ==
    /\ upload[r] = NoUpload
    /\ upload' = [upload EXCEPT ![r] = [pc |-> "Create", owner |-> u, picture |-> p]]
    /\ UNCHANGED <<file, kept>>

\* Copying from the first part on.  The upload agrees with the others that are at the
\* file if they send the same picture; none of them is the last to empty the file now.
StartCopy(r) ==
    LET u == upload[r].owner
        p == upload[r].picture
        copying == {q \in Uploads \ {r} : Of(q, u) /\ upload[q].pc = "Copy"}
    IN  /\ upload' = [q \in Uploads |->
                         IF q = r THEN [pc |-> "Copy", owner |-> u, picture |-> p, next |-> 1,
                                        agreed |-> \A o \in copying : upload[o].picture = p]
                         ELSE IF q \in copying THEN [upload[q] EXCEPT !.agreed = FALSE]
                         ELSE upload[q]]
        /\ kept' = [kept EXCEPT ![u] = NoPicture]

\* Mutant: the file is opened without O_TRUNC.
CreateUntruncated(r) ==
    /\ upload[r].pc = "Create"
    /\ StartCopy(r)
    /\ UNCHANGED file

\* os.Create
Create(r) ==
    /\ upload[r].pc = "Create"
    /\ StartCopy(r)
    /\ file' = [file EXCEPT ![upload[r].owner] = <<>>]

\* The next part is part i of the file now; after the last the answer is 200.
Written(r, i) ==
    LET up == upload[r]
        last == up.next = Length[up.picture]
    IN  /\ file' = [file EXCEPT ![up.owner] = WriteAt(@, i, Part(up.picture, up.next))]
        /\ upload' = [upload EXCEPT ![r] =
                         IF last THEN NoUpload ELSE [up EXCEPT !.next = @ + 1]]
        /\ kept' = [kept EXCEPT ![up.owner] = IF last /\ up.agreed THEN up.picture ELSE @]

\* Mutant: the file is opened with O_APPEND.
CopyAppends(r) ==
    /\ upload[r].pc = "Copy"
    /\ Written(r, Len(file[upload[r].owner]) + 1)

\* io.Copy writes the next part at the offset of this upload.
Copy(r) ==
    /\ upload[r].pc = "Copy"
    /\ Written(r, upload[r].next)

\* The upload ends with an error, or with the service.
StopUpload(r) ==
    /\ upload[r] # NoUpload
    /\ upload' = [upload EXCEPT ![r] = NoUpload]
    /\ UNCHANGED <<file, kept>>

AvatarNext ==
    \E r \in Uploads :
        \/ \E u \in Owners, p \in Pictures : UploadAvatar(r, u, p)
        \/ Create(r)
        \/ Copy(r)
        \/ StopUpload(r)

AvatarSpec == AvatarInit /\ [][AvatarNext]_avatarVars

-------------------------------------------------------------------------------

\* The upload that emptied a user's file last has gone through, and all that it
\* overlapped sent the same picture, as a repetition does of an upload that is still
\* going on: then the file is that picture, all of it and nothing else, also while the
\* others still write, after they failed, and whatever longer, failed and mixed ones left
\* before.  The next upload ends that.
AvatarKept ==
    \A u \in Owners : kept[u] # NoPicture => file[u] = Whole(kept[u])
===============================================================================
