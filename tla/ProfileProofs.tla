----------------------------- MODULE ProfileProofs -----------------------------
(***************************************************************************)
(* Theorems about what a profile page rests on, each for any value of the  *)
(* constants of its module: the client of the database (PostgresClient),   *)
(* pictures (Avatar) and names (Profile).                                  *)
(***************************************************************************)
EXTENDS Profile, PostgresClient, Avatar, TLAPS

-------------------------------------------------------------------------------
(* The client of the database.                                             *)

ClientInv == ClientTypeOK /\ OnePool

LEMMA ClientInductive == ClientInv /\ [ClientNext]_clientVars => ClientInv'
<1> SUFFICES ASSUME ClientInv, [ClientNext]_clientVars
             PROVE  ClientInv'
  OBVIOUS
<1> USE DEF ClientInv, ClientTypeOK, OnePool
<1>1. CASE Connect
  <2>1. db' \in Pools
    BY <1>1 DEF Connect
  <2> QED
    BY <1>1, <2>1 DEF Connect
<1>2. CASE Ping \/ CloseDb
  BY <1>2 DEF Ping, CloseDb
<1>3. ASSUME NEW s \in Statements, Begin(s) \/ End(s)
      PROVE  ClientInv'
  BY <1>3 DEF Begin, End
<1>4. CASE Server
  BY <1>4 DEF Server
<1>5. CASE UNCHANGED clientVars
  BY <1>5 DEF clientVars
<1> QED
  BY <1>1, <1>2, <1>3, <1>4, <1>5 DEF ClientNext, Monitor

LEMMA ClientAlways == ClientSpec => []ClientInv
<1>1. ClientInit => ClientInv
  BY DEF ClientInit, ClientInv, ClientTypeOK, OnePool
<1> QED
  BY <1>1, ClientInductive, PTL DEF ClientSpec

\* monitorConnection pings, and closes, a pool that there is: the field is not nil any
\* more once it was set.
THEOREM ClientTypeCorrect == ClientSpec => []ClientTypeOK
<1>1. ClientInv => ClientTypeOK
  BY DEF ClientInv
<1> QED
  BY <1>1, ClientAlways, PTL

\* Connect and monitorConnection replace the pool without losing one: however often the
\* server goes away, only the pool of the field db is open.
THEOREM OnePoolOpen == ClientSpec => []OnePool
<1>1. ClientInv => OnePool
  BY DEF ClientInv
<1> QED
  BY <1>1, ClientAlways, PTL

-------------------------------------------------------------------------------
(* Pictures.                                                               *)

Parts == [picture : Pictures, part : Nat \ {0}] \cup {Gap}

UploadState ==
    {NoUpload}
    \cup [pc : {"Create"}, owner : Owners, picture : Pictures]
    \cup [pc : {"Copy"}, owner : Owners, picture : Pictures, next : Nat \ {0}, agreed : BOOLEAN]

\* The uploads that are writing to the file of user u.
Copying(u) == {r \in Uploads : upload[r] # NoUpload /\ upload[r].pc = "Copy" /\ upload[r].owner = u}

AvatarTypeInv ==
    /\ file \in [Owners -> Seq(Parts)]
    /\ upload \in [Uploads -> UploadState]
    /\ kept \in [Owners -> Pictures \cup {NoPicture}]

\* A file that is a copy of p as far as part n, and from there on, in its places, parts
\* of p with gaps between them.
Copies(f, p, n) ==
    /\ n <= Len(f) /\ Len(f) <= Length[p]
    /\ \A i \in 1 .. Len(f) : f[i] = Part(p, i) \/ (f[i] = Gap /\ i > n)

\* All who write to the file of u send the picture p.
AllSend(u, p) == \A q \in Copying(u) : upload[q].picture = p

\* No upload runs past the end of its picture.
WithinPicture == \A u \in Owners : \A r \in Copying(u) : upload[r].next <= Length[upload[r].picture]

\* The upload that emptied the file last has written the parts before the next one, if it
\* agrees with the others; where they are ahead of it they have left parts of the same
\* picture and gaps.
AgreedCopies ==
    \A u \in Owners : \A r \in Copying(u) :
        upload[r].agreed =>
            /\ AllSend(u, upload[r].picture)
            /\ Copies(file[u], upload[r].picture, upload[r].next - 1)

\* Who still writes to a file that is kept writes what is there.
KeptCopies ==
    \A u \in Owners :
        kept[u] # NoPicture => AllSend(u, kept[u]) /\ Copies(file[u], kept[u], Length[kept[u]])

AvatarInv == AvatarTypeInv /\ WithinPicture /\ AgreedCopies /\ KeptCopies

\* A write keeps a file a sequence of parts.
LEMMA WriteKeeps ==
    ASSUME NEW f \in Seq(Parts), NEW i \in Nat \ {0}, NEW part \in Parts
    PROVE  WriteAt(f, i, part) \in Seq(Parts)
<1> DEFINE n == IF i > Len(f) THEN i ELSE Len(f)
<1>1. Gap \in Parts
  BY DEF Parts
<1>2. n \in Nat /\ Len(f) \in Nat
  OBVIOUS
<1>3. \A j \in 1 .. n : (IF j = i THEN part ELSE IF j <= Len(f) THEN f[j] ELSE Gap) \in Parts
  BY <1>1
<1>4. WriteAt(f, i, part) \in [1 .. n -> Parts]
  BY <1>3 DEF WriteAt
<1> QED
  BY <1>2, <1>4

\* To write a part of p in its place never makes less of a copy of p, and makes more of
\* it at its end.
LEMMA WriteCopies ==
    ASSUME NEW f \in Seq(Parts), NEW p \in Pictures, NEW n \in Nat, NEW i \in 1 .. Length[p],
           Copies(f, p, n)
    PROVE  /\ Copies(WriteAt(f, i, Part(p, i)), p, n)
           /\ i = n + 1 => Copies(WriteAt(f, i, Part(p, i)), p, i)
<1> DEFINE m == IF i > Len(f) THEN i ELSE Len(f)
           g == WriteAt(f, i, Part(p, i))
<1>1. /\ Length[p] \in Nat /\ Len(f) \in Nat /\ i \in Nat
      /\ n <= Len(f) /\ Len(f) <= Length[p]
      /\ \A j \in 1 .. Len(f) : f[j] = Part(p, j) \/ (f[j] = Gap /\ j > n)
  BY AvatarAssumption DEF Copies
<1>2. g = [j \in 1 .. m |-> IF j = i THEN Part(p, i) ELSE IF j <= Len(f) THEN f[j] ELSE Gap]
  BY DEF WriteAt
<1>3. m \in Nat /\ n <= m /\ i <= m /\ m <= Length[p] /\ (m = i \/ m = Len(f))
  BY <1>1
<1>4. Len(g) = m
  BY <1>2, <1>3
<1>5. \A j \in 1 .. m : g[j] = Part(p, j) \/ (g[j] = Gap /\ j > n /\ j # i)
  <2> TAKE j \in 1 .. m
  <2>1. CASE j = i
    BY <1>2, <2>1
  <2>2. CASE j # i /\ j <= Len(f)
    BY <1>1, <1>2, <2>2
  <2>3. CASE j # i /\ j > Len(f)
    BY <1>1, <1>2, <2>3
  <2> QED
    BY <1>1, <2>1, <2>2, <2>3
<1> HIDE DEF g, m
<1>6. Copies(g, p, n)
  BY <1>3, <1>4, <1>5 DEF Copies
<1>7. ASSUME i = n + 1
      PROVE  Copies(g, p, i)
  BY <1>1, <1>3, <1>4, <1>5, <1>7 DEF Copies
<1> QED
  BY <1>6, <1>7 DEF g

\* A copy as far as the last part is the picture.
LEMMA CopyIsWhole ==
    ASSUME NEW f \in Seq(Parts), NEW p \in Pictures, Copies(f, p, Length[p])
    PROVE  f = Whole(p)
<1>1. Length[p] \in Nat /\ Len(f) \in Nat
  BY AvatarAssumption
<1>2. Len(f) = Length[p] /\ \A i \in 1 .. Len(f) : f[i] = Part(p, i)
  BY <1>1 DEF Copies
<1>3. f = [i \in 1 .. Len(f) |-> f[i]]
  OBVIOUS
<1> QED
  BY <1>2, <1>3 DEF Whole

LEMMA AvatarInitOK == AvatarInit => AvatarInv
<1> SUFFICES ASSUME AvatarInit
             PROVE  AvatarInv
  OBVIOUS
<1>1. <<>> \in Seq(Parts)
  OBVIOUS
<1>2. AvatarTypeInv
  BY <1>1, Zenon DEF AvatarInit, AvatarTypeInv, UploadState
<1>3. \A u \in Owners : Copying(u) = {}
  BY DEF AvatarInit, Copying
<1>4. \A u \in Owners : kept[u] = NoPicture
  BY DEF AvatarInit
<1> QED
  BY <1>2, <1>3, <1>4 DEF AvatarInv, WithinPicture, AgreedCopies, KeptCopies

\* What a step needs to know of the request it is about.
LEMMA UploadFields ==
    ASSUME AvatarTypeInv, NEW r \in Uploads, upload[r] # NoUpload
    PROVE  /\ upload[r].owner \in Owners
           /\ upload[r].picture \in Pictures
           /\ upload[r].pc = "Copy" => /\ upload[r].next \in Nat \ {0}
                                       /\ upload[r].agreed \in BOOLEAN
<1>1. upload[r] \in UploadState
  BY DEF AvatarTypeInv
<1>2. CASE upload[r] \in [pc : {"Create"}, owner : Owners, picture : Pictures]
  BY <1>2
<1>3. CASE upload[r] \in [pc : {"Copy"}, owner : Owners, picture : Pictures,
                          next : Nat \ {0}, agreed : BOOLEAN]
  BY <1>3
<1> QED
  BY <1>1, <1>2, <1>3 DEF UploadState

\* The form that was read, and the end of a request, write to no file.
LEMMA UploadAvatarKeeps ==
    ASSUME AvatarInv, NEW r \in Uploads, NEW u \in Owners, NEW p \in Pictures,
           UploadAvatar(r, u, p)
    PROVE  AvatarInv'
<1> USE DEF AvatarInv
<1> DEFINE form == [pc |-> "Create", owner |-> u, picture |-> p]
<1>1. form \in UploadState
  BY DEF UploadState
<1>2. /\ upload' = [upload EXCEPT ![r] = form]
      /\ file' = file
      /\ kept' = kept
      /\ upload[r] = NoUpload
  BY DEF UploadAvatar
<1>3. AvatarTypeInv'
  BY <1>1, <1>2, Zenon DEF AvatarTypeInv
<1>4. upload'[r].pc = "Create" /\ \A q \in Uploads \ {r} : upload'[q] = upload[q]
  BY <1>2 DEF AvatarTypeInv
<1>5. \A v \in Owners : Copying(v)' = Copying(v) /\ r \notin Copying(v)
  BY <1>2, <1>4 DEF Copying
<1>6. \A v \in Owners : \A q \in Copying(v) : upload'[q] = upload[q]
  BY <1>4, <1>5 DEF Copying
<1>7. \A v \in Owners : \A o : AllSend(v, o)' <=> AllSend(v, o)
  BY <1>5, <1>6 DEF AllSend
<1>8. WithinPicture' /\ AgreedCopies'
  BY <1>2, <1>5, <1>6, <1>7 DEF WithinPicture, AgreedCopies
<1> QED
  BY <1>2, <1>3, <1>7, <1>8 DEF KeptCopies

LEMMA StopUploadKeeps ==
    ASSUME AvatarInv, NEW r \in Uploads, StopUpload(r)
    PROVE  AvatarInv'
<1> USE DEF AvatarInv
<1>1. /\ upload' = [upload EXCEPT ![r] = NoUpload]
      /\ file' = file
      /\ kept' = kept
  BY DEF StopUpload
<1>2. AvatarTypeInv'
  BY <1>1, Zenon DEF AvatarTypeInv, UploadState
<1>3. upload'[r] = NoUpload /\ \A q \in Uploads \ {r} : upload'[q] = upload[q]
  BY <1>1 DEF AvatarTypeInv
<1>4. \A v \in Owners : Copying(v)' = Copying(v) \ {r}
  BY <1>3 DEF Copying
<1>5. \A v \in Owners : \A q \in Copying(v)' : q \in Copying(v) /\ upload'[q] = upload[q]
  BY <1>3, <1>4 DEF Copying
<1>6. \A v \in Owners : \A o : AllSend(v, o) => AllSend(v, o)'
  BY <1>5 DEF AllSend
<1>7. WithinPicture' /\ AgreedCopies'
  BY <1>1, <1>5, <1>6 DEF WithinPicture, AgreedCopies
<1> QED
  BY <1>1, <1>2, <1>6, <1>7 DEF KeptCopies

\* An upload that empties the file agrees with the others if it sends what they send; none
\* of them does from then on.
LEMMA CreateKeeps ==
    ASSUME AvatarInv, NEW r \in Uploads, Create(r)
    PROVE  AvatarInv'
<1> USE DEF AvatarInv
<1> DEFINE u == upload[r].owner
           copying == {q \in Uploads \ {r} : Of(q, u) /\ upload[q].pc = "Copy"}
           new == [pc |-> "Copy", owner |-> u, picture |-> upload[r].picture,
                   next |-> 1, agreed |-> \A o \in copying : upload[o].picture = upload[r].picture]
<1>1. upload[r].pc = "Create" /\ upload[r] # NoUpload
  BY DEF Create, NoUpload
<1>2. u \in Owners /\ upload[r].picture \in Pictures
  BY <1>1, UploadFields
<1>3. new \in UploadState
  <2>1. new \in [pc : {"Copy"}, owner : Owners, picture : Pictures,
                 next : Nat \ {0}, agreed : BOOLEAN]
    <3>1. 1 \in Nat \ {0}
      OBVIOUS
    <3> QED
      BY <1>2, <3>1, Zenon
  <2> QED
    BY <2>1 DEF UploadState
<1>4. /\ upload' = [q \in Uploads |-> IF q = r THEN new
                                      ELSE IF q \in copying
                                           THEN [upload[q] EXCEPT !.agreed = FALSE]
                                      ELSE upload[q]]
      /\ kept' = [kept EXCEPT ![u] = NoPicture]
      /\ file' = [file EXCEPT ![u] = <<>>]
  BY DEF Create, StartCopy
<1>5. /\ upload'[r] = new
      /\ \A q \in copying : upload'[q] = [upload[q] EXCEPT !.agreed = FALSE]
      /\ \A q \in Uploads \ ({r} \cup copying) : upload'[q] = upload[q]
  BY <1>4
<1>6. \A q \in copying : /\ q # r
                         /\ upload'[q] \in UploadState
                         /\ upload'[q].pc = "Copy"
                         /\ upload'[q].owner = u
                         /\ ~upload'[q].agreed
                         /\ upload'[q] # NoUpload
  <2> SUFFICES ASSUME NEW q \in copying
               PROVE  /\ q # r
                      /\ upload'[q] \in UploadState
                      /\ upload'[q].pc = "Copy"
                      /\ upload'[q].owner = u
                      /\ ~upload'[q].agreed
                      /\ upload'[q] # NoUpload
    OBVIOUS
  <2>1. /\ q \in Uploads
        /\ q # r
        /\ upload[q] # NoUpload
        /\ upload[q].owner = u
        /\ upload[q].pc = "Copy"
    BY DEF Of
  <2>2. upload[q] \in [pc : {"Copy"}, owner : Owners, picture : Pictures,
                       next : Nat \ {0}, agreed : BOOLEAN]
    BY <2>1 DEF AvatarTypeInv, UploadState
  <2>3. upload'[q] \in [pc : {"Copy"}, owner : Owners, picture : Pictures,
                        next : Nat \ {0}, agreed : BOOLEAN]
    BY <1>5, <2>2
  <2>4. upload'[q].owner = u /\ upload'[q].agreed = FALSE
    BY <1>5, <2>1, <2>2
  <2>5. upload'[q].pc = "Copy"
    BY <2>3
  <2>6. upload'[q] # NoUpload
    BY <2>5 DEF NoUpload
  <2> QED
    BY <2>1, <2>3, <2>4, <2>5, <2>6, Zenon DEF UploadState
<1>7. /\ new.pc = "Copy"
      /\ new.owner = u
      /\ new.picture = upload[r].picture
      /\ new.next = 1
      /\ new # NoUpload
  BY Zenon DEF NoUpload
<1>8. new.agreed => \A o \in copying : upload[o].picture = upload[r].picture
  BY Zenon
<1> HIDE DEF new
<1>9. AvatarTypeInv'
  <2>1. \A q \in Uploads : upload'[q] \in UploadState
    BY <1>3, <1>5, <1>6 DEF AvatarTypeInv
  <2>2. upload' \in [Uploads -> UploadState]
    BY <1>4, <2>1
  <2>3. <<>> \in Seq(Parts)
    OBVIOUS
  <2>4. file' \in [Owners -> Seq(Parts)]
    BY <1>2, <1>4, <2>3, Zenon DEF AvatarTypeInv
  <2>5. kept' \in [Owners -> Pictures \cup {NoPicture}]
    BY <1>4 DEF AvatarTypeInv
  <2> QED
    BY <2>2, <2>4, <2>5 DEF AvatarTypeInv
<1>10. /\ copying = Copying(u)
       /\ \A v \in Owners : Copying(v)' = IF v = u THEN Copying(v) \cup {r} ELSE Copying(v)
  <2>1. copying = Copying(u)
    BY <1>1 DEF Copying, Of
  <2> HIDE DEF copying
  <2>2. ASSUME NEW v \in Owners
        PROVE  Copying(v)' = IF v = u THEN Copying(v) \cup {r} ELSE Copying(v)
    <3>1. \A q \in Uploads :
             q \in Copying(v)' <=> q \in Copying(v) \/ (v = u /\ q = r)
      BY <1>1, <1>5, <1>6, <1>7, <2>1 DEF Copying
    <3> QED
      BY <3>1 DEF Copying
  <2> QED
    BY <2>1, <2>2
<1>11. ASSUME NEW v \in Owners, v # u
       PROVE  /\ file'[v] = file[v] /\ kept'[v] = kept[v]
              /\ Copying(v)' = Copying(v)
              /\ \A q \in Copying(v) : upload'[q] = upload[q]
              /\ \A o : AllSend(v, o) => AllSend(v, o)'
  <2>1. file'[v] = file[v] /\ kept'[v] = kept[v] /\ Copying(v)' = Copying(v)
    BY <1>4, <1>10, <1>11 DEF AvatarTypeInv
  <2>2. \A q \in Copying(v) : q # r /\ q \notin copying
    BY <1>1, <1>11 DEF Copying, Of
  <2>3. \A q \in Copying(v) : upload'[q] = upload[q]
    BY <1>5, <2>2 DEF Copying
  <2> QED
    BY <2>1, <2>3 DEF AllSend
<1>12. ASSUME NEW v \in Owners, v = u
       PROVE  /\ file'[v] = <<>> /\ kept'[v] = NoPicture
              /\ \A q \in Copying(v)' : q = r \/ q \in copying
  <2>1. file'[v] = <<>> /\ kept'[v] = NoPicture
    BY <1>4, <1>12 DEF AvatarTypeInv
  <2>2. Copying(v)' = Copying(v) \cup {r} /\ copying = Copying(v)
    BY <1>10, <1>12
  <2> HIDE DEF copying, u
  <2> QED
    BY <2>1, <2>2
<1>13. \A q \in copying : /\ upload'[q].picture = upload[q].picture
                          /\ upload'[q].next = upload[q].next
  <2> TAKE q \in copying
  <2>1. q \in Copying(u)
    BY <1>10
  <2>2. upload[q] \in [pc : {"Copy"}, owner : Owners, picture : Pictures,
                       next : Nat \ {0}, agreed : BOOLEAN]
    BY <2>1 DEF AvatarTypeInv, UploadState, Copying
  <2> QED
    BY <1>5, <2>2
<1>14. WithinPicture'
  <2> SUFFICES ASSUME NEW v \in Owners, NEW q \in Copying(v)'
               PROVE  upload'[q].next <= Length[upload'[q].picture]
    BY DEF WithinPicture
  <2>1. CASE v # u
    BY <1>11, <2>1 DEF WithinPicture
  <2>2. CASE v = u /\ q \in copying
    BY <1>2, <1>10, <1>13, <2>2 DEF WithinPicture
  <2>3. CASE v = u /\ q = r
    BY <1>2, <1>5, <1>7, <2>3, AvatarAssumption
  <2> QED
    BY <1>12, <2>1, <2>2, <2>3
<1>15. AgreedCopies'
  <2> SUFFICES ASSUME NEW v \in Owners, NEW q \in Copying(v)', upload'[q].agreed
               PROVE  /\ \A o \in Copying(v)' : upload'[o].picture = upload'[q].picture
                      /\ Copies(file'[v], upload'[q].picture, upload'[q].next - 1)
    BY DEF AgreedCopies, AllSend
  <2>1. CASE v # u
    BY <1>11, <2>1 DEF AgreedCopies, AllSend
  <2>2. CASE v = u
    <3>1. q = r
      BY <1>6, <1>12, <2>2
    <3>2. upload'[q].picture = upload[r].picture /\ upload'[q].next = 1
      BY <1>5, <1>7, <3>1
    <3>3. \A o \in Copying(v)' : upload'[o].picture = upload[r].picture
      BY <1>5, <1>7, <1>8, <1>12, <1>13, <2>2, <3>1
    <3>4. Copies(<<>>, upload[r].picture, 0)
      BY <1>2, AvatarAssumption DEF Copies
    <3> QED
      BY <1>12, <2>2, <3>2, <3>3, <3>4
  <2> QED
    BY <2>1, <2>2
<1>16. KeptCopies'
  <2> SUFFICES ASSUME NEW v \in Owners, kept'[v] # NoPicture
               PROVE  /\ \A o \in Copying(v)' : upload'[o].picture = kept'[v]
                      /\ Copies(file'[v], kept'[v], Length[kept'[v]])
    BY DEF KeptCopies, AllSend
  <2>1. v # u
    BY <1>12
  <2> QED
    BY <1>11, <2>1 DEF KeptCopies, AllSend
<1> QED
  BY <1>9, <1>14, <1>15, <1>16

\* Each writes its part in its place: if it agrees, at the end of what it has copied; and
\* a part of the same picture, if another one agrees or the file is kept.
LEMMA CopyKeeps ==
    ASSUME AvatarInv, NEW r \in Uploads, Copy(r)
    PROVE  AvatarInv'
<1> USE DEF AvatarInv
<1>1. upload[r].pc = "Copy" /\ upload[r] # NoUpload
  BY DEF Copy, NoUpload
<1> DEFINE q0 == upload[r].owner
           p0 == upload[r].picture
           n0 == upload[r].next
           last0 == n0 = Length[p0]
<1>2. PICK u \in Owners, p \in Pictures, n \in Nat \ {0}, last \in BOOLEAN :
         u = q0 /\ p = p0 /\ n = n0 /\ (last <=> last0)
  <2>1. q0 \in Owners /\ p0 \in Pictures /\ n0 \in Nat \ {0} /\ last0 \in BOOLEAN
    BY <1>1, UploadFields
  <2> QED
    BY <2>1, Zenon
<1>3. r \in Copying(u)
  BY <1>1, <1>2 DEF Copying
<1>4. /\ file' = [file EXCEPT ![u] = WriteAt(@, n, Part(p, n))]
      /\ upload' = [upload EXCEPT ![r] = IF last THEN NoUpload ELSE [upload[r] EXCEPT !.next = @ + 1]]
      /\ kept' = [kept EXCEPT ![u] = IF last /\ upload[r].agreed THEN p ELSE @]
  BY <1>2 DEF Copy, Written
<1>5. upload[r] \in [pc : {"Copy"}, owner : Owners, picture : Pictures,
                     next : Nat \ {0}, agreed : BOOLEAN]
  BY <1>1 DEF AvatarTypeInv, UploadState
<1> DEFINE new == [upload[r] EXCEPT !.next = @ + 1]
<1>6. /\ new \in UploadState
      /\ new.pc = "Copy"
      /\ new # NoUpload
      /\ new.owner = u
      /\ new.picture = p
      /\ new.next = n + 1
      /\ new.agreed = upload[r].agreed
  <2>1. upload[r].next + 1 \in Nat \ {0}
    BY <1>5
  <2>2. new \in [pc : {"Copy"}, owner : Owners, picture : Pictures,
                 next : Nat \ {0}, agreed : BOOLEAN]
    BY <1>5, <2>1
  <2>3. new.pc = "Copy"
    BY <2>2
  <2>4. new # NoUpload
    BY <2>3 DEF NoUpload
  <2> QED
    BY <1>2, <1>5, <2>2, <2>3, <2>4 DEF UploadState
<1> HIDE DEF new
<1>7. /\ upload'[r] = IF last THEN NoUpload ELSE new
      /\ \A q \in Uploads \ {r} : upload'[q] = upload[q]
      /\ file'[u] = WriteAt(file[u], n, Part(p, n))
      /\ \A v \in Owners \ {u} : file'[v] = file[v] /\ kept'[v] = kept[v]
      /\ kept'[u] = IF last /\ upload[r].agreed THEN p ELSE kept[u]
  BY <1>4 DEF AvatarTypeInv, new
<1>8. file[u] \in Seq(Parts) /\ Part(p, n) \in Parts
  BY DEF AvatarTypeInv, Part, Parts
<1>9. AvatarTypeInv'
  <2>1. upload' \in [Uploads -> UploadState]
    BY <1>4, <1>6, Zenon DEF AvatarTypeInv, UploadState, new
  <2>2. WriteAt(file[u], n, Part(p, n)) \in Seq(Parts)
    BY <1>8, WriteKeeps
  <2>3. file' \in [Owners -> Seq(Parts)]
    BY <1>4, <2>2, Zenon DEF AvatarTypeInv
  <2>4. kept' \in [Owners -> Pictures \cup {NoPicture}]
    BY <1>4 DEF AvatarTypeInv
  <2> QED
    BY <2>1, <2>3, <2>4 DEF AvatarTypeInv
<1>10. \A v \in Owners : Copying(v)' = IF v = u /\ last THEN Copying(v) \ {r} ELSE Copying(v)
  <2> SUFFICES ASSUME NEW v \in Owners
               PROVE  Copying(v)' = IF v = u /\ last THEN Copying(v) \ {r} ELSE Copying(v)
    OBVIOUS
  <2>1. \A q \in Uploads :
           q \in Copying(v)' <=> q \in Copying(v) /\ ~(v = u /\ last /\ q = r)
    BY <1>1, <1>2, <1>6, <1>7 DEF Copying
  <2> QED
    BY <2>1 DEF Copying
<1>11. \A v \in Owners : \A q \in Copying(v)' :
          /\ q \in Copying(v)
          /\ upload'[q].picture = upload[q].picture
          /\ upload'[q].agreed = upload[q].agreed
          /\ IF q = r THEN v = u /\ ~last /\ upload'[q].next = n + 1
             ELSE upload'[q].next = upload[q].next
  <2> TAKE v \in Owners
  <2> TAKE q \in Copying(v)'
  <2>1. q \in Copying(v) /\ q \in Uploads
    BY <1>10 DEF Copying
  <2>2. CASE q # r
    BY <1>7, <2>1, <2>2
  <2>3. CASE q = r
    <3>1. v = u
      BY <1>2, <2>1, <2>3 DEF Copying
    <3>2. ~last
      BY <1>10, <2>3, <3>1
    <3> QED
      BY <1>2, <1>6, <1>7, <2>1, <2>3, <3>1, <3>2
  <2> QED
    BY <2>2, <2>3
<1>12. n \in 1 .. Length[p]
  BY <1>2, <1>3, AvatarAssumption DEF WithinPicture
<1>13. WithinPicture'
  <2> SUFFICES ASSUME NEW v \in Owners, NEW q \in Copying(v)'
               PROVE  upload'[q].next <= Length[upload'[q].picture]
    BY DEF WithinPicture
  <2>1. CASE q # r
    BY <1>11, <2>1 DEF WithinPicture
  <2>2. CASE q = r
    <3>1. n # Length[p] /\ Length[p] \in Nat
      BY <1>2, <1>11, <2>2, AvatarAssumption
    <3>2. n + 1 <= Length[p]
      BY <1>12, <3>1
    <3> QED
      BY <1>2, <1>11, <2>2, <3>2
  <2> QED
    BY <2>1, <2>2
\* What the step does to a file that copies the picture of those who write to it.
<1>14. ASSUME NEW o \in Pictures, NEW m \in Nat, AllSend(u, o), Copies(file[u], o, m)
       PROVE  /\ o = p
              /\ Copies(file'[u], o, m)
              /\ n = m + 1 => Copies(file'[u], o, n)
  <2>1. o = p
    BY <1>2, <1>3, <1>14 DEF AllSend
  <2> QED
    BY <1>7, <1>8, <1>12, <1>14, <2>1, WriteCopies
<1>15. AgreedCopies'
  <2> SUFFICES ASSUME NEW v \in Owners, NEW q \in Copying(v)', upload'[q].agreed
               PROVE  /\ \A o \in Copying(v)' : upload'[o].picture = upload'[q].picture
                      /\ Copies(file'[v], upload'[q].picture, upload'[q].next - 1)
    BY DEF AgreedCopies, AllSend
  <2>1. /\ AllSend(v, upload[q].picture)
        /\ Copies(file[v], upload[q].picture, upload[q].next - 1)
    BY <1>11 DEF AgreedCopies
  <2>2. \A o \in Copying(v)' : upload'[o].picture = upload'[q].picture
    BY <1>11, <2>1 DEF AllSend
  <2>3. CASE v # u
    BY <1>7, <1>11, <2>1, <2>2, <2>3
  <2>4. CASE v = u
    <3>1. upload[q].picture \in Pictures /\ upload[q].next \in Nat \ {0}
      BY <1>11, UploadFields DEF Copying
    <3>2. upload[q].next - 1 \in Nat
      BY <3>1
    <3>3. CASE q # r
      BY <1>11, <1>14, <2>1, <2>2, <2>4, <3>1, <3>2, <3>3
    <3>4. CASE q = r
      <4>1. n = (n - 1) + 1 /\ (n + 1) - 1 = n /\ n - 1 \in Nat
        OBVIOUS
      <4>2. Copies(file'[u], p, n)
        BY <1>2, <1>14, <2>1, <2>4, <3>4, <4>1
      <4>3. upload'[q].picture = p /\ upload'[q].next - 1 = n
        BY <1>2, <1>11, <3>4, <4>1
      <4> QED
        BY <2>2, <2>4, <4>2, <4>3
    <3> QED
      BY <3>3, <3>4
  <2> QED
    BY <2>3, <2>4
<1>16. KeptCopies'
  <2> SUFFICES ASSUME NEW v \in Owners, kept'[v] # NoPicture
               PROVE  /\ \A o \in Copying(v)' : upload'[o].picture = kept'[v]
                      /\ Copies(file'[v], kept'[v], Length[kept'[v]])
    BY DEF KeptCopies, AllSend
  <2>1. CASE v # u
    BY <1>7, <1>11, <2>1 DEF KeptCopies, AllSend
  <2>2. CASE v = u /\ last /\ upload[r].agreed
    <3>1. AllSend(u, p) /\ Copies(file[u], p, n - 1)
      BY <1>2, <1>3, <2>2 DEF AgreedCopies
    <3>2. n = (n - 1) + 1 /\ n - 1 \in Nat
      OBVIOUS
    <3>3. Copies(file'[u], p, n)
      BY <1>14, <3>1, <3>2
    <3>4. kept'[v] = p /\ n = Length[p]
      BY <1>2, <1>7, <2>2
    <3> QED
      BY <1>11, <2>2, <3>1, <3>3, <3>4 DEF AllSend
  <2>3. CASE v = u /\ ~(last /\ upload[r].agreed)
    <3>1. kept'[v] = kept[u] /\ kept[u] \in Pictures
      BY <1>7, <2>3 DEF AvatarTypeInv
    <3>2. AllSend(u, kept[u]) /\ Copies(file[u], kept[u], Length[kept[u]])
      BY <2>3, <3>1 DEF KeptCopies
    <3>3. Length[kept[u]] \in Nat
      BY <3>1, AvatarAssumption
    <3> QED
      BY <1>11, <1>14, <2>3, <3>1, <3>2, <3>3 DEF AllSend
  <2> QED
    BY <2>1, <2>2, <2>3
<1> QED
  BY <1>9, <1>13, <1>15, <1>16

LEMMA AvatarInductive == AvatarInv /\ [AvatarNext]_avatarVars => AvatarInv'
<1>1. ASSUME AvatarInv, UNCHANGED avatarVars
      PROVE  AvatarInv'
  BY <1>1 DEF avatarVars, AvatarInv, AvatarTypeInv, WithinPicture, AgreedCopies, KeptCopies,
              AllSend, Copying
<1> QED
  BY <1>1, UploadAvatarKeeps, StopUploadKeeps, CreateKeeps, CopyKeeps DEF AvatarNext

\* The upload that emptied a user's file last leaves its picture and nothing else if all
\* that it overlapped send the same one, for any pictures, users and uploads: os.Create
\* cuts off what others have left, and io.Copy writes each part in its place.
THEOREM AvatarIsKept == AvatarSpec => []AvatarKept
<1>1. AvatarInv => AvatarKept
  <2> SUFFICES ASSUME AvatarInv, NEW u \in Owners, kept[u] # NoPicture
               PROVE  file[u] = Whole(kept[u])
    BY DEF AvatarKept
  <2>1. file[u] \in Seq(Parts) /\ kept[u] \in Pictures
    BY DEF AvatarInv, AvatarTypeInv
  <2>2. Copies(file[u], kept[u], Length[kept[u]])
    BY DEF AvatarInv, KeptCopies
  <2> QED
    BY <2>1, <2>2, CopyIsWhole
<1> QED
  BY <1>1, AvatarInitOK, AvatarInductive, PTL DEF AvatarSpec


-------------------------------------------------------------------------------
(* Names.                                                                  *)

\* What the requests of a tab are for: a page that is loading waits for one answer, the
\* profile of its user; a profile waits for what its viewer has saved.
RequestsFit(t) ==
    \A r \in Pending(t) :
        \/ /\ req[r].body.kind = "GetProfile"
           /\ tab[t].at = "loading"
           /\ req[r].body.id = tab[t].of
           /\ Pending(t) = {r}
        \/ /\ req[r].body.kind = "ChangeUsername"
           /\ tab[t].at = "profile"
           /\ req[r].body.id = tab[t].viewer

\* A page that is loading and has missed no change: there is none to come, and the name
\* in its answer is the one stored.
SureLoading(t) ==
    /\ Changes(tab[t].of) = {}
    /\ \A r \in Pending(t) :
          req[r].pc = "answer" /\ req[r].answer \in Names => req[r].answer = name[tab[t].of]

\* A profile that has missed no change: the only one to come is its own, and where that
\* is known to have happened, but not yet to the page, its answer says so.
SureProfile(t) ==
    LET u == tab[t].of
    IN  /\ Changes(u) \subseteq Pending(t)
        /\ Pending(t) = {} => tab[t].shown = name[u]
        /\ \A r \in Pending(t) :
              /\ Pending(t) = {r}
              /\ req[r].body.id = u
              /\ IF req[r].pc = "answer" /\ req[r].answer = "ok"
                 THEN name[u] = req[r].body.newName ELSE tab[t].shown = name[u]

TabInv(t) ==
    /\ RequestsFit(t)
    /\ t \in sure /\ tab[t].at = "loading" => SureLoading(t)
    /\ t \in sure /\ tab[t].at = "profile" => SureProfile(t)

ProfileInv == TypeOK /\ \A t \in Tabs : TabInv(t)

LEMMA BodyFields ==
    ASSUME NEW body \in Bodies
    PROVE  /\ body.id \in Users
           /\ body.kind \in {"GetProfile", "ChangeUsername"}
           /\ body.kind = "ChangeUsername" => body.newName \in Names
BY DEF Bodies, GetProfile, ChangeUsername

LEMMA ReqFields ==
    ASSUME TypeOK, NEW r \in Requests, req[r] # Idle
    PROVE  /\ req[r].pc \in {"run", "answer"}
           /\ req[r].tab \in Tabs \cup {None}
           /\ req[r].body \in Bodies
           /\ req[r].pc = "answer" => req[r].answer \in Answers
BY DEF TypeOK, ReqState

LEMMA TabFields ==
    ASSUME TypeOK, NEW t \in Tabs
    PROVE  /\ tab[t].at \in {"none", "loading", "profile"}
           /\ tab[t].at = "none" <=> tab[t] = NoPage
           /\ tab[t].at = "loading" => tab[t].of \in Users
           /\ tab[t].at = "profile" => /\ tab[t].of \in Users
                                       /\ tab[t].viewer \in Users
                                       /\ tab[t].shown \in Names
                                       /\ tab[t].input \in Names
<1>1. tab[t] \in TabState
  BY DEF TypeOK
<1>2. CASE tab[t] = NoPage
  BY <1>2 DEF NoPage
<1>3. CASE tab[t] \in [at : {"loading"}, of : Users]
  BY <1>3 DEF NoPage
<1>4. CASE tab[t] \in [at : {"profile"}, of : Users, viewer : Users, shown : Names, input : Names]
  BY <1>4 DEF NoPage
<1> QED
  BY <1>1, <1>2, <1>3, <1>4 DEF TabState

\* The three ways in which one request moves.
LEMMA SendFacts ==
    ASSUME TypeOK, NEW r \in Requests, NEW t \in Tabs, NEW body \in Bodies, Send(r, t, body)
    PROVE  /\ req' \in [Requests -> ReqState]
           /\ req'[r] # Idle
           /\ req'[r].pc = "run"
           /\ req'[r].tab = t
           /\ req'[r].body = body
           /\ \A q \in Requests \ {r} : req'[q] = req[q]
<1> DEFINE new == [pc |-> "run", tab |-> t, body |-> body]
<1>1. new \in ReqState /\ new # Idle /\ new.pc = "run" /\ new.tab = t /\ new.body = body
  BY DEF ReqState, Idle
<1>2. req' = [req EXCEPT ![r] = new]
  BY DEF Send
<1> HIDE DEF new
<1> QED
  BY <1>1, <1>2 DEF TypeOK

LEMMA AnswerFacts ==
    ASSUME TypeOK, NEW r \in Requests, req[r].pc = "run", NEW a \in Answers, Answer(r, a)
    PROVE  /\ req' \in [Requests -> ReqState]
           /\ req'[r] # Idle
           /\ req'[r].pc = "answer"
           /\ req'[r].tab = req[r].tab
           /\ req'[r].body = req[r].body
           /\ req'[r].answer = a
           /\ \A q \in Requests \ {r} : req'[q] = req[q]
<1> DEFINE new == [pc |-> "answer", tab |-> req[r].tab, body |-> req[r].body, answer |-> a]
<1>1. req[r] # Idle
  BY DEF Idle
<1>2. req[r].tab \in Tabs \cup {None} /\ req[r].body \in Bodies
  BY <1>1, ReqFields
<1>3. /\ new \in ReqState
      /\ new # Idle
      /\ new.pc = "answer"
      /\ new.tab = req[r].tab
      /\ new.body = req[r].body
      /\ new.answer = a
  BY <1>2 DEF ReqState, Idle
<1>4. req' = [req EXCEPT ![r] = new]
  BY DEF Answer
<1> HIDE DEF new
<1> QED
  BY <1>3, <1>4 DEF TypeOK

LEMMA IdleFacts ==
    ASSUME TypeOK, NEW r \in Requests, req' = [req EXCEPT ![r] = Idle]
    PROVE  /\ req' \in [Requests -> ReqState]
           /\ req'[r] = Idle
           /\ \A q \in Requests \ {r} : req'[q] = req[q]
BY Zenon DEF TypeOK, ReqState

\* A tab that a step leaves alone, with its requests, and whose user it does not rename
\* and is sent no new name.
LEMMA Unmoved ==
    ASSUME NEW t \in Tabs, TabInv(t),
           tab'[t] = tab[t],
           Pending(t)' = Pending(t),
           \A q \in Pending(t) : req'[q] = req[q],
           t \in sure' => t \in sure,
           \A u : t \in sure' /\ tab[t].at # "none" /\ u = tab[t].of =>
                      name'[u] = name[u] /\ Changes(u)' \subseteq Changes(u)
    PROVE  TabInv(t)'
<1>1. RequestsFit(t)'
  BY DEF TabInv, RequestsFit
<1>2. ASSUME t \in sure', tab'[t].at = "loading"
      PROVE  SureLoading(t)'
  <2> DEFINE u == tab[t].of
  <2>1. tab'[t].of = u /\ tab[t].at = "loading" /\ SureLoading(t)
    BY <1>2 DEF TabInv
  <2>2. \A v : v = u => name'[v] = name[v] /\ Changes(v)' = {}
    BY <1>2, <2>1 DEF SureLoading
  <2>3. Changes(tab[t].of)' = {}
    BY <2>1, <2>2
  <2>4. \A r \in Pending(t) :
           req'[r].pc = "answer" /\ req'[r].answer \in Names => req'[r].answer = name'[u]
    BY <2>1, <2>2 DEF SureLoading
  <2> QED
    BY <2>1, <2>3, <2>4 DEF SureLoading
<1>3. ASSUME t \in sure', tab'[t].at = "profile"
      PROVE  SureProfile(t)'
  <2> DEFINE u == tab[t].of
  <2>1. tab'[t].of = u /\ tab[t].at = "profile" /\ SureProfile(t)
    BY <1>3 DEF TabInv
  <2>2. \A v : v = u => name'[v] = name[v] /\ Changes(v)' \subseteq Pending(t)
    BY <1>3, <2>1 DEF SureProfile
  <2>3. Changes(tab[t].of)' \subseteq Pending(t)
    BY <2>1, <2>2
  <2> QED
    BY <2>1, <2>2, <2>3 DEF SureProfile
<1> QED
  BY <1>1, <1>2, <1>3 DEF TabInv

LEMMA OpenKeeps ==
    ASSUME ProfileInv, NEW t \in Tabs, NEW r \in Requests, Open(t, r)
    PROVE  ProfileInv'
<1> USE DEF ProfileInv
<1>1. PICK u \in Users :
         /\ Send(r, t, GetProfile(u))
         /\ tab' = [tab EXCEPT ![t] = [at |-> "loading", of |-> u]]
         /\ sure' = IF Changes(u) = {} THEN sure \cup {t} ELSE sure \ {t}
  BY DEF Open
<1>2. GetProfile(u) \in Bodies /\ GetProfile(u).kind = "GetProfile" /\ GetProfile(u).id = u
  BY DEF Bodies, GetProfile
<1>3. req[r] = Idle /\ Pending(t) = {} /\ name' = name
  BY DEF Open
<1>4. /\ req' \in [Requests -> ReqState]
      /\ req'[r] # Idle
      /\ req'[r].pc = "run"
      /\ req'[r].tab = t
      /\ req'[r].body = GetProfile(u)
      /\ \A q \in Requests \ {r} : req'[q] = req[q]
  BY <1>1, <1>2, SendFacts
<1>5. /\ tab' \in [Tabs -> TabState]
      /\ tab'[t].at = "loading"
      /\ tab'[t].of = u
      /\ \A v \in Tabs \ {t} : tab'[v] = tab[v]
  <2> DEFINE new == [at |-> "loading", of |-> u]
  <2>1. new \in TabState /\ new.at = "loading" /\ new.of = u
    BY DEF TabState
  <2> HIDE DEF new
  <2> QED
    BY <1>1, <2>1 DEF TypeOK, new
<1>6. TypeOK'
  BY <1>1, <1>3, <1>4, <1>5 DEF TypeOK
<1>7. \A v : Changes(v)' = Changes(v)
  BY <1>2, <1>3, <1>4 DEF Changes, Idle
<1>8. Pending(t)' = {r} /\ \A v \in Tabs \ {t} : Pending(v)' = Pending(v) /\ r \notin Pending(v)
  BY <1>3, <1>4 DEF Pending
<1>9. TabInv(t)'
  <2>1. RequestsFit(t)'
    BY <1>2, <1>4, <1>5, <1>8 DEF RequestsFit
  <2>2. ASSUME t \in sure'
        PROVE  SureLoading(t)'
    <3>1. Changes(u) = {}
      BY <1>1, <2>2
    <3>2. \A v : v = u => Changes(v)' = {}
      BY <1>7, <3>1
    <3>3. Changes(tab[t].of)' = {}
      BY <1>5, <3>2
    <3> QED
      BY <1>4, <1>8, <3>3 DEF SureLoading
  <2> QED
    BY <1>5, <2>1, <2>2 DEF TabInv
<1>10. ASSUME NEW v \in Tabs \ {t}
       PROVE  TabInv(v)'
  <2>1. /\ tab'[v] = tab[v]
        /\ Pending(v)' = Pending(v)
        /\ \A q \in Pending(v) : req'[q] = req[q]
        /\ v \in sure' => v \in sure
    BY <1>1, <1>4, <1>5, <1>8 DEF Pending
  <2> QED
    BY <1>3, <1>7, <2>1, Unmoved
<1> QED
  BY <1>6, <1>9, <1>10

\* The requests of a page that is gone change what they change, and are awaited by nobody.
LEMMA CloseKeeps ==
    ASSUME ProfileInv, NEW t \in Tabs, Close(t)
    PROVE  ProfileInv'
<1> USE DEF ProfileInv
<1>1. /\ tab' = [tab EXCEPT ![t] = NoPage]
      /\ req' = [r \in Requests |-> IF r \in Pending(t) THEN [req[r] EXCEPT !.tab = None]
                                    ELSE req[r]]
      /\ sure' = sure \ {t}
      /\ name' = name
  BY DEF Close
<1>2. /\ tab' \in [Tabs -> TabState]
      /\ tab'[t].at = "none"
      /\ \A v \in Tabs \ {t} : tab'[v] = tab[v]
  <2>1. NoPage \in TabState /\ NoPage.at = "none"
    BY DEF NoPage, TabState
  <2> QED
    BY <1>1, <2>1 DEF TypeOK
<1>3. ASSUME NEW r \in Requests
      PROVE  /\ req'[r] \in ReqState
             /\ r \notin Pending(t) => req'[r] = req[r]
             /\ r \in Pending(t) => req'[r].tab = None
             /\ req'[r] = Idle <=> req[r] = Idle
             /\ req'[r].pc = req[r].pc
             /\ req[r] # Idle => req'[r].body = req[r].body
  <2>1. CASE r \notin Pending(t)
    BY <1>1, <2>1 DEF TypeOK
  <2>2. CASE r \in Pending(t)
    <3>1. req'[r] = [req[r] EXCEPT !.tab = None] /\ req[r] # Idle
      BY <1>1, <2>2 DEF Pending
    <3>2. CASE req[r] \in [pc : {"run"}, tab : Tabs \cup {None}, body : Bodies]
      BY <2>2, <3>1, <3>2 DEF ReqState, Idle
    <3>3. CASE req[r] \in [pc : {"answer"}, tab : Tabs \cup {None}, body : Bodies,
                           answer : Answers]
      BY <2>2, <3>1, <3>3 DEF ReqState, Idle
    <3> QED
      BY <3>1, <3>2, <3>3 DEF TypeOK, ReqState
  <2> QED
    BY <2>1, <2>2
<1>4. TypeOK'
  <2>1. req' \in [Requests -> ReqState]
    BY <1>1, <1>3
  <2> QED
    BY <1>1, <1>2, <2>1 DEF TypeOK
<1>5. \A v : Changes(v)' = Changes(v)
  BY <1>3 DEF Changes, Idle
<1>6. None \notin Tabs
  BY ProfileAssumption
<1>7. Pending(t)' = {}
  BY <1>3, <1>6 DEF Pending
<1>8. \A v \in Tabs \ {t} : Pending(v)' = Pending(v) /\ Pending(v) \cap Pending(t) = {}
  BY <1>3, <1>6 DEF Pending
<1>9. TabInv(t)'
  BY <1>2, <1>7 DEF TabInv, RequestsFit
<1>10. ASSUME NEW v \in Tabs \ {t}
       PROVE  TabInv(v)'
  <2>1. /\ tab'[v] = tab[v]
        /\ Pending(v)' = Pending(v)
        /\ \A q \in Pending(v) : req'[q] = req[q]
        /\ v \in sure' => v \in sure
    BY <1>1, <1>2, <1>3, <1>8 DEF Pending
  <2> QED
    BY <1>1, <1>5, <2>1, Unmoved
<1> QED
  BY <1>4, <1>9, <1>10

LEMMA InputKeeps ==
    ASSUME ProfileInv, NEW t \in Tabs, NEW n \in Names, Input(t, n)
    PROVE  ProfileInv'
<1> USE DEF ProfileInv
<1>1. /\ tab' = [tab EXCEPT ![t].input = n]
      /\ UNCHANGED <<name, req, sure>>
      /\ tab[t].at = "profile"
  BY DEF Input, Edits
<1>2. tab[t] \in [at : {"profile"}, of : Users, viewer : Users, shown : Names, input : Names]
  BY <1>1 DEF TypeOK, TabState, NoPage
<1>3. /\ tab' \in [Tabs -> TabState]
      /\ tab'[t].at = "profile"
      /\ tab'[t].of = tab[t].of
      /\ tab'[t].viewer = tab[t].viewer
      /\ tab'[t].shown = tab[t].shown
      /\ \A v \in Tabs \ {t} : tab'[v] = tab[v]
  <2> DEFINE new == [tab[t] EXCEPT !.input = n]
  <2>1. /\ new \in TabState
        /\ new.at = "profile"
        /\ new.of = tab[t].of
        /\ new.viewer = tab[t].viewer
        /\ new.shown = tab[t].shown
    BY <1>2 DEF TabState
  <2>2. tab' = [tab EXCEPT ![t] = new]
    BY <1>1
  <2> HIDE DEF new
  <2> QED
    BY <2>1, <2>2 DEF TypeOK
<1>4. TypeOK'
  BY <1>1, <1>3 DEF TypeOK
<1>5. \A v : Changes(v)' = Changes(v) /\ Pending(v)' = Pending(v)
  BY <1>1 DEF Changes, Pending
<1>6. TabInv(t)'
  <2>1. RequestsFit(t)'
    BY <1>1, <1>3, <1>5 DEF TabInv, RequestsFit
  <2>2. ASSUME t \in sure
        PROVE  SureProfile(t)'
    <3>1. SureProfile(t)
      BY <1>1, <2>2 DEF TabInv
    <3>2. Changes(tab[t].of)' = Changes(tab'[t].of)
      BY <1>5
    <3> QED
      BY <1>1, <1>3, <1>5, <3>1, <3>2 DEF SureProfile
  <2> QED
    BY <1>1, <1>3, <2>1, <2>2 DEF TabInv
<1>7. ASSUME NEW v \in Tabs \ {t}
      PROVE  TabInv(v)'
  BY <1>1, <1>3, <1>5, Unmoved
<1> QED
  BY <1>4, <1>6, <1>7

\* A tab stays sure only of a change it sends itself, with no other one under way.
LEMMA SaveKeeps ==
    ASSUME ProfileInv, NEW t \in Tabs, NEW r \in Requests, Save(t, r)
    PROVE  ProfileInv'
<1> USE DEF ProfileInv
<1> DEFINE body == ChangeUsername(tab[t].viewer, tab[t].input)
<1>1. PICK u \in Users : u = tab[t].viewer
  BY TabFields DEF Save, Edits
<1>2. /\ req[r] = Idle
      /\ tab[t].at = "profile"
      /\ Send(r, t, body)
      /\ sure' = {v \in sure : /\ tab[v].of = u => v = t /\ Changes(u) \cup Pending(t) = {}
                               /\ v = t => tab[v].of = u}
      /\ name' = name
      /\ tab' = tab
  BY <1>1 DEF Save, Edits
<1>3. body \in Bodies /\ body.kind = "ChangeUsername" /\ body.id = u
  BY <1>1, <1>2, TabFields DEF Bodies, ChangeUsername
<1> HIDE DEF body
<1>4. /\ req' \in [Requests -> ReqState]
      /\ req'[r] # Idle
      /\ req'[r].pc = "run"
      /\ req'[r].tab = t
      /\ req'[r].body = body
      /\ \A q \in Requests \ {r} : req'[q] = req[q]
  BY <1>2, <1>3, SendFacts
<1>5. TypeOK'
  BY <1>2, <1>4 DEF TypeOK
<1>6. \A v : Changes(v)' = IF v = u THEN Changes(v) \cup {r} ELSE Changes(v)
  <2> TAKE v
  <2>1. \A q \in Requests : q \in Changes(v)' <=> q \in Changes(v) \/ (v = u /\ q = r)
    BY <1>2, <1>3, <1>4 DEF Changes, Idle
  <2> QED
    BY <2>1 DEF Changes
<1>7. /\ Pending(t)' = Pending(t) \cup {r}
      /\ r \notin Pending(t)
      /\ \A v \in Tabs \ {t} : Pending(v)' = Pending(v) /\ r \notin Pending(v)
  BY <1>2, <1>4 DEF Pending
<1>8. TabInv(t)'
  <2>1. RequestsFit(t)'
    BY <1>1, <1>2, <1>3, <1>4, <1>7 DEF TabInv, RequestsFit, Pending
  <2>2. ASSUME t \in sure'
        PROVE  SureProfile(t)'
    <3>1. t \in sure /\ tab[t].of = u /\ Changes(u) = {} /\ Pending(t) = {}
      BY <1>2, <2>2
    <3>2. tab[t].shown = name[u]
      BY <1>2, <3>1 DEF TabInv, SureProfile
    <3>3. Pending(t)' = {r}
      BY <1>7, <3>1
    <3>4. \A v : v = u => Changes(v)' = {r}
      BY <1>6, <3>1
    <3>5. Changes(tab[t].of)' = {r}
      BY <1>2, <3>1, <3>4
    <3> QED
      BY <1>2, <1>3, <1>4, <3>1, <3>2, <3>3, <3>5 DEF SureProfile
  <2> QED
    BY <1>2, <2>1, <2>2 DEF TabInv
<1>9. ASSUME NEW v \in Tabs \ {t}
      PROVE  TabInv(v)'
  <2>1. v \in sure' => v \in sure /\ tab[v].of # u
    BY <1>2
  <2>2. \A w : v \in sure' /\ tab[v].at # "none" /\ w = tab[v].of =>
                   name'[w] = name[w] /\ Changes(w)' \subseteq Changes(w)
    BY <1>2, <1>6, <2>1
  <2>3. \A q \in Pending(v) : req'[q] = req[q]
    BY <1>4, <1>7 DEF Pending
  <2> QED
    BY <1>2, <1>7, <2>1, <2>2, <2>3, Unmoved
<1> QED
  BY <1>5, <1>8, <1>9

\* An answer: every tab keeps its requests, and one change fewer is to come.
LEMMA AnsweredTypes ==
    ASSUME ProfileInv, NEW r \in Requests, req[r].pc = "run", NEW a \in Answers, Answer(r, a)
    PROVE  /\ \A t : Pending(t)' = Pending(t)
           /\ \A u : Changes(u)' = Changes(u) \ {r}
           /\ req[r] # Idle
<1> USE DEF ProfileInv
<1>1. req[r] # Idle
  BY DEF Idle
<1>2. /\ req'[r] # Idle
      /\ req'[r].pc = "answer"
      /\ req'[r].tab = req[r].tab
      /\ \A q \in Requests \ {r} : req'[q] = req[q]
  BY AnswerFacts
<1> QED
  BY <1>1, <1>2 DEF Pending, Changes

\* What an answer must say of the name, for the tab that waits for it and is sure.
LEMMA Answered ==
    ASSUME ProfileInv, NEW r \in Requests, req[r].pc = "run", NEW a \in Answers, Answer(r, a),
           tab' = tab, sure' \subseteq sure, name' \in [Users -> Names],
           \A u \in Users : u # req[r].body.id => name'[u] = name[u],
           req[r].body.kind = "GetProfile" =>
               /\ name' = name
               /\ a \in Names => a = name[req[r].body.id],
           req[r].body.kind = "ChangeUsername" =>
               \/ a = "ok" /\ name'[req[r].body.id] = req[r].body.newName
               \/ a # "ok" /\ name'[req[r].body.id] = name[req[r].body.id]
               \/ \A t \in sure' : tab[t].of # req[r].body.id
    PROVE  ProfileInv'
<1> USE DEF ProfileInv
<1>1. /\ req' \in [Requests -> ReqState]
      /\ req'[r] # Idle
      /\ req'[r].pc = "answer"
      /\ req'[r].tab = req[r].tab
      /\ req'[r].body = req[r].body
      /\ req'[r].answer = a
      /\ \A q \in Requests \ {r} : req'[q] = req[q]
  BY AnswerFacts
<1>2. /\ \A t : Pending(t)' = Pending(t)
      /\ \A u : Changes(u)' = Changes(u) \ {r}
      /\ req[r] # Idle
  BY AnsweredTypes
<1>3. TypeOK'
  BY <1>1 DEF TypeOK
<1> DEFINE id == req[r].body.id
<1>4. id \in Users /\ req[r].body.kind \in {"GetProfile", "ChangeUsername"}
  BY <1>2, ReqFields, BodyFields
<1> SUFFICES ASSUME NEW t \in Tabs
             PROVE  TabInv(t)'
  BY <1>3
\* Another user's name: by nobody else's request, and by none this tab waits for.
<1>5. CASE r \notin Pending(t)
  <2>1. ASSUME NEW u, t \in sure', tab[t].at # "none", u = tab[t].of
        PROVE  name'[u] = name[u]
    <3>1. u \in Users
      BY <2>1, TabFields
    <3>2. CASE id = u /\ req[r].body.kind = "ChangeUsername"
      <4>1. r \in Changes(u)
        BY <3>2 DEF Changes
      <4>2. Changes(u) \subseteq Pending(t)
        BY <2>1, TabFields DEF TabInv, SureLoading, SureProfile
      <4> QED
        BY <1>5, <4>1, <4>2
    <3> QED
      BY <1>4, <3>1, <3>2
  <2>2. \A q \in Pending(t) : req'[q] = req[q]
    BY <1>1, <1>5 DEF Pending
  <2> QED
    BY <1>2, <2>1, <2>2, Unmoved
<1>6. CASE r \in Pending(t)
  <2>1. RequestsFit(t)'
    BY <1>1, <1>2 DEF TabInv, RequestsFit, Pending
  <2>2. ASSUME t \in sure', tab[t].at = "loading"
        PROVE  SureLoading(t)'
    <3>1. req[r].body.kind = "GetProfile" /\ id = tab[t].of /\ Pending(t) = {r}
      BY <1>6, <2>2 DEF TabInv, RequestsFit
    <3>2. \A u : u = tab[t].of => Changes(u)' = {}
      BY <1>2, <2>2 DEF TabInv, SureLoading
    <3>3. Changes(tab[t].of)' = {}
      BY <3>2
    <3> QED
      BY <1>1, <1>2, <3>1, <3>3 DEF SureLoading
  <2>3. ASSUME t \in sure', tab[t].at = "profile"
        PROVE  SureProfile(t)'
    <3>1. SureProfile(t)
      BY <2>3 DEF TabInv
    <3>2. req[r].body.kind = "ChangeUsername" /\ id = tab[t].of /\ Pending(t) = {r}
      BY <1>6, <2>3, <3>1 DEF TabInv, RequestsFit, SureProfile
    <3>3. tab[t].shown = name[tab[t].of]
      BY <1>6, <3>1 DEF SureProfile
    <3>4. \A u : u = tab[t].of => Changes(u)' \subseteq {r}
      BY <1>2, <3>1, <3>2 DEF SureProfile
    <3>5. Changes(tab[t].of)' \subseteq {r}
      BY <3>4
    <3>6. IF a = "ok" THEN name'[tab[t].of] = req[r].body.newName
                      ELSE tab[t].shown = name'[tab[t].of]
      BY <2>3, <3>2, <3>3
    <3> QED
      BY <1>1, <1>2, <3>2, <3>5, <3>6 DEF SureProfile
  <2> QED
    BY <2>1, <2>2, <2>3 DEF TabInv
<1> QED
  BY <1>5, <1>6

LEMMA ServiceKeeps ==
    ASSUME ProfileInv, NEW r \in Requests,
           Fails(r) \/ GetProfileById(r) \/ UpdateUser(r) \/ UpdateUserUnheard(r)
    PROVE  ProfileInv'
<1> USE DEF ProfileInv
<1>1. req[r].pc = "run" /\ req[r] # Idle
  BY DEF Fails, GetProfileById, UpdateUser, UpdateUserUnheard, Idle
<1>2. req[r].body.id \in Users /\ (req[r].body.kind = "ChangeUsername" => req[r].body.newName \in Names)
  BY <1>1, ReqFields, BodyFields
<1>3. name \in [Users -> Names]
  BY DEF TypeOK
<1>4. {"ok", "AlreadyExists", "Internal"} \cap Names = {} /\ "Internal" # "ok" /\ "AlreadyExists" # "ok"
  BY ProfileAssumption
<1>5. CASE Fails(r)
  BY <1>1, <1>3, <1>4, <1>5, Answered DEF Fails, Answers
<1>6. CASE GetProfileById(r)
  <2>1. name[req[r].body.id] \in Answers
    BY <1>2, <1>3 DEF Answers
  <2> QED
    BY <1>1, <1>3, <1>6, <2>1, Answered DEF GetProfileById
<1>7. CASE UpdateUser(r)
  <2>1. CASE Taken(r)
    BY <1>1, <1>3, <1>4, <1>7, <2>1, Answered DEF UpdateUser, Answers
  <2>2. CASE ~Taken(r)
    <3>1. /\ Answer(r, "ok")
          /\ name' = [name EXCEPT ![req[r].body.id] = req[r].body.newName]
          /\ req[r].body.kind = "ChangeUsername"
          /\ tab' = tab /\ sure' = sure
      BY <1>7, <2>2 DEF UpdateUser
    <3>2. /\ name' \in [Users -> Names]
          /\ name'[req[r].body.id] = req[r].body.newName
          /\ \A u \in Users : u # req[r].body.id => name'[u] = name[u]
      BY <1>2, <1>3, <3>1
    <3> QED
      BY <1>1, <3>1, <3>2, Answered DEF Answers
  <2> QED
    BY <2>1, <2>2
<1>8. CASE UpdateUserUnheard(r)
  <2>1. /\ Answer(r, "Internal")
        /\ name' = [name EXCEPT ![req[r].body.id] = req[r].body.newName]
        /\ req[r].body.kind = "ChangeUsername"
        /\ tab' = tab
        /\ sure' = {t \in sure : tab[t].of # req[r].body.id}
    BY <1>8 DEF UpdateUserUnheard
  <2>2. /\ name' \in [Users -> Names]
        /\ \A u \in Users : u # req[r].body.id => name'[u] = name[u]
    BY <1>2, <1>3, <2>1
  <2>3. sure' \subseteq sure /\ \A t \in sure' : tab[t].of # req[r].body.id
    BY <2>1
  <2> QED
    BY <1>1, <2>1, <2>2, <2>3, Answered DEF Answers
<1> QED
  BY <1>5, <1>6, <1>7, <1>8

\* A request that is over, for the tabs that did not wait for it.
LEMMA OverElsewhere ==
    ASSUME ProfileInv, NEW r \in Requests, NEW t \in Tabs,
           r \notin Pending(t),
           \A q \in Requests \ {r} : req'[q] = req[q],
           req'[r] = Idle \/ (req'[r].tab = None /\ req'[r].body = req[r].body /\ req'[r].pc = req[r].pc),
           req[r] # Idle,
           tab'[t] = tab[t], t \in sure' => t \in sure, name' = name
    PROVE  TabInv(t)'
<1> USE DEF ProfileInv
<1>1. Pending(t)' = Pending(t)
  BY ProfileAssumption DEF Pending
<1>2. \A u : Changes(u)' \subseteq Changes(u)
  BY DEF Changes, Idle
<1>3. \A q \in Pending(t) : req'[q] = req[q]
  BY DEF Pending
<1> QED
  BY <1>1, <1>2, <1>3, Unmoved

LEMMA ShowProfileKeeps ==
    ASSUME ProfileInv, NEW r \in Requests, ShowProfile(r)
    PROVE  ProfileInv'
<1> USE DEF ProfileInv
<1> DEFINE t0 == req[r].tab
           body == req[r].body
           a == req[r].answer
<1>1. req[r].pc = "answer" /\ req[r] # Idle /\ body.kind = "GetProfile" /\ t0 # None
  BY DEF ShowProfile, Idle
<1>2. PICK t \in Tabs : t = t0
  BY <1>1, ReqFields
<1>3. r \in Pending(t)
  BY <1>1, <1>2 DEF Pending
<1>4. tab[t].at = "loading" /\ body.id = tab[t].of /\ Pending(t) = {r} /\ body.id \in Users
  BY <1>1, <1>3, TabFields DEF TabInv, RequestsFit
<1>5. PICK viewer \in Users :
         tab' = [tab EXCEPT ![t] = IF a \in Names THEN Page(body.id, viewer, a) ELSE NoPage]
  BY <1>2 DEF ShowProfile, ErrorInternal
<1>6. req' = [req EXCEPT ![r] = Idle] /\ name' = name /\ sure' = sure
  BY DEF ShowProfile
<1>7. /\ req' \in [Requests -> ReqState]
      /\ req'[r] = Idle
      /\ \A q \in Requests \ {r} : req'[q] = req[q]
  BY <1>6, IdleFacts
<1> DEFINE new == IF a \in Names THEN Page(body.id, viewer, a) ELSE NoPage
<1>8. /\ new \in TabState
      /\ new.at \in {"none", "profile"}
      /\ new.at = "profile" => a \in Names /\ new.of = body.id /\ new.shown = a
  BY <1>4 DEF TabState, Page, NoPage
<1>9. tab' = [tab EXCEPT ![t] = new]
  BY <1>5
<1> HIDE DEF new
<1>10. tab' \in [Tabs -> TabState] /\ tab'[t] = new /\ \A v \in Tabs \ {t} : tab'[v] = tab[v]
  BY <1>8, <1>9 DEF TypeOK
<1>11. TypeOK'
  BY <1>6, <1>7, <1>10 DEF TypeOK
<1>12. Pending(t)' = {}
  BY <1>4, <1>7 DEF Pending
<1>13. TabInv(t)'
  <2>1. ASSUME t \in sure, new.at = "profile"
        PROVE  SureProfile(t)'
    <3>1. new.of = tab[t].of /\ new.shown = name[tab[t].of]
      BY <1>1, <1>3, <1>4, <1>8, <2>1 DEF TabInv, SureLoading
    <3>2. \A u : u = tab[t].of => Changes(u)' = {}
      BY <1>4, <1>7, <2>1 DEF TabInv, SureLoading, Changes, Idle
    <3>3. Changes(tab[t].of)' = {}
      BY <1>10, <3>1, <3>2
    <3> QED
      BY <1>6, <1>10, <1>12, <3>1, <3>3 DEF SureProfile
  <2> QED
    BY <1>6, <1>8, <1>10, <1>12, <2>1 DEF TabInv, RequestsFit
<1>14. ASSUME NEW v \in Tabs \ {t}
       PROVE  TabInv(v)'
  <2>1. r \notin Pending(v)
    BY <1>2 DEF Pending
  <2> QED
    BY <1>1, <1>6, <1>7, <1>10, <2>1, OverElsewhere
<1> QED
  BY <1>11, <1>13, <1>14

LEMMA ShowNewNameKeeps ==
    ASSUME ProfileInv, NEW r \in Requests, ShowNewName(r)
    PROVE  ProfileInv'
<1> USE DEF ProfileInv
<1> DEFINE t0 == req[r].tab
           body == req[r].body
           ok == req[r].answer = "ok"
<1>1. req[r].pc = "answer" /\ req[r] # Idle /\ body.kind = "ChangeUsername" /\ t0 # None
  BY DEF ShowNewName, Idle
<1>2. PICK t \in Tabs : t = t0
  BY <1>1, ReqFields
<1>3. r \in Pending(t)
  BY <1>1, <1>2 DEF Pending
<1>4. tab[t].at = "profile" /\ body.newName \in Names
  BY <1>1, <1>3, ReqFields, BodyFields DEF TabInv, RequestsFit
<1>5. /\ tab' = IF ok THEN [tab EXCEPT ![t].shown = body.newName] ELSE tab
      /\ req' = [req EXCEPT ![r] = Idle]
      /\ name' = name
      /\ sure' = sure
  BY <1>2 DEF ShowNewName
<1>6. /\ req' \in [Requests -> ReqState]
      /\ req'[r] = Idle
      /\ \A q \in Requests \ {r} : req'[q] = req[q]
  BY <1>5, IdleFacts
<1>7. tab[t] \in [at : {"profile"}, of : Users, viewer : Users, shown : Names, input : Names]
  BY <1>4 DEF TypeOK, TabState, NoPage
<1>8. /\ tab' \in [Tabs -> TabState]
      /\ tab'[t].at = "profile"
      /\ tab'[t].of = tab[t].of
      /\ tab'[t].viewer = tab[t].viewer
      /\ tab'[t].shown = IF ok THEN body.newName ELSE tab[t].shown
      /\ \A v \in Tabs \ {t} : tab'[v] = tab[v]
  <2>1. CASE ~ok
    BY <1>4, <1>5, <2>1 DEF TypeOK
  <2>2. CASE ok
    <3> DEFINE new == [tab[t] EXCEPT !.shown = body.newName]
    <3>1. /\ new \in TabState
          /\ new.at = "profile"
          /\ new.of = tab[t].of
          /\ new.viewer = tab[t].viewer
          /\ new.shown = body.newName
      BY <1>4, <1>7 DEF TabState
    <3>2. tab' = [tab EXCEPT ![t] = new]
      BY <1>5, <2>2
    <3> HIDE DEF new
    <3> QED
      BY <2>2, <3>1, <3>2 DEF TypeOK
  <2> QED
    BY <2>1, <2>2
<1>9. TypeOK'
  BY <1>5, <1>6, <1>8 DEF TypeOK
<1>10. Pending(t)' = Pending(t) \ {r}
  BY <1>6 DEF Pending
<1>11. TabInv(t)'
  <2>1. RequestsFit(t)'
    BY <1>4, <1>6, <1>8, <1>10 DEF TabInv, RequestsFit, Pending
  <2>2. ASSUME t \in sure
        PROVE  SureProfile(t)'
    <3>1. SureProfile(t)
      BY <1>4, <2>2 DEF TabInv
    <3>2. Pending(t) = {r} /\ tab'[t].shown = name[tab[t].of]
      BY <1>1, <1>3, <1>8, <3>1 DEF SureProfile
    <3>3. \A u : u = tab[t].of => Changes(u)' = {}
      BY <1>6, <3>1, <3>2 DEF SureProfile, Changes, Idle
    <3>4. Changes(tab[t].of)' = {}
      BY <1>8, <3>3
    <3> QED
      BY <1>5, <1>8, <1>10, <3>2, <3>4 DEF SureProfile
  <2> QED
    BY <1>5, <1>8, <2>1, <2>2 DEF TabInv
<1>12. ASSUME NEW v \in Tabs \ {t}
       PROVE  TabInv(v)'
  <2>1. r \notin Pending(v)
    BY <1>2 DEF Pending
  <2> QED
    BY <1>1, <1>5, <1>6, <1>8, <2>1, OverElsewhere
<1> QED
  BY <1>9, <1>11, <1>12

\* What is lost may have been a change: its tab is not sure any more, and no other one
\* was while it was to come.
LEMMA LoseKeeps ==
    ASSUME ProfileInv, NEW r \in Requests, Lose(r)
    PROVE  ProfileInv'
<1> USE DEF ProfileInv
<1>1. /\ req[r] # Idle
      /\ req[r].tab # None
      /\ name' = name
  BY DEF Lose
<1>2. PICK t \in Tabs : t = req[r].tab
  BY <1>1, ReqFields
<1>3. /\ req' = [req EXCEPT ![r] = IF req[r].pc = "answer" THEN Idle ELSE [req[r] EXCEPT !.tab = None]]
      /\ tab' = IF tab[t].at = "loading" THEN [tab EXCEPT ![t] = NoPage] ELSE tab
      /\ sure' = sure \ {t}
  BY <1>2 DEF Lose
<1>4. r \in Pending(t)
  BY <1>1, <1>2 DEF Pending
<1>5. /\ req' \in [Requests -> ReqState]
      /\ \/ req'[r] = Idle
         \/ /\ req'[r].tab = None
            /\ req'[r].body = req[r].body
            /\ req'[r].pc = req[r].pc
      /\ \A q \in Requests \ {r} : req'[q] = req[q]
  <2>1. CASE req[r].pc = "answer"
    BY <1>3, <2>1, IdleFacts
  <2>2. CASE req[r].pc # "answer"
    <3> DEFINE new == [req[r] EXCEPT !.tab = None]
    <3>1. req[r] \in [pc : {"run"}, tab : Tabs \cup {None}, body : Bodies]
      BY <1>1, <2>2 DEF TypeOK, ReqState
    <3>2. new \in ReqState /\ new.tab = None /\ new.body = req[r].body /\ new.pc = req[r].pc
      BY <3>1 DEF ReqState
    <3>3. req' = [req EXCEPT ![r] = new]
      BY <1>3, <2>2
    <3> HIDE DEF new
    <3> QED
      BY <3>2, <3>3 DEF TypeOK
  <2> QED
    BY <2>1, <2>2
<1>6. /\ tab' \in [Tabs -> TabState]
      /\ tab[t].at = "loading" => tab'[t].at = "none"
      /\ tab[t].at # "loading" => tab'[t] = tab[t]
      /\ \A v \in Tabs \ {t} : tab'[v] = tab[v]
  <2>1. NoPage \in TabState /\ NoPage.at = "none"
    BY DEF NoPage, TabState
  <2> QED
    BY <1>3, <2>1 DEF TypeOK
<1>7. TypeOK'
  BY <1>1, <1>3, <1>5, <1>6 DEF TypeOK
<1>8. Pending(t)' = Pending(t) \ {r}
  BY <1>5, ProfileAssumption DEF Pending
<1>9. TabInv(t)'
  <2>1. CASE tab[t].at = "loading"
    <3>1. Pending(t) = {r}
      BY <1>4, <2>1 DEF TabInv, RequestsFit
    <3>2. Pending(t)' = {}
      BY <1>8, <3>1
    <3> QED
      BY <1>6, <2>1, <3>2 DEF TabInv, RequestsFit
  <2>2. CASE tab[t].at # "loading"
    <3>1. RequestsFit(t)'
      BY <1>5, <1>6, <1>8, <2>2 DEF TabInv, RequestsFit, Pending
    <3> QED
      BY <1>3, <1>6, <2>2, <3>1 DEF TabInv
  <2> QED
    BY <2>1, <2>2
<1>10. ASSUME NEW v \in Tabs \ {t}
       PROVE  TabInv(v)'
  <2>1. r \notin Pending(v)
    BY <1>2 DEF Pending
  <2> QED
    BY <1>1, <1>3, <1>5, <1>6, <2>1, OverElsewhere
<1> QED
  BY <1>7, <1>9, <1>10

LEMMA ForgetKeeps ==
    ASSUME ProfileInv, NEW r \in Requests, Forget(r)
    PROVE  ProfileInv'
<1> USE DEF ProfileInv
<1>1. /\ req[r].pc = "answer"
      /\ req[r].tab = None
      /\ req[r] # Idle
      /\ req' = [req EXCEPT ![r] = Idle]
      /\ UNCHANGED <<name, tab, sure>>
  BY DEF Forget, Idle
<1>2. /\ req' \in [Requests -> ReqState]
      /\ req'[r] = Idle
      /\ \A q \in Requests \ {r} : req'[q] = req[q]
  BY <1>1, IdleFacts
<1>3. TypeOK'
  BY <1>1, <1>2 DEF TypeOK
<1>4. ASSUME NEW v \in Tabs
      PROVE  TabInv(v)'
  <2>1. r \notin Pending(v)
    BY <1>1, ProfileAssumption DEF Pending
  <2> QED
    BY <1>1, <1>2, <2>1, OverElsewhere
<1> QED
  BY <1>3, <1>4

LEMMA ProfileInitOK == Init => ProfileInv
<1> SUFFICES ASSUME Init
             PROVE  ProfileInv
  OBVIOUS
<1>1. NoPage \in TabState /\ NoPage.at = "none" /\ Idle \in ReqState
  BY DEF NoPage, TabState, ReqState
<1>2. TypeOK
  BY <1>1 DEF Init, TypeOK
<1>3. \A t \in Tabs : Pending(t) = {} /\ tab[t].at = "none"
  BY <1>1 DEF Init, Pending
<1> QED
  BY <1>2, <1>3 DEF ProfileInv, TabInv, RequestsFit

LEMMA ProfileInductive == ProfileInv /\ [Next]_vars => ProfileInv'
<1>1. ASSUME ProfileInv, UNCHANGED vars
      PROVE  ProfileInv'
  BY <1>1 DEF vars, ProfileInv, TypeOK, TabInv, RequestsFit, SureLoading, SureProfile,
              Pending, Changes
<1> QED
  BY <1>1, OpenKeeps, CloseKeeps, InputKeeps, SaveKeeps, ServiceKeeps, ShowProfileKeeps,
     ShowNewNameKeeps, LoseKeeps, ForgetKeeps DEF Next

\* A page of one's own shows the stored name once everything is answered, for any users,
\* names, tabs and requests: an answer "ok" carries the name that was sent, and another
\* one means that nothing was stored.
THEOREM PageShowsSaved == Spec => []SavedShown
<1>1. ProfileInv => SavedShown
  <2> SUFFICES ASSUME ProfileInv, NEW t \in sure, tab[t].at = "profile", Pending(t) = {}
               PROVE  tab[t].shown = name[tab[t].of]
    BY DEF SavedShown
  <2>1. t \in Tabs
    BY DEF ProfileInv, TypeOK
  <2> QED
    BY <2>1 DEF ProfileInv, TabInv, SureProfile
<1> QED
  BY <1>1, ProfileInitOK, ProfileInductive, PTL DEF Spec

\* HandleProfile, HandleChangeUsername and the page's script keep rows, requests and
\* pages well-formed: no error, however late, is shown as a name.
THEOREM ProfileTypeCorrect == Spec => []TypeOK
<1>1. ProfileInv => TypeOK
  BY DEF ProfileInv
<1> QED
  BY <1>1, ProfileInitOK, ProfileInductive, PTL DEF Spec
===============================================================================
