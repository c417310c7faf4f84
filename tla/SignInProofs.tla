---------------------------- MODULE SignInProofs ----------------------------
(***************************************************************************)
(* Theorems about SignIn for any people, addresses, codes and requests.    *)
(***************************************************************************)
EXTENDS SignIn, FiniteSetTheorems, TLAPS

USE DEF Codes

\* Code c was made for address e: it is in the key, in a mail or about to be mailed.
MadeFor(c, e) ==
    \/ otp[e] = c
    \/ [to |-> e, code |-> c] \in mail
    \/ \E r \in Requests : req[r].pc = "Publish" /\ req[r].email = e /\ req[r].code = c

\* A code is made for one address only, and it has been generated.
OneAddressPerCode ==
    \A c \in Codes : \A e, f \in Emails :
        MadeFor(c, e) => c < nextCode /\ (MadeFor(c, f) => e = f)

\* A request whose code was accepted is from the owner of its address.
VerifierOwnsAddress ==
    \A r \in Requests :
        req[r].pc \in {"DelOTP", "GetIdByEmail", "CreateUser", "GenerateUUID"} =>
            req[r].person = MailboxOf[req[r].email]

\* The user a request is going to sign in has the request's address.
FoundUserIsRight ==
    \A r \in Requests : req[r].pc = "GenerateUUID" =>
        \E u \in users : u.id = req[r].user /\ MailboxOf[u.email] = MailboxOf[req[r].email]

IndInv ==
    /\ TypeOK
    /\ OneAddressPerCode
    /\ VerifierOwnsAddress
    /\ FoundUserIsRight
    /\ SignedInAsSelf
    /\ IsFiniteSet(users) /\ IsFiniteSet(issued)

-------------------------------------------------------------------------------

LEMMA InitOK == Init => IndInv
BY SignInAssumption, FS_EmptySet
   DEF Init, IndInv, TypeOK, OneAddressPerCode, MadeFor, VerifierOwnsAddress,
       FoundUserIsRight, SignedInAsSelf, RequestState, Idle

\* A step of one request is a step to a state that its handler has, or to the end.
LEMMA GotoKeeps ==
    ASSUME IndInv, NEW r \in Requests, NEW s \in RequestState, Goto(r, s)
    PROVE  /\ req' \in [Requests -> RequestState]
           /\ req'[r] = s
           /\ \A t \in Requests : t # r => req'[t] = req[t]
BY DEF IndInv, TypeOK, Goto

\* Codes move from one place to another only together with their address.
LEMMA SendKeeps ==
    ASSUME IndInv, NEW r \in Requests,
           \/ \E e \in Emails : SendOtpToEmail(r, e)
           \/ \E u \in users : SendOtpToName(r, u)
           \/ GenerateOTP(r)
           \/ Publish(r)
    PROVE  IndInv'
<1>1. ASSUME NEW e \in Emails, Goto(r, [pc |-> "GenerateOTP", email |-> e]),
             UNCHANGED <<users, otp, nextCode, mail, issued>>
      PROVE  IndInv'
  <2>1. [pc |-> "GenerateOTP", email |-> e] \in RequestState
    BY DEF RequestState
  <2>2. /\ req' \in [Requests -> RequestState]
        /\ req'[r] = [pc |-> "GenerateOTP", email |-> e]
        /\ \A t \in Requests : t # r => req'[t] = req[t]
    BY <1>1, <2>1, GotoKeeps
  <2> QED
    BY <1>1, <2>2
       DEF IndInv, TypeOK, OneAddressPerCode, MadeFor, VerifierOwnsAddress, FoundUserIsRight,
           SignedInAsSelf
<1>2. ASSUME NEW e \in Emails, SendOtpToEmail(r, e)
      PROVE  IndInv'
  BY <1>1, <1>2 DEF SendOtpToEmail, SameAddress, IndInv, TypeOK, UserRow
<1>3. ASSUME NEW u \in users, SendOtpToName(r, u)
      PROVE  IndInv'
  BY <1>1, <1>3 DEF SendOtpToName, IndInv, TypeOK, UserRow
<1>4. CASE GenerateOTP(r)
  <2> DEFINE e == req[r].email
             s == [pc |-> "Publish", email |-> e, code |-> nextCode]
  <2>1. /\ e \in Emails /\ nextCode \in Codes /\ nextCode' = nextCode + 1
        /\ otp' = [otp EXCEPT ![e] = nextCode]
        /\ UNCHANGED <<users, mail, issued>>
        /\ req[r].pc = "GenerateOTP" /\ Goto(r, s)
    BY <1>4 DEF GenerateOTP, IndInv, TypeOK, RequestState, Idle
  <2>2. s \in RequestState
    BY <2>1 DEF RequestState
  <2>3. /\ req' \in [Requests -> RequestState]
        /\ req'[r] = s
        /\ \A t \in Requests : t # r => req'[t] = req[t]
    BY <2>1, <2>2, GotoKeeps
  <2>4. TypeOK'
    BY <2>1, <2>3, SignInAssumption DEF IndInv, TypeOK
  <2>5. \A f \in Emails : ~MadeFor(nextCode, f)
    BY <2>1 DEF IndInv, OneAddressPerCode, TypeOK
  <2>6. ASSUME NEW c \in Codes, NEW f \in Emails, MadeFor(c, f)'
        PROVE  (c = nextCode /\ f = e) \/ MadeFor(c, f)
    BY <2>1, <2>3, <2>6 DEF MadeFor, IndInv, TypeOK
  <2>7. OneAddressPerCode'
    BY <2>1, <2>5, <2>6 DEF OneAddressPerCode, IndInv, TypeOK
  <2> QED
    BY <2>1, <2>3, <2>4, <2>7
       DEF IndInv, VerifierOwnsAddress, FoundUserIsRight, SignedInAsSelf
<1>5. CASE Publish(r)
  <2>1. /\ req[r].email \in Emails /\ req[r].code \in Codes
        /\ mail' = mail \cup {[to |-> req[r].email, code |-> req[r].code]}
        /\ UNCHANGED <<users, otp, nextCode, issued>>
        /\ req[r].pc = "Publish" /\ Goto(r, Idle)
    BY <1>5 DEF Publish, IndInv, TypeOK, RequestState, Idle
  <2>2. /\ req' \in [Requests -> RequestState]
        /\ req'[r] = Idle
        /\ \A t \in Requests : t # r => req'[t] = req[t]
    BY <2>1, GotoKeeps DEF RequestState
  <2>3. TypeOK'
    BY <2>1, <2>2 DEF IndInv, TypeOK, Mail
  <2>4. ASSUME NEW c \in Codes, NEW f \in Emails, MadeFor(c, f)'
        PROVE  MadeFor(c, f)
    BY <2>1, <2>2, <2>4 DEF MadeFor, Idle
  <2> QED
    BY <2>1, <2>2, <2>3, <2>4
       DEF IndInv, OneAddressPerCode, VerifierOwnsAddress, FoundUserIsRight, SignedInAsSelf,
           Idle
<1> QED BY <1>2, <1>3, <1>4, <1>5
\* No step of VerifyOtp, no failure and no expiry puts a code anywhere.
LEMMA NoNewCodes ==
    ASSUME IndInv, UNCHANGED <<nextCode, mail>>,
           \A e \in Emails : otp'[e] \in {otp[e], NoCode},
           \A r \in Requests : req'[r] = req[r] \/ req'[r].pc # "Publish"
    PROVE  OneAddressPerCode'
<1>1. ASSUME NEW c \in Codes, NEW f \in Emails, MadeFor(c, f)'
      PROVE  MadeFor(c, f)
  BY <1>1, SignInAssumption DEF MadeFor
<1> QED BY <1>1 DEF IndInv, OneAddressPerCode

\* The person who has the code in the mailbox owns the address of the key.
LEMMA GetOTPKeeps ==
    ASSUME IndInv, NEW r \in Requests, NEW m \in mail, NEW e \in Emails,
           GetOTP(r, MailboxOf[m.to], e, m.code)
    PROVE  IndInv'
<1> DEFINE s == [pc |-> "DelOTP", person |-> MailboxOf[m.to], email |-> e, code |-> m.code]
<1>1. /\ m \in Mail /\ m = [to |-> m.to, code |-> m.code]
      /\ s \in RequestState
  BY SignInAssumption DEF IndInv, TypeOK, Mail, RequestState
<1>2. /\ otp[e] = m.code /\ Goto(r, s)
      /\ UNCHANGED <<users, otp, nextCode, mail, issued>>
  BY DEF GetOTP
<1>3. /\ req' \in [Requests -> RequestState]
      /\ req'[r] = s
      /\ \A t \in Requests : t # r => req'[t] = req[t]
  BY <1>1, <1>2, GotoKeeps
<1>4. m.to = e
  <2>1. m.code \in Codes /\ m.to \in Emails
    BY <1>1 DEF Mail
  <2>2. MadeFor(m.code, e) /\ MadeFor(m.code, m.to)
    BY <1>1, <1>2 DEF MadeFor
  <2> QED BY <2>1, <2>2 DEF IndInv, OneAddressPerCode
<1>5. OneAddressPerCode'
  BY <1>2, <1>3, NoNewCodes
<1> QED
  BY <1>2, <1>3, <1>4, <1>5
     DEF IndInv, TypeOK, VerifierOwnsAddress, FoundUserIsRight, SignedInAsSelf

LEMMA DelOTPKeeps ==
    ASSUME IndInv, NEW r \in Requests, DelOTP(r)
    PROVE  IndInv'
<1> DEFINE s == [req[r] EXCEPT !.pc = "GetIdByEmail"]
<1>1. /\ req[r].pc = "DelOTP" /\ req[r].person \in People /\ req[r].email \in Emails
      /\ req[r].code \in Codes
  BY DEF DelOTP, IndInv, TypeOK, RequestState, Idle
<1>2. /\ s \in RequestState
      /\ s.pc = "GetIdByEmail" /\ s.person = req[r].person /\ s.email = req[r].email
  <2>1. req[r] \in [pc : {"DelOTP", "GetIdByEmail", "CreateUser"},
                   person : People, email : Emails, code : Codes]
    BY <1>1 DEF IndInv, TypeOK, RequestState, Idle
  <2>2. s \in [pc : {"DelOTP", "GetIdByEmail", "CreateUser"},
              person : People, email : Emails, code : Codes]
    BY <2>1
  <2>3. s.pc = "GetIdByEmail" /\ s.person = req[r].person /\ s.email = req[r].email
    BY <2>1
  <2> QED BY <2>2, <2>3 DEF RequestState
<1>3. /\ otp' = [otp EXCEPT ![req[r].email] = NoCode] /\ Goto(r, s)
      /\ UNCHANGED <<users, nextCode, mail, issued>>
  BY DEF DelOTP, Goto
<1>4. /\ req' \in [Requests -> RequestState]
      /\ req'[r] = s
      /\ \A t \in Requests : t # r => req'[t] = req[t]
  BY <1>2, <1>3, GotoKeeps
<1> HIDE DEF s
<1>5. OneAddressPerCode'
  BY <1>1, <1>2, <1>3, <1>4, NoNewCodes DEF IndInv, TypeOK
<1>6. otp' \in [Emails -> Codes \cup {NoCode}]
  BY <1>1, <1>3 DEF IndInv, TypeOK
<1>7. TypeOK'
  BY <1>3, <1>4, <1>6 DEF IndInv, TypeOK
<1>8. VerifierOwnsAddress'
  BY <1>1, <1>2, <1>4 DEF IndInv, VerifierOwnsAddress
<1>9. FoundUserIsRight' /\ SignedInAsSelf'
  BY <1>2, <1>3, <1>4 DEF IndInv, FoundUserIsRight, SignedInAsSelf
<1> QED
  BY <1>3, <1>5, <1>7, <1>8, <1>9 DEF IndInv

LEMMA GetIdByEmailKeeps ==
    ASSUME IndInv, NEW r \in Requests, GetIdByEmail(r)
    PROVE  IndInv'
<1>1. /\ req[r].pc = "GetIdByEmail" /\ req[r].person \in People /\ req[r].email \in Emails
      /\ req[r].code \in Codes
      /\ UNCHANGED <<users, otp, nextCode, mail, issued>>
  BY DEF GetIdByEmail, IndInv, TypeOK, RequestState, Idle
<1>2. PICK s \in RequestState :
         /\ Goto(r, s)
         /\ s.person = req[r].person /\ s.email = req[r].email
         /\ \/ s.pc = "CreateUser"
            \/ s.pc = "GenerateUUID" /\ \E u \in SameAddress(req[r].email) : u.id = s.user
  <2>1. CASE SameAddress(req[r].email) = {}
    <3> DEFINE s == [req[r] EXCEPT !.pc = "CreateUser"]
    <3>1. s \in RequestState /\ s.pc = "CreateUser" /\ s.person = req[r].person
             /\ s.email = req[r].email
      BY <1>1 DEF IndInv, TypeOK, RequestState, Idle
    <3> QED BY <2>1, <3>1 DEF GetIdByEmail
  <2>2. CASE SameAddress(req[r].email) # {}
    <3>1. PICK u \in SameAddress(req[r].email) : GenerateUUIDFor(r, u.id)
      BY <2>2 DEF GetIdByEmail
    <3>2. u.id \in Nat
      BY DEF SameAddress, IndInv, TypeOK, UserRow
    <3> QED BY <1>1, <3>1, <3>2 DEF GenerateUUIDFor, RequestState
  <2> QED BY <2>1, <2>2
<1>3. /\ req' \in [Requests -> RequestState]
      /\ req'[r] = s
      /\ \A t \in Requests : t # r => req'[t] = req[t]
  BY <1>2, GotoKeeps
<1>4. OneAddressPerCode'
  BY <1>1, <1>2, <1>3, NoNewCodes
<1> QED
  BY <1>1, <1>2, <1>3, <1>4
     DEF IndInv, TypeOK, VerifierOwnsAddress, FoundUserIsRight, SignedInAsSelf, SameAddress

LEMMA CreateUserKeeps ==
    ASSUME IndInv, NEW r \in Requests, CreateUser(r)
    PROVE  IndInv'
<1> DEFINE id == Cardinality(users) + 1
           row == [id |-> id, email |-> req[r].email]
           s == [pc |-> "GenerateUUID", person |-> req[r].person, email |-> req[r].email,
                 code |-> req[r].code, user |-> id]
<1>1. /\ req[r].pc = "CreateUser" /\ req[r].person \in People /\ req[r].email \in Emails
      /\ req[r].code \in Codes
      /\ UNCHANGED <<otp, nextCode, mail, issued>>
  BY DEF CreateUser, IndInv, TypeOK, RequestState, Idle
<1>2. id \in Nat
  BY FS_CardinalityType DEF IndInv
<1>3. CASE Goto(r, Idle) /\ UNCHANGED users
  <2>1. /\ req' \in [Requests -> RequestState]
        /\ req'[r] = Idle
        /\ \A t \in Requests : t # r => req'[t] = req[t]
    BY <1>3, GotoKeeps DEF RequestState
  <2>2. OneAddressPerCode'
    BY <1>1, <2>1, NoNewCodes DEF Idle
  <2> QED
    BY <1>1, <1>3, <2>1, <2>2
       DEF IndInv, TypeOK, VerifierOwnsAddress, FoundUserIsRight, SignedInAsSelf, Idle
<1>4. CASE users' = users \cup {row} /\ Goto(r, s)
  <2>1. s \in RequestState /\ row \in UserRow
    BY <1>1, <1>2 DEF RequestState, UserRow
  <2>2. /\ req' \in [Requests -> RequestState]
        /\ req'[r] = s
        /\ \A t \in Requests : t # r => req'[t] = req[t]
    BY <1>4, <2>1, GotoKeeps
  <2>3. OneAddressPerCode'
    BY <1>1, <2>2, NoNewCodes
  <2>4. IsFiniteSet(users')
    BY <1>4, FS_AddElement DEF IndInv
  <2> QED
    BY <1>1, <1>4, <2>1, <2>2, <2>3, <2>4
       DEF IndInv, TypeOK, VerifierOwnsAddress, FoundUserIsRight, SignedInAsSelf
<1> QED BY <1>3, <1>4 DEF CreateUser, GenerateUUIDFor
LEMMA GenerateUUIDKeeps ==
    ASSUME IndInv, NEW r \in Requests, GenerateUUID(r)
    PROVE  IndInv'
<1> DEFINE token == [nr |-> Cardinality(issued) + 1, user |-> req[r].user,
                     person |-> req[r].person, code |-> req[r].code]
<1>1. /\ req[r].pc = "GenerateUUID" /\ req[r].person \in People /\ req[r].email \in Emails
      /\ req[r].code \in Codes /\ req[r].user \in Nat
      /\ UNCHANGED <<users, otp, nextCode, mail>>
      /\ issued' = issued \cup {token} /\ Goto(r, Idle)
  BY DEF GenerateUUID, IndInv, TypeOK, RequestState, Idle
<1>2. Cardinality(issued) \in Nat
  BY FS_CardinalityType DEF IndInv
<1>3. token \in Token
  BY <1>1, <1>2 DEF Token
<1>4. IsFiniteSet(issued')
  BY <1>1, FS_AddElement DEF IndInv
<1>5. /\ req' \in [Requests -> RequestState]
      /\ req'[r] = Idle
      /\ \A t \in Requests : t # r => req'[t] = req[t]
  BY <1>1, GotoKeeps DEF RequestState
<1>6. OneAddressPerCode'
  BY <1>1, <1>5, NoNewCodes DEF Idle
<1>7. SignedInAsSelf'
  <2>1. \E u \in users : u.id = token.user /\ MailboxOf[u.email] = token.person
    BY <1>1 DEF IndInv, VerifierOwnsAddress, FoundUserIsRight
  <2> QED BY <1>1, <2>1 DEF IndInv, SignedInAsSelf
<1> QED
  BY <1>1, <1>3, <1>4, <1>5, <1>6, <1>7
     DEF IndInv, TypeOK, VerifierOwnsAddress, FoundUserIsRight, Idle

\* A request that ends early, and a code that expires, only take something away.
LEMMA EndKeeps ==
    ASSUME IndInv,
           \/ \E r \in Requests : Fail(r)
           \/ \E e \in Emails : Expire(e)
    PROVE  IndInv'
<1>1. ASSUME NEW r \in Requests, Fail(r)
      PROVE  IndInv'
  <2>1. Goto(r, Idle) /\ UNCHANGED <<users, otp, nextCode, mail, issued>>
    BY <1>1 DEF Fail
  <2>2. /\ req' \in [Requests -> RequestState]
        /\ req'[r] = Idle
        /\ \A t \in Requests : t # r => req'[t] = req[t]
    BY <2>1, GotoKeeps DEF RequestState
  <2>3. OneAddressPerCode'
    BY <2>1, <2>2, NoNewCodes DEF Idle
  <2> QED
    BY <2>1, <2>2, <2>3
       DEF IndInv, TypeOK, VerifierOwnsAddress, FoundUserIsRight, SignedInAsSelf, Idle
<1>2. ASSUME NEW e \in Emails, Expire(e)
      PROVE  IndInv'
  <2>1. /\ otp' = [otp EXCEPT ![e] = NoCode]
        /\ UNCHANGED <<users, nextCode, mail, issued, req>>
    BY <1>2 DEF Expire
  <2>2. OneAddressPerCode'
    BY <2>1, NoNewCodes DEF IndInv, TypeOK
  <2> QED
    BY <2>1, <2>2
       DEF IndInv, TypeOK, VerifierOwnsAddress, FoundUserIsRight, SignedInAsSelf
<1> QED BY <1>1, <1>2

LEMMA NextKeeps == IndInv /\ [Next]_vars => IndInv'
<1> SUFFICES ASSUME IndInv, [Next]_vars PROVE IndInv'
  OBVIOUS
<1>1. CASE UNCHANGED vars
  <2>1. UNCHANGED <<users, otp, nextCode, mail, issued, req>>
    BY <1>1 DEF vars
  <2>2. OneAddressPerCode'
    BY <2>1 DEF IndInv, OneAddressPerCode, MadeFor
  <2> QED
    BY <2>1, <2>2
       DEF IndInv, TypeOK, VerifierOwnsAddress, FoundUserIsRight, SignedInAsSelf
<1>2. CASE Next
  BY <1>2, SendKeeps, GetOTPKeeps, DelOTPKeeps, GetIdByEmailKeeps, CreateUserKeeps,
     GenerateUUIDKeeps, EndKeeps DEF Next
<1> QED BY <1>1, <1>2

\* The inductive invariant holds in every state of every behaviour.
THEOREM Invariance == Spec => []IndInv
<1> QED BY InitOK, NextKeeps, PTL DEF Spec

\* Tables, keys and requests keep their types.
THEOREM TypeCorrect == Spec => []TypeOK
<1>1. IndInv => TypeOK
  BY DEF IndInv
<1> QED BY <1>1, Invariance, PTL

\* Nobody is ever signed in as somebody else: the code in the mailbox is the code of
\* one key, the key is the address of the mailbox, and the user found has it.
THEOREM NobodyElse == Spec => []SignedInAsSelf
<1>1. IndInv => SignedInAsSelf
  BY DEF IndInv
<1> QED BY <1>1, Invariance, PTL

-------------------------------------------------------------------------------
(* How often a code signs in.                                              *)

\* The requests that hold code c: they passed the GET with it.
Holders(c) ==
    {r \in Requests :
        /\ req[r].pc \in {"DelOTP", "GetIdByEmail", "CreateUser", "GenerateUUID"}
        /\ req[r].code = c}

TokensOf(c) == {t \in issued : t.code = c}

\* A code in use has been generated, and it was made for no other address.
UsedWhereMade ==
    \A c \in Codes :
        /\ Holders(c) # {} \/ TokensOf(c) # {} => c < nextCode
        /\ \A r \in Holders(c), e \in Emails : MadeFor(c, e) => e = req[r].email

\* While the key holds a code, nobody who brought it has got past the DEL.
GoneWhenUsed ==
    \A c \in Codes, e \in Emails : otp[e] = c =>
        /\ TokensOf(c) = {}
        /\ \A r \in Holders(c) : req[r].pc = "DelOTP"

\* A use of a code takes the slot of a request and never gives it back.
UsesFitSlots ==
    \A c \in Codes :
        Cardinality(TokensOf(c)) + Cardinality(Holders(c)) <= Cardinality(Requests)

CodeInv == UsedWhereMade /\ GoneWhenUsed /\ UsesFitSlots

\* The sets that are counted are finite.
LEMMA CountedAreFinite ==
    ASSUME IndInv
    PROVE  \A c \in Codes :
              /\ IsFiniteSet(TokensOf(c)) /\ Cardinality(TokensOf(c)) \in Nat
              /\ IsFiniteSet(Holders(c)) /\ Cardinality(Holders(c)) \in Nat
              /\ Cardinality(Holders(c)) <= Cardinality(Requests)
              /\ Cardinality(Requests) \in Nat
<1> SUFFICES ASSUME NEW c \in Codes
             PROVE  /\ IsFiniteSet(TokensOf(c)) /\ Cardinality(TokensOf(c)) \in Nat
                    /\ IsFiniteSet(Holders(c)) /\ Cardinality(Holders(c)) \in Nat
                    /\ Cardinality(Holders(c)) <= Cardinality(Requests)
                    /\ Cardinality(Requests) \in Nat
  OBVIOUS
<1>1. IsFiniteSet(TokensOf(c))
  BY FS_Subset DEF IndInv, TokensOf
<1>2. /\ IsFiniteSet(Holders(c))
      /\ Cardinality(Holders(c)) <= Cardinality(Requests)
  <2>1. Holders(c) \subseteq Requests
    BY DEF Holders
  <2> QED BY <2>1, FS_Subset, SignInAssumption
<1> QED BY <1>1, <1>2, FS_CardinalityType, SignInAssumption

\* A step that signs nobody in and lets nobody past the GET only ends uses.
LEMMA UsesOnlyEnd ==
    ASSUME IndInv, CodeInv, IndInv',
           nextCode' \in {nextCode, nextCode + 1}, issued' = issued,
           \A c \in Codes, e \in Emails : MadeFor(c, e)' => MadeFor(c, e) \/ c = nextCode,
           \A e \in Emails : otp'[e] \in {otp[e], NoCode, nextCode},
           \A c \in Codes : Holders(c)' \subseteq Holders(c),
           \A r \in Requests : req'[r].pc \in {"DelOTP", "GetIdByEmail", "CreateUser", "GenerateUUID"} =>
              /\ req'[r].email = req[r].email
              /\ \/ req'[r].pc = req[r].pc
                 \/ \A e \in Emails : otp'[e] # req[r].code
    PROVE  CodeInv'
<1>1. nextCode \in Nat
  BY DEF IndInv, TypeOK
<1>2. ASSUME NEW c \in Codes PROVE TokensOf(c)' = TokensOf(c)
  BY DEF TokensOf
<1>3. UsedWhereMade'
  <2> SUFFICES ASSUME NEW c \in Codes
               PROVE  /\ Holders(c)' # {} \/ TokensOf(c)' # {} => c < nextCode'
                      /\ \A r \in Holders(c)', e \in Emails : MadeFor(c, e)' => e = req'[r].email
    BY DEF UsedWhereMade
  <2>1. Holders(c)' # {} \/ TokensOf(c)' # {} => c < nextCode
    BY <1>2 DEF CodeInv, UsedWhereMade
  <2>2. ASSUME NEW r \in Holders(c)', NEW e \in Emails, MadeFor(c, e)'
        PROVE  e = req'[r].email
    <3>1. r \in Holders(c)
      OBVIOUS
    <3>2. c # nextCode
      BY <1>1, <2>1
    <3>3. MadeFor(c, e)
      BY <2>2, <3>2
    <3>4. r \in Requests /\ req'[r].email = req[r].email
      BY DEF Holders
    <3> QED BY <3>1, <3>3, <3>4 DEF CodeInv, UsedWhereMade
  <2> QED BY <1>1, <2>1, <2>2
<1>4. GoneWhenUsed'
  <2> SUFFICES ASSUME NEW c \in Codes, NEW e \in Emails, otp'[e] = c
               PROVE  /\ TokensOf(c)' = {}
                      /\ \A r \in Holders(c)' : req'[r].pc = "DelOTP"
    BY DEF GoneWhenUsed
  <2>1. CASE c = nextCode
    <3>1. Holders(c) = {} /\ TokensOf(c) = {}
      BY <1>1, <2>1 DEF CodeInv, UsedWhereMade
    <3> QED BY <1>2, <3>1
  <2>2. CASE c # nextCode
    <3>1. otp[e] = c
      BY <2>2, SignInAssumption
    <3>2. TokensOf(c) = {} /\ \A r \in Holders(c) : req[r].pc = "DelOTP"
      BY <3>1 DEF CodeInv, GoneWhenUsed
    <3>3. ASSUME NEW r \in Holders(c)' PROVE req'[r].pc = "DelOTP"
      <4>1. r \in Holders(c) /\ r \in Requests /\ req[r].code = c
        BY DEF Holders
      <4>2. req'[r].pc \in {"DelOTP", "GetIdByEmail", "CreateUser", "GenerateUUID"}
        BY DEF Holders
      <4> QED BY <3>2, <4>1, <4>2
    <3> QED BY <1>2, <3>2, <3>3
  <2> QED BY <2>1, <2>2
<1>5. UsesFitSlots'
  <2> SUFFICES ASSUME NEW c \in Codes
               PROVE  Cardinality(TokensOf(c)') + Cardinality(Holders(c)') <= Cardinality(Requests)
    BY DEF UsesFitSlots
  <2>1. Cardinality(TokensOf(c)) + Cardinality(Holders(c)) <= Cardinality(Requests)
    BY DEF CodeInv, UsesFitSlots
  <2>2. Cardinality(Holders(c)') <= Cardinality(Holders(c)) /\ Cardinality(Holders(c)') \in Nat
    BY CountedAreFinite, FS_Subset, FS_CardinalityType
  <2> QED BY <1>2, <2>1, <2>2, CountedAreFinite
<1> QED BY <1>3, <1>4, <1>5 DEF CodeInv

\* Sending a code touches no use: the request has none, and the code is a new one.
LEMMA SendKeepsCodes ==
    ASSUME IndInv, CodeInv, IndInv', NEW r \in Requests,
           \/ \E e \in Emails : SendOtpToEmail(r, e)
           \/ \E u \in users : SendOtpToName(r, u)
           \/ GenerateOTP(r)
           \/ Publish(r)
    PROVE  CodeInv'
<1>1. req' \in [Requests -> RequestState]
  BY DEF IndInv, TypeOK
<1>2. PICK s \in RequestState :
         /\ Goto(r, s)
         /\ s.pc \in {"GenerateOTP", "Publish", "idle"}
         /\ s.pc = "Publish" => s.code = nextCode
  <2>1. ASSUME NEW e \in Emails
        PROVE  [pc |-> "GenerateOTP", email |-> e] \in RequestState
    BY DEF RequestState
  <2>2. CASE \/ \E e \in Emails : SendOtpToEmail(r, e)
             \/ \E u \in users : SendOtpToName(r, u)
    BY <2>1, <2>2 DEF SendOtpToEmail, SendOtpToName, SameAddress, IndInv, TypeOK, UserRow
  <2>3. CASE GenerateOTP(r)
    <3>1. /\ [pc |-> "Publish", email |-> req[r].email, code |-> nextCode] \in RequestState
          /\ Goto(r, [pc |-> "Publish", email |-> req[r].email, code |-> nextCode])
      BY <2>3 DEF GenerateOTP, RequestState, IndInv, TypeOK, Idle
    <3> QED BY <3>1
  <2>4. CASE Publish(r)
    BY <2>4 DEF Publish, RequestState, Idle
  <2> QED BY <2>2, <2>3, <2>4
<1>3. /\ req'[r] = s
      /\ \A t \in Requests : t # r => req'[t] = req[t]
  BY <1>2, GotoKeeps
<1>4. \A c \in Codes : Holders(c)' \subseteq Holders(c)
  BY <1>2, <1>3 DEF Holders
<1>5. /\ nextCode' \in {nextCode, nextCode + 1} /\ issued' = issued
      /\ \A e \in Emails : otp'[e] \in {otp[e], NoCode, nextCode}
      /\ mail' = mail \/ /\ req[r].pc = "Publish"
                         /\ mail' = mail \cup {[to |-> req[r].email, code |-> req[r].code]}
  BY DEF SendOtpToEmail, SendOtpToName, GenerateOTP, Publish, IndInv, TypeOK
<1>6. \A c \in Codes, e \in Emails : MadeFor(c, e)' => MadeFor(c, e) \/ c = nextCode
  BY <1>2, <1>3, <1>5, SignInAssumption DEF MadeFor
<1>7. ASSUME NEW t \in Requests,
             req'[t].pc \in {"DelOTP", "GetIdByEmail", "CreateUser", "GenerateUUID"}
      PROVE  req'[t] = req[t]
  BY <1>2, <1>3, <1>7
<1> QED BY <1>4, <1>5, <1>6, <1>7, UsesOnlyEnd

\* A GET finds the code only while no use of it is over.
LEMMA GetOTPKeepsCodes ==
    ASSUME IndInv, CodeInv, IndInv', NEW r \in Requests, NEW m \in mail, NEW e \in Emails,
           GetOTP(r, MailboxOf[m.to], e, m.code)
    PROVE  CodeInv'
<1> DEFINE s == [pc |-> "DelOTP", person |-> MailboxOf[m.to], email |-> e, code |-> m.code]
<1>1. m.code \in Codes /\ s \in RequestState
  BY SignInAssumption DEF IndInv, TypeOK, Mail, RequestState
<1>2. /\ otp[e] = m.code /\ Goto(r, s) /\ req[r] = Idle
      /\ UNCHANGED <<users, otp, nextCode, mail, issued>>
  BY DEF GetOTP
<1>3. /\ req'[r] = s
      /\ \A t \in Requests : t # r => req'[t] = req[t]
  BY <1>1, <1>2, GotoKeeps
<1>4. \A c \in Codes, f \in Emails : MadeFor(c, f)' => MadeFor(c, f)
  BY <1>2, <1>3 DEF MadeFor
<1>5. \A c \in Codes : Holders(c)' \subseteq Holders(c) \cup (IF c = m.code THEN {r} ELSE {})
  BY <1>2, <1>3 DEF Holders
<1>6. \A c \in Codes : TokensOf(c)' = TokensOf(c)
  BY <1>2 DEF TokensOf
<1>7. m.code < nextCode /\ \A f \in Emails : MadeFor(m.code, f) => f = e
  <2>1. MadeFor(m.code, e)
    BY <1>2 DEF MadeFor
  <2> QED BY <1>1, <2>1 DEF IndInv, OneAddressPerCode
<1>8. UsedWhereMade'
  <2> SUFFICES ASSUME NEW c \in Codes
               PROVE  /\ Holders(c)' # {} \/ TokensOf(c)' # {} => c < nextCode
                      /\ \A t \in Holders(c)', f \in Emails : MadeFor(c, f)' => f = req'[t].email
    BY <1>2 DEF UsedWhereMade
  <2>1. Holders(c)' # {} \/ TokensOf(c)' # {} => c < nextCode
    BY <1>5, <1>6, <1>7 DEF CodeInv, UsedWhereMade
  <2>2. ASSUME NEW t \in Holders(c)', NEW f \in Emails, MadeFor(c, f)'
        PROVE  f = req'[t].email
    <3>1. CASE t = r
      BY <1>3, <1>4, <1>7, <2>2, <3>1 DEF Holders
    <3>2. CASE t # r
      BY <1>3, <1>4, <1>5, <2>2, <3>2 DEF Holders, CodeInv, UsedWhereMade
    <3> QED BY <3>1, <3>2
  <2> QED BY <2>1, <2>2
<1>9. GoneWhenUsed'
  BY <1>2, <1>3, <1>6 DEF GoneWhenUsed, CodeInv, Holders
<1>10. UsesFitSlots'
  <2> SUFFICES ASSUME NEW c \in Codes
               PROVE  Cardinality(TokensOf(c)') + Cardinality(Holders(c)') <= Cardinality(Requests)
    BY DEF UsesFitSlots
  <2>1. CASE c = m.code
    <3>1. TokensOf(c)' = {}
      BY <1>2, <1>6, <2>1 DEF CodeInv, GoneWhenUsed
    <3>2. Holders(c)' \subseteq Requests
      BY DEF Holders
    <3>3. /\ Cardinality(Holders(c)') <= Cardinality(Requests)
          /\ Cardinality(Holders(c)') \in Nat /\ Cardinality(Requests) \in Nat
      BY <3>2, FS_Subset, FS_CardinalityType, SignInAssumption
    <3> QED BY <3>1, <3>3, FS_EmptySet
  <2>2. CASE c # m.code
    <3>1. Holders(c)' \subseteq Holders(c)
      BY <1>5, <2>2
    <3>2. Cardinality(Holders(c)') <= Cardinality(Holders(c)) /\ Cardinality(Holders(c)') \in Nat
      BY <3>1, CountedAreFinite, FS_Subset, FS_CardinalityType
    <3>3. Cardinality(TokensOf(c)) + Cardinality(Holders(c)) <= Cardinality(Requests)
      BY DEF CodeInv, UsesFitSlots
    <3> QED BY <1>6, <3>2, <3>3, CountedAreFinite
  <2> QED BY <2>1, <2>2
<1> QED BY <1>8, <1>9, <1>10 DEF CodeInv

\* The DEL ends the time in which the code can be brought.
LEMMA DelOTPKeepsCodes ==
    ASSUME IndInv, CodeInv, IndInv', NEW r \in Requests, DelOTP(r)
    PROVE  CodeInv'
<1> DEFINE s == [req[r] EXCEPT !.pc = "GetIdByEmail"]
<1>1. /\ req[r].pc = "DelOTP" /\ req[r].email \in Emails /\ req[r].code \in Codes
      /\ req[r] \in [pc : {"DelOTP", "GetIdByEmail", "CreateUser"},
                     person : People, email : Emails, code : Codes]
  BY DEF DelOTP, IndInv, TypeOK, RequestState, Idle
<1>2. /\ s \in RequestState
      /\ s.pc = "GetIdByEmail" /\ s.email = req[r].email /\ s.code = req[r].code
  <2>1. s \in [pc : {"DelOTP", "GetIdByEmail", "CreateUser"},
              person : People, email : Emails, code : Codes]
    BY <1>1
  <2>2. s.pc = "GetIdByEmail" /\ s.email = req[r].email /\ s.code = req[r].code
    BY <1>1
  <2> QED BY <2>1, <2>2 DEF RequestState
<1>3. /\ otp' = [otp EXCEPT ![req[r].email] = NoCode] /\ Goto(r, s)
      /\ UNCHANGED <<users, nextCode, mail, issued>>
      /\ otp \in [Emails -> Codes \cup {NoCode}]
  BY DEF DelOTP, Goto, IndInv, TypeOK
<1>4. /\ req'[r] = s
      /\ \A t \in Requests : t # r => req'[t] = req[t]
  BY <1>2, <1>3, GotoKeeps
<1> HIDE DEF s
<1>5. \A e \in Emails : otp'[e] \in {otp[e], NoCode}
  BY <1>3
<1>6. \A c \in Codes, e \in Emails : MadeFor(c, e)' => MadeFor(c, e)
  BY <1>2, <1>3, <1>4, <1>5, SignInAssumption DEF MadeFor
<1>7. \A c \in Codes : Holders(c)' \subseteq Holders(c)
  BY <1>1, <1>2, <1>4 DEF Holders
<1>8. \A e \in Emails : otp'[e] # req[r].code
  <2> SUFFICES ASSUME NEW e \in Emails PROVE otp'[e] # req[r].code
    OBVIOUS
  <2>1. CASE e = req[r].email
    BY <1>1, <1>3, <2>1, SignInAssumption
  <2>2. CASE e # req[r].email
    <3>1. r \in Holders(req[r].code)
      BY <1>1 DEF Holders
    <3>2. ~MadeFor(req[r].code, e)
      BY <1>1, <2>2, <3>1 DEF CodeInv, UsedWhereMade
    <3> QED BY <1>3, <2>2, <3>2 DEF MadeFor
  <2> QED BY <2>1, <2>2
<1> QED BY <1>2, <1>3, <1>4, <1>5, <1>6, <1>7, <1>8, UsesOnlyEnd

\* The steps after the DEL, up to the token, and the ends of requests and codes.
LEMMA LaterStepsKeepCodes ==
    ASSUME IndInv, CodeInv, IndInv',
           UNCHANGED <<nextCode, mail, issued>>,
           \A e \in Emails : otp'[e] \in {otp[e], NoCode},
           NEW r \in Requests,
           \A t \in Requests : t # r => req'[t] = req[t],
           \/ req'[r] = req[r]
           \/ req'[r] = Idle
           \/ /\ req[r].pc \in {"GetIdByEmail", "CreateUser"}
              /\ req'[r].pc \in {"CreateUser", "GenerateUUID"}
              /\ req'[r].email = req[r].email /\ req'[r].code = req[r].code
    PROVE  CodeInv'
<1>1. \A c \in Codes, e \in Emails : MadeFor(c, e)' => MadeFor(c, e)
  BY SignInAssumption DEF MadeFor, Idle
<1>2. \A c \in Codes : Holders(c)' \subseteq Holders(c)
  BY DEF Holders, Idle
<1>3. req[r].pc \in {"GetIdByEmail", "CreateUser"} => \A e \in Emails : otp'[e] # req[r].code
  <2> SUFFICES ASSUME req[r].pc \in {"GetIdByEmail", "CreateUser"}, NEW e \in Emails
               PROVE  otp'[e] # req[r].code
    OBVIOUS
  <2>1. req[r].code \in Codes
    BY DEF IndInv, TypeOK, RequestState, Idle
  <2>2. otp[e] # req[r].code
    BY <2>1 DEF CodeInv, GoneWhenUsed, Holders
  <2> QED BY <2>1, <2>2, SignInAssumption
<1>4. ASSUME NEW t \in Requests,
             req'[t].pc \in {"DelOTP", "GetIdByEmail", "CreateUser", "GenerateUUID"}
      PROVE  /\ req'[t].email = req[t].email
             /\ \/ req'[t].pc = req[t].pc
                \/ \A e \in Emails : otp'[e] # req[t].code
  BY <1>3, <1>4 DEF Idle
<1> QED BY <1>1, <1>2, <1>4, UsesOnlyEnd

\* The token takes the place of the request that held the code.
LEMMA GenerateUUIDKeepsCodes ==
    ASSUME IndInv, CodeInv, IndInv', NEW r \in Requests, GenerateUUID(r)
    PROVE  CodeInv'
<1> DEFINE token == [nr |-> Cardinality(issued) + 1, user |-> req[r].user,
                     person |-> req[r].person, code |-> req[r].code]
<1>0. PICK d \in Codes : d = req[r].code
  BY DEF GenerateUUID, IndInv, TypeOK, RequestState, Idle
<1>1. /\ req[r].pc = "GenerateUUID" /\ d \in Codes
      /\ UNCHANGED <<users, otp, nextCode, mail>>
      /\ issued' = issued \cup {token} /\ Goto(r, Idle)
  BY DEF GenerateUUID, IndInv, TypeOK, RequestState, Idle
<1>2. /\ req'[r] = Idle
      /\ \A t \in Requests : t # r => req'[t] = req[t]
  BY <1>1, GotoKeeps DEF RequestState
<1>3. r \in Holders(d) /\ token.code = d
  BY <1>0, <1>1 DEF Holders
<1> HIDE DEF token
<1>4. \A c \in Codes : Holders(c)' = Holders(c) \ {r}
  BY <1>2 DEF Holders, Idle
<1>5. /\ TokensOf(d)' = TokensOf(d) \cup {token}
      /\ \A c \in Codes : c # d => TokensOf(c)' = TokensOf(c)
  BY <1>1, <1>3 DEF TokensOf
<1>6. \A c \in Codes, e \in Emails : MadeFor(c, e)' => MadeFor(c, e)
  BY <1>1, <1>2 DEF MadeFor, Idle
<1>7. UsedWhereMade'
  <2> SUFFICES ASSUME NEW c \in Codes
               PROVE  /\ Holders(c)' # {} \/ TokensOf(c)' # {} => c < nextCode
                      /\ \A t \in Holders(c)', f \in Emails : MadeFor(c, f)' => f = req'[t].email
    BY <1>1 DEF UsedWhereMade
  <2>1. Holders(c)' # {} \/ TokensOf(c)' # {} => c < nextCode
    BY <1>3, <1>4, <1>5 DEF CodeInv, UsedWhereMade
  <2>2. ASSUME NEW t \in Holders(c)', NEW f \in Emails, MadeFor(c, f)'
        PROVE  f = req'[t].email
    <3>1. t \in Holders(c) /\ t # r /\ t \in Requests
      BY <1>4 DEF Holders
    <3> QED BY <1>2, <1>6, <2>2, <3>1 DEF CodeInv, UsedWhereMade
  <2> QED BY <2>1, <2>2
<1>8. GoneWhenUsed'
  <2> SUFFICES ASSUME NEW c \in Codes, NEW e \in Emails, otp[e] = c
               PROVE  /\ TokensOf(c)' = {}
                      /\ \A t \in Holders(c)' : req'[t].pc = "DelOTP"
    BY <1>1 DEF GoneWhenUsed
  <2>1. TokensOf(c) = {} /\ \A t \in Holders(c) : req[t].pc = "DelOTP"
    BY DEF CodeInv, GoneWhenUsed
  <2>2. c # d
    BY <1>1, <1>3, <2>1
  <2>3. ASSUME NEW t \in Holders(c)' PROVE req'[t].pc = "DelOTP"
    <3>1. t \in Holders(c) /\ t # r /\ t \in Requests
      BY <1>4 DEF Holders
    <3> QED BY <1>2, <2>1, <3>1
  <2> QED BY <1>5, <2>1, <2>2, <2>3
<1>9. UsesFitSlots'
  <2> SUFFICES ASSUME NEW c \in Codes
               PROVE  Cardinality(TokensOf(c)') + Cardinality(Holders(c)') <= Cardinality(Requests)
    BY DEF UsesFitSlots
  <2>1. Cardinality(TokensOf(c)) + Cardinality(Holders(c)) <= Cardinality(Requests)
    BY DEF CodeInv, UsesFitSlots
  <2>2. CASE c = d
    <3> DEFINE H == Holders(d)
               T == TokensOf(d)
    <3>0. IsFiniteSet(H) /\ IsFiniteSet(T)
      BY <1>1, CountedAreFinite
    <3>1. Cardinality(Holders(d)') = Cardinality(H) - 1
      <4>1. Holders(d)' = H \ {r} /\ r \in H
        BY <1>1, <1>3, <1>4
      <4> HIDE DEF H
      <4> QED BY <3>0, <4>1, FS_RemoveElement
    <3>2. /\ Cardinality(TokensOf(d)') <= Cardinality(T) + 1
          /\ Cardinality(TokensOf(d)') \in Nat
      <4>1. TokensOf(d)' = T \cup {token}
        BY <1>5
      <4> HIDE DEF T
      <4>2. /\ IsFiniteSet(T \cup {token})
            /\ Cardinality(T) \in Nat
            /\ Cardinality(T \cup {token}) \in {Cardinality(T), Cardinality(T) + 1}
        BY <3>0, FS_AddElement, FS_CardinalityType
      <4> QED BY <4>1, <4>2
    <3> QED BY <2>1, <2>2, <3>1, <3>2, CountedAreFinite
  <2>3. CASE c # d
    <3>1. Cardinality(Holders(c)') <= Cardinality(Holders(c)) /\ Cardinality(Holders(c)') \in Nat
      BY <1>4, CountedAreFinite, FS_Subset, FS_CardinalityType
    <3> QED BY <1>5, <2>1, <2>3, <3>1, CountedAreFinite
  <2> QED BY <2>2, <2>3
<1> QED BY <1>7, <1>8, <1>9 DEF CodeInv

LEMMA NextKeepsCodes == IndInv /\ CodeInv /\ [Next]_vars => CodeInv'
<1> SUFFICES ASSUME IndInv, CodeInv, [Next]_vars PROVE CodeInv'
  OBVIOUS
<1>0. IndInv'
  BY NextKeeps
<1>1. CASE UNCHANGED vars
  <2>1. UNCHANGED <<users, otp, nextCode, mail, issued, req>>
    BY <1>1 DEF vars
  <2> QED
    BY <2>1
       DEF CodeInv, UsedWhereMade, GoneWhenUsed, UsesFitSlots, Holders, TokensOf, MadeFor
<1>2. ASSUME NEW r \in Requests, GetIdByEmail(r)
      PROVE  CodeInv'
  <2>1. PICK s \in RequestState :
           /\ Goto(r, s)
           /\ s.pc \in {"CreateUser", "GenerateUUID"}
           /\ s.email = req[r].email /\ s.code = req[r].code
    <3>1. /\ req[r].pc = "GetIdByEmail" /\ req[r].person \in People /\ req[r].email \in Emails
          /\ req[r].code \in Codes
          /\ req[r] \in [pc : {"DelOTP", "GetIdByEmail", "CreateUser"},
                         person : People, email : Emails, code : Codes]
      BY <1>2 DEF GetIdByEmail, IndInv, TypeOK, RequestState, Idle
    <3>2. CASE SameAddress(req[r].email) = {}
      <4> DEFINE s == [req[r] EXCEPT !.pc = "CreateUser"]
      <4>1. s \in RequestState /\ s.pc = "CreateUser" /\ s.email = req[r].email
               /\ s.code = req[r].code
        BY <3>1 DEF RequestState
      <4> QED BY <1>2, <3>2, <4>1 DEF GetIdByEmail
    <3>3. CASE SameAddress(req[r].email) # {}
      <4>1. PICK u \in SameAddress(req[r].email) : GenerateUUIDFor(r, u.id)
        BY <1>2, <3>3 DEF GetIdByEmail
      <4>2. u.id \in Nat
        BY DEF SameAddress, IndInv, TypeOK, UserRow
      <4> QED BY <3>1, <4>1, <4>2 DEF GenerateUUIDFor, RequestState
    <3> QED BY <3>2, <3>3
  <2>2. /\ req'[r] = s
        /\ \A t \in Requests : t # r => req'[t] = req[t]
    BY <2>1, GotoKeeps
  <2> QED
    BY <1>0, <1>2, <2>1, <2>2, LaterStepsKeepCodes DEF GetIdByEmail
<1>3. ASSUME NEW r \in Requests, CreateUser(r)
      PROVE  CodeInv'
  <2> DEFINE id == Cardinality(users) + 1
             s == [pc |-> "GenerateUUID", person |-> req[r].person, email |-> req[r].email,
                   code |-> req[r].code, user |-> id]
  <2>1. /\ req[r].pc = "CreateUser" /\ req[r].person \in People /\ req[r].email \in Emails
        /\ req[r].code \in Codes /\ id \in Nat
        /\ UNCHANGED <<otp, nextCode, mail, issued>>
        /\ Goto(r, Idle) \/ Goto(r, s)
    BY <1>3, FS_CardinalityType
       DEF CreateUser, GenerateUUIDFor, IndInv, TypeOK, RequestState, Idle
  <2>2. s \in RequestState /\ Idle \in RequestState
    BY <2>1 DEF RequestState
  <2>3. /\ req'[r] \in {Idle, s}
        /\ \A t \in Requests : t # r => req'[t] = req[t]
    BY <2>1, <2>2, GotoKeeps
  <2>4. s.pc = "GenerateUUID" /\ s.email = req[r].email /\ s.code = req[r].code
    OBVIOUS
  <2> HIDE DEF s
  <2> QED
    BY <1>0, <2>1, <2>3, <2>4, LaterStepsKeepCodes
<1>4. ASSUME NEW r \in Requests, Fail(r)
      PROVE  CodeInv'
  <2>1. Goto(r, Idle) /\ UNCHANGED <<users, otp, nextCode, mail, issued>>
    BY <1>4 DEF Fail
  <2>2. /\ req'[r] = Idle
        /\ \A t \in Requests : t # r => req'[t] = req[t]
    BY <2>1, GotoKeeps DEF RequestState
  <2> QED BY <1>0, <2>1, <2>2, LaterStepsKeepCodes
<1>5. ASSUME NEW e \in Emails, Expire(e)
      PROVE  CodeInv'
  <2>1. /\ otp' = [otp EXCEPT ![e] = NoCode]
        /\ UNCHANGED <<users, nextCode, mail, issued, req>>
    BY <1>5 DEF Expire
  <2>2. \A f \in Emails : otp'[f] \in {otp[f], NoCode}
    BY <2>1 DEF IndInv, TypeOK
  <2>3. \A c \in Codes, f \in Emails : MadeFor(c, f)' => MadeFor(c, f)
    BY <2>1, <2>2, SignInAssumption DEF MadeFor
  <2>4. \A c \in Codes : Holders(c)' = Holders(c)
    BY <2>1 DEF Holders
  <2> QED BY <1>0, <2>1, <2>2, <2>3, <2>4, UsesOnlyEnd
<1> QED
  BY <1>0, <1>1, <1>2, <1>3, <1>4, <1>5, SendKeepsCodes, GetOTPKeepsCodes, DelOTPKeepsCodes,
     GenerateUUIDKeepsCodes DEF Next

\* A code signs in at most as often as requests can be in flight together: each use has
\* passed the GET before the first of them ran its DEL, so each was in a slot of its own.
THEOREM ReuseBounded == Spec => []OtpReuseBound
<1>1. Init => CodeInv
  <2>1. ASSUME Init, NEW c \in Codes
        PROVE  Holders(c) = {} /\ TokensOf(c) = {}
    BY <2>1 DEF Init, Holders, TokensOf, Idle
  <2>2. Cardinality(Requests) \in Nat
    BY FS_CardinalityType, SignInAssumption
  <2>3. Init => UsesFitSlots
    BY <2>1, <2>2, FS_EmptySet DEF UsesFitSlots
  <2>4. Init => UsedWhereMade /\ GoneWhenUsed
    BY <2>1 DEF UsedWhereMade, GoneWhenUsed
  <2> QED BY <2>3, <2>4 DEF CodeInv
<1>2. IndInv /\ CodeInv => OtpReuseBound
  <2> SUFFICES ASSUME IndInv, CodeInv, NEW c \in Codes
               PROVE  Cardinality({t \in issued : t.code = c}) <= Cardinality(Requests)
    BY DEF OtpReuseBound
  <2>1. Cardinality(TokensOf(c)) + Cardinality(Holders(c)) <= Cardinality(Requests)
    BY DEF CodeInv, UsesFitSlots
  <2> QED BY <2>1, CountedAreFinite DEF TokensOf
<1> QED BY <1>1, <1>2, Invariance, NextKeepsCodes, PTL DEF Spec
=============================================================================
