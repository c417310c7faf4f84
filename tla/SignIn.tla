-------------------------------- MODULE SignIn --------------------------------
(***************************************************************************)
(* Signing in with a one-time password (services/user: SendOtpEmail and    *)
(* VerifyOtp).  A code waits in Redis under the email address it was sent  *)
(* to; whoever brings it back in time is signed in as the user with that   *)
(* address, and the first time such a user is made.                        *)
(*                                                                         *)
(* Each call of Redis, of PostgreSQL and of RabbitMQ is a step: the check  *)
(* of a code and its deletion are two, the search for the user and his     *)
(* creation are two.  Any of them can fail, which ends the request.        *)
(*                                                                         *)
(* Addresses that differ in upper and lower case are different Redis keys  *)
(* and different values of the UNIQUE column users.email, but one and the  *)
(* same for the two SELECTs, which compare LOWER(email).                   *)
(***************************************************************************)
EXTENDS Integers, FiniteSets

CONSTANTS
    People,           \* each has one mailbox
    Emails,           \* addresses as they can be spelled
    MailboxOf,        \* whose mailbox an address is, in any spelling (LOWER)
    NoCode,           \* the key is not there
    MaxCode,          \* bound: how many codes are generated
    Requests          \* slots for the requests that are in flight together

ASSUME SignInAssumption ==
    /\ MailboxOf \in [Emails -> People]
    /\ MaxCode \in Nat
    /\ NoCode \notin 1 .. MaxCode
    /\ IsFiniteSet(Requests)

VARIABLES
    users,            \* table users: rows [id, email]
    otp,              \* the OTP Redis: a code or NoCode for each address
    nextCode,         \* codes below are generated; no two are alike
    mail,             \* the mails on their way or delivered: [to, code]
    issued,           \* refresh tokens handed out: [nr, user, person, code]
    req               \* what each request is doing

vars == <<users, otp, nextCode, mail, issued, req>>

Codes == 1 .. MaxCode

UserRow == [id : Nat, email : Emails]
Mail == [to : Emails, code : Codes]
Token == [nr : Nat, user : Nat, person : People, code : Codes]

Idle == [pc |-> "idle"]

RequestState ==
    {Idle}
    \cup [pc : {"GenerateOTP"}, email : Emails]
    \cup [pc : {"Publish"}, email : Emails, code : Codes]
    \cup [pc : {"DelOTP", "GetIdByEmail", "CreateUser"},
          person : People, email : Emails, code : Codes]
    \cup [pc : {"GenerateUUID"}, person : People, email : Emails, code : Codes, user : Nat]

Init ==
    /\ users = {}
    /\ otp = [e \in Emails |-> NoCode]
    /\ nextCode = 1
    /\ mail = {}
    /\ issued = {}
    /\ req = [r \in Requests |-> Idle]

Goto(r, state) == req' = [req EXCEPT ![r] = state]

\* WHERE LOWER(email) = LOWER($1)
SameAddress(e) == {u \in users : MailboxOf[u.email] = MailboxOf[e]}

-------------------------------------------------------------------------------
(* SendOtpEmail                                                            *)

\* The login is an address: of a user, whose own spelling is taken, or of nobody yet.
SendOtpToEmail(r, login) ==
    /\ req[r] = Idle
    /\ IF SameAddress(login) = {}
       THEN Goto(r, [pc |-> "GenerateOTP", email |-> login])
       ELSE \E u \in SameAddress(login) : Goto(r, [pc |-> "GenerateOTP", email |-> u.email])
    /\ UNCHANGED <<users, otp, nextCode, mail, issued>>

\* The login is the name of a user.
SendOtpToName(r, u) ==
    /\ req[r] = Idle
    /\ Goto(r, [pc |-> "GenerateOTP", email |-> u.email])
    /\ UNCHANGED <<users, otp, nextCode, mail, issued>>

\* Mutant: key and value of the SET change places.
GenerateOTPSwapped(r) ==
    /\ req[r].pc = "GenerateOTP"
    /\ nextCode \in Codes
    /\ nextCode' = nextCode + 1
    /\ otp' = [otp EXCEPT ![req[r].email] = req[r].email]
    /\ Goto(r, [pc |-> "Publish", email |-> req[r].email, code |-> nextCode])
    /\ UNCHANGED <<users, mail, issued>>

\* SET: a code that was there is overwritten.
GenerateOTP(r) ==
    /\ req[r].pc = "GenerateOTP"
    /\ nextCode \in Codes
    /\ nextCode' = nextCode + 1
    /\ otp' = [otp EXCEPT ![req[r].email] = nextCode]
    /\ Goto(r, [pc |-> "Publish", email |-> req[r].email, code |-> nextCode])
    /\ UNCHANGED <<users, mail, issued>>

Publish(r) ==
    /\ req[r].pc = "Publish"
    /\ mail' = mail \cup {[to |-> req[r].email, code |-> req[r].code]}
    /\ Goto(r, Idle)
    /\ UNCHANGED <<users, otp, nextCode, issued>>

-------------------------------------------------------------------------------
(* VerifyOtp                                                               *)

\* Mutant: that the key is there is enough.
GetOTPUncompared(r, p, e, c) ==
    /\ req[r] = Idle
    /\ otp[e] # NoCode
    /\ Goto(r, [pc |-> "DelOTP", person |-> p, email |-> e, code |-> c])
    /\ UNCHANGED <<users, otp, nextCode, mail, issued>>

\* Person p brings an address and a code: GET, and the answer NotFound (which
\* changes nothing) if the key is not there or holds another code.
GetOTP(r, p, e, c) ==
    /\ req[r] = Idle
    /\ otp[e] = c
    /\ Goto(r, [pc |-> "DelOTP", person |-> p, email |-> e, code |-> c])
    /\ UNCHANGED <<users, otp, nextCode, mail, issued>>

\* Mutant: the code stays until it expires.
DelOTPSkipped(r) ==
    /\ req[r].pc = "DelOTP"
    /\ Goto(r, [req[r] EXCEPT !.pc = "GetIdByEmail"])
    /\ UNCHANGED <<users, otp, nextCode, mail, issued>>

\* DEL, whatever the key holds by now.
DelOTP(r) ==
    /\ req[r].pc = "DelOTP"
    /\ otp' = [otp EXCEPT ![req[r].email] = NoCode]
    /\ Goto(r, [req[r] EXCEPT !.pc = "GetIdByEmail"])
    /\ UNCHANGED <<users, nextCode, mail, issued>>

GenerateUUIDFor(r, id) ==
    Goto(r, [pc |-> "GenerateUUID", person |-> req[r].person, email |-> req[r].email,
             code |-> req[r].code, user |-> id])

GetIdByEmail(r) ==
    /\ req[r].pc = "GetIdByEmail"
    /\ IF SameAddress(req[r].email) = {}
       THEN Goto(r, [req[r] EXCEPT !.pc = "CreateUser"])
       ELSE \E u \in SameAddress(req[r].email) : GenerateUUIDFor(r, u.id)
    /\ UNCHANGED <<users, otp, nextCode, mail, issued>>

\* INSERT; the address may have been taken since the SELECT.
CreateUser(r) ==
    /\ req[r].pc = "CreateUser"
    /\ LET id == Cardinality(users) + 1
           e == req[r].email
       IN  \/ /\ \E u \in users : u.email = e
              /\ Goto(r, Idle)
              /\ UNCHANGED users
           \/ /\ \A u \in users : u.email # e
              /\ users' = users \cup {[id |-> id, email |-> e]}
              /\ GenerateUUIDFor(r, id)
    /\ UNCHANGED <<otp, nextCode, mail, issued>>

\* SET of a new refresh token; the answer carries it to the person.
GenerateUUID(r) ==
    /\ req[r].pc = "GenerateUUID"
    /\ issued' = issued \cup {[nr |-> Cardinality(issued) + 1, user |-> req[r].user,
                               person |-> req[r].person, code |-> req[r].code]}
    /\ Goto(r, Idle)
    /\ UNCHANGED <<users, otp, nextCode, mail>>

-------------------------------------------------------------------------------

\* A call fails, or the caller has gone: the request ends where it is.
Fail(r) ==
    /\ req[r] # Idle
    /\ Goto(r, Idle)
    /\ UNCHANGED <<users, otp, nextCode, mail, issued>>

\* Five minutes are over.
Expire(e) ==
    /\ otp[e] # NoCode
    /\ otp' = [otp EXCEPT ![e] = NoCode]
    /\ UNCHANGED <<users, nextCode, mail, issued, req>>

\* People type any address, and codes they find in their mailboxes.
Next ==
    \/ \E r \in Requests :
          \/ \E e \in Emails : SendOtpToEmail(r, e)
          \/ \E u \in users : SendOtpToName(r, u)
          \/ \E m \in mail, e \in Emails : GetOTP(r, MailboxOf[m.to], e, m.code)
          \/ GenerateOTP(r) \/ Publish(r)
          \/ DelOTP(r) \/ GetIdByEmail(r) \/ CreateUser(r) \/ GenerateUUID(r)
          \/ Fail(r)
    \/ \E e \in Emails : Expire(e)

Spec == Init /\ [][Next]_vars

-------------------------------------------------------------------------------
(* Properties.                                                             *)

\* Tables, keys and requests hold what their columns and types allow.
TypeOK ==
    /\ users \subseteq UserRow
    /\ otp \in [Emails -> Codes \cup {NoCode}]
    /\ nextCode \in 1 .. MaxCode + 1
    /\ mail \subseteq Mail
    /\ issued \subseteq Token
    /\ req \in [Requests -> RequestState]

\* A person is only ever signed in as the user whose address is the person's own,
\* however the address is spelled and whoever else signs in at the same moment.
SignedInAsSelf ==
    \A t \in issued : \E u \in users : u.id = t.user /\ MailboxOf[u.email] = t.person

\* README.md:9, "One-time password sign in".
OtpUsedOnce == \A t, s \in issued : t.code = s.code => t = s

\* Two requests with one code can both pass the GET before either runs its DEL, but
\* no code signs in more often than requests can be in flight together.
OtpReuseBound ==
    \A c \in Codes : Cardinality({t \in issued : t.code = c}) <= Cardinality(Requests)
===============================================================================
