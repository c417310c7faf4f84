------------------------------ MODULE MailQueue -------------------------------
(***************************************************************************)
(* What SignIn relies on when it publishes a mail: it is sent once at most *)
(* and not after a later one; and it may be lost anywhere on its way.      *)
(*                                                                         *)
(* Mails are numbered in the order in which Publish accepted them.         *)
(***************************************************************************)
EXTENDS Integers, Sequences

CONSTANT MaxMails     \* bound: how many mails are accepted

VARIABLES
    accepted,         \* how many times Publish returned nil
    pending,          \* mails that are still on their way
    sent              \* mails that were given to Mailgun

mailVars == <<accepted, pending, sent>>

Init ==
    /\ accepted = 0
    /\ pending = <<>>
    /\ sent = <<>>

\* The last disjunct: nobody notices that it did not get to the broker.
Accept ==
    /\ accepted < MaxMails
    /\ accepted' = accepted + 1
    /\ \/ pending' = Append(pending, accepted')
       \/ UNCHANGED pending
    /\ UNCHANGED sent

\* The oldest, the newest, or all of them are lost together.
Lose ==
    /\ \E i \in 1 .. Len(pending) + 1, j \in 0 .. Len(pending) :
          pending' = SubSeq(pending, i, j)
    /\ UNCHANGED <<accepted, sent>>

Send ==
    /\ pending # <<>>
    /\ sent' = Append(sent, Head(pending))
    /\ pending' = Tail(pending)
    /\ UNCHANGED accepted

Next == Accept \/ Lose \/ Send

Spec == Init /\ [][Next]_mailVars
===============================================================================
