----------------------------- MODULE RabbitClient -----------------------------
(***************************************************************************)
(* The way of a mail from the user service over RabbitMQ to the email      *)
(* service: rabbitclient.Client on both sides, with the goroutines that    *)
(* connect, watch the connection and consume, and the broker between them. *)
(*                                                                         *)
(* The goroutines share c.ch without a lock; each step that uses it reads  *)
(* it anew.  A channel that was closed stays in c.ch until there is a new  *)
(* one.                                                                    *)
(***************************************************************************)
EXTENDS Integers, Sequences

CONSTANTS
    Requests,         \* calls of Publish that can be in flight together
    MaxMails,         \* bound: how many mails are accepted
    MaxLosses         \* bound: how often a connection or the broker is lost

ASSUME RabbitClientAssumption ==
    /\ MaxMails \in Nat
    /\ MaxLosses \in Nat

VARIABLES
    up,               \* the broker can be reached
    declared,         \* the broker has the queue "email"
    queue,            \* the mails in it
    losses,           \* how often something was lost so far
    link,             \* what the goroutine of Connect or monitorConnection does
    conn,             \* the connection it has is alive
    ch,               \* c.ch: 0 for nil, or the number of the channel
    open,             \* the channel c.ch is open
    late,             \* reconnecting may take the email service more than 5 s
    req,              \* what each call of Publish does
    consumer,         \* what the consuming goroutine of the email service does
    inbox,            \* mails that were delivered to it, acknowledged already
    accepted,         \* history: how many times Publish returned nil
    sent              \* history: mails that were given to Mailgun

brokerVars == <<up, declared, queue, losses>>
clientVars == <<link, conn, ch, open, late>>
mailVars == <<accepted, sent>>
vars == <<brokerVars, clientVars, req, consumer, inbox, mailVars>>

Clients == {"user", "email"}

Mails == 1 .. MaxMails

Channels == Nat

ConsumerState == [pc : {"declare", "consume", "range", "sleep", "gone"}, ch : Channels]

\* In the email service main calls Consume when Connect has returned; in the user
\* service requests are served while Connect is still running.
Init ==
    /\ up \in BOOLEAN
    /\ declared = FALSE
    /\ queue = <<>>
    /\ losses = 0
    /\ link = [c \in Clients |-> "dial"]
    /\ conn = [c \in Clients |-> FALSE]
    /\ ch = [c \in Clients |-> 0]
    /\ open = [c \in Clients |-> FALSE]
    /\ late = FALSE
    /\ req = [r \in Requests |-> "idle"]
    /\ consumer = [pc |-> "declare", ch |-> 0]
    /\ inbox = <<>>
    /\ accepted = 0
    /\ sent = <<>>

-------------------------------------------------------------------------------
(* Connect and monitorConnection, of both clients.                         *)

Dial(c) ==
    /\ link[c] \in {"dial", "redial"}
    /\ up
    /\ link' = [link EXCEPT ![c] = "channel"]
    /\ conn' = [conn EXCEPT ![c] = TRUE]
    /\ UNCHANGED <<brokerVars, ch, open, late, req, consumer, inbox, mailVars>>

\* It sleeps and tries again.
DialFails(c) ==
    /\ link[c] = "dial"
    /\ ~up
    /\ link' = [link EXCEPT ![c] = "redial"]
    /\ late' = (late \/ c = "email")
    /\ UNCHANGED <<brokerVars, conn, ch, open, req, consumer, inbox, mailVars>>

\* Mutant: err is not looked at.
ChannelUnchecked(c) ==
    /\ link[c] = "channel"
    /\ link' = [link EXCEPT ![c] = "monitor"]
    /\ ch' = [ch EXCEPT ![c] = ch[c] + 1]
    /\ open' = [open EXCEPT ![c] = TRUE]
    /\ late' = (late /\ c # "email")
    /\ UNCHANGED <<brokerVars, conn, req, consumer, inbox, mailVars>>

\* conn.Channel(), and a monitor for what it returns.
Channel(c) ==
    /\ link[c] = "channel"
    /\ IF conn[c]
       THEN /\ link' = [link EXCEPT ![c] = "monitor"]
            /\ ch' = [ch EXCEPT ![c] = ch[c] + 1]
            /\ open' = [open EXCEPT ![c] = TRUE]
            /\ late' = (late /\ c # "email")
       ELSE /\ link' = [link EXCEPT ![c] = "redial"]
            /\ late' = (late \/ c = "email")
            /\ UNCHANGED <<ch, open>>
    /\ UNCHANGED <<brokerVars, conn, req, consumer, inbox, mailVars>>

\* Mutant: it closes what there is and ends.
MonitorConnectionOnce(c) ==
    /\ link[c] = "monitor"
    /\ ~open[c]
    /\ conn' = [conn EXCEPT ![c] = FALSE]
    /\ UNCHANGED <<brokerVars, link, ch, open, late, req, consumer, inbox, mailVars>>

\* NotifyClose tells it also of a channel that was closed before it asked.
MonitorConnection(c) ==
    /\ link[c] = "monitor"
    /\ ~open[c]
    /\ conn' = [conn EXCEPT ![c] = FALSE]
    /\ link' = [link EXCEPT ![c] = "dial"]
    /\ UNCHANGED <<brokerVars, ch, open, late, req, consumer, inbox, mailVars>>

-------------------------------------------------------------------------------
(* Publish, for SendOtpEmail.  With c.ch nil or closed it returns an error *)
(* and nothing has changed.                                                *)

PublishDeclare(r) ==
    /\ req[r] = "idle"
    /\ open["user"]
    /\ declared' = TRUE
    /\ req' = [req EXCEPT ![r] = "publish"]
    /\ UNCHANGED <<up, queue, losses, clientVars, consumer, inbox, mailVars>>

\* The channel is the one of this moment.  The broker drops what has no queue to go
\* to, and what gets lost on the way is not noticed either.
Publish(r) ==
    /\ req[r] = "publish"
    /\ req' = [req EXCEPT ![r] = "idle"]
    /\ IF open["user"]
       THEN /\ accepted < MaxMails
            /\ accepted' = accepted + 1
            /\ \/ declared /\ queue' = Append(queue, accepted')
               \/ UNCHANGED queue
       ELSE UNCHANGED <<accepted, queue>>
    /\ UNCHANGED <<up, declared, losses, clientVars, consumer, inbox, sent>>

-------------------------------------------------------------------------------
(* Consume, and the goroutine that it starts.                              *)

\* An error is returned to main or to the goroutine, and neither looks at it.
ConsumeDeclare ==
    /\ consumer.pc = "declare"
    /\ ch["email"] # 0
    /\ IF open["email"]
       THEN declared' = TRUE /\ consumer' = [consumer EXCEPT !.pc = "consume"]
       ELSE UNCHANGED declared /\ consumer' = [consumer EXCEPT !.pc = "gone"]
    /\ UNCHANGED <<up, queue, losses, clientVars, req, inbox, mailVars>>

\* The broker closes a channel that consumes from a queue it does not have.
Consume ==
    /\ consumer.pc = "consume"
    /\ consumer' = IF open["email"] /\ declared
                   THEN [pc |-> "range", ch |-> ch["email"]]
                   ELSE [consumer EXCEPT !.pc = "gone"]
    /\ open' = [open EXCEPT !["email"] = open["email"] /\ declared]
    /\ UNCHANGED <<brokerVars, link, conn, ch, late, req, inbox, mailVars>>

\* The channel of the loop is open.
Subscribed ==
    /\ consumer.pc = "range"
    /\ consumer.ch = ch["email"]
    /\ open["email"]

\* Mutant: the mails are never acknowledged.
DeliverUnacknowledged ==
    /\ Subscribed
    /\ queue # <<>> /\ Len(inbox) < MaxMails
    /\ inbox' = Append(inbox, Head(queue))
    /\ UNCHANGED <<brokerVars, clientVars, req, consumer, mailVars>>

Deliver ==
    /\ Subscribed
    /\ queue # <<>>
    /\ inbox' = Append(inbox, Head(queue))
    /\ queue' = Tail(queue)
    /\ UNCHANGED <<up, declared, losses, clientVars, req, consumer, mailVars>>

\* handleQueueMessage: it goes to Mailgun, or there is an error and it is forgotten.
HandleQueueMessage ==
    /\ consumer.pc = "range"
    /\ inbox # <<>>
    /\ inbox' = Tail(inbox)
    /\ \/ sent' = Append(sent, Head(inbox))
       \/ UNCHANGED sent
    /\ UNCHANGED <<brokerVars, clientVars, req, consumer, accepted>>

\* Mutant: the loop does not notice that msgs is closed.
ConsumerClosesUnnoticed ==
    /\ consumer.pc = "range"
    /\ ~Subscribed
    /\ inbox' = <<>>
    /\ UNCHANGED <<brokerVars, clientVars, req, consumer, mailVars>>

\* Mutant: what it has got is put back into the queue, behind the rest.
ConsumerClosesRequeueing ==
    /\ consumer.pc = "range"
    /\ ~Subscribed
    /\ consumer' = [consumer EXCEPT !.pc = "sleep"]
    /\ queue' = IF declared THEN queue \o inbox ELSE queue
    /\ inbox' = <<>>
    /\ UNCHANGED <<up, declared, losses, clientVars, req, mailVars>>

\* The loop ends, also if mails are left that it could have read.
ConsumerCloses ==
    /\ consumer.pc = "range"
    /\ ~Subscribed
    /\ consumer' = [consumer EXCEPT !.pc = "sleep"]
    /\ inbox' = <<>>
    /\ UNCHANGED <<brokerVars, clientVars, req, mailVars>>

\* The monitor dials at once while this goroutine sleeps for five seconds: there is a
\* new channel by now, unless something went wrong again.
WakeUp ==
    /\ consumer.pc = "sleep"
    /\ open["email"] \/ late
    /\ consumer' = [consumer EXCEPT !.pc = "declare"]
    /\ UNCHANGED <<brokerVars, clientVars, req, inbox, mailVars>>

-------------------------------------------------------------------------------
(* The network and the broker.                                             *)

\* A client loses its connection.
LoseConnection(c) ==
    /\ losses < MaxLosses
    /\ conn[c]
    /\ losses' = losses + 1
    /\ conn' = [conn EXCEPT ![c] = FALSE]
    /\ open' = [open EXCEPT ![c] = FALSE]
    /\ late' = (late \/ (c = "email" /\ consumer.pc = "sleep"))
    /\ UNCHANGED <<up, declared, queue, link, ch, req, consumer, inbox, mailVars>>

\* The broker stops, and the queue, which is not durable, goes with it; or it cannot
\* be reached.
BrokerDown ==
    /\ losses < MaxLosses
    /\ up
    /\ up' = FALSE
    /\ losses' = losses + 1
    /\ conn' = [c \in Clients |-> FALSE]
    /\ open' = [c \in Clients |-> FALSE]
    /\ late' = (late \/ consumer.pc = "sleep")
    /\ \/ declared' = FALSE /\ queue' = <<>>
       \/ UNCHANGED <<declared, queue>>
    /\ UNCHANGED <<link, ch, req, consumer, inbox, mailVars>>

BrokerUp ==
    /\ ~up
    /\ up' = TRUE
    /\ UNCHANGED <<declared, queue, losses, clientVars, req, consumer, inbox, mailVars>>

Next ==
    \/ \E c \in Clients :
          \/ Dial(c) \/ DialFails(c) \/ Channel(c) \/ MonitorConnection(c)
          \/ LoseConnection(c)
    \/ \E r \in Requests : PublishDeclare(r) \/ Publish(r)
    \/ ConsumeDeclare \/ Consume \/ Deliver \/ HandleQueueMessage
    \/ ConsumerCloses \/ WakeUp
    \/ BrokerDown \/ BrokerUp

Spec == Init /\ [][Next]_vars

\* The goroutines run, and the broker delivers what it has.  Nothing is assumed of the
\* network, of the broker coming back, or of requests coming in.
Fairness ==
    /\ \A c \in Clients :
          WF_vars(Dial(c) \/ DialFails(c) \/ Channel(c) \/ MonitorConnection(c))
    /\ WF_vars(ConsumeDeclare \/ Consume \/ ConsumerCloses \/ WakeUp)
    /\ WF_vars(HandleQueueMessage)
    /\ WF_vars(Deliver)

FairSpec == Spec /\ Fairness

-------------------------------------------------------------------------------
(* Properties.                                                             *)

\* Goroutines, channels and mails are what the code and the broker make of them.
TypeOK ==
    /\ up \in BOOLEAN /\ declared \in BOOLEAN /\ late \in BOOLEAN
    /\ losses \in 0 .. MaxLosses
    /\ queue \in Seq(Mails) /\ inbox \in Seq(Mails) /\ sent \in Seq(Mails)
    /\ link \in [Clients -> {"dial", "redial", "channel", "monitor"}]
    /\ conn \in [Clients -> BOOLEAN] /\ open \in [Clients -> BOOLEAN]
    /\ ch \in [Clients -> Channels]
    /\ req \in [Requests -> {"idle", "publish"}]
    /\ consumer \in ConsumerState
    /\ accepted \in 0 .. MaxMails
    /\ \A c \in Clients : (open[c] => conn[c]) /\ (conn[c] => up)
    /\ ~declared => queue = <<>>

\* However often channels come and go under Consume and its loop, no mail is sent
\* twice, and none after one that was published later, that is, whose Publish returned
\* later: the broker is taken to have a mail by then.
SentInOrder ==
    \A i, j \in DOMAIN sent : i < j => sent[i] < sent[j]

Mailing == INSTANCE MailQueue WITH pending <- inbox \o queue

\* The two clients and the broker are the queue that SignIn relies on.
QueueKept == Mailing!Spec

\* If the broker stays, Connect and monitorConnection get both services a channel
\* that stays.
Reconnects ==
    <>[]up => <>[](\A c \in Clients : open[c])

\* If the broker stays, a mail waits for good only if the email service has given up
\* consuming: whatever is lost, its goroutines do not wait for each other.
MailsMove ==
    <>[]up =>
        \A m \in Mails :
            (\E i \in DOMAIN queue : queue[i] = m)
                ~> (consumer.pc = "gone" \/ \A i \in DOMAIN queue : queue[i] # m)

\* shared/rabbitclient/client.go:143: "Re-consume the queue after reconnecting":
\* if the broker stays, a service that consumed once comes back to consuming.
ReConsumes ==
    <>[]up /\ <>(consumer.pc = "range") => <>[](consumer.pc = "range")
===============================================================================
