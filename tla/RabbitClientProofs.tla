-------------------------- MODULE RabbitClientProofs ---------------------------
(***************************************************************************)
(* Theorems about RabbitClient for any requests, mails and losses.         *)
(***************************************************************************)
EXTENDS RabbitClient, SequenceTheorems, TLAPS

USE DEF Mails

\* The mails on their way: those delivered to the email service come first.
pending == inbox \o queue

-------------------------------------------------------------------------------
(* What the steps do to the two parts of pending.                          *)

LEMMA AppendToSecond ==
    ASSUME NEW S, NEW s \in Seq(S), NEW t \in Seq(S), NEW x \in S
    PROVE  s \o Append(t, x) = Append(s \o t, x)
<1>1. Append(t, x) = t \o <<x>> /\ Append(s \o t, x) = (s \o t) \o <<x>>
  BY AppendIsConcat, ConcatProperties
<1>2. <<x>> \in Seq(S)
  OBVIOUS
<1> QED
  BY <1>1, <1>2, ConcatAssociative

LEMMA MoveHead ==
    ASSUME NEW S, NEW s \in Seq(S), NEW t \in Seq(S), t # <<>>
    PROVE  Append(s, Head(t)) \o Tail(t) = s \o t
<1>1. Head(t) \in S /\ Tail(t) \in Seq(S)
  BY HeadTailProperties
<1>2. t = <<Head(t)>> \o Tail(t)
  <2>1. <<Head(t)>> \in Seq(S)
    BY <1>1
  <2> QED
    BY <1>1, <2>1, HeadTailProperties, ConcatProperties, LenProperties, SeqEqual
<1>3. Append(s, Head(t)) = s \o <<Head(t)>> /\ <<Head(t)>> \in Seq(S)
  BY <1>1, AppendIsConcat
<1> QED
  BY <1>1, <1>2, <1>3, ConcatAssociative

LEMMA TailOfFirst ==
    ASSUME NEW S, NEW s \in Seq(S), NEW t \in Seq(S), s # <<>>
    PROVE  /\ s \o t # <<>>
           /\ Head(s \o t) = Head(s)
           /\ Tail(s \o t) = Tail(s) \o t
<1> DEFINE p == s \o t
<1>1. /\ p \in Seq(S) /\ Len(p) = Len(s) + Len(t) /\ Len(s) >= 1 /\ Len(t) \in Nat
      /\ \A i \in 1 .. Len(s) + Len(t) : p[i] = IF i <= Len(s) THEN s[i] ELSE t[i - Len(s)]
  BY ConcatProperties, EmptySeq, LenProperties
<1>2. p # <<>> /\ Head(p) = Head(s)
  BY <1>1, EmptySeq
<1>3. /\ Tail(p) \in Seq(S) /\ Len(Tail(p)) = Len(p) - 1
      /\ \A i \in 1 .. Len(Tail(p)) : Tail(p)[i] = p[i + 1]
  BY <1>1, <1>2, HeadTailProperties
<1>4. /\ Tail(s) \in Seq(S) /\ Len(Tail(s)) = Len(s) - 1
      /\ \A i \in 1 .. Len(Tail(s)) : Tail(s)[i] = s[i + 1]
  BY HeadTailProperties
<1>5. /\ Tail(s) \o t \in Seq(S) /\ Len(Tail(s) \o t) = Len(Tail(s)) + Len(t)
      /\ \A i \in 1 .. Len(Tail(s)) + Len(t) :
            (Tail(s) \o t)[i] = IF i <= Len(Tail(s)) THEN Tail(s)[i] ELSE t[i - Len(Tail(s))]
  BY <1>4, ConcatProperties
<1>6. Len(Tail(p)) = Len(Tail(s) \o t)
  BY <1>1, <1>3, <1>4, <1>5
<1> HIDE DEF p
<1>7. ASSUME NEW i \in 1 .. Len(Tail(p))
      PROVE  Tail(p)[i] = (Tail(s) \o t)[i]
  BY <1>1, <1>3, <1>4, <1>5, <1>6
<1>8. Tail(p) = Tail(s) \o t
  BY <1>3, <1>5, <1>6, <1>7, SeqEqual
<1> QED
  BY <1>2, <1>8 DEF p

LEMMA OnlySecond ==
    ASSUME NEW S, NEW s \in Seq(S), NEW t \in Seq(S)
    PROVE  SubSeq(s \o t, Len(s) + 1, Len(s \o t)) = t
<1> DEFINE p == s \o t
           q == SubSeq(p, Len(s) + 1, Len(p))
<1>1. /\ p \in Seq(S) /\ Len(p) = Len(s) + Len(t) /\ Len(s) \in Nat /\ Len(t) \in Nat
      /\ \A i \in 1 .. Len(s) + Len(t) : p[i] = IF i <= Len(s) THEN s[i] ELSE t[i - Len(s)]
  BY ConcatProperties, LenProperties
<1>2. \A i \in Len(s) + 1 .. Len(p) : p[i] \in S
  BY <1>1, ElementOfSeq
<1> HIDE DEF p
<1>3. /\ q \in Seq(S) /\ Len(q) = Len(t)
      /\ \A i \in 1 .. Len(t) : q[i] = p[Len(s) + i]
  BY <1>1, <1>2, SubSeqProperties
<1> HIDE DEF q
<1>4. ASSUME NEW i \in 1 .. Len(t)
      PROVE  q[i] = t[i]
  <2>1. Len(s) + i \in 1 .. Len(s) + Len(t) /\ ~(Len(s) + i <= Len(s)) /\ Len(s) + i - Len(s) = i
    BY <1>1
  <2> QED
    BY <1>1, <1>3, <2>1
<1>5. q = t
  BY <1>3, <1>4, SeqEqual
<1> QED
  BY <1>5 DEF p, q

LEMMA OnlyFirst ==
    ASSUME NEW S, NEW s \in Seq(S), NEW t \in Seq(S)
    PROVE  SubSeq(s \o t, 1, Len(s)) = s
<1> DEFINE p == s \o t
           q == SubSeq(p, 1, Len(s))
<1>1. /\ p \in Seq(S) /\ Len(p) = Len(s) + Len(t) /\ Len(s) \in Nat /\ Len(t) \in Nat
      /\ \A i \in 1 .. Len(s) + Len(t) : p[i] = IF i <= Len(s) THEN s[i] ELSE t[i - Len(s)]
  BY ConcatProperties, LenProperties
<1>2. \A i \in 1 .. Len(s) : p[i] \in S
  BY <1>1, ElementOfSeq
<1> HIDE DEF p
<1>3. /\ q \in Seq(S) /\ Len(q) = Len(s)
      /\ \A i \in 1 .. Len(s) : q[i] = p[i]
  BY <1>1, <1>2, SubSeqProperties
<1> HIDE DEF q
<1>4. q = s
  BY <1>1, <1>3, SeqEqual
<1> QED
  BY <1>4 DEF p, q

-------------------------------------------------------------------------------
(* Types.                                                                  *)

LEMMA InitTyped == Init => TypeOK
<1> SUFFICES ASSUME Init PROVE TypeOK
  OBVIOUS
<1>1. /\ link \in [Clients -> {"dial", "redial", "channel", "monitor"}]
      /\ conn \in [Clients -> BOOLEAN] /\ open \in [Clients -> BOOLEAN]
      /\ ch \in [Clients -> Channels]
      /\ req \in [Requests -> {"idle", "publish"}]
      /\ consumer \in ConsumerState
  BY DEF Init, ConsumerState, Channels
<1>2. \A c \in Clients : ~open[c] /\ ~conn[c]
  BY DEF Init
<1>3. losses \in 0 .. MaxLosses /\ accepted \in 0 .. MaxMails
  BY RabbitClientAssumption DEF Init
<1>4. queue \in Seq(Mails) /\ inbox \in Seq(Mails) /\ sent \in Seq(Mails)
  BY EmptySeq DEF Init
<1> QED
  BY <1>1, <1>2, <1>3, <1>4, Zenon DEF Init, TypeOK

\* Connections and channels are open only while they are, whoever loses them.
LEMMA ConnectTyped ==
    ASSUME TypeOK, NEW c \in Clients,
           Dial(c) \/ DialFails(c) \/ Channel(c) \/ MonitorConnection(c) \/ LoseConnection(c)
    PROVE  TypeOK'
<1>1. CASE Dial(c)
  BY <1>1 DEF Dial, TypeOK, brokerVars, mailVars
<1>2. CASE DialFails(c)
  BY <1>2 DEF DialFails, TypeOK, brokerVars, mailVars
<1>3. CASE Channel(c)
  <2>1. CASE conn[c]
    <3>1. /\ link' = [link EXCEPT ![c] = "monitor"]
          /\ ch' = [ch EXCEPT ![c] = ch[c] + 1]
          /\ open' = [open EXCEPT ![c] = TRUE]
          /\ late' = (late /\ c # "email")
          /\ UNCHANGED <<up, declared, queue, losses, conn, req, consumer, inbox, accepted, sent>>
      BY <1>3, <2>1, Zenon DEF Channel, brokerVars, mailVars
    <3>2. link' \in [Clients -> {"dial", "redial", "channel", "monitor"}]
      BY <3>1 DEF TypeOK
    <3>3. ch' \in [Clients -> Channels]
      BY <3>1 DEF TypeOK, Channels
    <3>4. /\ open' \in [Clients -> BOOLEAN]
          /\ \A d \in Clients : open'[d] => conn'[d]
      BY <2>1, <3>1, Zenon DEF TypeOK
    <3> QED
      BY <3>1, <3>2, <3>3, <3>4, Zenon DEF TypeOK
  <2>2. CASE ~conn[c]
    BY <1>3, <2>2 DEF Channel, TypeOK, brokerVars, mailVars
  <2> QED
    BY <2>1, <2>2
<1>4. CASE MonitorConnection(c)
  BY <1>4 DEF MonitorConnection, TypeOK, brokerVars, mailVars
<1>5. CASE LoseConnection(c)
  BY <1>5, RabbitClientAssumption DEF LoseConnection, TypeOK, mailVars
<1> QED
  BY <1>1, <1>2, <1>3, <1>4, <1>5

LEMMA PublishTyped ==
    ASSUME TypeOK, NEW r \in Requests, PublishDeclare(r) \/ Publish(r)
    PROVE  TypeOK'
<1>1. CASE PublishDeclare(r)
  BY <1>1 DEF PublishDeclare, TypeOK, clientVars, mailVars
<1>2. CASE Publish(r)
  <2>1. CASE open["user"]
    <3>1. accepted' \in Mails /\ accepted' \in 0 .. MaxMails
      BY <1>2, <2>1, RabbitClientAssumption DEF Publish, TypeOK
    <3>2. queue' \in Seq(Mails) /\ (~declared => queue' = <<>>)
      <4>1. (declared /\ queue' = Append(queue, accepted')) \/ queue' = queue
        BY <1>2, <2>1, Zenon DEF Publish
      <4>2. queue \in Seq(Mails) /\ (~declared => queue = <<>>)
        BY Zenon DEF TypeOK
      <4>3. Append(queue, accepted') \in Seq(Mails)
        BY <3>1, <4>2, AppendProperties
      <4> QED
        BY <4>1, <4>2, <4>3, Zenon
    <3>3. /\ req' \in [Requests -> {"idle", "publish"}]
          /\ UNCHANGED <<up, declared, losses, link, conn, ch, open, late, consumer, inbox, sent>>
      BY <1>2 DEF Publish, TypeOK, clientVars
    <3> QED
      BY <3>1, <3>2, <3>3, Zenon DEF TypeOK
  <2>2. CASE ~open["user"]
    BY <1>2, <2>2 DEF Publish, TypeOK, clientVars
  <2> QED
    BY <2>1, <2>2
<1> QED
  BY <1>1, <1>2

LEMMA ConsumeTyped ==
    ASSUME TypeOK,
           \/ ConsumeDeclare \/ Consume \/ Deliver \/ HandleQueueMessage
           \/ ConsumerCloses \/ WakeUp
    PROVE  TypeOK'
<1>1. CASE ConsumeDeclare
  <2>1. CASE open["email"]
    BY <1>1, <2>1 DEF ConsumeDeclare, TypeOK, ConsumerState, clientVars, mailVars
  <2>2. CASE ~open["email"]
    BY <1>1, <2>2 DEF ConsumeDeclare, TypeOK, ConsumerState, clientVars, mailVars
  <2> QED
    BY <2>1, <2>2
<1>2. CASE Consume
  <2>1. consumer' \in ConsumerState
    BY <1>2 DEF Consume, TypeOK, ConsumerState, Clients
  <2>2. /\ open' \in [Clients -> BOOLEAN]
        /\ \A c \in Clients : open'[c] => open[c]
    BY <1>2 DEF Consume, TypeOK
  <2> QED
    BY <1>2, <2>1, <2>2 DEF Consume, TypeOK, brokerVars, mailVars
<1>3. CASE Deliver
  <2>1. Head(queue) \in Mails /\ Tail(queue) \in Seq(Mails)
    BY <1>3, HeadTailProperties DEF Deliver, TypeOK
  <2>2. Append(inbox, Head(queue)) \in Seq(Mails)
    BY <2>1, AppendProperties DEF TypeOK
  <2> QED
    BY <1>3, <2>1, <2>2 DEF Deliver, TypeOK, clientVars, mailVars
<1>4. CASE HandleQueueMessage
  <2>1. Head(inbox) \in Mails /\ Tail(inbox) \in Seq(Mails)
    BY <1>4, HeadTailProperties DEF HandleQueueMessage, TypeOK
  <2>2. Append(sent, Head(inbox)) \in Seq(Mails)
    BY <2>1, AppendProperties DEF TypeOK
  <2> QED
    BY <1>4, <2>1, <2>2 DEF HandleQueueMessage, TypeOK, brokerVars, clientVars
<1>5. CASE ConsumerCloses
  BY <1>5, EmptySeq DEF ConsumerCloses, TypeOK, ConsumerState, brokerVars, clientVars, mailVars
<1>6. CASE WakeUp
  BY <1>6 DEF WakeUp, TypeOK, ConsumerState, brokerVars, clientVars, mailVars
<1> QED
  BY <1>1, <1>2, <1>3, <1>4, <1>5, <1>6

LEMMA BrokerTyped ==
    ASSUME TypeOK, BrokerDown \/ BrokerUp
    PROVE  TypeOK'
<1>1. CASE BrokerDown
  <2>1. /\ up' \in BOOLEAN /\ late' \in BOOLEAN
        /\ conn' \in [Clients -> BOOLEAN] /\ open' \in [Clients -> BOOLEAN]
        /\ \A c \in Clients : ~open'[c] /\ ~conn'[c]
        /\ UNCHANGED <<link, ch, req, consumer, inbox, accepted, sent>>
    BY <1>1, Zenon DEF BrokerDown, mailVars
  <2>2. losses' \in 0 .. MaxLosses
    BY <1>1, RabbitClientAssumption DEF BrokerDown, TypeOK
  <2>3. declared' \in BOOLEAN /\ queue' \in Seq(Mails) /\ (~declared' => queue' = <<>>)
    <3>1. <<>> \in Seq(Mails)
      BY EmptySeq
    <3>2. (declared' = FALSE /\ queue' = <<>>) \/ (declared' = declared /\ queue' = queue)
      BY <1>1, Zenon DEF BrokerDown
    <3>3. declared \in BOOLEAN /\ queue \in Seq(Mails) /\ (~declared => queue = <<>>)
      BY Zenon DEF TypeOK
    <3>4. CASE declared' = FALSE /\ queue' = <<>>
      BY <3>1, <3>4, Zenon
    <3>5. CASE declared' = declared /\ queue' = queue
      BY <3>3, <3>5, Zenon
    <3> QED
      BY <3>2, <3>4, <3>5, Zenon
  <2> QED
    BY <2>1, <2>2, <2>3, Zenon DEF TypeOK
<1>2. CASE BrokerUp
  BY <1>2 DEF BrokerUp, TypeOK, clientVars, mailVars
<1> QED
  BY <1>1, <1>2

LEMMA TypeKept == TypeOK /\ [Next]_vars => TypeOK'
<1> SUFFICES ASSUME TypeOK, [Next]_vars
             PROVE  TypeOK'
  OBVIOUS
<1>1. CASE UNCHANGED vars
  BY <1>1 DEF vars, brokerVars, clientVars, mailVars, TypeOK
<1>2. CASE Next
  BY <1>2, ConnectTyped, PublishTyped, ConsumeTyped, BrokerTyped DEF Next
<1> QED
  BY <1>1, <1>2

\* Goroutines, channels and mails of Connect, Publish and Consume keep their types.
THEOREM TypeCorrect == Spec => []TypeOK
BY InitTyped, TypeKept, PTL DEF Spec

-------------------------------------------------------------------------------
(* RabbitClient implements MailQueue.                                      *)

LEMMA InitMailing == Init => Mailing!Init
<1> SUFFICES ASSUME Init PROVE Mailing!Init
  OBVIOUS
<1>1. inbox \o queue = <<>>
  <2>1. inbox = <<>> /\ queue = <<>> /\ <<>> \in Seq(Mails)
    BY EmptySeq DEF Init
  <2> QED
    BY <2>1, ConcatEmptySeq
<1> QED
  BY <1>1 DEF Init, Mailing!Init

\* What the two disjuncts of the abstract Lose come from: one half of pending is lost.
LEMMA HalfLost ==
    ASSUME TypeOK, TypeOK', UNCHANGED <<accepted, sent>>,
           \/ inbox' = <<>> /\ queue' = queue
           \/ inbox' = inbox /\ queue' = <<>>
    PROVE  Mailing!Lose
<1> DEFINE n == Len(inbox)
           m == Len(pending)
<1>1. /\ inbox \in Seq(Mails) /\ queue \in Seq(Mails) /\ <<>> \in Seq(Mails)
      /\ n \in Nat /\ m \in Nat /\ n <= m
  BY ConcatProperties, LenProperties, EmptySeq DEF TypeOK, pending
<1>2. CASE inbox' = <<>> /\ queue' = queue
  <2>1. pending' = SubSeq(pending, n + 1, m)
    BY <1>1, <1>2, OnlySecond, ConcatEmptySeq DEF pending
  <2>2. n + 1 \in 1 .. m + 1 /\ m \in 0 .. m
    BY <1>1
  <2> QED
    BY <2>1, <2>2 DEF Mailing!Lose, pending
<1>3. CASE inbox' = inbox /\ queue' = <<>>
  <2>1. pending' = SubSeq(pending, 1, n)
    BY <1>1, <1>3, OnlyFirst, ConcatEmptySeq DEF pending
  <2>2. 1 \in 1 .. m + 1 /\ n \in 0 .. m
    BY <1>1
  <2> QED
    BY <2>1, <2>2 DEF Mailing!Lose, pending
<1> QED
  BY <1>2, <1>3

LEMMA PublishMailing ==
    ASSUME TypeOK, NEW r \in Requests, Publish(r)
    PROVE  [Mailing!Next]_(Mailing!mailVars)
<1>1. inbox' = inbox /\ sent' = sent
  BY DEF Publish
<1>2. CASE open["user"]
  <2>1. /\ accepted < MaxMails /\ accepted' = accepted + 1
        /\ queue' = Append(queue, accepted') \/ queue' = queue
    BY <1>2, Zenon DEF Publish
  <2>2. accepted' \in Mails /\ inbox \in Seq(Mails) /\ queue \in Seq(Mails)
    BY <2>1, RabbitClientAssumption DEF TypeOK
  <2>3. inbox \o Append(queue, accepted') = Append(inbox \o queue, accepted')
    BY <2>2, AppendToSecond
  <2>4. Mailing!Accept
    BY <1>1, <2>1, <2>3 DEF Mailing!Accept
  <2> QED
    BY <2>4 DEF Mailing!Next
<1>3. CASE ~open["user"]
  <2>1. accepted' = accepted /\ queue' = queue
    BY <1>3, Zenon DEF Publish
  <2> QED
    BY <1>1, <2>1 DEF Mailing!mailVars
<1> QED
  BY <1>2, <1>3

LEMMA DeliverMailing ==
    ASSUME TypeOK, Deliver
    PROVE  UNCHANGED Mailing!mailVars
<1>1. /\ inbox \in Seq(Mails) /\ queue \in Seq(Mails) /\ queue # <<>>
      /\ inbox' = Append(inbox, Head(queue)) /\ queue' = Tail(queue)
      /\ UNCHANGED <<accepted, sent>>
  BY DEF TypeOK, Deliver, mailVars
<1>2. inbox' \o queue' = inbox \o queue
  BY <1>1, MoveHead
<1> QED
  BY <1>1, <1>2 DEF Mailing!mailVars

LEMMA HandleMailing ==
    ASSUME TypeOK, HandleQueueMessage
    PROVE  Mailing!Next
<1>1. /\ inbox \in Seq(Mails) /\ queue \in Seq(Mails) /\ inbox # <<>>
      /\ inbox' = Tail(inbox) /\ queue' = queue /\ accepted' = accepted
      /\ sent' = Append(sent, Head(inbox)) \/ sent' = sent
  BY DEF TypeOK, HandleQueueMessage, brokerVars
<1>2. /\ pending # <<>>
      /\ Head(pending) = Head(inbox)
      /\ pending' = Tail(pending)
  BY <1>1, TailOfFirst DEF pending
<1>3. CASE sent' = Append(sent, Head(inbox))
  BY <1>1, <1>2, <1>3 DEF Mailing!Next, Mailing!Send, pending
<1>4. CASE sent' = sent
  <2>1. pending \in Seq(Mails)
    BY <1>1, ConcatProperties DEF pending
  <2>2. pending' = SubSeq(pending, 2, Len(pending)) /\ Len(pending) \in Nat \ {0}
    BY <1>2, <2>1, TailIsSubSeq, EmptySeq
  <2>3. 2 \in 1 .. Len(pending) + 1 /\ Len(pending) \in 0 .. Len(pending)
    BY <2>2
  <2> QED
    BY <1>1, <1>4, <2>2, <2>3 DEF Mailing!Next, Mailing!Lose, pending
<1> QED
  BY <1>1, <1>3, <1>4

LEMMA StepMailing ==
    TypeOK /\ TypeOK' /\ [Next]_vars => [Mailing!Next]_(Mailing!mailVars)
<1> SUFFICES ASSUME TypeOK, TypeOK', [Next]_vars
             PROVE  [Mailing!Next]_(Mailing!mailVars)
  OBVIOUS
<1>1. ASSUME UNCHANGED <<inbox, queue, accepted, sent>>
      PROVE  UNCHANGED Mailing!mailVars
  BY <1>1 DEF Mailing!mailVars
<1>2. ASSUME NEW r \in Requests, PublishDeclare(r) \/ Publish(r)
      PROVE  [Mailing!Next]_(Mailing!mailVars)
  BY <1>1, <1>2, PublishMailing DEF PublishDeclare, mailVars
<1>3. CASE ConsumerCloses
  BY <1>3, HalfLost DEF ConsumerCloses, brokerVars, mailVars, Mailing!Next
<1>4. CASE BrokerDown
  <2>1. /\ queue' = <<>> \/ queue' = queue
        /\ UNCHANGED <<inbox, accepted, sent>>
    BY <1>4 DEF BrokerDown, mailVars
  <2>2. CASE queue' = <<>>
    BY <2>1, <2>2, HalfLost DEF Mailing!Next
  <2>3. CASE queue' = queue
    BY <1>1, <2>1, <2>3
  <2> QED
    BY <2>1, <2>2, <2>3
<1>5. ASSUME \/ \E c \in Clients :
                   \/ Dial(c) \/ DialFails(c) \/ Channel(c) \/ MonitorConnection(c)
                   \/ LoseConnection(c)
             \/ ConsumeDeclare \/ Consume \/ WakeUp \/ BrokerUp \/ UNCHANGED vars
      PROVE  [Mailing!Next]_(Mailing!mailVars)
  <2>1. UNCHANGED <<inbox, queue, accepted, sent>>
    BY <1>5
       DEF Dial, DialFails, Channel, MonitorConnection, LoseConnection, ConsumeDeclare,
           Consume, WakeUp, BrokerUp, vars, brokerVars, mailVars
  <2> QED
    BY <1>1, <2>1
<1> QED
  BY <1>2, <1>3, <1>4, <1>5, DeliverMailing, HandleMailing DEF Next

\* Two instances of the client and a broker that comes and goes are the lossy, ordered,
\* at-most-once queue that SendOtpEmail relies on.
THEOREM ImplementsMailQueue == Spec => QueueKept
<1>1. Spec => []TypeOK
  BY TypeCorrect
<1> QED
  BY <1>1, InitMailing, StepMailing, PTL DEF Spec, QueueKept, Mailing!Spec

-------------------------------------------------------------------------------
(* Mails go out in the order in which they were accepted.                  *)

Ascending(s) == \A i, j \in 1 .. Len(s) : i < j => s[i] < s[j]

AllBelow(s, t) == \A i \in 1 .. Len(s), j \in 1 .. Len(t) : s[i] < t[j]

AtMost(s, n) == \A i \in 1 .. Len(s) : s[i] <= n

\* What was sent comes before what is on its way, and that before what is still to come.
OrderInv ==
    /\ Ascending(sent) /\ Ascending(pending)
    /\ AllBelow(sent, pending)
    /\ AtMost(sent, accepted) /\ AtMost(pending, accepted)

LEMMA AppendAscends ==
    ASSUME NEW s \in Seq(Nat), NEW x \in Nat, Ascending(s), \A i \in 1 .. Len(s) : s[i] < x
    PROVE  Ascending(Append(s, x))
<1>1. /\ Len(Append(s, x)) = Len(s) + 1 /\ Len(s) \in Nat
      /\ \A i \in 1 .. Len(s) : Append(s, x)[i] = s[i]
      /\ Append(s, x)[Len(s) + 1] = x
  BY AppendProperties, LenProperties
<1> QED
  BY <1>1 DEF Ascending

\* A part of pending is as ordered as the whole.
LEMMA PartKeeps ==
    ASSUME NEW s \in Seq(Nat), NEW t \in Seq(Nat), NEW n \in Nat, NEW k \in Nat,
           NEW p \in Seq(Nat),
           Len(p) + k <= Len(s) \/ Len(p) = 0,
           \A i \in 1 .. Len(p) : p[i] = s[i + k],
           Ascending(s), AllBelow(t, s), AtMost(s, n)
    PROVE  Ascending(p) /\ AllBelow(t, p) /\ AtMost(p, n)
<1>1. Len(p) \in Nat /\ Len(s) \in Nat
  BY LenProperties
<1>2. \A i \in 1 .. Len(p) : i + k \in 1 .. Len(s)
  BY <1>1
<1>3. Ascending(p)
  BY <1>1, <1>2 DEF Ascending
<1>4. AllBelow(t, p)
  BY <1>2 DEF AllBelow
<1>5. AtMost(p, n)
  BY <1>2 DEF AtMost
<1> QED
  BY <1>3, <1>4, <1>5

LEMMA MailsAreNumbers ==
    ASSUME TypeOK
    PROVE  /\ sent \in Seq(Nat) /\ pending \in Seq(Nat)
           /\ accepted \in Nat
<1>1. Mails \subseteq Nat
  BY RabbitClientAssumption
<1>2. pending \in Seq(Mails)
  BY ConcatProperties DEF TypeOK, pending
<1>3. sent \in Seq(Mails)
  BY DEF TypeOK
<1>4. accepted \in Nat
  BY RabbitClientAssumption DEF TypeOK
<1> HIDE DEF Mails
<1> QED
  BY <1>1, <1>2, <1>3, <1>4, SeqMonotonic

LEMMA OrderKept ==
    ASSUME TypeOK, TypeOK', OrderInv, [Mailing!Next]_(Mailing!mailVars)
    PROVE  OrderInv'
<1>1. /\ sent \in Seq(Nat) /\ pending \in Seq(Nat) /\ accepted \in Nat
      /\ sent' \in Seq(Nat) /\ pending' \in Seq(Nat) /\ accepted' \in Nat
  <2>1. (sent \in Seq(Nat) /\ pending \in Seq(Nat) /\ accepted \in Nat)'
    BY MailsAreNumbers, PTL
  <2> QED
    BY <2>1, MailsAreNumbers
<1>2. /\ Ascending(sent) /\ Ascending(pending)
      /\ AllBelow(sent, pending)
      /\ AtMost(sent, accepted) /\ AtMost(pending, accepted)
  BY DEF OrderInv
<1>3. SUFFICES /\ Ascending(sent') /\ Ascending(pending')
               /\ AllBelow(sent', pending')
               /\ AtMost(sent', accepted') /\ AtMost(pending', accepted')
  BY DEF OrderInv, Ascending, AllBelow, AtMost
<1>4. Len(sent) \in Nat /\ Len(pending) \in Nat
  BY <1>1, LenProperties
<1>5. CASE Mailing!Accept
  <2>1. /\ accepted' = accepted + 1 /\ sent' = sent
        /\ pending' = Append(pending, accepted') \/ pending' = pending
    BY <1>5 DEF Mailing!Accept, pending
  <2>2. AtMost(sent, accepted') /\ AtMost(pending, accepted')
    BY <1>1, <1>2, <2>1, ElementOfSeq DEF AtMost
  <2>3. CASE pending' = pending
    BY <1>2, <2>1, <2>2, <2>3
  <2>4. CASE pending' = Append(pending, accepted')
    <3>1. /\ Len(pending') = Len(pending) + 1
          /\ \A i \in 1 .. Len(pending) : pending'[i] = pending[i]
          /\ pending'[Len(pending) + 1] = accepted'
      BY <1>1, <2>4, AppendProperties
    <3>2. \A i \in 1 .. Len(pending) : pending[i] \in Nat /\ pending[i] < accepted'
      BY <1>1, <1>2, <2>1, ElementOfSeq DEF AtMost
    <3>3. \A i \in 1 .. Len(sent) : sent[i] \in Nat /\ sent[i] < accepted'
      BY <1>1, <1>2, <2>1, ElementOfSeq DEF AtMost
    <3>4. Ascending(pending')
      BY <1>1, <1>2, <2>4, <3>2, AppendAscends
    <3>5. AllBelow(sent, pending')
      BY <1>2, <1>4, <3>1, <3>3 DEF AllBelow
    <3>6. AtMost(pending', accepted')
      <4>1. \A i \in 1 .. Len(pending) : pending'[i] <= accepted'
        BY <2>2, <3>1 DEF AtMost
      <4>2. accepted' <= accepted'
        BY <1>1
      <4> QED
        BY <1>4, <3>1, <4>1, <4>2 DEF AtMost
    <3> QED
      BY <1>2, <2>1, <2>2, <3>4, <3>5, <3>6
  <2> QED
    BY <2>1, <2>3, <2>4
<1>6. CASE Mailing!Lose
  <2>1. PICK i \in 1 .. Len(pending) + 1, j \in 0 .. Len(pending) :
           pending' = SubSeq(pending, i, j)
    BY <1>6 DEF Mailing!Lose, pending
  <2>2. accepted' = accepted /\ sent' = sent
    BY <1>6 DEF Mailing!Lose
  <2>3. \A k \in i .. j : pending[k] \in Nat
    BY <1>1, <1>4, ElementOfSeq
  <2>4. /\ Len(pending') = IF i <= j THEN j - i + 1 ELSE 0
        /\ \A k \in 1 .. j - i + 1 : pending'[k] = pending[i + k - 1]
    BY <1>4, <2>1, <2>3, SubSeqProperties
  <2>5. i - 1 \in Nat /\ (Len(pending') + (i - 1) <= Len(pending) \/ Len(pending') = 0)
    BY <1>4, <2>4
  <2>6. \A k \in 1 .. Len(pending') : pending'[k] = pending[k + (i - 1)]
    BY <1>4, <2>4
  <2>7. Ascending(pending') /\ AllBelow(sent, pending') /\ AtMost(pending', accepted)
    BY <1>1, <1>2, <2>5, <2>6, PartKeeps
  <2> QED
    BY <1>2, <2>2, <2>7
<1>7. CASE Mailing!Send
  <2>1. /\ pending # <<>> /\ accepted' = accepted
        /\ sent' = Append(sent, Head(pending)) /\ pending' = Tail(pending)
    BY <1>7 DEF Mailing!Send, pending
  <2>2. /\ Len(pending) >= 1 /\ Head(pending) = pending[1] /\ Head(pending) \in Nat
        /\ Len(pending') = Len(pending) - 1
        /\ \A i \in 1 .. Len(pending') : pending'[i] = pending[i + 1]
    BY <1>1, <1>4, <2>1, HeadTailProperties, EmptySeq
  <2>3. Ascending(pending') /\ AllBelow(sent, pending') /\ AtMost(pending', accepted)
    <3>1. Len(pending') + 1 <= Len(pending) /\ 1 \in Nat
      BY <1>4, <2>2
    <3> HIDE DEF pending
    <3> QED
      BY <1>1, <1>2, <2>2, <3>1, PartKeeps
  <2>4. \A i \in 1 .. Len(sent) : sent[i] < Head(pending)
    BY <1>2, <1>4, <2>2 DEF AllBelow
  <2>5. Ascending(sent')
    BY <1>1, <1>2, <2>1, <2>2, <2>4, AppendAscends
  <2>6. /\ Len(sent') = Len(sent) + 1
        /\ \A i \in 1 .. Len(sent) : sent'[i] = sent[i]
        /\ sent'[Len(sent) + 1] = Head(pending)
    BY <1>1, <2>1, <2>2, AppendProperties
  <2>7. \A i \in 1 .. Len(pending') : Head(pending) < pending'[i]
    BY <1>2, <1>4, <2>2 DEF Ascending
  <2>8. AllBelow(sent', pending')
    BY <1>4, <2>3, <2>6, <2>7 DEF AllBelow
  <2>9. AtMost(sent', accepted)
    BY <1>2, <1>4, <2>2, <2>6 DEF AtMost
  <2> QED
    BY <2>1, <2>3, <2>5, <2>8, <2>9
<1>8. CASE UNCHANGED Mailing!mailVars
  BY <1>2, <1>8 DEF Mailing!mailVars, pending
<1> QED
  BY <1>5, <1>6, <1>7, <1>8 DEF Mailing!Next

\* Across any number of reconnections, Consume hands no mail to Mailgun twice and none
\* after one whose Publish returned later.
THEOREM InOrder == Spec => []SentInOrder
<1>1. Init => OrderInv
  <2> SUFFICES ASSUME Init PROVE OrderInv
    OBVIOUS
  <2>1. Len(sent) = 0 /\ Len(pending) = 0
    BY InitMailing, EmptySeq DEF Init, pending, Mailing!Init
  <2> QED
    BY <2>1 DEF OrderInv, Ascending, AllBelow, AtMost
<1>2. OrderInv /\ TypeOK /\ TypeOK' /\ [Next]_vars => OrderInv'
  BY StepMailing, OrderKept
<1>3. OrderInv /\ TypeOK => SentInOrder
  BY LenProperties DEF OrderInv, Ascending, SentInOrder, TypeOK
<1>4. Spec => []TypeOK
  BY TypeCorrect
<1> QED
  BY <1>1, <1>2, <1>3, <1>4, PTL DEF Spec
===============================================================================
