-------------------------- MODULE DeviceLinkProofs --------------------------
(***************************************************************************)
(* What the server and its devices tell each other, for every number of    *)
(* connections, messages, kiosks and attempts: the coordinator's channel   *)
(* to a kiosk (Coordinator), the kiosk's journal (JournalUpload), the      *)
(* subscriptions to a camera's events (OnvifEvents), the requests to a     *)
(* camera (OnvifClient), the topics it offers (EventTopics), the events    *)
(* that come in (EventIngest), the cameras of a vendor's account           *)
(* (CloudCameras) and the kiosk's own update (AppUpdate).                  *)
(* A part for each: the inductive invariant, a lemma for each operation    *)
(* that says it keeps the invariant, and the theorem.                      *)
(***************************************************************************)
EXTENDS Coordinator, JournalUpload, OnvifEvents, OnvifClient, EventTopics, EventIngest,
        CloudCameras, AppUpdate, FiniteSetTheorems, SequenceTheorems, TLAPS
-----------------------------------------------------------------------------
(* Coordinator: the channel to a kiosk *)

MsgTypes == {"reload-bundle", "layout-switch", "request", "journal-start", "journal-stop"}
Msgs == [type : MsgTypes, n : Nat, about : Layouts \cup Requests \cup {0}]
MsgTrue(m) == m.n \in 1..sent /\ (m.type = "request" => m.about \in Requests)

RequestType == [state : {"none", "pending", "resolved", "rejected"}, sock : 0..MaxSocks]
RequestTypes == [Requests -> RequestType]

ChannelTypes ==
  /\ viewer \in BOOLEAN /\ assigned \subseteq Layouts
  /\ conn \in 0..MaxSocks /\ client \in 0..MaxSocks
  /\ sock \in [Socks -> {"unused", "open", "closing", "closed"}]
  /\ req \in RequestTypes
  /\ answers \subseteq Socks \X Requests
  /\ subs \subseteq Admins /\ streaming \in BOOLEAN /\ sent \in 0..(MaxMsgs + 1)

MailTypes ==
  /\ wire \in [Socks -> Seq(Msgs)]
  /\ \A s \in Socks : \A i \in 1..Len(wire[s]) : MsgTrue(wire[s][i])
  /\ queue \in Seq(Msgs) /\ Len(queue) <= QueueCap
  /\ \A i \in 1..Len(queue) : MsgTrue(queue[i])
  /\ \A c \in checks : c.sock \in Socks /\ c.m \in Msgs /\ MsgTrue(c.m)
       /\ c.m.type = "layout-switch"
  /\ ran \in Seq(Nat) /\ \A i \in 1..Len(ran) : ran[i] \in 1..sent

\* Sequences of messages: in the order given, all of one before the other, and
\* with every start of the journal followed by a stop.
Ascends(q) == \A i, j \in 1..Len(q) : i < j => q[i].n < q[j].n
Before(p, q) == \A i \in 1..Len(p), j \in 1..Len(q) : p[i].n < q[j].n
Settles(q) ==
  \A i \in 1..Len(q) : q[i].type = "journal-start" =>
    \E j \in 1..Len(q) : i < j /\ q[j].type = "journal-stop"
Stops(q) == \E j \in 1..Len(q) : q[j].type = "journal-stop"
RanBefore(q) == \A i \in 1..Len(ran), j \in 1..Len(q) : ran[i] < q[j].n

\* What a kiosk ran, what is on its wire and what is queued, in this order.
MailInOrder ==
  ~viewer =>
    /\ checks = {} /\ Ascends(queue) /\ RanBefore(queue)
    /\ \A i, j \in 1..Len(ran) : i < j => ran[i] < ran[j]
    /\ client # 0 => Ascends(wire[client]) /\ RanBefore(wire[client]) /\ Before(wire[client], queue)

Paired == client # 0 /\ conn # 0 => client = conn

\* Nobody watches a viewer; the journal of a kiosk nobody watches is stopped, or
\* will be by what is on its way.
Quiet ==
  /\ viewer => subs = {}
  /\ client = 0 => ~streaming
  /\ subs = {} => Settles(queue)
  /\ subs = {} /\ client # 0 /\ client = conn /\ queue = <<>> =>
       Settles(wire[client]) /\ (streaming => Stops(wire[client]))

ChanInv ==
  /\ ChannelTypes /\ MailTypes /\ MailInOrder /\ Paired /\ Quiet
  /\ RequestsFollowSocket /\ OpenMeansDrained

\* What holds before the kiosk first connects.
LEMMA ChannelInitially == CoordInit => ChanInv
<1> SUFFICES ASSUME CoordInit PROVE ChanInv
  OBVIOUS
<1>1. /\ viewer \in BOOLEAN /\ conn = 0 /\ client = 0 /\ sock = [s \in Socks |-> "unused"]
      /\ wire = [s \in Socks |-> <<>>] /\ queue = <<>> /\ checks = {} /\ answers = {} /\ subs = {}
      /\ req = [r \in Requests |-> NoRequest] /\ streaming = FALSE /\ sent = 0 /\ ran = <<>>
      /\ assigned \subseteq Layouts
  BY DEF CoordInit
<1>2. 0 \in 0..MaxSocks /\ 0 \in 0..(MaxMsgs + 1) /\ 0 <= QueueCap
  BY CoordAssumption
<1>3. NoRequest.state = "none"
      /\ NoRequest \in RequestType
  BY <1>2 DEF NoRequest, RequestTypes, RequestType
<1>4. ChannelTypes
  BY <1>1, <1>2, <1>3 DEF ChannelTypes, RequestTypes, RequestType
<1>5. <<>> \in Seq(Msgs) /\ <<>> \in Seq(Nat) /\ Len(<<>>) = 0
  OBVIOUS
<1>6. MailTypes
  BY <1>1, <1>2, <1>5 DEF MailTypes
<1>7. MailInOrder /\ Paired /\ Quiet
  BY <1>1, <1>5 DEF MailInOrder, Paired, Quiet, Ascends, RanBefore, Settles
<1>8. RequestsFollowSocket /\ OpenMeansDrained
  BY <1>1, <1>3 DEF RequestsFollowSocket, OpenMeansDrained
<1> QED
  BY <1>4, <1>6, <1>7, <1>8 DEF ChanInv

\* A message put at the end of what is on the wire.
LEMMA Appended ==
  ASSUME NEW q \in Seq(Msgs), NEW m \in Msgs, NEW w, w = Append(q, m)
  PROVE  /\ w \in Seq(Msgs) /\ Len(w) = Len(q) + 1 /\ w[Len(w)] = m /\ Len(q) \in Nat
         /\ \A i \in 1..Len(q) : w[i] = q[i]
OBVIOUS

\* ... or of the queue, which may forget its first.
LEMMA Enqueued ==
  ASSUME NEW q \in Seq(Msgs), Len(q) <= QueueCap, NEW m \in Msgs, NEW w, w = Enqueue(q, m)
  PROVE  /\ w \in Seq(Msgs) /\ Len(w) <= QueueCap /\ Len(w) \in Nat /\ Len(q) \in Nat
         /\ w # <<>> /\ Len(w) >= 1 /\ w[Len(w)] = m
         /\ \E d \in {0, 1} : /\ Len(w) = Len(q) + 1 - d
                              /\ \A i \in 1..(Len(w) - 1) : w[i] = q[i + d] /\ i + d \in 1..Len(q)
<1>1. CASE Len(q) < QueueCap
  <2>1. w = Append(q, m)
    BY <1>1 DEF Enqueue
  <2>2. Len(w) = Len(q) + 1 - 0 /\ \A i \in 1..(Len(w) - 1) : w[i] = q[i + 0] /\ i + 0 \in 1..Len(q)
    BY <2>1
  <2> QED
    BY <1>1, <2>1, <2>2, CoordAssumption
<1>2. CASE ~(Len(q) < QueueCap)
  <2>1. w = Append(Tail(q), m)
    BY <1>2 DEF Enqueue
  <2>2. Len(q) = QueueCap /\ Len(q) \in Nat \ {0} /\ q # <<>>
    BY <1>2, CoordAssumption
  <2>3. Tail(q) \in Seq(Msgs) /\ Len(Tail(q)) = Len(q) - 1
        /\ \A i \in 1..(Len(q) - 1) : Tail(q)[i] = q[i + 1]
    BY <2>2
  <2>4. /\ w \in Seq(Msgs) /\ Len(w) = Len(q) + 1 - 1 /\ w[Len(w)] = m
        /\ \A i \in 1..(Len(w) - 1) : w[i] = Tail(q)[i]
    BY <2>1, <2>2, <2>3
  <2>5. \A i \in 1..(Len(w) - 1) : w[i] = q[i + 1] /\ i + 1 \in 1..Len(q)
    BY <2>2, <2>3, <2>4
  <2> QED
    BY <2>2, <2>4, <2>5
<1> QED
  BY <1>1, <1>2

\* What is sent, whatever the coordinator then does with it.
Sends(m) ==
  /\ m \in Msgs /\ m.n = sent + 1 /\ (m.type = "request" => m.about \in Requests)
  /\ sent' = sent + 1 /\ sent <= MaxMsgs
  /\ UNCHANGED <<viewer, assigned, conn, sock, client, answers, streaming, ran>>
  /\ \/ subs' = subs /\ (m.type = "journal-start" => subs # {})
     \/ subs' \subseteq subs /\ subs # {} /\ m.type = "journal-stop"

\* The mail after a step: everything the invariant says but for requests.
MailKept == (ChannelTypes /\ MailTypes /\ MailInOrder /\ Paired /\ Quiet /\ OpenMeansDrained)'

\* What every message sent leaves true, wherever it goes: its number is the
\* highest.
LEMMA SendTypes ==
  ASSUME ChanInv, NEW m, Sends(m), req' \in RequestTypes
  PROVE  /\ ChannelTypes' /\ Paired'
         /\ sent \in Nat /\ sent' \in Nat /\ m \in Msgs /\ MsgTrue(m)'
         /\ \A i \in 1..Len(ran) : ran[i] \in 1..sent'
         /\ \A x \in Msgs : MsgTrue(x) => MsgTrue(x)' /\ x.n < m.n
         /\ \A i \in 1..Len(ran) : ran[i] < m.n
         /\ (viewer => subs' = {})
<1>1. /\ sent \in 0..(MaxMsgs + 1) /\ sent' = sent + 1 /\ sent <= MaxMsgs /\ MaxMsgs \in Nat
      /\ subs' \subseteq subs /\ subs \subseteq Admins
  BY CoordAssumption DEF ChanInv, ChannelTypes, Sends
<1>2. sent \in Nat /\ sent' \in 0..(MaxMsgs + 1)
  BY <1>1
<1>3. ChannelTypes'
  BY <1>1, <1>2 DEF ChanInv, ChannelTypes, Sends
<1>4. Paired'
  BY DEF ChanInv, Paired, Sends
<1>5. m \in Msgs /\ m.n = sent + 1 /\ (m.type = "request" => m.about \in Requests)
  BY DEF Sends
<1>6. MsgTrue(m)'
  BY <1>1, <1>2, <1>5 DEF MsgTrue
<1>7. \A x \in Msgs : MsgTrue(x) => MsgTrue(x)' /\ x.n < m.n
  BY <1>1, <1>2, <1>5 DEF MsgTrue
<1>8. \A i \in 1..Len(ran) : ran[i] \in 1..sent
  BY DEF ChanInv, MailTypes
<1>9. \A i \in 1..Len(ran) : ran[i] \in 1..sent' /\ ran[i] < m.n
  BY <1>1, <1>2, <1>5, <1>8
<1>10. viewer => subs' = {}
  BY <1>1 DEF ChanInv, Quiet
<1> QED
  BY <1>2, <1>3, <1>4, <1>5, <1>6, <1>7, <1>9, <1>10

\* What a step leaves of the mail's types, once every message is known to be true.
LEMMA NothingSent ==
  ASSUME ChanInv, NEW m, Sends(m), req' \in RequestTypes,
         UNCHANGED <<queue, wire>>, subs' = subs,
         checks' = checks \/ (viewer /\ \A c \in checks' : c \in checks \/ (c.sock \in Socks
           /\ c.m = m /\ m.type = "layout-switch"))
  PROVE  MailKept
<1>1. ChannelTypes' /\ Paired' /\ m \in Msgs /\ MsgTrue(m)'
      /\ (\A i \in 1..Len(ran) : ran[i] \in 1..sent')
      /\ (\A x \in Msgs : MsgTrue(x) => MsgTrue(x)' /\ x.n < m.n)
  BY SendTypes
<1>2. /\ wire' = wire /\ queue' = queue /\ ran' = ran /\ viewer' = viewer /\ client' = client
      /\ conn' = conn /\ sock' = sock /\ streaming' = streaming
  BY DEF Sends
<1>3. MailTypes'
  <2>1. /\ wire \in [Socks -> Seq(Msgs)]
        /\ \A s \in Socks : \A i \in 1..Len(wire[s]) : MsgTrue(wire[s][i])
        /\ queue \in Seq(Msgs) /\ Len(queue) <= QueueCap
        /\ \A i \in 1..Len(queue) : MsgTrue(queue[i])
        /\ \A c \in checks : c.sock \in Socks /\ c.m \in Msgs /\ MsgTrue(c.m)
             /\ c.m.type = "layout-switch"
        /\ ran \in Seq(Nat)
    BY DEF ChanInv, MailTypes
  <2>2. \A s \in Socks : \A i \in 1..Len(wire[s]) : wire[s][i] \in Msgs
    BY <2>1
  <2>3. \A s \in Socks : \A i \in 1..Len(wire[s]) : MsgTrue(wire[s][i])'
    BY <1>1, <1>2, <2>1, <2>2 DEF MsgTrue
  <2>4. \A i \in 1..Len(queue) : queue[i] \in Msgs
    BY <2>1
  <2>5. \A i \in 1..Len(queue) : MsgTrue(queue[i])'
    BY <1>1, <1>2, <2>1, <2>4 DEF MsgTrue
  <2>6. \A c \in checks' : c.sock \in Socks /\ c.m \in Msgs /\ MsgTrue(c.m)'
          /\ c.m.type = "layout-switch"
    BY <1>1, <2>1 DEF MsgTrue
  <2> QED
    BY <1>1, <1>2, <2>1, <2>3, <2>5, <2>6 DEF MailTypes, MsgTrue
<1>4. MailInOrder'
  BY <1>2 DEF ChanInv, MailInOrder, Ascends, RanBefore, Before
<1>5. Quiet'
  BY <1>2 DEF ChanInv, Quiet, Settles, Stops
<1>6. OpenMeansDrained'
  BY <1>2 DEF ChanInv, OpenMeansDrained, IsOpen
<1> QED
  BY <1>1, <1>3, <1>4, <1>5, <1>6 DEF MailKept

\* A message sent on the open connection.
LEMMA WireSent ==
  ASSUME ChanInv, NEW m, Sends(m), req' \in RequestTypes,
         IsOpen, wire' = [wire EXCEPT ![conn] = Append(@, m)], UNCHANGED <<queue, checks>>
  PROVE  MailKept
<1>1. ChannelTypes' /\ Paired' /\ m \in Msgs /\ MsgTrue(m)'
      /\ (\A i \in 1..Len(ran) : ran[i] \in 1..sent')
      /\ (\A x \in Msgs : MsgTrue(x) => MsgTrue(x)' /\ x.n < m.n)
      /\ (\A i \in 1..Len(ran) : ran[i] < m.n)
      /\ (viewer => subs' = {})
  BY SendTypes
<1>2. /\ queue' = queue /\ ran' = ran /\ viewer' = viewer /\ client' = client /\ checks' = checks
      /\ conn' = conn /\ sock' = sock /\ streaming' = streaming
  BY DEF Sends
<1>3. queue = <<>>
  BY DEF ChanInv, OpenMeansDrained
<1>4. conn \in Socks
  BY CoordAssumption DEF IsOpen, ChanInv, ChannelTypes, Socks
<1>5. /\ wire \in [Socks -> Seq(Msgs)]
      /\ \A s \in Socks : \A i \in 1..Len(wire[s]) : MsgTrue(wire[s][i])
      /\ \A c \in checks : c.sock \in Socks /\ c.m \in Msgs /\ MsgTrue(c.m)
           /\ c.m.type = "layout-switch"
      /\ ran \in Seq(Nat)
  BY DEF ChanInv, MailTypes
<1>6. wire'[conn] = Append(wire[conn], m) /\ wire[conn] \in Seq(Msgs)
      /\ \A s \in Socks : s # conn => wire'[s] = wire[s]
  BY <1>4, <1>5
<1>7. /\ wire'[conn] \in Seq(Msgs) /\ Len(wire'[conn]) = Len(wire[conn]) + 1
      /\ wire'[conn][Len(wire'[conn])] = m /\ Len(wire[conn]) \in Nat
      /\ \A i \in 1..Len(wire[conn]) : wire'[conn][i] = wire[conn][i]
  BY <1>1, <1>6, Appended
<1>8. MailTypes'
  <2>1. wire' \in [Socks -> Seq(Msgs)]
    BY <1>1, <1>4, <1>5, <1>6, <1>7
  <2>2. \A s \in Socks : \A i \in 1..Len(wire[s]) : MsgTrue(wire[s][i])'
    BY <1>1, <1>5 DEF MsgTrue
  <2>3. ASSUME NEW s \in Socks, NEW i \in 1..Len(wire'[s]) PROVE MsgTrue(wire[s][i])'
    <3>1. CASE s # conn
      BY <1>6, <2>2, <2>3, <3>1 DEF MsgTrue
    <3>2. CASE s = conn /\ i = Len(wire'[conn])
      BY <1>1, <1>7, <3>2 DEF MsgTrue
    <3>3. CASE s = conn /\ i # Len(wire'[conn])
      <4>1. i \in 1..Len(wire[conn])
        BY <1>7, <2>3, <3>3
      <4>2. wire'[s][i] = wire[conn][i] /\ MsgTrue(wire[conn][i])
        BY <1>4, <1>5, <1>7, <3>3, <4>1
      <4>3. wire[conn][i] \in Msgs
        BY <1>6, <4>1
      <4> QED
        BY <1>1, <4>2, <4>3 DEF MsgTrue
    <3> QED
      BY <3>1, <3>2, <3>3
  <2>4. \A c \in checks' : c.sock \in Socks /\ c.m \in Msgs /\ MsgTrue(c.m)'
          /\ c.m.type = "layout-switch"
    BY <1>1, <1>2, <1>5 DEF MsgTrue
  <2>5. queue' \in Seq(Msgs) /\ Len(queue') = 0 /\ 0 <= QueueCap
    BY <1>2, <1>3, CoordAssumption
  <2> QED
    BY <1>1, <1>2, <1>5, <2>1, <2>3, <2>4, <2>5 DEF MailTypes, MsgTrue
<1>9. client # 0 => client = conn
  BY DEF ChanInv, Paired, IsOpen
<1>10. MailInOrder'
  <2> SUFFICES ASSUME ~viewer PROVE MailInOrder'
    BY <1>2 DEF MailInOrder
  <2>1. /\ checks = {} /\ Ascends(queue) /\ RanBefore(queue)
        /\ \A i, j \in 1..Len(ran) : i < j => ran[i] < ran[j]
        /\ (client # 0 => Ascends(wire[client]) /\ RanBefore(wire[client]))
    BY DEF ChanInv, MailInOrder
  <2>2. ASSUME client # 0
        PROVE  Ascends(wire'[client]) /\ RanBefore(wire[client])' /\ Before(wire[client], queue)'
    <3>1. client = conn /\ Ascends(wire[conn]) /\ RanBefore(wire[conn])
      BY <1>9, <2>1, <2>2
    <3>2. \A i \in 1..Len(wire[conn]) : wire[conn][i] \in Msgs /\ wire[conn][i].n < m.n
      BY <1>1, <1>4, <1>5, <1>6
    <3>3. ASSUME NEW i \in 1..Len(wire'[conn]), NEW j \in 1..Len(wire'[conn]), i < j
          PROVE  wire'[conn][i].n < wire'[conn][j].n
      <4>1. i \in 1..Len(wire[conn]) /\ wire'[conn][i] = wire[conn][i]
        BY <1>7, <3>3
      <4>2. CASE j = Len(wire'[conn])
        BY <1>7, <3>2, <4>1, <4>2
      <4>3. CASE j # Len(wire'[conn])
        <5>1. j \in 1..Len(wire[conn])
          BY <1>7, <3>3, <4>3
        <5> QED
          BY <1>7, <3>1, <3>3, <4>1, <5>1 DEF Ascends
      <4> QED
        BY <4>2, <4>3
    <3>4. ASSUME NEW i \in 1..Len(ran), NEW j \in 1..Len(wire'[conn])
          PROVE  ran[i] < wire'[conn][j].n
      <4>1. CASE j = Len(wire'[conn])
        BY <1>1, <1>7, <4>1
      <4>2. CASE j # Len(wire'[conn])
        <5>1. j \in 1..Len(wire[conn])
          BY <1>7, <3>4, <4>2
        <5> QED
          BY <1>7, <3>1, <5>1 DEF RanBefore
      <4> QED
        BY <4>1, <4>2
    <3>5. Len(queue') = 0
      BY <1>2, <1>3
    <3> QED
      BY <1>2, <3>1, <3>3, <3>4, <3>5 DEF Ascends, RanBefore, Before
  <2> QED
    BY <1>2, <2>1, <2>2 DEF MailInOrder, Ascends, RanBefore
<1>11. Quiet'
  <2>1. /\ viewer => subs = {}
        /\ client = 0 => ~streaming
        /\ (subs = {} /\ client # 0 /\ client = conn /\ queue = <<>>) =>
              Settles(wire[client]) /\ (streaming => Stops(wire[client]))
    BY DEF ChanInv, Quiet
  <2>2. Settles(queue')
    BY <1>2, <1>3 DEF Settles
  <2>3. ASSUME subs' = {}, client # 0
        PROVE  Settles(wire'[client]) /\ (streaming => Stops(wire'[client]))
    <3>1. client = conn
      BY <1>9, <2>3
    <3>2. CASE m.type = "journal-stop"
      <4>1. Len(wire'[conn]) \in 1..Len(wire'[conn])
              /\ wire'[conn][Len(wire'[conn])].type = "journal-stop"
        BY <1>7, <3>2
      <4>2. Stops(wire'[conn])
        BY <4>1 DEF Stops
      <4>3. ASSUME NEW i \in 1..Len(wire'[conn]), wire'[conn][i].type = "journal-start"
            PROVE  \E j \in 1..Len(wire'[conn]) : i < j /\ wire'[conn][j].type = "journal-stop"
        <5>1. i # Len(wire'[conn])
          BY <4>1, <4>3
        <5>2. i < Len(wire'[conn])
          BY <1>7, <4>3, <5>1
        <5> QED
          BY <4>1, <5>2
      <4> QED
        BY <3>1, <4>2, <4>3 DEF Settles
    <3>3. CASE m.type # "journal-stop"
      <4>1. subs = {} /\ m.type # "journal-start"
        BY <2>3, <3>3 DEF Sends
      <4>2. Settles(wire[conn]) /\ (streaming => Stops(wire[conn]))
        BY <1>3, <2>1, <2>3, <3>1, <4>1
      <4>3. ASSUME NEW i \in 1..Len(wire'[conn]), wire'[conn][i].type = "journal-start"
            PROVE  \E j \in 1..Len(wire'[conn]) : i < j /\ wire'[conn][j].type = "journal-stop"
        <5>1. i \in 1..Len(wire[conn]) /\ wire[conn][i].type = "journal-start"
          BY <1>7, <4>1, <4>3
        <5>2. PICK j \in 1..Len(wire[conn]) : i < j /\ wire[conn][j].type = "journal-stop"
          BY <4>2, <5>1 DEF Settles
        <5>3. j \in 1..Len(wire'[conn]) /\ wire'[conn][j].type = "journal-stop"
          BY <1>7, <5>2
        <5> QED
          BY <5>2, <5>3
      <4>4. ASSUME streaming PROVE Stops(wire'[conn])
        <5>1. PICK j \in 1..Len(wire[conn]) : wire[conn][j].type = "journal-stop"
          BY <4>2, <4>4 DEF Stops
        <5>2. j \in 1..Len(wire'[conn]) /\ wire'[conn][j].type = "journal-stop"
          BY <1>7, <5>1
        <5> QED
          BY <5>2 DEF Stops
      <4> QED
        BY <3>1, <4>3, <4>4 DEF Settles
    <3> QED
      BY <3>2, <3>3
  <2> QED
    BY <1>1, <1>2, <2>1, <2>2, <2>3 DEF Quiet, Settles, Stops
<1>12. OpenMeansDrained'
  BY <1>2, <1>3 DEF OpenMeansDrained
<1> QED
  BY <1>1, <1>8, <1>10, <1>11, <1>12 DEF MailKept

\* A message queued for a kiosk that is away.
LEMMA Queued ==
  ASSUME ChanInv, NEW m, Sends(m), req' \in RequestTypes,
         ~IsOpen, queue' = Enqueue(queue, m), UNCHANGED <<wire, checks>>
  PROVE  MailKept
<1>1. ChannelTypes' /\ Paired' /\ m \in Msgs /\ MsgTrue(m)'
      /\ (\A i \in 1..Len(ran) : ran[i] \in 1..sent')
      /\ (\A x \in Msgs : MsgTrue(x) => MsgTrue(x)' /\ x.n < m.n)
      /\ (\A i \in 1..Len(ran) : ran[i] < m.n)
      /\ (viewer => subs' = {})
  BY SendTypes
<1>2. /\ wire' = wire /\ ran' = ran /\ viewer' = viewer /\ client' = client /\ checks' = checks
      /\ conn' = conn /\ sock' = sock /\ streaming' = streaming
  BY DEF Sends
<1>3. /\ wire \in [Socks -> Seq(Msgs)]
      /\ \A s \in Socks : \A i \in 1..Len(wire[s]) : MsgTrue(wire[s][i])
      /\ queue \in Seq(Msgs) /\ Len(queue) <= QueueCap
      /\ \A i \in 1..Len(queue) : MsgTrue(queue[i])
      /\ \A c \in checks : c.sock \in Socks /\ c.m \in Msgs /\ MsgTrue(c.m)
           /\ c.m.type = "layout-switch"
      /\ ran \in Seq(Nat)
  BY DEF ChanInv, MailTypes
<1>4. /\ queue' \in Seq(Msgs) /\ Len(queue') <= QueueCap /\ Len(queue') \in Nat
           /\ Len(queue) \in Nat
      /\ queue' # <<>> /\ Len(queue') >= 1 /\ queue'[Len(queue')] = m
      /\ \E d \in {0, 1} : /\ Len(queue') = Len(queue) + 1 - d
                           /\ \A i \in 1..(Len(queue') - 1) : queue'[i] = queue[i + d]
                                /\ i + d \in 1..Len(queue)
  <2>1. m \in Msgs /\ queue \in Seq(Msgs) /\ Len(queue) <= QueueCap /\ queue' = Enqueue(queue, m)
    BY <1>1, <1>3
  <2> QED
    BY <2>1, Enqueued
<1>5. PICK d \in {0, 1} : /\ Len(queue') = Len(queue) + 1 - d
                          /\ \A i \in 1..(Len(queue') - 1) : queue'[i] = queue[i + d]
                               /\ i + d \in 1..Len(queue)
  BY <1>4
<1>6. \A i \in 1..Len(queue) : queue[i] \in Msgs /\ queue[i].n < m.n
                              /\ queue[i].n \in 1..sent'
                                   /\ (queue[i].type = "request" => queue[i].about \in Requests)
  <2>1. \A i \in 1..Len(queue) : queue[i] \in Msgs /\ MsgTrue(queue[i])
    BY <1>3
  <2> QED
    BY <1>1, <2>1 DEF MsgTrue
<1>7. MailTypes'
  <2>1. \A s \in Socks : \A i \in 1..Len(wire[s]) : wire[s][i] \in Msgs
    BY <1>3
  <2>2. \A s \in Socks : \A i \in 1..Len(wire[s]) : MsgTrue(wire[s][i])'
    BY <1>1, <1>2, <1>3, <2>1 DEF MsgTrue
  <2>3. ASSUME NEW i \in 1..Len(queue') PROVE MsgTrue(queue[i])'
    <3>1. CASE i = Len(queue')
      BY <1>1, <1>4, <3>1 DEF MsgTrue
    <3>2. CASE i # Len(queue')
      <4>1. i \in 1..(Len(queue') - 1)
        BY <1>4, <2>3, <3>2
      <4> QED
        BY <1>5, <1>6, <4>1 DEF MsgTrue
    <3> QED
      BY <3>1, <3>2
  <2>4. \A c \in checks : c.sock \in Socks /\ c.m \in Msgs /\ MsgTrue(c.m)'
          /\ c.m.type = "layout-switch"
    BY <1>1, <1>3 DEF MsgTrue
  <2> QED
    BY <1>1, <1>2, <1>3, <1>4, <2>2, <2>3, <2>4 DEF MailTypes, MsgTrue
<1>8. MailInOrder'
  <2> SUFFICES ASSUME ~viewer PROVE MailInOrder'
    BY <1>2 DEF MailInOrder
  <2>1. /\ checks = {} /\ Ascends(queue) /\ RanBefore(queue)
        /\ \A i, j \in 1..Len(ran) : i < j => ran[i] < ran[j]
        /\ (client # 0 => Ascends(wire[client]) /\ RanBefore(wire[client]) /\ Before(wire[client],
             queue))
    BY DEF ChanInv, MailInOrder
  <2>2. ASSUME NEW i \in 1..Len(queue'), NEW j \in 1..Len(queue'), i < j
        PROVE  queue'[i].n < queue'[j].n
    <3>1. i \in 1..(Len(queue') - 1)
      BY <1>4, <2>2
    <3>2. queue'[i] = queue[i + d] /\ i + d \in 1..Len(queue)
      BY <1>5, <3>1
    <3>3. CASE j = Len(queue')
      BY <1>4, <1>6, <3>2, <3>3
    <3>4. CASE j # Len(queue')
      <4>1. j \in 1..(Len(queue') - 1)
        BY <1>4, <2>2, <3>4
      <4>2. queue'[j] = queue[j + d] /\ j + d \in 1..Len(queue) /\ i + d < j + d
        BY <1>5, <2>2, <4>1
      <4> QED
        BY <2>1, <3>2, <4>2 DEF Ascends
    <3> QED
      BY <3>3, <3>4
  <2>3. ASSUME NEW i \in 1..Len(ran), NEW j \in 1..Len(queue') PROVE ran[i] < queue'[j].n
    <3>1. CASE j = Len(queue')
      BY <1>1, <1>4, <3>1
    <3>2. CASE j # Len(queue')
      <4>1. j \in 1..(Len(queue') - 1)
        BY <1>4, <2>3, <3>2
      <4>2. queue'[j] = queue[j + d] /\ j + d \in 1..Len(queue)
        BY <1>5, <4>1
      <4> QED
        BY <2>1, <4>2 DEF RanBefore
    <3> QED
      BY <3>1, <3>2
  <2>4. ASSUME client # 0, NEW i \in 1..Len(wire[client]), NEW j \in 1..Len(queue')
        PROVE  wire[client][i].n < queue'[j].n
    <3>1. client \in Socks
      BY <2>4 DEF ChanInv, ChannelTypes, Socks
    <3>2. wire[client][i] \in Msgs /\ MsgTrue(wire[client][i])
      BY <1>3, <3>1
    <3>3. CASE j = Len(queue')
      BY <1>1, <1>4, <3>2, <3>3
    <3>4. CASE j # Len(queue')
      <4>1. j \in 1..(Len(queue') - 1)
        BY <1>4, <2>4, <3>4
      <4>2. queue'[j] = queue[j + d] /\ j + d \in 1..Len(queue)
        BY <1>5, <4>1
      <4> QED
        BY <2>1, <2>4, <4>2 DEF Before
    <3> QED
      BY <3>3, <3>4
  <2>5. Ascends(queue')
    BY <2>2 DEF Ascends
  <2>6. \A i \in 1..Len(ran), j \in 1..Len(queue') : ran[i] < queue'[j].n
    BY <2>3
  <2>7. client # 0 => Before(wire[client], queue')
    BY <2>4 DEF Before
  <2> QED
    BY <1>2, <2>1, <2>5, <2>6, <2>7 DEF MailInOrder, Ascends, RanBefore, Before
<1>9. Quiet'
  <2>1. /\ client = 0 => ~streaming
        /\ subs = {} => Settles(queue)
    BY DEF ChanInv, Quiet
  <2>2. ASSUME subs' = {}, NEW i \in 1..Len(queue'), queue'[i].type = "journal-start"
        PROVE  \E j \in 1..Len(queue') : i < j /\ queue'[j].type = "journal-stop"
    <3>1. Len(queue') \in 1..Len(queue')
      BY <1>4
    <3>2. CASE m.type = "journal-stop"
      <4>1. i # Len(queue')
        BY <1>4, <2>2, <3>2
      <4> QED
        BY <1>4, <2>2, <3>1, <3>2, <4>1
    <3>3. CASE m.type # "journal-stop"
      <4>1. subs = {} /\ m.type # "journal-start"
        BY <2>2, <3>3 DEF Sends
      <4>2. i \in 1..(Len(queue') - 1)
        BY <1>4, <2>2, <4>1
      <4>3. queue'[i] = queue[i + d] /\ i + d \in 1..Len(queue)
        BY <1>5, <4>2
      <4>4. PICK j \in 1..Len(queue) : i + d < j /\ queue[j].type = "journal-stop"
        BY <2>1, <2>2, <4>1, <4>3 DEF Settles
      <4>5. j - d \in 1..(Len(queue') - 1) /\ (j - d) + d = j /\ i < j - d
        BY <1>4, <1>5, <4>2, <4>4
      <4>6. queue'[j - d] = queue[(j - d) + d]
        BY <1>5, <4>5
      <4>7. j - d \in 1..Len(queue')
        BY <1>4, <4>5
      <4>8. queue'[j - d] = queue[j]
        BY <4>5, <4>6
      <4>9. queue'[j - d].type = "journal-stop"
        BY <4>4, <4>8
      <4> QED
        BY <4>5, <4>7, <4>9
    <3> QED
      BY <3>2, <3>3
  <2>3. subs' = {} => Settles(queue')
    BY <2>2 DEF Settles
  <2> QED
    BY <1>1, <1>2, <1>4, <2>1, <2>3 DEF Quiet, Settles
<1>10. OpenMeansDrained'
  BY <1>2 DEF OpenMeansDrained, IsOpen
<1> QED
  BY <1>1, <1>7, <1>8, <1>9, <1>10 DEF MailKept

\* Whatever sendToKiosk does with a message, the mail keeps its order.
LEMMA SendKeepsMail ==
  ASSUME ChanInv, NEW m, Sends(m), req' \in RequestTypes,
         NEW q \in BOOLEAN, sendToKiosk(m, q), q \/ subs' = subs
  PROVE  MailKept
<1>0. viewer => subs' = subs
  BY DEF ChanInv, Quiet, Sends
<1>1. CASE conn # 0 /\ viewer /\ ~androidViewerCommandAllowed(m)
  <2>1. UNCHANGED <<queue, wire, checks>> /\ subs' = subs
    BY <1>0, <1>1 DEF sendToKiosk
  <2> QED
    BY <2>1, NothingSent
<1>2. CASE conn # 0 /\ viewer /\ androidViewerCommandAllowed(m) /\ m.type = "layout-switch"
  <2>1. /\ UNCHANGED <<queue, wire>> /\ subs' = subs /\ viewer
        /\ checks' = IF IsOpen THEN checks \cup {[sock |-> conn, m |-> m, ok |-> "reading"]}
             ELSE checks
    BY <1>0, <1>2 DEF sendToKiosk
  <2>2. conn \in Socks
    BY <1>2, CoordAssumption DEF ChanInv, ChannelTypes, Socks
  <2>3. \A c \in checks' : c \in checks \/ (c.sock \in Socks /\ c.m = m /\ m.type = "layout-switch")
    BY <1>2, <2>1, <2>2
  <2> QED
    BY <2>1, <2>3, NothingSent
<1>3. CASE ~(conn # 0 /\ viewer /\ (~androidViewerCommandAllowed(m) \/ m.type = "layout-switch"))
             /\ IsOpen
  <2>1. wire' = [wire EXCEPT ![conn] = Append(@, m)] /\ UNCHANGED <<queue, checks>>
    BY <1>3 DEF sendToKiosk
  <2> QED
    BY <1>3, <2>1, WireSent
<1>4. CASE ~(conn # 0 /\ viewer /\ (~androidViewerCommandAllowed(m) \/ m.type = "layout-switch"))
             /\ ~IsOpen
  <2>1. queue' = (IF q THEN Enqueue(queue, m) ELSE queue) /\ UNCHANGED <<wire, checks>>
    BY <1>4 DEF sendToKiosk
  <2>2. CASE q
    BY <1>4, <2>1, <2>2, Queued
  <2>3. CASE ~q
    BY <2>1, <2>3, NothingSent
  <2> QED
    BY <2>2, <2>3
<1> QED
  BY <1>1, <1>2, <1>3, <1>4

\* What leaves the messages alone keeps their types and their order.
LEMMA MailStays ==
  ASSUME ChanInv, UNCHANGED <<viewer, wire, queue, checks, ran, sent>>,
           client' = client \/ client' = 0
  PROVE  MailTypes' /\ MailInOrder'
<1>1. MailTypes'
  BY DEF ChanInv, MailTypes, MsgTrue
<1>2. MailInOrder'
  BY DEF ChanInv, MailInOrder, Ascends, Before, RanBefore
<1> QED
  BY <1>1, <1>2

\* The mail and the requests are the whole invariant.
LEMMA Together ==
  ASSUME MailKept, RequestsFollowSocket'
  PROVE  ChanInv'
BY DEF MailKept, ChanInv

\* A command or a relayed message goes through sendToKiosk.
LEMMA CommandSent ==
  ASSUME ChanInv, NEW type \in MsgTypes \ {"request"}, NEW about \in Layouts \cup {0},
           NEW q \in BOOLEAN,
         SendCommand(type, about, q), type = "journal-start" => subs # {}
  PROVE  ChanInv'
<1> DEFINE m == [Msg(type) EXCEPT !.about = about]
<1>1. /\ sent < MaxMsgs /\ sent' = sent + 1 /\ sendToKiosk(m, q)
      /\ UNCHANGED <<viewer, assigned, netVars, req, answers, subs, streaming, ran>>
  BY DEF SendCommand
<1>2. sent \in 0..(MaxMsgs + 1) /\ MaxMsgs \in Nat
      /\ req \in RequestTypes
  BY CoordAssumption DEF ChanInv, ChannelTypes
<1>3. m.type = type /\ m.n = sent + 1 /\ m \in Msgs
  BY <1>2 DEF Msg, Msgs
<1>4. sent <= MaxMsgs
  BY <1>1, <1>2
<1> HIDE DEF m
<1>5. Sends(m)
  BY <1>1, <1>3, <1>4 DEF Sends, netVars
<1>6. req' \in RequestTypes
  BY <1>1, <1>2
<1>7. MailKept
  BY <1>1, <1>5, <1>6, SendKeepsMail
<1>8. RequestsFollowSocket'
  BY <1>1 DEF ChanInv, RequestsFollowSocket, netVars
<1> QED
  BY <1>7, <1>8, Together

\* The layouts assigned to a viewer change.
LEMMA LayoutAssigned == ASSUME ChanInv, NEW set \in SUBSET Layouts, Assign(set) PROVE ChanInv'
<1>1. /\ assigned' \subseteq Layouts
      /\ UNCHANGED <<viewer, conn, sock, client, wire, queue, req, answers, checks, subs, streaming,
           sent, ran>>
  BY DEF Assign, netVars
<1>2. MailTypes' /\ MailInOrder'
  BY <1>1, MailStays
<1>3. ChannelTypes'
  BY <1>1 DEF ChanInv, ChannelTypes
<1>4. Paired' /\ Quiet'
  BY <1>1 DEF ChanInv, Paired, Quiet, Settles, Stops
<1>5. RequestsFollowSocket' /\ OpenMeansDrained'
  BY <1>1 DEF ChanInv, RequestsFollowSocket, OpenMeansDrained, IsOpen
<1> QED
  BY <1>2, <1>3, <1>4, <1>5 DEF ChanInv

\* The kiosk loses its connection, and with it its journal stream.
LEMMA ConnectionLost == ASSUME ChanInv, Disconnect PROVE ChanInv'
<1>1. /\ client' = 0 /\ streaming' = FALSE
      /\ UNCHANGED <<viewer, assigned, conn, sock, wire, queue, req, answers, checks, subs, sent,
           ran>>
  BY DEF Disconnect
<1>2. MailTypes' /\ MailInOrder'
  BY <1>1, MailStays
<1>3. ChannelTypes'
  <2>1. client' \in 0..MaxSocks
    BY <1>1, CoordAssumption
  <2>2. streaming' \in BOOLEAN
    BY <1>1
  <2> QED
    BY <1>1, <2>1, <2>2 DEF ChanInv, ChannelTypes
<1>4. Paired' /\ Quiet'
  BY <1>1 DEF ChanInv, Paired, Quiet, Settles, Stops
<1>5. RequestsFollowSocket' /\ OpenMeansDrained'
  BY <1>1 DEF ChanInv, RequestsFollowSocket, OpenMeansDrained, IsOpen
<1> QED
  BY <1>2, <1>3, <1>4, <1>5 DEF ChanInv

\* A connection without a pong is terminated.
LEMMA StaleTerminated == ASSUME ChanInv, terminateStale PROVE ChanInv'
<1>1. /\ conn # 0 /\ sock' = [sock EXCEPT ![conn] = "closing"]
      /\ UNCHANGED <<viewer, assigned, conn, client, wire, queue, req, answers, checks, subs,
           streaming, sent, ran>>
  BY DEF terminateStale, IsOpen
<1>2. MailTypes' /\ MailInOrder'
  BY <1>1, MailStays
<1>3. conn \in Socks /\ sock \in [Socks -> {"unused", "open", "closing", "closed"}]
  BY <1>1, CoordAssumption DEF ChanInv, ChannelTypes, Socks
<1>4. sock' \in [Socks -> {"unused", "open", "closing", "closed"}] /\ sock'[conn] = "closing"
  BY <1>1, <1>3
<1>5. ChannelTypes'
  BY <1>1, <1>4 DEF ChanInv, ChannelTypes
<1>6. Paired' /\ Quiet'
  BY <1>1 DEF ChanInv, Paired, Quiet, Settles, Stops
<1>7. RequestsFollowSocket' /\ OpenMeansDrained'
  BY <1>1, <1>4 DEF ChanInv, RequestsFollowSocket, OpenMeansDrained, IsOpen
<1> QED
  BY <1>2, <1>5, <1>6, <1>7 DEF ChanInv

\* A socket's requests are rejected, and nothing else is.
LEMMA Rejects ==
  ASSUME ChanInv, NEW s, req' = RejectRequests(s)
  PROVE  /\ req' \in RequestTypes
         /\ \A r \in Requests : req'[r].state = "pending" =>
                req[r].state = "pending" /\ req'[r].sock = req[r].sock /\ req[r].sock # s
<1>1. req \in RequestTypes
  BY DEF ChanInv, ChannelTypes
<1>2. ASSUME NEW r \in Requests
      PROVE  /\ req'[r] \in RequestType
             /\ req'[r].state = "pending" =>
                  req[r].state = "pending" /\ req'[r].sock = req[r].sock /\ req[r].sock # s
  <2>1. PICK v \in RequestType : v = req[r]
    BY <1>1 DEF RequestTypes, RequestType
  <2>2. req'[r] = IF v.state = "pending" /\ v.sock = s THEN [v EXCEPT !.state = "rejected"] ELSE v
    BY <2>1 DEF RejectRequests
  <2>3. CASE v.state = "pending" /\ v.sock = s
    <3>1. req'[r] = [v EXCEPT !.state = "rejected"]
      BY <2>2, <2>3
    <3>2. req'[r].state = "rejected"
          /\ req'[r] \in RequestType
      BY <3>1 DEF RequestTypes, RequestType
    <3> QED
      BY <3>2
  <2>4. CASE ~(v.state = "pending" /\ v.sock = s)
    BY <2>1, <2>2, <2>4
  <2> QED
    BY <2>3, <2>4
<1>3. req' = [r \in Requests |-> req'[r]]
  BY DEF RejectRequests
<1>4. \A r \in Requests : req'[r] \in RequestType
  BY <1>2
<1>5. req' \in RequestTypes
  BY <1>3, <1>4 DEF RequestTypes, RequestType
<1> QED
  BY <1>2, <1>5

\* A socket closes; only the registered one takes its requests with it.
LEMMA SocketClosed == ASSUME ChanInv, NEW s \in Socks, CloseEvent(s) PROVE ChanInv'
<1>1. /\ sock' = [sock EXCEPT ![s] = "closed"]
      /\ (conn = s /\ conn' = 0 /\ req' = RejectRequests(s)) \/ (conn # s /\ conn' = conn
           /\ req' = req)
      /\ UNCHANGED <<viewer, assigned, client, wire, queue, answers, checks, subs, streaming, sent,
           ran>>
  BY DEF CloseEvent
<1>2. MailTypes' /\ MailInOrder'
  BY <1>1, MailStays
<1>3. req' \in RequestTypes
  BY <1>1, Rejects DEF ChanInv, ChannelTypes
<1>4. ChannelTypes'
  BY <1>1, <1>3, CoordAssumption DEF ChanInv, ChannelTypes
<1>5. Paired' /\ Quiet'
  BY <1>1 DEF ChanInv, Paired, Quiet, Settles, Stops
<1>6. RequestsFollowSocket'
  <2>1. CASE conn # s
    BY <1>1, <2>1 DEF ChanInv, RequestsFollowSocket
  <2>2. CASE conn = s
    BY <1>1, <2>2, Rejects DEF ChanInv, RequestsFollowSocket
  <2> QED
    BY <2>1, <2>2
<1>7. OpenMeansDrained'
  <2>1. sock \in [Socks -> {"unused", "open", "closing", "closed"}] /\ conn \in 0..MaxSocks
    BY DEF ChanInv, ChannelTypes
  <2>2. CASE conn = s
    BY <1>1, <2>2 DEF OpenMeansDrained, IsOpen
  <2>3. CASE conn # s
    <3>1. conn' = conn /\ (conn \in Socks => sock'[conn] = sock[conn]) /\ queue' = queue
      BY <1>1, <2>1, <2>3
    <3>2. conn # 0 => conn \in Socks
      BY <2>1, CoordAssumption DEF Socks
    <3> QED
      BY <3>1, <3>2 DEF ChanInv, OpenMeansDrained, IsOpen
  <2> QED
    BY <2>2, <2>3
<1> QED
  BY <1>2, <1>4, <1>5, <1>6, <1>7 DEF ChanInv

\* A request goes out at once or is rejected.
LEMMA RequestMade == ASSUME ChanInv, NEW r \in Requests, requestKiosk(r) PROVE ChanInv'
<1> DEFINE goes == IsOpen /\ ~viewer
           m    == [Msg("request") EXCEPT !.about = r]
<1>1. /\ sent < MaxMsgs
      /\ req' = [req EXCEPT ![r] = [state |-> IF goes THEN "pending" ELSE "rejected",
           sock |-> conn]]
      /\ wire' = (IF goes THEN [wire EXCEPT ![conn] = Append(@, m)] ELSE wire)
      /\ sent' = (IF goes THEN sent + 1 ELSE sent)
      /\ UNCHANGED <<viewer, assigned, conn, sock, client, queue, answers, checks, subs, streaming,
           ran>>
  BY DEF requestKiosk, netVars
<1>2. sent \in 0..(MaxMsgs + 1) /\ MaxMsgs \in Nat /\ conn \in 0..MaxSocks
      /\ req \in RequestTypes
  BY CoordAssumption DEF ChanInv, ChannelTypes
<1>3. m.type = "request" /\ m.n = sent + 1 /\ m.about = r /\ m \in Msgs
  BY <1>2 DEF Msg, Msgs, MsgTypes
<1>4. sent <= MaxMsgs
  BY <1>1, <1>2
<1>5. req' \in RequestTypes
  BY <1>1, <1>2 DEF RequestTypes, RequestType
<1>6. RequestsFollowSocket'
  BY <1>1, <1>2 DEF ChanInv, RequestsFollowSocket
<1> HIDE DEF m
<1>7. CASE goes
  <2>1. Sends(m)
    BY <1>1, <1>3, <1>4, <1>7 DEF Sends
  <2>2. MailKept
    BY <1>1, <1>5, <1>7, <2>1, WireSent
  <2> QED
    BY <1>6, <2>2, Together
<1>8. CASE ~goes
  <2>1. UNCHANGED <<viewer, assigned, conn, sock, client, wire, queue, answers, checks, subs,
          streaming, sent, ran>>
    BY <1>1, <1>8
  <2>2. MailTypes' /\ MailInOrder'
    BY <2>1, MailStays
  <2>3. ChannelTypes'
    BY <1>5, <2>1 DEF ChanInv, ChannelTypes
  <2>4. Paired' /\ Quiet' /\ OpenMeansDrained'
    BY <2>1 DEF ChanInv, Paired, Quiet, Settles, Stops, OpenMeansDrained, IsOpen
  <2> QED
    BY <1>6, <2>2, <2>3, <2>4 DEF ChanInv
<1> QED
  BY <1>7, <1>8

\* A request that ends, by its timer or by an answer.
LEMMA RequestEnds ==
  ASSUME ChanInv, NEW r \in Requests, NEW end \in {"resolved", "rejected"},
         req' = [req EXCEPT ![r].state = end] \/ req' = req, answers' \subseteq answers,
         UNCHANGED <<viewer, assigned, netVars, wire, queue, checks, subs, streaming, sent, ran>>
  PROVE  ChanInv'
<1>1. UNCHANGED <<viewer, assigned, conn, sock, client, wire, queue, checks, subs, streaming, sent,
        ran>>
  BY DEF netVars
<1>2. MailTypes' /\ MailInOrder'
  BY <1>1, MailStays
<1>3. req \in RequestTypes
  BY DEF ChanInv, ChannelTypes
<1>4. PICK v \in RequestType : v = req[r]
  BY <1>3 DEF RequestTypes, RequestType
<1>5. [v EXCEPT !.state = end].state = end
      /\ [v EXCEPT !.state = end] \in RequestType
  BY <1>4 DEF RequestTypes, RequestType
<1>6. req' = [req EXCEPT ![r] = [v EXCEPT !.state = end]] \/ req' = req
  BY <1>4
<1>7. req' \in RequestTypes
  BY <1>3, <1>5, <1>6 DEF RequestTypes, RequestType
<1>8. RequestsFollowSocket'
  BY <1>1, <1>3, <1>5, <1>6 DEF ChanInv, RequestsFollowSocket, RequestTypes, RequestType
<1>9. ChannelTypes'
  BY <1>1, <1>7 DEF ChanInv, ChannelTypes
<1>10. Paired' /\ Quiet' /\ OpenMeansDrained'
  BY <1>1 DEF ChanInv, Paired, Quiet, Settles, Stops, OpenMeansDrained, IsOpen
<1> QED
  BY <1>2, <1>8, <1>9, <1>10 DEF ChanInv

\* The timer of a request fires,
LEMMA TimerFires == ASSUME ChanInv, NEW r \in Requests, RequestTimeout(r) PROVE ChanInv'
BY RequestEnds DEF RequestTimeout

\* or an answer arrives, which counts only on the socket it was asked on.
LEMMA AnswerCounts == ASSUME ChanInv, NEW a \in answers, AcceptAnswer(a) PROVE ChanInv'
<1>1. a[2] \in Requests
  BY DEF ChanInv, ChannelTypes
<1> QED
  BY <1>1, RequestEnds DEF AcceptAnswer

\* An administrator opens a debug session,
LEMMA Subscribes == ASSUME ChanInv, NEW a \in Admins, addDebugSubscriber(a) PROVE ChanInv'
<1>1. /\ ~viewer /\ subs' = subs \cup {a}
      /\ UNCHANGED <<viewer, assigned, conn, sock, client, wire, queue, req, answers, checks,
           streaming, sent, ran>>
  BY DEF addDebugSubscriber, netVars
<1>2. MailTypes' /\ MailInOrder'
  BY <1>1, MailStays
<1>3. subs' \subseteq Admins /\ subs' # {}
  BY <1>1 DEF ChanInv, ChannelTypes
<1>4. ChannelTypes'
  BY <1>1, <1>3 DEF ChanInv, ChannelTypes
<1>5. Paired' /\ OpenMeansDrained' /\ RequestsFollowSocket'
  BY <1>1 DEF ChanInv, Paired, OpenMeansDrained, IsOpen, RequestsFollowSocket
<1>6. Quiet'
  BY <1>1, <1>3 DEF ChanInv, Quiet
<1> QED
  BY <1>2, <1>4, <1>5, <1>6 DEF ChanInv

\* and leaves it: the last one has the journal stopped.
LEMMA Unsubscribes == ASSUME ChanInv, NEW a \in Admins, SubscriberClosed(a) PROVE ChanInv'
<1>1. /\ a \in subs /\ subs' = subs \ {a}
      /\ UNCHANGED <<viewer, assigned, conn, sock, client, req, answers, streaming, ran>>
  BY DEF SubscriberClosed, netVars
<1>2. sent \in 0..(MaxMsgs + 1) /\ MaxMsgs \in Nat
      /\ req \in RequestTypes
      /\ subs \subseteq Admins
  BY CoordAssumption DEF ChanInv, ChannelTypes
<1>3. RequestsFollowSocket'
  BY <1>1 DEF ChanInv, RequestsFollowSocket
<1>4. CASE subs = {a}
  <2>1. sent < MaxMsgs + 1 /\ sent' = sent + 1 /\ sendToKiosk(Msg("journal-stop"), TRUE)
    BY <1>4 DEF SubscriberClosed
  <2>2. Msg("journal-stop").type = "journal-stop" /\ Msg("journal-stop").n = sent + 1
          /\ Msg("journal-stop") \in Msgs
    BY <1>2 DEF Msg, Msgs, MsgTypes
  <2>3. sent <= MaxMsgs
    BY <1>2, <2>1
  <2>4. subs' \subseteq subs /\ subs # {}
    BY <1>1
  <2>5. Sends(Msg("journal-stop"))
    BY <1>1, <2>1, <2>2, <2>3, <2>4 DEF Sends
  <2>6. MailKept
    BY <1>1, <1>2, <2>1, <2>5, SendKeepsMail
  <2> QED
    BY <1>3, <2>6, Together
<1>5. CASE subs # {a}
  <2>1. UNCHANGED <<sent, wire, queue, checks>>
    BY <1>5 DEF SubscriberClosed
  <2>2. MailTypes' /\ MailInOrder'
    BY <1>1, <2>1, MailStays
  <2>3. ChannelTypes'
    BY <1>1, <2>1 DEF ChanInv, ChannelTypes
  <2>4. subs' # {}
    BY <1>1, <1>5
  <2>5. viewer' => subs' = {}
    BY <1>1 DEF ChanInv, Quiet
  <2>6. Quiet'
    BY <1>1, <2>1, <2>4, <2>5 DEF ChanInv, Quiet
  <2>7. Paired' /\ OpenMeansDrained'
    BY <1>1, <2>1 DEF ChanInv, Paired, OpenMeansDrained, IsOpen
  <2> QED
    BY <1>3, <2>2, <2>3, <2>6, <2>7 DEF ChanInv
<1> QED
  BY <1>4, <1>5

\* The switches being checked are a viewer's.
LEMMA ChecksRead == ASSUME ChanInv, NEW c \in checks, CheckRead(c) PROVE ChanInv'
<1> DEFINE d == [c EXCEPT !.ok = IF c.m.about \in assigned THEN "yes" ELSE "no"]
<1>1. /\ checks' = (checks \ {c}) \cup {d}
      /\ UNCHANGED <<viewer, assigned, conn, sock, client, wire, queue, req, answers, subs,
           streaming, sent, ran>>
  BY DEF CheckRead, netVars
<1>2. c.sock \in Socks /\ c.m \in Msgs /\ MsgTrue(c.m) /\ c.m.type = "layout-switch"
  BY DEF ChanInv, MailTypes
<1>3. d.sock = c.sock /\ d.m = c.m
  OBVIOUS
<1> HIDE DEF d
<1>4. \A x \in checks' : x.sock \in Socks /\ x.m \in Msgs /\ MsgTrue(x.m)'
        /\ x.m.type = "layout-switch"
  <2>1. \A x \in checks' : x.sock \in Socks /\ x.m \in Msgs /\ MsgTrue(x.m)
          /\ x.m.type = "layout-switch"
    BY <1>1, <1>2, <1>3 DEF ChanInv, MailTypes
  <2> QED
    BY <1>1, <2>1 DEF MsgTrue
<1>5. MailTypes'
  BY <1>1, <1>4 DEF ChanInv, MailTypes, MsgTrue
<1>6. viewer
  BY DEF ChanInv, MailInOrder
<1>7. MailInOrder'
  BY <1>1, <1>6 DEF MailInOrder
<1>8. ChannelTypes'
  BY <1>1 DEF ChanInv, ChannelTypes
<1>9. Paired' /\ Quiet' /\ OpenMeansDrained' /\ RequestsFollowSocket'
  BY <1>1 DEF ChanInv, Paired, Quiet, Settles, Stops, OpenMeansDrained, IsOpen, RequestsFollowSocket
<1> QED
  BY <1>5, <1>7, <1>8, <1>9 DEF ChanInv

\* A checked layout switch goes out, or is dropped.
LEMMA SwitchGoes == ASSUME ChanInv, NEW c \in checks, CheckDone(c) PROVE ChanInv'
<1>1. /\ checks' = checks \ {c}
      /\ \/ conn = c.sock /\ IsOpen /\ wire' = [wire EXCEPT ![conn] = Append(@, c.m)]
         \/ wire' = wire
      /\ UNCHANGED <<viewer, assigned, conn, sock, client, queue, req, answers, subs, streaming,
           sent, ran>>
  BY DEF CheckDone, netVars
<1>2. c.sock \in Socks /\ c.m \in Msgs /\ MsgTrue(c.m) /\ c.m.type = "layout-switch"
  BY DEF ChanInv, MailTypes
<1>3. /\ wire \in [Socks -> Seq(Msgs)]
      /\ \A s \in Socks : \A i \in 1..Len(wire[s]) : MsgTrue(wire[s][i])
      /\ queue \in Seq(Msgs) /\ Len(queue) <= QueueCap
      /\ \A i \in 1..Len(queue) : MsgTrue(queue[i])
      /\ \A x \in checks : x.sock \in Socks /\ x.m \in Msgs /\ MsgTrue(x.m)
           /\ x.m.type = "layout-switch"
      /\ ran \in Seq(Nat) /\ \A i \in 1..Len(ran) : ran[i] \in 1..sent
  BY DEF ChanInv, MailTypes
<1>4. viewer
  BY DEF ChanInv, MailInOrder
<1>5. MailInOrder'
  BY <1>1, <1>4 DEF MailInOrder
<1>6. ChannelTypes' /\ Paired' /\ OpenMeansDrained' /\ RequestsFollowSocket'
  BY <1>1 DEF ChanInv, ChannelTypes, Paired, OpenMeansDrained, IsOpen, RequestsFollowSocket
<1>7. /\ viewer => subs = {}
      /\ client = 0 => ~streaming
      /\ subs = {} => Settles(queue)
      /\ subs = {} /\ client # 0 /\ client = conn /\ queue = <<>> =>
           Settles(wire[client]) /\ (streaming => Stops(wire[client]))
  BY DEF ChanInv, Quiet
<1>8. CASE wire' = wire
  <2>1. MailTypes'
    BY <1>1, <1>3, <1>8 DEF MailTypes, MsgTrue
  <2>2. Quiet'
    BY <1>1, <1>7, <1>8 DEF Quiet, Settles, Stops
  <2> QED
    BY <1>5, <1>6, <2>1, <2>2 DEF ChanInv
<1>9. CASE conn = c.sock /\ wire' = [wire EXCEPT ![conn] = Append(@, c.m)]
  <2>1. conn \in Socks /\ wire'[conn] = Append(wire[conn], c.m) /\ wire[conn] \in Seq(Msgs)
        /\ \A s \in Socks : s # conn => wire'[s] = wire[s]
    BY <1>2, <1>3, <1>9
  <2>2. /\ wire'[conn] \in Seq(Msgs) /\ Len(wire'[conn]) = Len(wire[conn]) + 1
        /\ wire'[conn][Len(wire'[conn])] = c.m /\ Len(wire[conn]) \in Nat
        /\ \A i \in 1..Len(wire[conn]) : wire'[conn][i] = wire[conn][i]
    BY <1>2, <2>1, Appended
  <2>3. wire' \in [Socks -> Seq(Msgs)]
    BY <1>3, <1>9, <2>1, <2>2
  <2>4. ASSUME NEW s \in Socks, NEW i \in 1..Len(wire'[s]) PROVE MsgTrue(wire[s][i])'
    <3>1. CASE s # conn
      BY <1>1, <1>3, <2>1, <2>4, <3>1 DEF MsgTrue
    <3>2. CASE s = conn /\ i = Len(wire'[conn])
      BY <1>1, <1>2, <2>2, <3>2 DEF MsgTrue
    <3>3. CASE s = conn /\ i # Len(wire'[conn])
      <4>1. i \in 1..Len(wire[conn])
        BY <2>2, <2>4, <3>3
      <4> QED
        BY <1>1, <1>3, <2>1, <2>2, <3>3, <4>1 DEF MsgTrue
    <3> QED
      BY <3>1, <3>2, <3>3
  <2>5. MailTypes'
    BY <1>1, <1>3, <2>3, <2>4 DEF MailTypes, MsgTrue
  <2>6. ASSUME subs = {}, client # 0, client = conn, queue = <<>>
        PROVE  Settles(wire'[client]) /\ (streaming => Stops(wire'[client]))
    <3>1. Settles(wire[conn]) /\ (streaming => Stops(wire[conn]))
      BY <1>7, <2>6
    <3>2. ASSUME NEW i \in 1..Len(wire'[conn]), wire'[conn][i].type = "journal-start"
          PROVE  \E j \in 1..Len(wire'[conn]) : i < j /\ wire'[conn][j].type = "journal-stop"
      <4>1. i \in 1..Len(wire[conn]) /\ wire[conn][i].type = "journal-start"
        BY <1>2, <2>2, <3>2
      <4>2. PICK j \in 1..Len(wire[conn]) : i < j /\ wire[conn][j].type = "journal-stop"
        BY <3>1, <4>1 DEF Settles
      <4>3. j \in 1..Len(wire'[conn]) /\ wire'[conn][j].type = "journal-stop"
        BY <2>2, <4>2
      <4> QED
        BY <4>2, <4>3
    <3>3. ASSUME streaming PROVE Stops(wire'[conn])
      <4>1. PICK j \in 1..Len(wire[conn]) : wire[conn][j].type = "journal-stop"
        BY <3>1, <3>3 DEF Stops
      <4>2. j \in 1..Len(wire'[conn]) /\ wire'[conn][j].type = "journal-stop"
        BY <2>2, <4>1
      <4> QED
        BY <4>2 DEF Stops
    <3> QED
      BY <2>6, <3>2, <3>3 DEF Settles
  <2>7. Quiet'
    BY <1>1, <1>7, <2>6 DEF Quiet, Settles, Stops
  <2> QED
    BY <1>5, <1>6, <2>5, <2>7 DEF ChanInv
<1> QED
  BY <1>1, <1>8, <1>9

\* The first message of a wire, and what is left.
LEMMA Taken ==
  ASSUME NEW q \in Seq(Msgs), q # <<>>
  PROVE  /\ Len(q) \in Nat \ {0} /\ Head(q) = q[1] /\ Head(q) \in Msgs
         /\ Tail(q) \in Seq(Msgs) /\ Len(Tail(q)) = Len(q) - 1
         /\ \A i \in 1..Len(Tail(q)) : Tail(q)[i] = q[i + 1] /\ i + 1 \in 1..Len(q)
OBVIOUS

\* The kiosk runs the first message of its wire.
LEMMA MessageRun == ASSUME ChanInv, Receive PROVE ChanInv'
<1> DEFINE q == wire[client]
           m == Head(q)
<1>1. /\ client # 0 /\ q # <<>>
      /\ wire' = [wire EXCEPT ![client] = Tail(@)]
      /\ ran' = Append(ran, m.n)
      /\ streaming' = CASE m.type = "journal-start" -> TRUE
                        [] m.type = "journal-stop" -> FALSE
                        [] OTHER -> streaming
      /\ answers' = (IF m.type = "request" THEN answers \cup {<<client, m.about>>} ELSE answers)
      /\ UNCHANGED <<viewer, assigned, conn, sock, client, queue, req, checks, subs, sent>>
  BY DEF Receive, netVars
<1>2. /\ wire \in [Socks -> Seq(Msgs)]
      /\ \A s \in Socks : \A i \in 1..Len(wire[s]) : MsgTrue(wire[s][i])
      /\ queue \in Seq(Msgs) /\ Len(queue) <= QueueCap
      /\ \A i \in 1..Len(queue) : MsgTrue(queue[i])
      /\ \A c \in checks : c.sock \in Socks /\ c.m \in Msgs /\ MsgTrue(c.m)
           /\ c.m.type = "layout-switch"
      /\ ran \in Seq(Nat) /\ \A i \in 1..Len(ran) : ran[i] \in 1..sent
  BY DEF ChanInv, MailTypes
<1>3. client \in Socks /\ sent \in Nat
  BY <1>1, CoordAssumption DEF ChanInv, ChannelTypes, Socks
<1>4. q \in Seq(Msgs)
  BY <1>2, <1>3
<1>5. /\ Len(q) \in Nat \ {0} /\ m = q[1] /\ m \in Msgs
      /\ Tail(q) \in Seq(Msgs) /\ Len(Tail(q)) = Len(q) - 1
      /\ \A i \in 1..Len(Tail(q)) : Tail(q)[i] = q[i + 1] /\ i + 1 \in 1..Len(q)
  BY <1>1, <1>4, Taken
<1>6. wire'[client] = Tail(q) /\ \A s \in Socks : s # client => wire'[s] = wire[s]
  BY <1>1, <1>2, <1>3
<1>7. \A i \in 1..Len(q) : MsgTrue(q[i]) /\ q[i] \in Msgs
  BY <1>2, <1>3, <1>4
<1>8. MsgTrue(m) /\ m.n \in 1..sent /\ (m.type = "request" => m.about \in Requests)
  <2>1. 1 \in 1..Len(q)
    BY <1>5
  <2> QED
    BY <1>5, <1>7, <2>1 DEF MsgTrue
<1> HIDE DEF m, q
<1>9. /\ ran' \in Seq(Nat) /\ Len(ran') = Len(ran) + 1 /\ ran'[Len(ran')] = m.n /\ Len(ran) \in Nat
      /\ \A i \in 1..Len(ran) : ran'[i] = ran[i]
  <2>1. m.n \in Nat
    BY <1>3, <1>8
  <2> QED
    BY <1>1, <1>2, <2>1
<1>10. streaming' = (IF m.type = "journal-start" THEN TRUE
         ELSE IF m.type = "journal-stop" THEN FALSE ELSE streaming)
  BY <1>1
<1>11. ChannelTypes'
  <2>1. streaming' \in BOOLEAN
    BY <1>10 DEF ChanInv, ChannelTypes
  <2>2. answers' \subseteq Socks \X Requests
    BY <1>1, <1>3, <1>8 DEF ChanInv, ChannelTypes
  <2> QED
    BY <1>1, <2>1, <2>2 DEF ChanInv, ChannelTypes
<1>12. MailTypes'
  <2>1. wire' \in [Socks -> Seq(Msgs)]
    BY <1>1, <1>2, <1>3, <1>5, <1>6
  <2>2. ASSUME NEW s \in Socks, NEW i \in 1..Len(wire'[s]) PROVE MsgTrue(wire[s][i])'
    <3>1. CASE s # client
      BY <1>1, <1>2, <1>6, <2>2, <3>1 DEF MsgTrue
    <3>2. CASE s = client
      <4>1. wire'[s][i] = q[i + 1] /\ i + 1 \in 1..Len(q)
        BY <1>5, <1>6, <2>2, <3>2
      <4> QED
        BY <1>1, <1>7, <4>1 DEF MsgTrue
    <3> QED
      BY <3>1, <3>2
  <2>3. ASSUME NEW i \in 1..Len(ran') PROVE ran'[i] \in 1..sent
    <3>1. CASE i = Len(ran')
      BY <1>8, <1>9, <3>1
    <3>2. CASE i # Len(ran')
      <4>1. i \in 1..Len(ran)
        BY <1>9, <2>3, <3>2
      <4> QED
        BY <1>2, <1>9, <4>1
    <3> QED
      BY <3>1, <3>2
  <2> QED
    BY <1>1, <1>2, <1>9, <2>1, <2>2, <2>3 DEF MailTypes, MsgTrue
<1>13. MailInOrder'
  <2> SUFFICES ASSUME ~viewer PROVE MailInOrder'
    BY <1>1 DEF MailInOrder
  <2>1. /\ checks = {} /\ Ascends(queue)
        /\ \A i \in 1..Len(ran), j \in 1..Len(queue) : ran[i] < queue[j].n
        /\ \A i, j \in 1..Len(ran) : i < j => ran[i] < ran[j]
        /\ \A i, j \in 1..Len(q) : i < j => q[i].n < q[j].n
        /\ \A i \in 1..Len(ran), j \in 1..Len(q) : ran[i] < q[j].n
        /\ \A i \in 1..Len(q), j \in 1..Len(queue) : q[i].n < queue[j].n
    BY <1>1 DEF ChanInv, MailInOrder, Ascends, Before, RanBefore, q
  <2>2. 1 \in 1..Len(q)
    BY <1>5
  <2>3. ASSUME NEW i \in 1..Len(ran'), NEW j \in 1..Len(ran'), i < j PROVE ran'[i] < ran'[j]
    <3>1. i \in 1..Len(ran) /\ ran'[i] = ran[i]
      BY <1>9, <2>3
    <3>2. CASE j = Len(ran')
      BY <1>5, <1>9, <2>1, <2>2, <3>1, <3>2
    <3>3. CASE j # Len(ran')
      <4>1. j \in 1..Len(ran)
        BY <1>9, <2>3, <3>3
      <4> QED
        BY <1>9, <2>1, <2>3, <3>1, <4>1
    <3> QED
      BY <3>2, <3>3
  <2>4. ASSUME NEW i \in 1..Len(ran'), NEW j \in 1..Len(queue) PROVE ran'[i] < queue[j].n
    <3>1. CASE i = Len(ran')
      BY <1>5, <1>9, <2>1, <2>2, <3>1
    <3>2. CASE i # Len(ran')
      <4>1. i \in 1..Len(ran)
        BY <1>9, <2>4, <3>2
      <4> QED
        BY <1>9, <2>1, <4>1
    <3> QED
      BY <3>1, <3>2
  <2>5. ASSUME NEW i \in 1..Len(ran'), NEW j \in 1..Len(Tail(q)) PROVE ran'[i] < Tail(q)[j].n
    <3>1. Tail(q)[j] = q[j + 1] /\ j + 1 \in 1..Len(q) /\ 1 < j + 1
      BY <1>5
    <3>2. CASE i = Len(ran')
      BY <1>5, <1>9, <2>1, <2>2, <3>1, <3>2
    <3>3. CASE i # Len(ran')
      <4>1. i \in 1..Len(ran)
        BY <1>9, <2>5, <3>3
      <4> QED
        BY <1>9, <2>1, <3>1, <4>1
    <3> QED
      BY <3>2, <3>3
  <2>6. ASSUME NEW i \in 1..Len(Tail(q)), NEW j \in 1..Len(Tail(q)), i < j
        PROVE  Tail(q)[i].n < Tail(q)[j].n
    <3>1. Tail(q)[i] = q[i + 1] /\ i + 1 \in 1..Len(q) /\ Tail(q)[j] = q[j + 1]
            /\ j + 1 \in 1..Len(q) /\ i + 1 < j + 1
      BY <1>5, <2>6
    <3> QED
      BY <2>1, <3>1
  <2>7. ASSUME NEW i \in 1..Len(Tail(q)), NEW j \in 1..Len(queue) PROVE Tail(q)[i].n < queue[j].n
    BY <1>5, <2>1
  <2>8. Ascends(wire'[client])
          /\ (\A i \in 1..Len(ran'), j \in 1..Len(wire'[client]) : ran'[i] < wire'[client][j].n)
        /\ Before(wire'[client], queue)
    BY <1>6, <2>5, <2>6, <2>7 DEF Ascends, Before
  <2> QED
    BY <1>1, <2>1, <2>3, <2>4, <2>8 DEF MailInOrder, Ascends, Before, RanBefore
<1>14. Quiet'
  <2>1. /\ viewer => subs = {}
        /\ subs = {} => Settles(queue)
        /\ subs = {} /\ client # 0 /\ client = conn /\ queue = <<>> =>
             Settles(q) /\ (streaming => Stops(q))
    BY DEF ChanInv, Quiet, q
  <2>2. ASSUME subs = {}, client = conn, queue = <<>>
        PROVE  Settles(Tail(q)) /\ (streaming' => Stops(Tail(q)))
    <3>1. Settles(q) /\ (streaming => Stops(q))
      BY <1>1, <2>1, <2>2
    <3>2. ASSUME NEW i \in 1..Len(Tail(q)), Tail(q)[i].type = "journal-start"
          PROVE  \E j \in 1..Len(Tail(q)) : i < j /\ Tail(q)[j].type = "journal-stop"
      <4>1. i + 1 \in 1..Len(q) /\ q[i + 1].type = "journal-start"
        BY <1>5, <3>2
      <4>2. PICK j \in 1..Len(q) : i + 1 < j /\ q[j].type = "journal-stop"
        BY <3>1, <4>1 DEF Settles
      <4>3. j - 1 \in 1..Len(Tail(q)) /\ (j - 1) + 1 = j /\ i < j - 1
        BY <1>5, <4>2
      <4>4. Tail(q)[j - 1] = q[(j - 1) + 1]
        BY <1>5, <4>3
      <4>5. Tail(q)[j - 1] = q[j]
        BY <4>3, <4>4
      <4>6. Tail(q)[j - 1].type = "journal-stop"
        BY <4>2, <4>5
      <4> QED
        BY <4>3, <4>6
    <3>3. ASSUME streaming' PROVE Stops(Tail(q))
      <4>1. 1 \in 1..Len(q)
        BY <1>5
      <4>2. \E j \in 1..Len(q) : 1 < j /\ q[j].type = "journal-stop"
        <5>1. CASE m.type = "journal-start"
          BY <1>5, <3>1, <4>1, <5>1 DEF Settles
        <5>2. CASE m.type # "journal-start"
          <6>1. m.type # "journal-stop" /\ streaming
            BY <1>10, <3>3, <5>2
          <6>2. PICK j \in 1..Len(q) : q[j].type = "journal-stop"
            BY <3>1, <6>1 DEF Stops
          <6>3. j # 1
            BY <1>5, <6>1, <6>2
          <6> QED
            BY <6>2, <6>3
        <5> QED
          BY <5>1, <5>2
      <4>3. PICK j \in 1..Len(q) : 1 < j /\ q[j].type = "journal-stop"
        BY <4>2
      <4>4. j - 1 \in 1..Len(Tail(q)) /\ (j - 1) + 1 = j
        BY <1>5, <4>3
      <4>5. Tail(q)[j - 1] = q[(j - 1) + 1]
        BY <1>5, <4>4
      <4>6. Tail(q)[j - 1] = q[j]
        BY <4>4, <4>5
      <4>7. Tail(q)[j - 1].type = "journal-stop"
        BY <4>3, <4>6
      <4> QED
        BY <4>4, <4>7 DEF Stops
    <3> QED
      BY <3>2, <3>3 DEF Settles
  <2>3. wire[client]' = Tail(q)
    BY <1>1, <1>6
  <2>4. ASSUME subs' = {}, client' = conn', queue' = <<>>
        PROVE  Settles(wire[client])' /\ (streaming' => Stops(wire[client])')
    <3>1. Settles(Tail(q)) /\ (streaming' => Stops(Tail(q)))
      BY <1>1, <2>2, <2>4
    <3> QED
      BY <2>3, <3>1 DEF Settles, Stops
  <2>5. subs' = {} => Settles(queue)'
    BY <1>1, <2>1 DEF Settles
  <2>6. (viewer' => subs' = {}) /\ client' # 0
    BY <1>1, <2>1
  <2> QED
    BY <2>4, <2>5, <2>6 DEF Quiet
<1>15. Paired' /\ OpenMeansDrained' /\ RequestsFollowSocket'
  BY <1>1 DEF ChanInv, Paired, OpenMeansDrained, IsOpen, RequestsFollowSocket
<1> QED
  BY <1>11, <1>12, <1>13, <1>14, <1>15 DEF ChanInv

\* What the queue becomes on the wire: some of its messages, in its order, and
\* for a kiosk that is no viewer all of them.
LEMMA DueGoes ==
  ASSUME ChanInv, NEW s \in Socks, SendQueued(s)
  PROVE  \E turn : /\ wire'[s] \in Seq(Msgs) /\ Len(wire'[s]) \in Nat
                   /\ \A i \in 1..Len(wire'[s]) :
                        turn[i] \in Due /\ turn[i] \in 1..Len(queue) /\ wire'[s][i] = queue[turn[i]]
                   /\ \A i, j \in 1..Len(wire'[s]) : i < j => turn[i] < turn[j]
                   /\ \A d \in Due : \E i \in 1..Len(wire'[s]) : turn[i] = d
                   /\ \A t \in Socks : t # s => wire'[t] = wire[t]
                   /\ wire' \in [Socks -> Seq(Msgs)]
<1> DEFINE K == Cardinality(Due)
<1>1. queue \in Seq(Msgs) /\ wire \in [Socks -> Seq(Msgs)]
  BY DEF ChanInv, MailTypes
<1>2. DOMAIN queue = 1..Len(queue) /\ Len(queue) \in Nat /\ Due \subseteq 1..Len(queue)
  BY <1>1 DEF Due
<1>3. IsFiniteSet(1..Len(queue))
  BY <1>2, FS_Interval
<1>4. IsFiniteSet(Due)
  BY <1>2, <1>3, FS_Subset
<1>5. K \in Nat
  BY <1>4, FS_CardinalityType
<1>6. PICK turn \in [1..K -> Due] :
        /\ \A i, j \in DOMAIN turn : i < j => turn[i] < turn[j]
        /\ \A d \in Due : \E i \in DOMAIN turn : turn[i] = d
        /\ wire' = [wire EXCEPT ![s] = [i \in 1..K |-> queue[turn[i]]]]
  BY DEF SendQueued
<1> HIDE DEF K
<1>7. DOMAIN turn = 1..K /\ \A i \in 1..K : turn[i] \in Due /\ turn[i] \in 1..Len(queue)
  BY <1>2, <1>6
<1>8. wire'[s] = [i \in 1..K |-> queue[turn[i]]] /\ \A t \in Socks : t # s => wire'[t] = wire[t]
  BY <1>1, <1>6
<1>9. \A i \in 1..K : queue[turn[i]] \in Msgs
  BY <1>1, <1>7
<1>10. [i \in 1..K |-> queue[turn[i]]] \in Seq(Msgs) /\ Len([i \in 1..K |-> queue[turn[i]]]) = K
  BY <1>5, <1>9
<1>11. wire'[s] \in Seq(Msgs) /\ Len(wire'[s]) = K
  BY <1>8, <1>10
<1>12. wire' \in [Socks -> Seq(Msgs)]
  BY <1>1, <1>6, <1>10
<1>13. \A i \in 1..K : wire'[s][i] = queue[turn[i]]
  BY <1>8
<1>14. /\ \A i, j \in 1..K : i < j => turn[i] < turn[j]
       /\ \A d \in Due : \E i \in 1..K : turn[i] = d
  BY <1>6, <1>7
<1>15. Len(wire'[s]) \in Nat
  BY <1>5, <1>11
<1>16. /\ \A i \in 1..Len(wire'[s]) :
            turn[i] \in Due /\ turn[i] \in 1..Len(queue) /\ wire'[s][i] = queue[turn[i]]
       /\ \A i, j \in 1..Len(wire'[s]) : i < j => turn[i] < turn[j]
       /\ \A d \in Due : \E i \in 1..Len(wire'[s]) : turn[i] = d
  BY <1>7, <1>11, <1>13, <1>14
<1> QED
  BY <1>8, <1>11, <1>12, <1>15, <1>16

\* The kiosk connects: the previous socket loses its requests, the queue goes out.
LEMMA Connects == ASSUME ChanInv, Connect PROVE ChanInv'
<1>1. PICK s \in Socks :
        /\ client = 0 /\ client' = s /\ conn' = s
        /\ sock' = [t \in Socks |-> IF t = s THEN "open"
                                    ELSE IF t = conn /\ sock[t] = "open" THEN "closing"
                                      ELSE sock[t]]
        /\ req' = RejectRequests(conn) /\ SendQueued(s) /\ queue' = <<>>
        /\ UNCHANGED <<viewer, assigned, answers, subs, streaming, sent, ran>>
  BY DEF Connect, drainOfflineQueue
<1>2. s \in 1..MaxSocks /\ s \in 0..MaxSocks /\ s # 0
  BY CoordAssumption DEF Socks
<1>3. PICK turn :
        /\ wire'[s] \in Seq(Msgs) /\ Len(wire'[s]) \in Nat
        /\ \A i \in 1..Len(wire'[s]) :
             turn[i] \in Due /\ turn[i] \in 1..Len(queue) /\ wire'[s][i] = queue[turn[i]]
        /\ \A i, j \in 1..Len(wire'[s]) : i < j => turn[i] < turn[j]
        /\ \A d \in Due : \E i \in 1..Len(wire'[s]) : turn[i] = d
        /\ \A t \in Socks : t # s => wire'[t] = wire[t]
        /\ wire' \in [Socks -> Seq(Msgs)]
  BY <1>1, DueGoes
<1>4. /\ wire \in [Socks -> Seq(Msgs)]
      /\ \A t \in Socks : \A i \in 1..Len(wire[t]) : MsgTrue(wire[t][i])
      /\ queue \in Seq(Msgs) /\ Len(queue) <= QueueCap
      /\ \A i \in 1..Len(queue) : MsgTrue(queue[i])
      /\ \A c \in checks : c.sock \in Socks /\ c.m \in Msgs /\ MsgTrue(c.m)
           /\ c.m.type = "layout-switch"
      /\ ran \in Seq(Nat) /\ \A i \in 1..Len(ran) : ran[i] \in 1..sent
  BY DEF ChanInv, MailTypes
<1>5. checks' = checks \cup {[sock |-> s, m |-> queue[i], ok |-> "reading"] :
                               i \in {j \in DOMAIN queue : viewer
                                 /\ queue[j].type = "layout-switch"}}
  BY <1>1 DEF SendQueued
<1>6. DOMAIN queue = 1..Len(queue)
  BY <1>4
<1>7. Due = {i \in 1..Len(queue) : ~viewer \/ queue[i].type = "reload-bundle"}
  BY <1>6 DEF Due
<1>8. ChannelTypes'
  <2>1. sock \in [Socks -> {"unused", "open", "closing", "closed"}]
    BY DEF ChanInv, ChannelTypes
  <2>2. sock' \in [Socks -> {"unused", "open", "closing", "closed"}]
    BY <1>1, <2>1
  <2>3. req' \in RequestTypes
    BY <1>1, Rejects
  <2> QED
    BY <1>1, <1>2, <2>2, <2>3 DEF ChanInv, ChannelTypes
<1>9. MailTypes'
  <2>1. ASSUME NEW t \in Socks, NEW i \in 1..Len(wire'[t]) PROVE MsgTrue(wire[t][i])'
    <3>1. CASE t # s
      BY <1>1, <1>3, <1>4, <2>1, <3>1 DEF MsgTrue
    <3>2. CASE t = s
      <4>1. i \in 1..Len(wire'[s])
        BY <2>1, <3>2
      <4>2. turn[i] \in 1..Len(queue) /\ wire'[s][i] = queue[turn[i]]
        BY <1>3, <4>1
      <4>3. MsgTrue(queue[turn[i]])
        BY <1>4, <4>2
      <4> QED
        BY <1>1, <3>2, <4>2, <4>3 DEF MsgTrue
    <3> QED
      BY <3>1, <3>2
  <2>2. ASSUME NEW c \in checks'
        PROVE  c.sock \in Socks /\ c.m \in Msgs /\ MsgTrue(c.m) /\ c.m.type = "layout-switch"
    <3>1. CASE c \in checks
      BY <1>4, <3>1
    <3>2. CASE c \notin checks
      <4>1. PICK i \in 1..Len(queue) : c = [sock |-> s, m |-> queue[i], ok |-> "reading"]
                   /\ queue[i].type = "layout-switch"
        BY <1>5, <1>6, <2>2, <3>2
      <4>2. c.sock = s /\ c.m = queue[i] /\ queue[i] \in Msgs /\ MsgTrue(queue[i])
        BY <1>4, <4>1
      <4> QED
        BY <4>1, <4>2
    <3> QED
      BY <3>1, <3>2
  <2>3. queue' \in Seq(Msgs) /\ Len(queue') = 0 /\ 0 <= QueueCap
    BY <1>1, CoordAssumption
  <2> QED
    BY <1>1, <1>3, <1>4, <2>1, <2>2, <2>3 DEF MailTypes, MsgTrue
<1>10. MailInOrder'
  <2> SUFFICES ASSUME ~viewer PROVE MailInOrder'
    BY <1>1 DEF MailInOrder
  <2>1. /\ checks = {}
        /\ \A i, j \in 1..Len(queue) : i < j => queue[i].n < queue[j].n
        /\ \A i \in 1..Len(ran), j \in 1..Len(queue) : ran[i] < queue[j].n
        /\ \A i, j \in 1..Len(ran) : i < j => ran[i] < ran[j]
    BY DEF ChanInv, MailInOrder, Ascends, RanBefore
  <2>2. checks' = {}
    BY <1>5, <2>1
  <2>3. \A i, j \in 1..Len(wire'[s]) : i < j => wire'[s][i].n < wire'[s][j].n
    <3>1. ASSUME NEW i \in 1..Len(wire'[s]), NEW j \in 1..Len(wire'[s]), i < j
          PROVE  wire'[s][i].n < wire'[s][j].n
      <4>1. /\ turn[i] \in 1..Len(queue) /\ wire'[s][i] = queue[turn[i]]
            /\ turn[j] \in 1..Len(queue) /\ wire'[s][j] = queue[turn[j]]
            /\ turn[i] < turn[j]
        BY <1>3, <3>1
      <4> QED
        BY <2>1, <4>1
    <3> QED
      BY <3>1
  <2>4. \A i \in 1..Len(ran), j \in 1..Len(wire'[s]) : ran[i] < wire'[s][j].n
    BY <1>3, <2>1
  <2>5. Len(queue') = 0
    BY <1>1
  <2> QED
    BY <1>1, <2>1, <2>2, <2>3, <2>4, <2>5 DEF MailInOrder, Ascends, Before, RanBefore
<1>11. Quiet'
  <2>1. (viewer => subs = {}) /\ (client = 0 => ~streaming) /\ (subs = {} => Settles(queue))
    BY DEF ChanInv, Quiet
  <2>2. ASSUME subs = {}, NEW i \in 1..Len(wire'[s]), wire'[s][i].type = "journal-start"
        PROVE  \E j \in 1..Len(wire'[s]) : i < j /\ wire'[s][j].type = "journal-stop"
    <3>1. turn[i] \in Due /\ turn[i] \in 1..Len(queue) /\ queue[turn[i]].type = "journal-start"
      BY <1>3, <2>2
    <3>2. ~viewer
      BY <1>7, <3>1
    <3>3. PICK k \in 1..Len(queue) : turn[i] < k /\ queue[k].type = "journal-stop"
      BY <2>1, <2>2, <3>1 DEF Settles
    <3>4. k \in Due
      BY <1>7, <3>2
    <3>5. PICK j \in 1..Len(wire'[s]) : turn[j] = k
      BY <1>3, <3>4
    <3>6. ~(j < i) /\ j # i
      BY <1>3, <3>1, <3>3, <3>5
    <3>7. i < j
      BY <1>3, <3>6
    <3>8. wire'[s][j] = queue[turn[j]]
      BY <1>3
    <3>9. wire'[s][j].type = "journal-stop"
      BY <3>3, <3>5, <3>8
    <3> QED
      BY <3>7, <3>9
  <2>3. subs' = {} => Settles(wire[client])'
    BY <1>1, <2>2 DEF Settles
  <2>4. Settles(queue)'
    <3>1. Len(queue') = 0
      BY <1>1
    <3> QED
      BY <3>1 DEF Settles
  <2>5. (viewer' => subs' = {}) /\ client' # 0 /\ ~streaming'
    BY <1>1, <1>2, <2>1
  <2> QED
    BY <2>3, <2>4, <2>5 DEF Quiet
<1>12. Paired'
  BY <1>1 DEF Paired
<1>13. OpenMeansDrained'
  BY <1>1 DEF OpenMeansDrained
<1>14. RequestsFollowSocket'
  BY <1>1, Rejects DEF ChanInv, RequestsFollowSocket
<1> QED
  BY <1>8, <1>9, <1>10, <1>11, <1>12, <1>13, <1>14 DEF ChanInv

\* Every step keeps the invariant.
LEMMA ChannelStep == ASSUME ChanInv, [CoordNext]_coordVars PROVE ChanInv'
<1>1. CASE UNCHANGED coordVars
  BY <1>1 DEF coordVars, ChanInv, ChannelTypes, MailTypes, MsgTrue, MailInOrder, Ascends, Before,
       RanBefore,
              Paired, Quiet, Settles, Stops, RequestsFollowSocket, OpenMeansDrained, IsOpen
<1>2. ASSUME NEW q \in BOOLEAN, SendCommand("reload-bundle", 0, q) PROVE ChanInv'
  BY <1>2, CommandSent DEF MsgTypes
<1>3. ASSUME NEW l \in Layouts, SendCommand("layout-switch", l, TRUE) PROVE ChanInv'
  BY <1>3, CommandSent DEF MsgTypes
<1>4. ASSUME NEW a \in Admins, NEW type \in {"journal-start", "journal-stop"}, relayToKiosk(a, type)
      PROVE  ChanInv'
  <2>1. subs # {} /\ SendCommand(type, 0, TRUE)
    BY <1>4 DEF relayToKiosk
  <2>2. type \in MsgTypes \ {"request"}
    BY DEF MsgTypes
  <2> QED
    BY <2>1, <2>2, CommandSent
<1>5. CASE CoordNext
  BY <1>2, <1>3, <1>4, <1>5, ChecksRead, SwitchGoes, LayoutAssigned, Connects, ConnectionLost,
       StaleTerminated,
     SocketClosed, RequestMade, TimerFires, AnswerCounts, Subscribes, Unsubscribes, MessageRun
       DEF CoordNext
<1> QED
  BY <1>1, <1>5

\* The invariant says more than the claims the runs check.
LEMMA ChannelFollows == ASSUME ChanInv PROVE ChannelSafe
<1>1. /\ \A s \in Socks : wire[s] \in Seq(Msgs) /\ \A i \in 1..Len(wire[s]) : MsgTrue(wire[s][i])
      /\ Len(queue) <= QueueCap /\ ran \in Seq(Nat)
  BY DEF ChanInv, MailTypes
<1>2. \A s \in Socks : \A i \in DOMAIN wire[s] : wire[s][i].n \in 1..sent
  BY <1>1 DEF MsgTrue
<1>3. CoordTypeOK
  BY <1>1, <1>2 DEF ChanInv, ChannelTypes, CoordTypeOK, RequestTypes, RequestType
<1>4. DOMAIN ran = 1..Len(ran)
  BY <1>1
<1>5. CommandsInOrder
  BY <1>4 DEF ChanInv, MailInOrder, CommandsInOrder
<1>6. NoOrphanStream
  BY DEF ChanInv, Quiet, Stops, NoOrphanStream
<1> QED
  BY <1>3, <1>5, <1>6 DEF ChanInv, ChannelSafe

\* The channel to a kiosk stays safe, for every number of connections,
\* requests, administrators and commands and every capacity of the queue.
THEOREM ChannelStaysSafe == CoordSpec => []ChannelSafe
<1>1. CoordInit => ChanInv
  BY ChannelInitially
<1>2. ChanInv /\ [CoordNext]_coordVars => ChanInv'
  BY ChannelStep
<1>3. ChanInv => ChannelSafe
  BY ChannelFollows
<1> QED
  BY <1>1, <1>2, <1>3, PTL DEF CoordSpec

-----------------------------------------------------------------------------
(* JournalUpload: the journal of a kiosk *)

JuStates == [owner : Nat, cursor : Nat, since : Nat]

JournalTypeOK ==
  /\ juEra \in Seq(Nat) /\ juOwner \in Nat
  /\ juMem \in JuStates /\ juDisk \in JuStates
  /\ juPost \in [to : Nat, set : SUBSET Nat, cursor : Nat, pc : {"none", "sent", "stored"}]
  /\ juBlank \subseteq Nat
  /\ \A r \in juRows : r.entry \in 1..Len(juEra)

\* A state of the uploader, in memory or on disk, names an owner of the past
\* or present, and the server has what its cursor says.  Until the kiosk is
\* paired again, what is still to be read is that owner's own, unless the
\* owner was taken on while the state named none.
StateTrue(s) ==
  /\ s.owner <= juOwner
  /\ \A e \in s.since + 1 .. s.cursor : \E r \in juRows : r.owner = s.owner /\ r.entry = e
  /\ (s.owner = juOwner /\ s.owner # 0 /\ s.owner \notin juBlank)
       => \A e \in s.since + 1 .. Len(juEra) : juEra[e] = s.owner

\* A batch on its way is for the owner of the state it was read from,
\* continues where that state's cursor stands, and holds what is that owner's.
BatchTrue ==
  juPost.pc # "none" =>
    /\ juPost.to = juMem.owner
    /\ juPost.set \subseteq 1..Len(juEra)
    /\ \A e \in juMem.since + 1 .. juPost.cursor : e <= juMem.cursor \/ e \in juPost.set
    /\ juPost.to \notin juBlank => \A e \in juPost.set : juEra[e] = juPost.to

BatchStored ==
  juPost.pc = "stored" => \A e \in juPost.set : \E r \in juRows : r.owner = juPost.to /\ r.entry = e

JournalInv ==
  /\ JournalTypeOK /\ StateTrue(juMem) /\ StateTrue(juDisk) /\ BatchTrue /\ BatchStored
  /\ StoredOnce /\ NoForeignHistory

\* What holds before the first entry.
LEMMA JournalInitially == JournalInit => JournalInv
BY DEF JournalInit, JournalInv, JournalTypeOK, StateTrue, BatchTrue,
       BatchStored, StoredOnce, NoForeignHistory, NoState, NoPost, JuStates

\* A new entry of the journal is the present owner's.
LEMMA JournalKept == ASSUME JournalInv, Journal PROVE JournalInv'
<1>1. /\ juEra' = Append(juEra, juOwner)
      /\ UNCHANGED <<juOwner, juMem, juDisk, juPost, juRows, juBlank>>
  BY DEF Journal
<1>2. /\ Len(juEra') = Len(juEra) + 1 /\ Len(juEra) \in Nat /\ juEra' \in Seq(Nat)
      /\ \A e \in 1..Len(juEra) : juEra'[e] = juEra[e]
      /\ juEra'[Len(juEra) + 1] = juOwner
  BY <1>1 DEF JournalInv, JournalTypeOK
<1>3. JournalTypeOK'
  BY <1>1, <1>2 DEF JournalInv, JournalTypeOK
<1>4. ASSUME NEW s \in JuStates, StateTrue(s) PROVE StateTrue(s)'
  <2>1. s.since \in Nat
    BY DEF JuStates
  <2>2. ASSUME s.owner = juOwner, s.owner # 0, s.owner \notin juBlank,
               NEW e \in s.since + 1 .. Len(juEra) + 1
        PROVE juEra'[e] = s.owner
    <3>1. e \in Nat /\ e >= 1 /\ (e = Len(juEra) + 1 \/ e \in s.since + 1 .. Len(juEra))
      BY <1>2, <2>1
    <3> QED
      BY <1>2, <1>4, <2>2, <3>1 DEF StateTrue
  <2> QED
    BY <1>1, <1>2, <1>4, <2>2 DEF StateTrue
<1>5. BatchTrue' /\ BatchStored'
  BY <1>1, <1>2 DEF JournalInv, BatchTrue, BatchStored
<1>6. StoredOnce' /\ NoForeignHistory'
  BY <1>1, <1>2 DEF JournalInv, JournalTypeOK, StoredOnce, NoForeignHistory
<1> QED
  BY <1>1, <1>3, <1>4, <1>5, <1>6 DEF JournalInv, JournalTypeOK

\* The kiosk is paired again, with another owner.
LEMMA RepairKept == ASSUME JournalInv, Repair PROVE JournalInv'
BY DEF Repair, JournalInv, JournalTypeOK, JuStates, StateTrue, BatchTrue, BatchStored, StoredOnce,
     NoForeignHistory

\* The state of a new owner starts at the end of the journal, or the state
\* named none before.
LEMMA OwnerChangedKept == ASSUME JournalInv, OwnerChanged PROVE JournalInv'
<1>0. PICK state : state = IF juMem.owner = 0 THEN [NoState EXCEPT !.owner = juOwner]
                           ELSE [owner |-> juOwner, cursor |-> Len(juEra), since |-> Len(juEra)]
  OBVIOUS
<1>1. /\ juPost.pc = "none" /\ juOwner # 0
      /\ juMem' = state /\ juDisk' \in {state, juDisk}
      /\ juBlank \subseteq juBlank' /\ juBlank' \subseteq juBlank \cup {juOwner}
      /\ juMem.owner = 0 => juOwner \in juBlank'
      /\ UNCHANGED <<juEra, juOwner, juPost, juRows>>
  BY <1>0 DEF OwnerChanged, Persist
<1>2. /\ juOwner \in Nat /\ Len(juEra) \in Nat
  BY DEF JournalInv, JournalTypeOK
<1>3. /\ state \in JuStates /\ state.owner = juOwner
      /\ state.since = state.cursor /\ state.cursor \in Nat
      /\ juMem.owner # 0 => state.since = Len(juEra)
  BY <1>0, <1>2 DEF NoState, JuStates
<1>4. JournalTypeOK'
  BY <1>1, <1>2, <1>3 DEF JournalInv, JournalTypeOK
<1>5. StateTrue(state)'
  <2>1. \A e \in state.since + 1 .. state.cursor : FALSE
    BY <1>3
  <2>2. juOwner \notin juBlank' => \A e \in state.since + 1 .. Len(juEra) : FALSE
    BY <1>1, <1>2, <1>3
  <2> QED
    BY <1>1, <1>2, <1>3, <2>1, <2>2 DEF StateTrue
<1>6. StateTrue(juDisk)'
  <2>1. CASE juDisk' = state
    BY <1>5, <2>1, <1>1
  <2>2. CASE juDisk' = juDisk
    BY <1>1, <2>2 DEF JournalInv, StateTrue
  <2> QED
    BY <1>1, <2>1, <2>2
<1>7. BatchTrue' /\ BatchStored' /\ StoredOnce' /\ NoForeignHistory'
  BY <1>1 DEF JournalInv, BatchTrue, BatchStored, StoredOnce, NoForeignHistory
<1> QED
  BY <1>1, <1>4, <1>5, <1>6, <1>7 DEF JournalInv

\* A batch is read from where the cursor stands,
LEMMA ReadKept == ASSUME JournalInv, read_batch PROVE JournalInv'
<1> DEFINE from == IF juMem.cursor > juMem.since THEN juMem.cursor ELSE juMem.since
           to == IF from + BatchSize < Len(juEra) THEN from + BatchSize ELSE Len(juEra)
<1>1. /\ juPost.pc = "none" /\ juMem.owner = juOwner /\ juOwner # 0 /\ from < to
      /\ juPost' = [to |-> juOwner, set |-> from + 1 .. to, cursor |-> to, pc |-> "sent"]
      /\ UNCHANGED <<juEra, juOwner, juMem, juDisk, juRows, juBlank>>
  BY DEF read_batch
<1>2. juMem.cursor \in Nat /\ juMem.since \in Nat /\ Len(juEra) \in Nat /\ BatchSize \in Nat
        /\ juOwner \in Nat
  BY JournalAssumption DEF JournalInv, JournalTypeOK, JuStates
<1>3. /\ from \in Nat /\ to \in Nat /\ to <= Len(juEra) /\ juMem.since <= from
      /\ (from = juMem.cursor \/ from = juMem.since)
  BY <1>2
<1> HIDE DEF from, to
<1>4. JournalTypeOK'
  BY <1>1, <1>2, <1>3 DEF JournalInv, JournalTypeOK
<1>5. BatchTrue'
  <2>1. /\ juPost'.to = juOwner /\ juPost'.cursor = to /\ juPost'.set = from + 1 .. to
    BY <1>1
  <2>2. from + 1 .. to \subseteq 1..Len(juEra)
    BY <1>2, <1>3
  <2>3. \A e \in juMem.since + 1 .. to : e <= juMem.cursor \/ e \in from + 1 .. to
    BY <1>2, <1>3
  <2>4. from + 1 .. to \subseteq juMem.since + 1 .. Len(juEra)
    BY <1>2, <1>3
  <2>5. juOwner \notin juBlank => \A e \in from + 1 .. to : juEra[e] = juOwner
    BY <1>1, <2>4 DEF JournalInv, StateTrue
  <2> QED
    BY <1>1, <2>1, <2>2, <2>3, <2>5 DEF BatchTrue
<1>6. StateTrue(juMem)' /\ StateTrue(juDisk)'
  BY <1>1 DEF JournalInv, StateTrue
<1>7. BatchStored' /\ StoredOnce' /\ NoForeignHistory'
  BY <1>1 DEF JournalInv, BatchStored, StoredOnce, NoForeignHistory
<1> QED
  BY <1>4, <1>5, <1>6, <1>7 DEF JournalInv

\* or cannot be read,
LEMMA ReadFailsKept == ASSUME JournalInv, ReadFails PROVE JournalInv'
<1>1. /\ juPost.pc = "none" /\ juMem'.owner = juMem.owner /\ juMem'.since = juMem.since
      /\ juMem'.cursor = 0 /\ juMem' \in JuStates
      /\ UNCHANGED <<juEra, juOwner, juDisk, juPost, juRows, juBlank>>
  BY DEF ReadFails, JournalInv, JournalTypeOK, JuStates
<1>2. JournalTypeOK'
  BY <1>1 DEF JournalInv, JournalTypeOK
<1>3. StateTrue(juMem)'
  <2>1. juMem.since \in Nat
    BY DEF JournalInv, JournalTypeOK, JuStates
  <2>2. \A e \in juMem'.since + 1 .. juMem'.cursor : FALSE
    BY <1>1, <2>1
  <2> QED
    BY <1>1, <2>2 DEF JournalInv, StateTrue
<1>4. StateTrue(juDisk)' /\ BatchTrue' /\ BatchStored' /\ StoredOnce' /\ NoForeignHistory'
  BY <1>1 DEF JournalInv, StateTrue, BatchTrue, BatchStored, StoredOnce, NoForeignHistory
<1> QED
  BY <1>2, <1>3, <1>4 DEF JournalInv

\* and the server stores it.
LEMMA InsertKept == ASSUME JournalInv, insertKioskLogs PROVE JournalInv'
<1> DEFINE added == {[owner |-> juPost.to, entry |-> e, copy |-> 0] : e \in juPost.set}
<1>1. /\ juPost.pc = "sent" /\ juRows' = juRows \cup added
      /\ juPost' = [juPost EXCEPT !.pc = "stored"]
      /\ UNCHANGED <<juEra, juOwner, juMem, juDisk, juBlank>>
  BY DEF insertKioskLogs
<1>2. \A r \in added : r.owner = juPost.to /\ r.entry \in juPost.set /\ r.copy = 0
  OBVIOUS
<1>3. \A e \in juPost.set : \E r \in added : r.owner = juPost.to /\ r.entry = e
  <2> SUFFICES ASSUME NEW e \in juPost.set PROVE \E r \in added : r.owner = juPost.to /\ r.entry = e
    OBVIOUS
  <2> WITNESS [owner |-> juPost.to, entry |-> e, copy |-> 0] \in added
  <2> QED
    OBVIOUS
<1> HIDE DEF added
<1>4. /\ juPost'.to = juPost.to /\ juPost'.set = juPost.set /\ juPost'.cursor = juPost.cursor
      /\ juPost' \in [to : Nat, set : SUBSET Nat, cursor : Nat, pc : {"none", "sent", "stored"}]
  BY <1>1 DEF JournalInv, JournalTypeOK
<1>5. JournalTypeOK'
  BY <1>1, <1>2, <1>4 DEF JournalInv, JournalTypeOK, BatchTrue
<1>6. BatchTrue' /\ BatchStored'
  BY <1>1, <1>3, <1>4 DEF JournalInv, BatchTrue, BatchStored
<1>7. StateTrue(juMem)' /\ StateTrue(juDisk)'
  BY <1>1 DEF JournalInv, StateTrue
<1>8. StoredOnce' /\ NoForeignHistory'
  BY <1>1, <1>2 DEF JournalInv, StoredOnce, NoForeignHistory, BatchTrue
<1> QED
  BY <1>5, <1>6, <1>7, <1>8 DEF JournalInv

\* The cursor moves over what the server has stored.
LEMMA UploadedKept == ASSUME JournalInv, Uploaded PROVE JournalInv'
<1>0. PICK state : state = [juMem EXCEPT !.cursor = juPost.cursor]
  OBVIOUS
<1>1. /\ juPost.pc = "stored" /\ juMem' = state /\ juDisk' \in {state, juDisk}
      /\ juPost' = NoPost
      /\ UNCHANGED <<juEra, juOwner, juRows, juBlank>>
  BY <1>0 DEF Uploaded, Persist
<1>2. /\ state \in JuStates /\ state.owner = juMem.owner /\ state.since = juMem.since
      /\ state.cursor = juPost.cursor /\ juMem.since \in Nat /\ juMem.cursor \in Nat
           /\ juPost.cursor \in Nat
  BY <1>0 DEF JournalInv, JournalTypeOK, JuStates
<1>3. JournalTypeOK'
  BY <1>1, <1>2 DEF JournalInv, JournalTypeOK, NoPost
<1>4. StateTrue(state)'
  <2>1. ASSUME NEW e \in juMem.since + 1 .. juPost.cursor
        PROVE \E r \in juRows : r.owner = juMem.owner /\ r.entry = e
    <3>1. CASE e <= juMem.cursor
      <4>1. e \in juMem.since + 1 .. juMem.cursor
        BY <1>2, <3>1
      <4> QED
        BY <4>1 DEF JournalInv, StateTrue
    <3>2. CASE e \in juPost.set
      BY <1>1, <3>2 DEF JournalInv, BatchTrue, BatchStored
    <3> QED
      BY <1>1, <3>1, <3>2 DEF JournalInv, BatchTrue
  <2>2. juMem.owner <= juOwner
    BY DEF JournalInv, StateTrue
  <2>3. (juMem.owner = juOwner /\ juMem.owner # 0 /\ juMem.owner \notin juBlank)
          => \A e \in juMem.since + 1 .. Len(juEra) : juEra[e] = juMem.owner
    BY DEF JournalInv, StateTrue
  <2> QED
    BY <1>1, <1>2, <2>1, <2>2, <2>3 DEF StateTrue
<1>5. StateTrue(juDisk)'
  <2>1. CASE juDisk' = state
    BY <1>4, <2>1, <1>1
  <2>2. CASE juDisk' = juDisk
    BY <1>1, <2>2 DEF JournalInv, StateTrue
  <2> QED
    BY <1>1, <2>1, <2>2
<1>6. BatchTrue' /\ BatchStored' /\ StoredOnce' /\ NoForeignHistory'
  BY <1>1 DEF JournalInv, BatchTrue, BatchStored, StoredOnce, NoForeignHistory, NoPost
<1> QED
  BY <1>1, <1>3, <1>4, <1>5, <1>6 DEF JournalInv

\* A batch given up, a restart that falls back to the file, and stuttering.
LEMMA GivenUpKept ==
  ASSUME JournalInv, juPost' \in {juPost, NoPost}, juMem' \in {juMem, juDisk},
         juMem' = juMem \/ juPost' = NoPost,
         UNCHANGED <<juEra, juOwner, juDisk, juRows, juBlank>>
  PROVE JournalInv'
BY DEF NoPost, JournalInv, JournalTypeOK, StateTrue, BatchTrue, BatchStored, StoredOnce,
     NoForeignHistory

\* Every step keeps the invariant.
LEMMA JournalStepKept == JournalInv /\ [JournalNext]_juVars => JournalInv'
<1> SUFFICES ASSUME JournalInv, [JournalNext]_juVars PROVE JournalInv'
  OBVIOUS
<1>1. CASE parseKioskLogs \/ UploadFails \/ UploaderRestarts \/ UNCHANGED juVars
  BY <1>1, GivenUpKept DEF parseKioskLogs, UploadFails, UploaderRestarts, juVars
<1> QED
  BY <1>1, JournalKept, RepairKept, OwnerChangedKept, ReadKept, ReadFailsKept, InsertKept,
       UploadedKept
     DEF JournalNext

\* For a journal of any length and any number of pairings, failures and restarts:
\* the cursor passes no entry that was not stored, a replay leaves one row, and no
\* owner but one taken on by an unowned state gets what another one's kiosk wrote.
THEOREM JournalStaysSafe == JournalSpec => []JournalSafe
<1>1. JournalInv => JournalSafe
  BY DEF JournalInv, StateTrue, JournalSafe, NothingSkipped
<1> QED
  BY <1>1, JournalInitially, JournalStepKept, PTL DEF JournalSpec

-----------------------------------------------------------------------------
(* OnvifEvents: subscriptions to a camera *)

EventsTypeOK ==
  /\ oeSub \in [status : {"none", "active", "failed", "pending", "inactive"},
                owner : OeKiosks \cup {"none"}]
  /\ oeReport \in [OeKiosks -> {"none", "active", "subscribing"}]
  /\ oeStale \subseteq OeKiosks /\ oeDue \subseteq OeKiosks
  /\ oeNonce \in Nat /\ oeNonces \in Nat /\ oeNonce <= oeNonces
  /\ oeGen \in [OeKiosks -> [pc : {"idle", "token", "send"}, nonce : Nat]]
  /\ oeToken \in [OeKiosks -> Nat]
  /\ oeRaced \in BOOLEAN

\* Before the camera has a nonce nobody can have read or been sent one.
NothingBeforeNonce ==
  oeNonce = 0 => \A k \in OeKiosks : oeToken[k] = 0 /\ oeGen[k].nonce = 0 /\ oeGen[k].pc # "send"

\* What a kiosk without a reload ahead of it has, or is about to get, is the
\* camera's nonce; a bundle begun before there was one has read none.
TokensFollow ==
  ~oeRaced => \A k \in OeKiosks \ oeDue :
    /\ oeGen[k].pc = "idle" => oeToken[k] \in {0, oeNonce}
    /\ oeGen[k].pc = "token" => oeGen[k].nonce \in {0, oeNonce}
    /\ oeGen[k].pc = "send" => oeGen[k].nonce = oeNonce

\* The row is active only for a kiosk, and that kiosk said so last.
OwnerIsKiosk == oeSub.status = "active" => oeSub.owner \in OeKiosks
  /\ oeReport[oeSub.owner] = "active"

EventsInv == EventsTypeOK /\ NothingBeforeNonce /\ TokensFollow /\ OwnerIsKiosk

\* What holds before a camera is subscribed to.
LEMMA EventsInitially == EventsInit => EventsInv
<1> SUFFICES ASSUME EventsInit PROVE EventsInv
  OBVIOUS
<1>1. EventsTypeOK
  <2>1. /\ oeGen \in [OeKiosks -> [pc : {"idle", "token", "send"}, nonce : Nat]]
        /\ oeSub \in [status : {"none", "active", "failed", "pending", "inactive"},
                     owner : OeKiosks \cup {"none"}]
    BY DEF EventsInit, NoGen
  <2>2. oeRaced \in BOOLEAN
    BY Zenon DEF EventsInit
  <2> QED
    BY <2>1, <2>2 DEF EventsInit, EventsTypeOK
<1>2. NothingBeforeNonce /\ TokensFollow /\ OwnerIsKiosk
  BY DEF EventsInit, NoGen, NothingBeforeNonce, TokensFollow, OwnerIsKiosk
<1> QED
  BY <1>1, <1>2 DEF EventsInv

\* Every step keeps the invariant.
LEMMA EventsStepKept == EventsInv /\ [EventsNext]_oeVars => EventsInv'
<1> SUFFICES ASSUME EventsInv, [EventsNext]_oeVars PROVE EventsInv'
  OBVIOUS
<1> USE DEF EventsInv, EventsTypeOK
<1>1. ASSUME NEW k \in OeKiosks, NEW state \in {"active", "subscribing"},
             syncKioskSubscriptions(k, state)
      PROVE EventsInv'
  BY <1>1 DEF syncKioskSubscriptions, Status, oeTokenVars, NothingBeforeNonce, TokensFollow,
       OwnerIsKiosk
<1>2. ASSUME NEW k \in OeKiosks, KioskUnseen(k) PROVE EventsInv'
  BY <1>2 DEF KioskUnseen, oeTokenVars, NothingBeforeNonce, TokensFollow, OwnerIsKiosk
<1>3. ASSUME NEW k \in OeKiosks, BundleBegin(k) PROVE EventsInv'
  BY <1>3 DEF BundleBegin, releaseStaleEventOwnership, NothingBeforeNonce, TokensFollow,
       OwnerIsKiosk
<1>4. ASSUME NEW k \in OeKiosks, BundleToken(k) PROVE EventsInv'
  <2>1. EventsTypeOK' /\ OwnerIsKiosk'
    <3>1. oeGen' \in [OeKiosks -> [pc : {"idle", "token", "send"}, nonce : Nat]]
      <4>1. CASE oeGen[k].nonce # 0
        BY <1>4, <4>1 DEF BundleToken, setCameraEventCallbackToken
      <4>2. CASE oeGen[k].nonce = 0
        <5>1. oeGen' = [oeGen EXCEPT ![k] = [pc |-> "send", nonce |-> oeNonces + 1]]
          BY <1>4, <4>2 DEF BundleToken, setCameraEventCallbackToken
        <5>2. [pc |-> "send", nonce |-> oeNonces + 1] \in [pc : {"idle", "token", "send"},
                nonce : Nat]
          OBVIOUS
        <5> QED
          BY <5>1, <5>2
      <4> QED
        BY <4>1, <4>2
    <3>2. oeNonce' \in Nat /\ oeNonces' \in Nat /\ oeNonce' <= oeNonces'
      BY <1>4 DEF BundleToken, setCameraEventCallbackToken
    <3>4. oeRaced' \in BOOLEAN
      BY <1>4, Zenon DEF BundleToken, setCameraEventCallbackToken
    <3>3. UNCHANGED <<oeSub, oeReport, oeStale, oeDue, oeToken>>
      BY <1>4 DEF BundleToken, setCameraEventCallbackToken, oeSubVars
    <3> QED
      BY <3>1, <3>2, <3>3, <3>4 DEF OwnerIsKiosk
  <2>2. CASE oeGen[k].nonce # 0
    BY <1>4, <2>1, <2>2 DEF BundleToken, setCameraEventCallbackToken, oeSubVars, NothingBeforeNonce, TokensFollow
  <2>3. CASE oeGen[k].nonce = 0
    <3>1. oeNonce' # 0 /\ oeNonce' = oeNonces + 1
      BY <1>4, <2>3 DEF BundleToken, setCameraEventCallbackToken
    <3>2. ASSUME ~oeRaced' PROVE oeNonce = 0 /\ ~oeRaced
      BY <1>4, <2>3, <3>2 DEF BundleToken, setCameraEventCallbackToken
    <3>3. TokensFollow'
      BY <1>4, <2>3, <3>1, <3>2 DEF BundleToken, setCameraEventCallbackToken, NothingBeforeNonce, TokensFollow
    <3> QED
      BY <2>1, <3>1, <3>3 DEF NothingBeforeNonce
  <2> QED
    BY <2>2, <2>3
<1>5. ASSUME NEW k \in OeKiosks, BundleSent(k) PROVE EventsInv'
  BY <1>5 DEF BundleSent, oeSubVars, NoGen, NothingBeforeNonce, TokensFollow, OwnerIsKiosk
<1>6. ASSUME NEW source, SetSource(source) PROVE EventsInv'
  BY <1>6 DEF SetSource, oeSubVars, NothingBeforeNonce, TokensFollow, OwnerIsKiosk
<1>7. CASE SubscribeEvents
  BY <1>7 DEF SubscribeEvents, setCameraEventCallbackToken,
            setAllEventSubscriptionsStatus, NothingBeforeNonce, TokensFollow, OwnerIsKiosk
<1>8. CASE UNCHANGED oeVars
  BY <1>8 DEF oeVars, NothingBeforeNonce, TokensFollow, OwnerIsKiosk
<1> QED
  BY <1>1, <1>2, <1>3, <1>4, <1>5, <1>6, <1>7, <1>8 DEF EventsNext

\* For any set of kiosks: an active subscription's owner was the last to report
\* it active, and, unless two first bundles were made at once, a kiosk with no
\* reload ahead of it holds the callback token the server accepts.
THEOREM EventsStaySafe == EventsSpec => []EventsSafe
<1>1. EventsInv => EventsSafe
  BY DEF EventsInv, EventsTypeOK, TokensFollow, OwnerIsKiosk, EventsSafe, TokenAccepted, OwnerSaidSo
<1> QED
  BY <1>1, EventsInitially, EventsStepKept, PTL DEF EventsSpec

-----------------------------------------------------------------------------
(* OnvifClient: requests to a camera *)

OcTypes ==
  /\ ocCam.accepts \subseteq AuthMethods /\ ocCam.username \in BOOLEAN
  /\ ocBy \in {"server", "kiosk"} /\ ocFaulty \in BOOLEAN /\ ocRuns \in Nat
  /\ ocStage \in {"capabilities", "profiles", "action", "end"}
  /\ ocWire \in {"idle", "sent", "answered", "refused"}
  /\ ocTries \in Seq(AuthMethods)
  /\ ocWire # "idle" => ocTries # <<>> /\ ocStage # "end"

\* The camera acts only in the last of the calls, and for the server only in
\* the attempt that ends it.
RunsTrue ==
  /\ ocStage \in {"capabilities", "profiles"} => ocRuns = 0
  /\ ocStage = "action" /\ ocReq.action \in OnvifCommands /\ ocWire = "answered" => ocRuns >= 1
  /\ ocBy = "server" /\ ocStage = "action" /\ ocWire # "answered" => ocRuns = 0

OneWay == ocCam.accepts # {} /\ (ocCam.username \/ "plain" \in ocCam.accepts)

\* With nothing lost, no way the camera accepts has been given up, the digest
\* way comes last, and its challenge was heard when it is its turn.
Undisturbed == ocBy = "server" /\ ~ocFaulty /\ ocStage # "end"
TriesTrue ==
  Undisturbed =>
    /\ ocReply = "none"
    /\ Len(ocTries) <= Len(Tries) /\ (Len(ocTries) = Len(Tries) => ocTries = Tries)
    /\ \A i \in 1..Len(Tries) : Tries[i] \in ocCam.accepts =>
         \E j \in 1..Len(ocTries) : ocTries[j] = Tries[i]
    /\ \A j \in 1..Len(ocTries) : ocTries[j] = "digest" => j = Len(ocTries)
    /\ (Len(ocTries) < Len(Tries) \/ ocWire = "refused") /\ "digest" \in ocCam.accepts =>
         "challenge" \in ocHeard
    /\ ocWire = "refused" => Head(ocTries) \notin ocCam.accepts

ServicesFound == Undisturbed /\ OneWay /\ ocStage # "capabilities" => ocServices = ocCam.services

ClientInv ==
  OcTypes /\ RunsTrue /\ TriesTrue /\ ServicesFound /\ CommandRunsOnce /\ ReplyIsTrue
    /\ OneWayIsEnough

\* What there is to try: every way when there is a user name, and digest last.
LEMMA WaysToTry ==
  ASSUME OcTypes
  PROVE  /\ Tries \in Seq(AuthMethods) /\ Len(Tries) \in Nat \ {0} /\ Head(Tries) # "digest"
         /\ \A j \in 1..Len(Tries) : Tries[j] = "digest" => j = Len(Tries)
         /\ ocBy = "server" /\ ocCam.username =>
              \A m \in AuthMethods : \E j \in 1..Len(Tries) : Tries[j] = m
         /\ ocBy = "server" /\ ~ocCam.username => Len(Tries) = 1 /\ Tries[1] = "plain"
<1>1. CASE ~ocCam.username
  <2>1. Tries = <<"plain">>
    BY <1>1 DEF Tries, buildAuthEnvelopes, KioskEnvelopes
  <2> QED
    BY <1>1, <2>1 DEF AuthMethods
<1>2. CASE ocBy = "server" /\ ocCam.username
  <2>1. Tries = <<"wsse-digest", "wsse-text", "basic", "plain", "digest">>
    BY <1>2 DEF Tries, buildAuthEnvelopes
  <2>2. Len(Tries) = 5 /\ Tries \in Seq(AuthMethods) /\ Head(Tries) = "wsse-digest"
    BY <2>1 DEF AuthMethods
  <2>3. Tries[1] = "wsse-digest" /\ Tries[2] = "wsse-text" /\ Tries[3] = "basic"
        /\ Tries[4] = "plain" /\ Tries[5] = "digest"
    BY <2>1
  <2>4. \A j \in 1..Len(Tries) : Tries[j] = "digest" => j = Len(Tries)
    BY <2>2, <2>3
  <2>5. \A m \in AuthMethods : \E j \in 1..Len(Tries) : Tries[j] = m
    BY <2>2, <2>3 DEF AuthMethods
  <2> QED
    BY <1>2, <2>2, <2>4, <2>5
<1>3. CASE ocBy # "server" /\ ocCam.username
  <2>1. Tries = <<"wsse-digest", "basic", "digest">>
    BY <1>3 DEF Tries, KioskEnvelopes
  <2>2. Len(Tries) = 3 /\ Tries \in Seq(AuthMethods) /\ Head(Tries) = "wsse-digest"
    BY <2>1 DEF AuthMethods
  <2>3. Tries[1] = "wsse-digest" /\ Tries[2] = "basic" /\ Tries[3] = "digest"
    BY <2>1
  <2> QED
    BY <1>3, <2>2, <2>3
<1> QED
  BY <1>1, <1>2, <1>3 DEF OcTypes

\* Some way is accepted, among those there are to try.
LEMMA SomeWayAccepted ==
  ASSUME OcTypes, ocBy = "server", OneWay
  PROVE  \E i \in 1..Len(Tries) : Tries[i] \in ocCam.accepts
<1>1. CASE ocCam.username
  <2>1. PICK m \in AuthMethods : m \in ocCam.accepts
    BY DEF OcTypes, OneWay
  <2>2. PICK j \in 1..Len(Tries) : Tries[j] = m
    BY <1>1, WaysToTry
  <2> QED
    BY <2>1, <2>2
<1>2. CASE ~ocCam.username
  <2>1. Len(Tries) = 1 /\ Tries[1] = "plain" /\ "plain" \in ocCam.accepts
    BY <1>2, WaysToTry DEF OneWay
  <2> QED
    BY <2>1
<1> QED
  BY <1>1, <1>2

\* A call begins with every way to authenticate still to be tried.
LEMMA FreshTries ==
  ASSUME OcTypes
  PROVE  /\ \A i \in 1..Len(Tries) : Tries[i] \in ocCam.accepts
           => \E j \in 1..Len(Tries) : Tries[j] = Tries[i]
         /\ Tries # <<>>
BY WaysToTry

\* What holds before the first call.
LEMMA ClientInitially == OnvifInit => ClientInv
<1> SUFFICES ASSUME OnvifInit PROVE ClientInv
  OBVIOUS
<1>1. /\ ocCam.accepts \subseteq AuthMethods /\ ocCam.username \in BOOLEAN
      /\ ocBy \in {"server", "kiosk"}
  BY DEF OnvifInit, AuthMethods
<1>2. ocStage = "capabilities" /\ ocTries = Tries /\ ocWire = "idle" /\ ocReply = "none"
        /\ ocRuns = 0
      /\ ocFaulty = FALSE
  BY DEF OnvifInit
<1>3. Tries \in Seq(AuthMethods)
  <2>1. \/ Tries = <<"plain">> \/ Tries = <<"wsse-digest", "basic", "digest">>
        \/ Tries = <<"wsse-digest", "wsse-text", "basic", "plain", "digest">>
    BY DEF Tries, buildAuthEnvelopes, KioskEnvelopes
  <2>2. /\ <<"plain">> \in Seq(AuthMethods)
        /\ <<"wsse-digest", "basic", "digest">> \in Seq(AuthMethods)
    BY DEF AuthMethods
  <2>3. <<"wsse-digest", "wsse-text", "basic", "plain", "digest">> \in Seq(AuthMethods)
    BY DEF AuthMethods
  <2> QED
    BY <2>1, <2>2, <2>3
<1>4. OcTypes
  BY <1>1, <1>2, <1>3 DEF OcTypes
<1>5. TriesTrue
  BY <1>2, <1>4, WaysToTry DEF TriesTrue
<1> QED
  BY <1>2, <1>4, <1>5 DEF ClientInv, RunsTrue, ServicesFound, CommandRunsOnce, ReplyIsTrue,
     OneWayIsEnough, Codes400

\* The next call starts with every way to try.
LEMMA CallKept ==
  ASSUME ClientInv, ocStage \in {"capabilities", "profiles"}, NEW next \in {"profiles", "action"},
         Call(next), UNCHANGED <<ocCam, ocReq, ocBy, ocRuns>>,
         ocFaulty' \in BOOLEAN, ocFaulty => ocFaulty',
         ocBy = "server" /\ ~ocFaulty' /\ OneWay => ocServices' = ocCam.services
  PROVE  ClientInv'
<1>1. ocStage' = next /\ ocTries' = Tries /\ ocWire' = "idle" /\ ocReply' = ocReply /\ ocRuns = 0
  BY DEF Call, ClientInv, RunsTrue
<1>2. OcTypes /\ Tries' = Tries
  BY DEF ClientInv, Tries
<1>3. OcTypes'
  BY <1>1, <1>2, WaysToTry DEF OcTypes
<1>4. RunsTrue' /\ CommandRunsOnce'
  BY <1>1 DEF RunsTrue, CommandRunsOnce
<1>5. TriesTrue'
  <2>1. Undisturbed' => ocReply = "none"
    BY DEF ClientInv, TriesTrue, Undisturbed
  <2>2. Len(Tries) \in Nat
    BY <1>2, WaysToTry
  <2> QED
    BY <1>1, <1>2, <2>1, <2>2, WaysToTry DEF TriesTrue
<1>6. ServicesFound'
  BY <1>1 DEF ServicesFound, Undisturbed, OneWay
<1>7. ReplyIsTrue' /\ OneWayIsEnough'
  BY <1>1 DEF ClientInv, ReplyIsTrue, OneWayIsEnough
<1> QED
  BY <1>3, <1>4, <1>5, <1>6, <1>7 DEF ClientInv

\* An answer ends the request.
LEMMA EndKept ==
  ASSUME ClientInv, ocStage # "end", NEW code, code # "none", EndWith(code),
         UNCHANGED <<ocCam, ocReq, ocBy, ocRuns>>, ocFaulty' \in BOOLEAN, ocFaulty => ocFaulty',
         code \in Codes400 => ocStage \in {"capabilities", "profiles"},
         code = "ok" /\ ocReq.action \in OnvifCommands => ocRuns >= 1,
         ocBy = "server" /\ ~ocFaulty' /\ OneWay =>
           \/ code = "ok"
           \/ code \in Codes400 /\ code = requestError(ocCam.services, ocCam.profiles)
  PROVE  ClientInv'
<1>1. /\ ocStage' = "end" /\ ocTries' = <<>> /\ ocWire' = "idle"
      /\ ocReply' = IF ocReply = "none" THEN code ELSE ocReply
  BY DEF EndWith, AnswerRequest
<1>2. OcTypes'
  BY <1>1 DEF ClientInv, OcTypes
<1>3. RunsTrue' /\ CommandRunsOnce'
  BY <1>1 DEF ClientInv, RunsTrue, CommandRunsOnce
<1>4. TriesTrue' /\ ServicesFound'
  BY <1>1 DEF TriesTrue, ServicesFound, Undisturbed
<1>5. ReplyIsTrue'
  BY <1>1 DEF ClientInv, ReplyIsTrue, RunsTrue
<1>6. OneWayIsEnough'
  <2>1. ocBy = "server" /\ ~ocFaulty' => ocReply = "none"
    BY DEF ClientInv, TriesTrue, Undisturbed
  <2>2. requestError(ocCam.services, ocCam.profiles)' = requestError(ocCam.services, ocCam.profiles)
    BY DEF requestError, FromBundle, needsProfiles, requireProfileToken
  <2> QED
    BY <1>1, <2>1, <2>2 DEF OneWayIsEnough, OneWay
<1> QED
  BY <1>2, <1>3, <1>4, <1>5, <1>6 DEF ClientInv

\* A request is answered with 400 for what only its sender can correct.
LEMMA ErrorCodes ==
  ASSUME NEW services, NEW profiles
  PROVE  requestError(services, profiles) \in Codes400 \cup {"none"}
BY DEF requestError, Codes400

\* Only the actions that need a profile look at how many there are.
LEMMA ProfilesUnused ==
  ASSUME ~needsProfiles(ocReq.action), NEW services, NEW n, NEW m
  PROVE  requestError(services, n) = requestError(services, m)
BY DEF requestError

\* The last call begins, or the request is answered without it.
LEMMA PerformKept ==
  ASSUME ClientInv, ocStage \in {"capabilities", "profiles"}, NEW services, NEW profiles,
         performAction(services, profiles), UNCHANGED <<ocCam, ocReq, ocBy, ocRuns>>,
         ocFaulty' \in BOOLEAN, ocFaulty => ocFaulty',
         ocBy = "server" /\ ~ocFaulty' /\ OneWay =>
           /\ services = ocCam.services /\ ocServices' = ocCam.services
           /\ requestError(services, profiles) = requestError(ocCam.services, ocCam.profiles)
  PROVE  ClientInv'
<1>1. CASE ocReq.action = "media.get_profiles" /\ EndWith("ok")
  <2>1. ocReq.action \notin OnvifCommands
    BY <1>1 DEF OnvifCommands, PtzCommands, RelayCommands
  <2>2. "ok" \notin Codes400 /\ "ok" # "none"
    BY DEF Codes400
  <2> QED
    BY <1>1, <2>1, <2>2, EndKept
<1>2. CASE requestError(services, profiles) # "none" /\ EndWith(requestError(services, profiles))
  <2>1. PICK code : code = requestError(services, profiles)
    OBVIOUS
  <2>2. code \in Codes400 /\ code # "ok" /\ code # "none"
    BY <1>2, <2>1, ErrorCodes DEF Codes400
  <2> QED
    BY <1>2, <2>1, <2>2, EndKept
<1>3. CASE Call("action")
  BY <1>3, CallKept
<1> QED
  BY <1>1, <1>2, <1>3 DEF performAction

\* The end of a SOAP call: with nothing lost it ends well.
LEMMA SoapEndsKept ==
  ASSUME ClientInv, ocStage # "end",
         \/ SoapEnds("ok") /\ ocWire = "answered"
         \/ \E c \in {"timeout", "camera_unreachable", "soap_fault", "auth_failed"} :
              SoapEnds(c) /\ ~(ocBy = "server" /\ ~ocFaulty' /\ OneWay),
         UNCHANGED <<ocCam, ocReq, ocBy, ocRuns>>, ocFaulty' \in BOOLEAN, ocFaulty => ocFaulty'
  PROVE  ClientInv'
<1>1. PICK code \in {"ok", "timeout", "camera_unreachable", "soap_fault", "auth_failed"} :
        /\ SoapEnds(code)
        /\ code = "ok" => ocWire = "answered"
        /\ ocBy = "server" /\ ~ocFaulty' /\ OneWay => code = "ok"
  OBVIOUS
<1>2. code \notin Codes400 /\ code # "none"
  BY DEF Codes400
<1>3. CASE ocStage = "capabilities" /\ discoverServices(code)
  <2>1. PICK services : services = IF code = "ok" THEN ocCam.services
                                   ELSE IF ocBy = "server" THEN {} ELSE WellKnown
    OBVIOUS
  <2>2. ocServices' = services
    BY <1>3, <2>1 DEF discoverServices
  <2>3. ocBy = "server" /\ ~ocFaulty' /\ OneWay => services = ocCam.services
    BY <1>1, <2>1
  <2>4. CASE Call("profiles")
    BY <1>3, <2>2, <2>3, <2>4, CallKept
  <2>5. CASE ~(needsProfiles(ocReq.action) /\ ~FromBundle)
             /\ performAction(services, IF FromBundle THEN ocCam.profiles ELSE 0)
    <3>1. PICK profiles : profiles = IF FromBundle THEN ocCam.profiles ELSE 0
      OBVIOUS
    <3>2. performAction(services, profiles)
      BY <2>5, <3>1
    <3>3. ocBy = "server" => ~FromBundle
      BY DEF FromBundle
    <3>4. ocBy = "server" => requestError(services, profiles) = requestError(services,
            ocCam.profiles)
      BY <2>5, <3>3, ProfilesUnused
    <3> QED
      BY <1>3, <2>2, <2>3, <3>2, <3>4, PerformKept
  <2> QED
    BY <1>3, <2>1, <2>4, <2>5 DEF discoverServices
<1>4. CASE ocStage = "profiles" /\ getProfileSummaries(code)
  <2>1. UNCHANGED ocServices
    BY <1>4 DEF getProfileSummaries
  <2>2. CASE code = "ok" /\ performAction(ocServices, ocCam.profiles)
    <3>1. ocBy = "server" /\ ~ocFaulty' /\ OneWay => ocServices = ocCam.services
      BY <1>4 DEF ClientInv, ServicesFound, Undisturbed
    <3>2. PICK services : services = ocServices
      OBVIOUS
    <3>3. PICK profiles : profiles = ocCam.profiles
      OBVIOUS
    <3> QED
      BY <1>4, <2>1, <2>2, <3>1, <3>2, <3>3, PerformKept
  <2>3. CASE code # "ok" /\ EndWith(IF ocBy = "server" THEN "camera_unreachable" ELSE code)
    <3>1. PICK c : c = IF ocBy = "server" THEN "camera_unreachable" ELSE code
      OBVIOUS
    <3>2. c \notin Codes400 /\ c # "none" /\ c # "ok"
      BY <1>2, <2>3, <3>1 DEF Codes400
    <3> QED
      BY <1>1, <2>3, <3>1, <3>2, EndKept
  <2> QED
    BY <1>4, <2>2, <2>3 DEF getProfileSummaries
<1>5. CASE ocStage = "action" /\ EndWith(code)
  <2>1. code = "ok" /\ ocReq.action \in OnvifCommands => ocRuns >= 1
    BY <1>1, <1>5 DEF ClientInv, RunsTrue
  <2> QED
    BY <1>1, <1>2, <1>5, <2>1, EndKept
<1> QED
  BY <1>1, <1>3, <1>4, <1>5 DEF SoapEnds, execActionSoap

\* An attempt is sent.
LEMMA SendKept == ASSUME ClientInv, SendAttempt PROVE ClientInv'
<1>1. /\ ocStage # "end" /\ ocWire = "idle" /\ ocTries # <<>> /\ ocWire' = "sent"
      /\ UNCHANGED <<ocCam, ocReq, ocBy, ocStage, ocTries, ocHeard, ocServices, ocReply, ocRuns,
                     ocFaulty>>
  BY DEF SendAttempt
<1>2. OcTypes' /\ RunsTrue' /\ CommandRunsOnce'
  BY <1>1 DEF ClientInv, OcTypes, RunsTrue, CommandRunsOnce
<1>3. Tries' = Tries
  BY <1>1 DEF Tries
<1>4. TriesTrue'
  BY <1>1, <1>3 DEF ClientInv, TriesTrue, Undisturbed
<1>5. ServicesFound' /\ ReplyIsTrue' /\ OneWayIsEnough'
  BY <1>1 DEF ClientInv, ServicesFound, Undisturbed, OneWay, ReplyIsTrue, OneWayIsEnough
<1> QED
  BY <1>2, <1>4, <1>5 DEF ClientInv

\* When every way was tried, something was lost or no way is accepted.
LEMMA AllFailedKept == ASSUME ClientInv, AllFailed PROVE ClientInv'
<1>1. /\ ocStage # "end" /\ SoapEnds(classifySoapError(ocHeard))
      /\ ocTries # <<>> => (Head(ocTries) = "digest" /\ "challenge" \notin ocHeard)
      /\ UNCHANGED <<ocCam, ocReq, ocBy, ocRuns, ocFaulty>>
  BY DEF AllFailed
<1>2. PICK c : c = classifySoapError(ocHeard)
  OBVIOUS
<1>3. c \in {"timeout", "camera_unreachable", "soap_fault", "auth_failed"}
  BY <1>2 DEF classifySoapError
<1>4. ASSUME ocBy = "server", ~ocFaulty, OneWay PROVE FALSE
  <2>1. OcTypes /\ TriesTrue /\ Undisturbed
    BY <1>1, <1>4 DEF ClientInv, Undisturbed
  <2>2. PICK i \in 1..Len(Tries) : Tries[i] \in ocCam.accepts
    BY <1>4, <2>1, SomeWayAccepted
  <2>3. PICK j \in 1..Len(ocTries) : ocTries[j] = Tries[i]
    BY <2>1, <2>2 DEF TriesTrue
  <2>4. ocTries \in Seq(AuthMethods) /\ Len(ocTries) \in Nat /\ Len(Tries) \in Nat
    BY <2>1, WaysToTry DEF OcTypes
  <2>5. ocTries # <<>> /\ Len(ocTries) >= 1 /\ Head(ocTries) = ocTries[1]
    BY <2>3, <2>4
  <2>6. ocTries[1] = "digest" /\ "challenge" \notin ocHeard
    BY <1>1, <2>5
  <2>7. Len(ocTries) = 1
    <3>1. 1 \in 1..Len(ocTries)
      BY <2>4, <2>5
    <3>2. \A k \in 1..Len(ocTries) : ocTries[k] = "digest" => k = Len(ocTries)
      BY <2>1 DEF TriesTrue
    <3> QED
      BY <2>6, <3>1, <3>2
  <2>8. "digest" \in ocCam.accepts
    BY <2>2, <2>3, <2>6, <2>7
  <2>9. Len(ocTries) = Len(Tries) /\ ocTries = Tries
    BY <2>1, <2>4, <2>6, <2>8 DEF TriesTrue
  <2> QED
    BY <2>1, <2>5, <2>6, <2>9, WaysToTry
<1>5. ocFaulty' \in BOOLEAN /\ (ocFaulty => ocFaulty')
  BY <1>1 DEF ClientInv, OcTypes
<1>6. SoapEnds(c) /\ ~(ocBy = "server" /\ ~ocFaulty' /\ OneWay)
  BY <1>1, <1>2, <1>4
<1> QED
  BY <1>1, <1>3, <1>5, <1>6, SoapEndsKept

\* The camera does what it is asked.
LEMMA ServesKept == ASSUME ClientInv, CameraServes PROVE ClientInv'
<1>1. /\ ocWire = "sent" /\ ocWire' = "answered"
      /\ ocRuns' = IF ocStage = "action" /\ ocReq.action \in OnvifCommands THEN ocRuns + 1
           ELSE ocRuns
      /\ UNCHANGED <<ocCam, ocReq, ocBy, ocStage, ocTries, ocHeard, ocServices, ocReply, ocFaulty>>
  BY DEF CameraServes
<1>2. ocRuns \in Nat /\ ocRuns' \in Nat /\ ocRuns <= ocRuns' /\ ocStage # "end" /\ Tries' = Tries
  BY <1>1 DEF ClientInv, OcTypes, Tries
<1>3. OcTypes'
  BY <1>1, <1>2 DEF ClientInv, OcTypes
<1>4. RunsTrue' /\ CommandRunsOnce'
  BY <1>1, <1>2 DEF ClientInv, OcTypes, RunsTrue, CommandRunsOnce
<1>5. TriesTrue'
  BY <1>1, <1>2 DEF ClientInv, TriesTrue, Undisturbed
<1>6. ServicesFound' /\ ReplyIsTrue' /\ OneWayIsEnough'
  <2>1. ServicesFound' /\ OneWayIsEnough'
    BY <1>1, <1>2 DEF ClientInv, ServicesFound, Undisturbed, OneWay, OneWayIsEnough
  <2>2. ReplyIsTrue'
    BY <1>1, <1>2 DEF ClientInv, ReplyIsTrue
  <2> QED
    BY <2>1, <2>2
<1> QED
  BY <1>3, <1>4, <1>5, <1>6 DEF ClientInv

\* The camera refuses, perhaps with a challenge.
LEMMA RefusesKept ==
  ASSUME ClientInv, NEW word \in {"fault", "unauthorized"}, CameraRefuses(word) PROVE ClientInv'
<1>1. /\ ocWire = "sent" /\ ocWire' = "refused"
      /\ "digest" \in ocCam.accepts => "challenge" \in ocHeard'
      /\ ocFaulty' = (ocFaulty \/ Head(ocTries) \in ocCam.accepts)
      /\ UNCHANGED <<ocCam, ocReq, ocBy, ocStage, ocTries, ocServices, ocReply, ocRuns>>
  BY DEF CameraRefuses
<1>2. ocFaulty' \in BOOLEAN /\ (ocFaulty => ocFaulty') /\ ocStage # "end" /\ Tries' = Tries
  BY <1>1 DEF ClientInv, OcTypes, Tries
<1>3. OcTypes' /\ RunsTrue' /\ CommandRunsOnce'
  BY <1>1, <1>2 DEF ClientInv, OcTypes, RunsTrue, CommandRunsOnce
<1>4. TriesTrue'
  BY <1>1, <1>2 DEF ClientInv, TriesTrue, Undisturbed
<1>5. ServicesFound' /\ ReplyIsTrue' /\ OneWayIsEnough'
  BY <1>1, <1>2 DEF ClientInv, ServicesFound, Undisturbed, OneWay, ReplyIsTrue, OneWayIsEnough
<1> QED
  BY <1>3, <1>4, <1>5 DEF ClientInv

\* The next way's turn.
LEMMA NextWay ==
  ASSUME NEW s \in Seq(AuthMethods), s # <<>>
  PROVE  /\ Tail(s) \in Seq(AuthMethods) /\ Len(s) \in Nat /\ Len(Tail(s)) = Len(s) - 1
         /\ \A j \in 1..Len(Tail(s)) : Tail(s)[j] = s[j + 1]
         /\ s[1] = Head(s)
OBVIOUS

\* A refusal arrives: another way is tried, or the call is given up.
LEMMA RefusalKept == ASSUME ClientInv, RefusalArrives PROVE ClientInv'
<1>1. /\ ocWire = "refused" /\ ocWire' = "idle" /\ ocTries' = Tail(ocTries)
      /\ UNCHANGED <<ocCam, ocReq, ocBy, ocStage, ocHeard, ocServices, ocReply, ocRuns, ocFaulty>>
  BY DEF RefusalArrives
<1>2. ocTries \in Seq(AuthMethods) /\ ocTries # <<>> /\ Tries' = Tries /\ OcTypes
  BY <1>1 DEF ClientInv, OcTypes, Tries
<1>3. /\ ocTries' \in Seq(AuthMethods) /\ Len(ocTries) \in Nat /\ Len(ocTries') = Len(ocTries) - 1
      /\ \A j \in 1..Len(ocTries') : ocTries'[j] = ocTries[j + 1]
      /\ ocTries[1] = Head(ocTries)
  BY <1>1, <1>2, NextWay
<1>4. OcTypes' /\ RunsTrue' /\ CommandRunsOnce'
  BY <1>1, <1>3 DEF ClientInv, OcTypes, RunsTrue, CommandRunsOnce
<1>5. TriesTrue'
  <2> SUFFICES ASSUME Undisturbed'
               PROVE  /\ ocReply' = "none"
                      /\ Len(ocTries') <= Len(Tries')
                           /\ (Len(ocTries') = Len(Tries') => ocTries' = Tries')
                      /\ \A i \in 1..Len(Tries') : Tries'[i] \in ocCam'.accepts =>
                           \E j \in 1..Len(ocTries') : ocTries'[j] = Tries'[i]
                      /\ \A j \in 1..Len(ocTries') : ocTries'[j] = "digest" => j = Len(ocTries')
                      /\ (Len(ocTries') < Len(Tries') \/ ocWire' = "refused")
                           /\ "digest" \in ocCam'.accepts =>
                           "challenge" \in ocHeard'
                      /\ ocWire' = "refused" => Head(ocTries') \notin ocCam'.accepts
    BY DEF TriesTrue
  <2>1. Undisturbed /\ TriesTrue
    BY <1>1 DEF ClientInv, Undisturbed
  <2>2. /\ ocReply = "none" /\ Len(ocTries) <= Len(Tries) /\ Head(ocTries) \notin ocCam.accepts
        /\ "digest" \in ocCam.accepts => "challenge" \in ocHeard
    BY <1>1, <2>1 DEF TriesTrue
  <2>3. Len(Tries) \in Nat
    BY <1>2, WaysToTry
  <2>4. ASSUME NEW i \in 1..Len(Tries), Tries[i] \in ocCam.accepts
        PROVE  \E j \in 1..Len(ocTries') : ocTries'[j] = Tries[i]
    <3>1. PICK j \in 1..Len(ocTries) : ocTries[j] = Tries[i]
      BY <2>1, <2>4 DEF TriesTrue
    <3>2. j # 1
      BY <1>3, <2>2, <2>4, <3>1
    <3>3. j - 1 \in 1..Len(ocTries') /\ (j - 1) + 1 = j
      BY <1>3, <3>2
    <3> QED
      BY <1>3, <3>1, <3>3
  <2>5. ASSUME NEW j \in 1..Len(ocTries'), ocTries'[j] = "digest" PROVE j = Len(ocTries')
    <3>1. ocTries[j + 1] = "digest" /\ j + 1 \in 1..Len(ocTries)
      BY <1>3, <2>5
    <3>2. j + 1 = Len(ocTries)
      BY <2>1, <3>1 DEF TriesTrue
    <3> QED
      BY <1>3, <3>2
  <2> QED
    <3>1. Len(ocTries') <= Len(Tries) /\ Len(ocTries') # Len(Tries)
      BY <1>3, <2>2, <2>3
    <3> QED
      BY <1>1, <1>2, <2>2, <2>4, <2>5, <3>1
<1>6. ServicesFound' /\ ReplyIsTrue' /\ OneWayIsEnough'
  <2>1. ocStage # "end"
    BY <1>1, <1>2 DEF OcTypes
  <2> QED
    BY <1>1, <2>1 DEF ClientInv, ServicesFound, Undisturbed, OneWay, ReplyIsTrue, OneWayIsEnough
<1> QED
  BY <1>4, <1>5, <1>6 DEF ClientInv

\* An answer arrives and the next call begins.
LEMMA AnswerKept == ASSUME ClientInv, AnswerArrives PROVE ClientInv'
<1>1. /\ ocWire = "answered" /\ SoapEnds("ok")
      /\ UNCHANGED <<ocCam, ocReq, ocBy, ocRuns, ocFaulty>>
  BY DEF AnswerArrives
<1>2. ocStage # "end" /\ ocFaulty' \in BOOLEAN /\ (ocFaulty => ocFaulty')
  BY <1>1 DEF ClientInv, OcTypes
<1> QED
  BY <1>1, <1>2, SoapEndsKept

\* An attempt or its answer is lost on the network.
LEMMA LostKept == ASSUME ClientInv, AttemptLost PROVE ClientInv'
<1>1. /\ ocWire # "idle" /\ ocFaulty' = TRUE
      /\ \E c \in {"timeout", "camera_unreachable"} : SoapEnds(c)
      /\ UNCHANGED <<ocCam, ocReq, ocBy, ocRuns>>
  BY DEF AttemptLost
<1>2. ocStage # "end"
  BY <1>1 DEF ClientInv, OcTypes
<1> QED
  BY <1>1, <1>2, SoapEndsKept

\* What the kiosk loses, refuses or is too late for concerns no claim about an
\* undisturbed request.
LEMMA KioskLostKept == ASSUME ClientInv, KioskAttemptLost PROVE ClientInv'
<1>1. /\ ocBy = "kiosk" /\ ocWire # "idle" /\ ocFaulty' = TRUE /\ ocWire' = "idle"
      /\ ocTries' = Tail(ocTries)
      /\ UNCHANGED <<ocCam, ocReq, ocBy, ocStage, ocServices, ocReply, ocRuns>>
  BY DEF KioskAttemptLost
<1>2. ocTries \in Seq(AuthMethods) /\ ocTries # <<>>
  BY <1>1 DEF ClientInv, OcTypes
<1>3. ocTries' \in Seq(AuthMethods)
  BY <1>1, <1>2, NextWay
<1>4. OcTypes' /\ RunsTrue' /\ CommandRunsOnce'
  BY <1>1, <1>3 DEF ClientInv, OcTypes, RunsTrue, CommandRunsOnce
<1>5. TriesTrue' /\ ServicesFound' /\ OneWayIsEnough'
  BY <1>1 DEF TriesTrue, ServicesFound, Undisturbed, OneWayIsEnough
<1>6. ReplyIsTrue'
  BY <1>1 DEF ClientInv, ReplyIsTrue
<1> QED
  BY <1>4, <1>5, <1>6 DEF ClientInv

\* The request of the admin page times out.
LEMMA TimeoutKept == ASSUME ClientInv, RequestTimesOut PROVE ClientInv'
<1>1. /\ ocBy = "kiosk" /\ ocReply' = "executor_unavailable" /\ ocFaulty' = TRUE
      /\ UNCHANGED <<ocCam, ocReq, ocBy, ocStage, ocTries, ocWire, ocHeard, ocServices, ocRuns>>
  BY DEF RequestTimesOut
<1>2. OcTypes' /\ RunsTrue' /\ CommandRunsOnce'
  BY <1>1 DEF ClientInv, OcTypes, RunsTrue, CommandRunsOnce
<1>3. TriesTrue' /\ ServicesFound' /\ OneWayIsEnough' /\ ReplyIsTrue'
  BY <1>1 DEF TriesTrue, ServicesFound, Undisturbed, OneWayIsEnough, ReplyIsTrue, Codes400
<1> QED
  BY <1>2, <1>3 DEF ClientInv

\* The kiosk refuses the request by itself.
LEMMA KioskRefusesKept == ASSUME ClientInv, KioskRefuses PROVE ClientInv'
<1>1. /\ ocBy = "kiosk" /\ ocStage # "end" /\ EndWith("executor_unavailable") /\ ocFaulty' = TRUE
      /\ UNCHANGED <<ocCam, ocReq, ocBy, ocServices, ocRuns>>
  BY DEF KioskRefuses
<1>2. "executor_unavailable" \notin Codes400
  BY DEF Codes400
<1> QED
  BY <1>1, <1>2, EndKept

\* Every step keeps the invariant.
LEMMA ClientStepKept == ASSUME ClientInv, [OnvifNext]_ocVars PROVE ClientInv'
<1>1. CASE UNCHANGED ocVars
  <2>1. UNCHANGED <<ocCam, ocReq, ocBy, ocStage, ocTries, ocWire, ocHeard, ocServices, ocReply,
          ocRuns,
                    ocFaulty>> /\ Tries' = Tries
    BY <1>1 DEF ocVars, Tries
  <2>2. OcTypes' /\ RunsTrue' /\ CommandRunsOnce'
    BY <2>1 DEF ClientInv, OcTypes, RunsTrue, CommandRunsOnce
  <2>3. TriesTrue'
    BY <2>1 DEF ClientInv, TriesTrue, Undisturbed
  <2>4. requestError(ocCam.services, ocCam.profiles)' = requestError(ocCam.services, ocCam.profiles)
    BY <2>1 DEF requestError, FromBundle, needsProfiles, requireProfileToken
  <2>5. ServicesFound' /\ ReplyIsTrue' /\ OneWayIsEnough'
    BY <2>1, <2>4 DEF ClientInv, ServicesFound, Undisturbed, OneWay, ReplyIsTrue, OneWayIsEnough
  <2> QED
    BY <2>2, <2>3, <2>5 DEF ClientInv
<1>2. CASE OnvifNext
  BY <1>2, SendKept, AllFailedKept, ServesKept, RefusesKept, RefusalKept, AnswerKept, LostKept,
     KioskLostKept, TimeoutKept, KioskRefusesKept DEF OnvifNext
<1> QED
  BY <1>1, <1>2

\* For any camera and any request: a command through the server runs at most
\* once, an answer says what the camera did, and one way to authenticate that the
\* camera accepts is enough when nothing is lost.
THEOREM ClientStaysSafe == OnvifSpec => []OnvifSafe
<1>1. OnvifSpec => []ClientInv
  BY ClientInitially, ClientStepKept, PTL DEF OnvifSpec
<1>2. ClientInv => OnvifSafe
  BY DEF ClientInv, OnvifSafe
<1> QED
  BY <1>1, <1>2, PTL

-----------------------------------------------------------------------------
(* EventIngest: the events of kiosks, ioBOXes and cameras *)

\* What requests, rows and the histories are made of.
EvTopics == IoTopics \cup {"none", "layout.changed", "motion"}
EvKeys ==
  [src: {"none", "kiosk", "io", "push"}, topic: EvTopics, cam: EvCameras \cup {"none"}, n: Nat]
Stamps == [key: EvKeys, at: Nat]
EvRequests ==
  [pc: {"none", "sent", "insert", "act", "forward", "next"},
   kind: {"none", "kiosk", "io", "push"}, topic: EvTopics, cam: EvCameras \cup {"none"},
   disp: EvDisplays \cup {"none"}, lay: EvLayouts \cup {"none"}, seq: Nat, key: EvKeys,
   row: Nat, at: Nat, left: SUBSET {1, 2}]
EvRows == [id: Nat, key: EvKeys, at: Nat, cam: EvCameras \cup {"none"}, fwd: BOOLEAN]

IngestTypes ==
  /\ egNow \in Nat /\ egIds \in Nat /\ egSeq \in Nat /\ egSince \in 0..egIds
  /\ egReq \in [Slots -> EvRequests]
  /\ \A k \in DOMAIN egCache : egCache[k] \in 0..egNow
  /\ egLog \subseteq EvRows
  /\ \A e \in egLog : e.id \in 1..egIds /\ e.at <= egNow
  /\ egLogged \subseteq Stamps /\ egFailed \subseteq Stamps /\ egAcked \subseteq Stamps
  /\ egCams \subseteq EvCameras

\* A key names the kind of its request, only an envelope has a next message,
\* and what is acted on is in the log.
SlotsTrue ==
  \A s \in Slots :
    /\ egReq[s].key.src = egReq[s].kind
    /\ egReq[s].at <= egNow
    /\ egReq[s].pc = "next" => egReq[s].kind = "push"
    /\ egReq[s].pc \in {"act", "forward"} => Fresh(egReq[s]) \in egLogged

\* A claim to a key: a row since the last restart, or a request whose insert is
\* outstanding.  Pushed events claim nothing: they are not deduplicated.
KeyWindow(k) == IF k.src = "io" THEN IoWindow ELSE KioskWindow
Apart(a, b, w) == a + w <= b \/ b + w <= a
Pending(s) == egReq[s].pc = "insert" /\ egReq[s].kind # "push"
LiveRow(e) == e \in egLog /\ e.id > egSince /\ e.key.src # "push"

\* Two claims to one key are a window apart.
Spaced ==
  /\ \A e, f \in egLog :
       LiveRow(e) /\ LiveRow(f) /\ e.id # f.id /\ e.key = f.key => Apart(e.at, f.at,
               KeyWindow(e.key))
  /\ \A e \in egLog, s \in Slots :
       LiveRow(e) /\ Pending(s) /\ e.key = egReq[s].key => Apart(e.at, egReq[s].at,
               KeyWindow(e.key))
  /\ \A s, t \in Slots :
       s # t /\ Pending(s) /\ Pending(t) /\ egReq[s].key = egReq[t].key
         => Apart(egReq[s].at, egReq[t].at, KeyWindow(egReq[s].key))

\* The cache knows of every claim whose window is not over: it holds a time
\* that is not before it.
Remembered(k, a) == (k \in DOMAIN egCache /\ a <= egCache[k]) \/ a + KeyWindow(k) <= egNow

Covered ==
  /\ \A e \in egLog : LiveRow(e) => Remembered(e.key, e.at)
  /\ \A s \in Slots : Pending(s) => Remembered(egReq[s].key, egReq[s].at)

\* What the cache holds was taken in, and what is marked was accepted.
CacheTrue == \A k \in DOMAIN egCache : [key |-> k, at |-> egCache[k]] \in Recorded

ForwardsTrue == egMark \subseteq egGot /\ MarkedMeansDelivered

\* The inductive invariant.
IngestInv ==
  /\ IngestTypes /\ SlotsTrue /\ Spaced /\ Covered /\ CacheTrue /\ AcknowledgedIsLogged
  /\ ForwardsTrue /\ ControlIsLogged

\* A request s that becomes q and claims no key.
QuietStep(s, q) ==
  /\ egReq' = [egReq EXCEPT ![s] = q]
  /\ q.key.src = q.kind /\ q.at <= egNow
  /\ q.pc = "next" => q.kind = "push"
  /\ q.pc = "insert" => q.kind = "push"
  /\ q.pc \in {"act", "forward"} => Fresh(q) \in egLogged
  /\ egReq[s].pc = "insert" => Fresh(egReq[s]) \in egFailed'
  /\ egFailed \subseteq egFailed' /\ egFailed' \subseteq Stamps
  /\ egAcked' \subseteq Stamps
  /\ \A a \in egAcked' \ egAcked :
       \E e \in Recorded : e.key = a.key /\ e.at <= a.at /\ a.at - e.at <= KeyWindow(a.key)
  /\ egPut' \subseteq egPut \cup egLogged
  /\ egSeq' \in Nat
  /\ UNCHANGED <<egNow, egCams, egCache, egLog, egIds, egMark, egGot, egLogged, egSince>>

\* The windows are numbers.
LEMMA IngestBounds == /\ KioskWindow \in Nat /\ IoWindow \in Nat
                      /\ \A k : KeyWindow(k) \in Nat
BY IngestAssumption DEF KeyWindow

\* The table of requests after one has changed.
LEMMA SlotSet ==
  ASSUME IngestTypes, NEW s \in Slots, NEW q \in EvRequests, egReq' = [egReq EXCEPT ![s] = q]
  PROVE  /\ egReq' \in [Slots -> EvRequests] /\ egReq'[s] = q
         /\ \A t \in Slots : t # s => egReq'[t] = egReq[t]
BY DEF IngestTypes

\* What was taken in stays known: an outstanding insert ends in a row or fails.
LEMMA RecordedKept ==
  ASSUME egLogged \subseteq egLogged', egFailed \subseteq egFailed',
         \A s \in Slots : egReq[s].pc = "insert" =>
           \/ egReq'[s].pc = "insert" /\ egReq'[s].key = egReq[s].key /\ egReq'[s].at = egReq[s].at
           \/ Fresh(egReq[s]) \in egLogged' \cup egFailed'
  PROVE  Recorded \subseteq Recorded'
<1> SUFFICES ASSUME NEW e \in Recorded PROVE e \in Recorded'
  OBVIOUS
<1>1. CASE e \in egLogged \cup egFailed
  BY <1>1 DEF Recorded
<1>2. CASE e \notin egLogged \cup egFailed
  <2>1. PICK s \in Slots : egReq[s].pc = "insert" /\ e = Fresh(egReq[s])
    BY <1>2 DEF Recorded
  <2>2. CASE Fresh(egReq[s]) \in egLogged' \cup egFailed'
    BY <2>1, <2>2 DEF Recorded
  <2>3. CASE egReq'[s].pc = "insert" /\ egReq'[s].key = egReq[s].key /\ egReq'[s].at = egReq[s].at
    <3>1. e = [key |-> egReq'[s].key, at |-> egReq'[s].at]
      BY <2>1, <2>3 DEF Fresh
    <3>2. QED BY <2>3, <3>1 DEF Recorded, Fresh
  <2>4. QED BY <2>1, <2>2, <2>3
<1>3. QED BY <1>1, <1>2

\* An answer that had its evidence keeps it, and a new one brings its own.
LEMMA AnswersKept ==
  ASSUME AcknowledgedIsLogged, Recorded \subseteq Recorded',
         \A a \in egAcked' \ egAcked :
           \E e \in Recorded' : e.key = a.key /\ e.at <= a.at /\ a.at - e.at <= KeyWindow(a.key)
  PROVE  AcknowledgedIsLogged'
<1> SUFFICES ASSUME NEW a \in egAcked'
             PROVE  \E e \in Recorded' : e.key = a.key /\ e.at <= a.at
                      /\ a.at - e.at <= (IF a.key.src = "io" THEN IoWindow ELSE KioskWindow)
  BY Zenon DEF AcknowledgedIsLogged
<1>1. CASE a \in egAcked
  <2>1. PICK e \in Recorded : e.key = a.key /\ e.at <= a.at
                      /\ a.at - e.at <= (IF a.key.src = "io" THEN IoWindow ELSE KioskWindow)
    BY <1>1, Zenon DEF AcknowledgedIsLogged
  <2>2. e \in Recorded'
    OBVIOUS
  <2>3. QED BY <2>1, <2>2
<1>2. CASE a \notin egAcked
  BY <1>2 DEF KeyWindow
<1>3. QED BY <1>1, <1>2

\* Rows that are left, pending slots that are left, and a clock that does not run
\* back: what is apart stays apart.
LEMMA SpacedKept ==
  ASSUME Spaced, egSince' = egSince,
         \A f \in egLog' : \E e \in egLog : e.id = f.id /\ e.key = f.key /\ e.at = f.at,
         \A s \in Slots : Pending(s)' =>
           Pending(s) /\ egReq'[s].key = egReq[s].key /\ egReq'[s].at = egReq[s].at
  PROVE  Spaced'
<1>1. ASSUME NEW e \in egLog', NEW f \in egLog', LiveRow(e)', LiveRow(f)', e.id # f.id,
        e.key = f.key
      PROVE  Apart(e.at, f.at, KeyWindow(e.key))
  <2>1. PICK d \in egLog : d.id = e.id /\ d.key = e.key /\ d.at = e.at
    OBVIOUS
  <2>2. PICK g \in egLog : g.id = f.id /\ g.key = f.key /\ g.at = f.at
    OBVIOUS
  <2>3. LiveRow(d) /\ LiveRow(g)
    BY <1>1, <2>1, <2>2 DEF LiveRow
  <2>4. QED BY <1>1, <2>1, <2>2, <2>3 DEF Spaced
<1>2. ASSUME NEW e \in egLog', NEW s \in Slots, LiveRow(e)', Pending(s)', e.key = egReq'[s].key
      PROVE  Apart(e.at, egReq'[s].at, KeyWindow(e.key))
  <2>1. PICK d \in egLog : d.id = e.id /\ d.key = e.key /\ d.at = e.at
    OBVIOUS
  <2>2. LiveRow(d)
    BY <1>2, <2>1 DEF LiveRow
  <2>3. QED BY <1>2, <2>1, <2>2 DEF Spaced
<1>3. ASSUME NEW s \in Slots, NEW t \in Slots, s # t, Pending(s)', Pending(t)',
        egReq'[s].key = egReq'[t].key
      PROVE  Apart(egReq'[s].at, egReq'[t].at, KeyWindow(egReq'[s].key))
  BY <1>3 DEF Spaced
<1>4. QED BY <1>1, <1>2, <1>3 DEF Spaced, Apart, KeyWindow

\* The same for what the cache knows: it forgets only what is past its window.
LEMMA CoveredKept ==
  ASSUME IngestTypes, Covered, egSince' = egSince, egNow' \in Nat, egNow <= egNow',
         egLog' \subseteq EvRows, egReq' \in [Slots -> EvRequests],
         \A k \in DOMAIN egCache : \/ k \in DOMAIN egCache' /\ egCache'[k] = egCache[k]
                                   \/ egCache[k] + KeyWindow(k) <= egNow,
         \A f \in egLog' : \E e \in egLog : e.id = f.id /\ e.key = f.key /\ e.at = f.at,
         \A s \in Slots : Pending(s)' =>
           Pending(s) /\ egReq'[s].key = egReq[s].key /\ egReq'[s].at = egReq[s].at
  PROVE  Covered'
<1>1. ASSUME NEW k, NEW a \in Nat, Remembered(k, a)
      PROVE  Remembered(k, a)'
  <2>1. /\ KeyWindow(k) \in Nat /\ egNow \in Nat
        /\ k \in DOMAIN egCache => egCache[k] \in Nat
    BY IngestBounds DEF IngestTypes
  <2>2. KeyWindow(k)' = KeyWindow(k)
    BY DEF KeyWindow
  <2>3. QED BY <1>1, <2>1, <2>2 DEF Remembered
<1>2. ASSUME NEW f \in egLog', LiveRow(f)'
      PROVE  Remembered(f.key, f.at)'
  <2>1. PICK e \in egLog : e.id = f.id /\ e.key = f.key /\ e.at = f.at
    OBVIOUS
  <2>2. LiveRow(e) /\ f.at \in Nat
    BY <1>2, <2>1 DEF LiveRow, EvRows
  <2>3. Remembered(f.key, f.at)
    BY <2>1, <2>2 DEF Covered
  <2>4. QED BY <1>1, <2>2, <2>3
<1>3. ASSUME NEW s \in Slots, Pending(s)'
      PROVE  Remembered(egReq[s].key, egReq[s].at)'
  <2>1. egReq[s].at \in Nat /\ egReq'[s].key = egReq[s].key /\ egReq'[s].at = egReq[s].at
    BY <1>3 DEF IngestTypes, EvRequests
  <2>2. Remembered(egReq[s].key, egReq[s].at)
    BY <1>3 DEF Covered
  <2>3. QED BY <1>1, <2>1, <2>2 DEF Remembered, KeyWindow
<1>4. QED BY <1>2, <1>3 DEF Covered

\* A step that claims no key keeps the invariant.
LEMMA QuietKeeps ==
  ASSUME IngestInv, NEW s \in Slots, NEW q \in EvRequests, QuietStep(s, q)
  PROVE  IngestInv'
<1>1. egReq' \in [Slots -> EvRequests] /\ egReq'[s] = q /\ \A t \in Slots : t # s => egReq'[t] = egReq[t]
  BY SlotSet DEF QuietStep, IngestInv
<1>2. IngestTypes'
  <2>1. IngestTypes
    BY DEF IngestInv
  <2>2. QED BY <1>1, <2>1 DEF IngestTypes, QuietStep
<1>3. SlotsTrue'
  <2> SUFFICES ASSUME NEW t \in Slots
               PROVE  /\ egReq'[t].key.src = egReq'[t].kind /\ egReq'[t].at <= egNow'
                      /\ egReq'[t].pc = "next" => egReq'[t].kind = "push"
                      /\ egReq'[t].pc \in {"act", "forward"} => Fresh(egReq'[t]) \in egLogged'
    BY DEF SlotsTrue, Fresh
  <2>1. SlotsTrue
    BY DEF IngestInv
  <2>2. CASE t = s
    BY <1>1, <2>2 DEF QuietStep, Fresh
  <2>3. CASE t # s
    BY <1>1, <2>1, <2>3 DEF QuietStep, SlotsTrue, Fresh
  <2>4. QED BY <2>2, <2>3
<1>4. \A t \in Slots : Pending(t)' => Pending(t) /\ egReq'[t].key = egReq[t].key /\ egReq'[t].at = egReq[t].at
  BY <1>1 DEF Pending, QuietStep
<1>5. Spaced'
  BY <1>4, SpacedKept DEF QuietStep, IngestInv
<1>6. Covered'
  <2>1. /\ egSince' = egSince /\ egNow' = egNow /\ egNow \in Nat
        /\ egLog' = egLog /\ egLog \subseteq EvRows /\ egCache' = egCache
    BY DEF QuietStep, IngestInv, IngestTypes
  <2>2. IngestTypes /\ Covered
    BY DEF IngestInv
  <2>3. egNow <= egNow' /\ egNow' \in Nat
    BY <2>1
  <2>4. QED BY <1>1, <1>4, <2>1, <2>2, <2>3, CoveredKept
<1>7. Recorded \subseteq Recorded'
  <2>1. egLogged \subseteq egLogged' /\ egFailed \subseteq egFailed'
    BY DEF QuietStep
  <2>2. ASSUME NEW t \in Slots, egReq[t].pc = "insert"
        PROVE  \/ egReq'[t].pc = "insert" /\ egReq'[t].key = egReq[t].key /\ egReq'[t].at = egReq[t].at
               \/ Fresh(egReq[t]) \in egLogged' \cup egFailed'
    BY <1>1, <2>2 DEF QuietStep
  <2>3. QED BY <2>1, <2>2, RecordedKept
<1>8. CacheTrue'
  BY <1>7 DEF CacheTrue, QuietStep, IngestInv
<1>9. AcknowledgedIsLogged'
  <2>1. AcknowledgedIsLogged
    BY DEF IngestInv
  <2>2. \A a \in egAcked' \ egAcked :
          \E e \in Recorded' : e.key = a.key /\ e.at <= a.at /\ a.at - e.at <= KeyWindow(a.key)
    BY <1>7 DEF QuietStep
  <2>3. QED BY <1>7, <2>1, <2>2, AnswersKept
<1>10. ForwardsTrue' /\ ControlIsLogged'
  BY DEF QuietStep, IngestInv, ForwardsTrue, MarkedMeansDelivered, ControlIsLogged
<1>11. QED BY <1>2, <1>3, <1>5, <1>6, <1>8, <1>9, <1>10 DEF IngestInv

\* A free slot.
LEMMA NoEventTyped == NoEvent \in EvRequests /\ NoEvent.pc = "none" /\ NoEvent.kind = "none"
                        /\ NoEvent.key.src = "none" /\ NoEvent.at = 0
BY DEF NoEvent, EvRequests, EvKeys, EvTopics

\* A request that is sent.
LEMMA PostQuiet ==
  ASSUME IngestInv, NEW s \in Slots, NEW e \in EvRequests, post_event(s, e), e.at = 0,
         egSeq' \in Nat, UNCHANGED <<egNow, egCams, egServer>>
  PROVE  IngestInv'
<1> DEFINE q == [e EXCEPT !.pc = "sent", !.key = dedupKey(e)]
<1>1. dedupKey(e) \in EvKeys /\ dedupKey(e).src = e.kind
  BY DEF dedupKey, EvKeys, EvRequests, EvTopics
<1>2. q \in EvRequests /\ q.pc = "sent" /\ q.kind = e.kind /\ q.key = dedupKey(e) /\ q.at = 0
  BY <1>1 DEF EvRequests
<1>3. egReq[s].pc = "none" /\ egReq' = [egReq EXCEPT ![s] = q]
  BY DEF post_event
<1>4. egNow \in Nat
  BY DEF IngestInv, IngestTypes
<1>5. egFailed \subseteq Stamps /\ egAcked \subseteq Stamps
  BY DEF IngestInv, IngestTypes
<1> HIDE DEF q
<1>6. QuietStep(s, q)
  BY <1>1, <1>2, <1>3, <1>4, <1>5 DEF QuietStep, egServer
<1>7. QED BY <1>2, <1>6, QuietKeeps

\* A kiosk reports the layout it shows.
LEMMA ReportsKept ==
  ASSUME IngestInv, NEW s \in Slots, NEW d \in EvDisplays, NEW l \in EvLayouts,
          report_layout_change(s, d, l)
  PROVE  IngestInv'
<1> DEFINE e == [NoEvent EXCEPT !.kind = "kiosk", !.topic = "layout.changed", !.disp = d,
        !.lay = l]
<1>1. e \in EvRequests /\ e.at = 0
  BY NoEventTyped DEF EvRequests, EvTopics
<1>2. egSeq' \in Nat
  BY DEF IngestInv, IngestTypes, report_layout_change
<1>3. post_event(s, e) /\ UNCHANGED <<egNow, egCams, egServer>>
  BY DEF report_layout_change
<1> HIDE DEF e
<1>4. QED BY <1>1, <1>2, <1>3, PostQuiet

\* A camera's event, through the kiosk or pushed.
LEMMA CameraEventsKept ==
  ASSUME IngestInv, NEW s \in Slots, NEW c \in EvCameras, forward_event(s, c) \/ Notify(s, c)
  PROVE  IngestInv'
<1>1. CASE forward_event(s, c)
  <2> DEFINE e == [NoEvent EXCEPT !.kind = "kiosk", !.topic = "motion", !.cam = c]
  <2>1. e \in EvRequests /\ e.at = 0
    BY NoEventTyped DEF EvRequests, EvTopics
  <2>2. egSeq' \in Nat
    BY <1>1 DEF IngestInv, IngestTypes, forward_event
  <2>3. post_event(s, e) /\ UNCHANGED <<egNow, egCams, egServer>>
    BY <1>1 DEF forward_event
  <2> HIDE DEF e
  <2>4. QED BY <2>1, <2>2, <2>3, PostQuiet
<1>2. CASE Notify(s, c)
  <2> DEFINE e == [NoEvent EXCEPT !.kind = "push", !.topic = "motion", !.cam = c,
                  !.left = {1, 2}]
  <2>1. e \in EvRequests /\ e.at = 0
    BY NoEventTyped DEF EvRequests, EvTopics
  <2>2. egSeq' \in Nat
    BY <1>2 DEF IngestInv, IngestTypes, Notify
  <2>3. post_event(s, e) /\ UNCHANGED <<egNow, egCams, egServer>>
    BY <1>2 DEF Notify
  <2> HIDE DEF e
  <2>4. QED BY <2>1, <2>2, <2>3, PostQuiet
<1>3. QED BY <1>1, <1>2

\* An event of an ioBOX.
LEMMA BoxEventsKept ==
  ASSUME IngestInv, NEW s \in Slots, NEW t \in IoTopics, NEW d \in EvDisplays \cup {"none"},
          emitIoEvent(s, t, d)
  PROVE  IngestInv'
<1> DEFINE n == egSeq + 1
           e == [NoEvent EXCEPT !.kind = "io", !.topic = t, !.seq = n, !.disp = d]
<1>1. n \in Nat
  BY DEF IngestInv, IngestTypes
<1>2. e \in EvRequests /\ e.at = 0
  <2> HIDE DEF n
  <2>1. QED BY <1>1, NoEventTyped DEF EvRequests, EvTopics
<1>3. egSeq' \in Nat
  BY <1>1 DEF emitIoEvent
<1>4. post_event(s, e) /\ UNCHANGED <<egNow, egCams, egServer>>
  BY DEF emitIoEvent
<1> HIDE DEF e
<1>5. QED BY <1>2, <1>3, <1>4, PostQuiet

\* A slot that is freed, by an answer or by a request that is lost.
LEMMA FreedKept ==
  ASSUME IngestInv, NEW s \in Slots, LostRequest(s) \/ Rejected(s) \/ Deduplicated(s)
  PROVE  IngestInv'
<1>1. /\ egReq[s].pc = "sent" /\ egReq' = [egReq EXCEPT ![s] = NoEvent] /\ egSeq' = egSeq
      /\ UNCHANGED <<egNow, egCams, egCache, egLog, egIds, egMark, egGot, egLogged, egFailed,
              egPut, egSince>>
  BY DEF LostRequest, Rejected, Deduplicated, ReqDone, egServer, egOutside
<1>2. egNow \in Nat /\ egSeq \in Nat /\ egAcked \subseteq Stamps /\ egFailed \subseteq Stamps
      /\ egReq[s] \in EvRequests
  BY DEF IngestInv, IngestTypes
<1>3. /\ egAcked' \subseteq Stamps
      /\ \A a \in egAcked' \ egAcked :
           \E e \in Recorded : e.key = a.key /\ e.at <= a.at /\ a.at - e.at <= KeyWindow(a.key)
  <2>1. CASE Deduplicated(s)
    <3> DEFINE k == egReq[s].key
               a == [key |-> k, at |-> egNow]
               e == [key |-> k, at |-> egCache[k]]
    <3>1. k \in DOMAIN egCache /\ egNow - egCache[k] < Window(egReq[s]) /\ egAcked' = egAcked \cup {a}
      BY <2>1 DEF Deduplicated, Seen
    <3>2. k \in EvKeys /\ Window(egReq[s]) = KeyWindow(k)
      BY <1>2 DEF EvRequests, Window, KeyWindow, IngestInv, SlotsTrue
    <3>3. e \in Recorded /\ egCache[k] \in 0..egNow
      BY <3>1 DEF IngestInv, CacheTrue, IngestTypes
    <3>4. a \in Stamps
      BY <1>2, <3>2 DEF Stamps
    <3>5. e.key = a.key /\ e.at <= a.at /\ a.at - e.at <= KeyWindow(a.key)
      BY <1>2, <3>1, <3>2, <3>3, IngestBounds
    <3> HIDE DEF a, e, k
    <3>6. QED BY <1>2, <3>1, <3>3, <3>4, <3>5
  <2>2. CASE ~Deduplicated(s)
    BY <1>2, <2>2 DEF LostRequest, Rejected, egServer
  <2>3. QED BY <2>1, <2>2
<1>4. QuietStep(s, NoEvent)
  BY <1>1, <1>2, <1>3, NoEventTyped DEF QuietStep
<1>5. QED BY <1>4, NoEventTyped, QuietKeeps

\* A slot that goes on to its next step without a word to the database.
LEMMA StepsOnKept ==
  ASSUME IngestInv, NEW s \in Slots,
         updateActiveLayout(s) \/ proxyIoBoxEventToKiosk(s) \/ NothingToDo(s)
  PROVE  IngestInv'
<1> DEFINE q == [egReq[s] EXCEPT !.pc = "forward"]
<1>1. /\ egReq[s] \in EvRequests /\ egNow \in Nat /\ egSeq \in Nat
      /\ egAcked \subseteq Stamps /\ egFailed \subseteq Stamps /\ egReq \in [Slots -> EvRequests]
  BY DEF IngestInv, IngestTypes
<1>2. /\ egReq[s].pc = "act" /\ egReq' = [egReq EXCEPT ![s].pc = "forward"] /\ egSeq' = egSeq
      /\ egPut' \in {egPut, egPut \cup {Fresh(egReq[s])}}
      /\ UNCHANGED <<egNow, egCams, egCache, egLog, egIds, egMark, egGot, egLogged, egFailed,
              egAcked, egSince>>
  BY DEF updateActiveLayout, proxyIoBoxEventToKiosk, NothingToDo, egServer, egOutside
<1>3. /\ egReq[s].key.src = egReq[s].kind /\ egReq[s].at <= egNow /\ Fresh(egReq[s]) \in egLogged
  BY <1>2 DEF IngestInv, SlotsTrue
<1>4. /\ q \in EvRequests /\ q.pc = "forward" /\ q.kind = egReq[s].kind /\ q.key = egReq[s].key
      /\ q.at = egReq[s].at /\ egReq' = [egReq EXCEPT ![s] = q]
  BY <1>1, <1>2 DEF EvRequests
<1> HIDE DEF q
<1>5. Fresh(q) \in egLogged
  BY <1>3, <1>4 DEF Fresh
<1>6. QuietStep(s, q)
  BY <1>1, <1>2, <1>3, <1>4, <1>5 DEF QuietStep
<1>7. QED BY <1>4, <1>6, QuietKeeps

\* The answer and the forwards: the event is in the log by then.
LEMMA ForwardKept ==
  ASSUME IngestInv, NEW s \in Slots, forward(s)
  PROVE  IngestInv'
<1> DEFINE q == IF egReq[s].kind = "push" THEN [egReq[s] EXCEPT !.pc = "next"] ELSE NoEvent
<1>1. /\ egReq[s] \in EvRequests /\ egNow \in Nat /\ egSeq \in Nat
      /\ egAcked \subseteq Stamps /\ egFailed \subseteq Stamps /\ egReq \in [Slots -> EvRequests]
  BY DEF IngestInv, IngestTypes
<1>2. /\ egReq[s].pc = "forward" /\ egAcked' = egAcked \cup {Fresh(egReq[s])} /\ egSeq' = egSeq
      /\ UNCHANGED <<egNow, egCams, egCache, egLog, egIds, egMark, egGot, egLogged, egFailed,
              egPut, egSince>>
  BY DEF forward, egOutside
<1>3. /\ egReq[s].key.src = egReq[s].kind /\ egReq[s].at <= egNow /\ Fresh(egReq[s]) \in egLogged
  BY <1>2 DEF IngestInv, SlotsTrue
<1>4. /\ q \in EvRequests /\ q.pc \in {"none", "next"} /\ q.key.src = q.kind /\ q.at <= egNow
      /\ q.pc = "next" => q.kind = "push"
  <2>1. CASE egReq[s].kind = "push"
    BY <1>1, <1>3, <2>1 DEF EvRequests
  <2>2. CASE egReq[s].kind # "push"
    BY <1>1, <2>2, NoEventTyped
  <2>3. QED BY <2>1, <2>2
<1>5. egReq' = [egReq EXCEPT ![s] = q]
  BY <1>1 DEF forward, ReqDone, EvRequests
<1> HIDE DEF q
<1>6. \E e \in Recorded : e.key = Fresh(egReq[s]).key /\ e.at <= Fresh(egReq[s]).at
        /\ Fresh(egReq[s]).at - e.at <= KeyWindow(Fresh(egReq[s]).key)
  <2>1. Fresh(egReq[s]) \in Recorded
    BY <1>3 DEF Recorded
  <2>2. Fresh(egReq[s]).at \in Nat /\ KeyWindow(Fresh(egReq[s]).key) \in Nat
    BY <1>1, IngestBounds DEF Fresh, EvRequests
  <2>3. QED BY <2>1, <2>2
<1>7. Fresh(egReq[s]) \in Stamps
  BY <1>1 DEF Fresh, Stamps, EvRequests
<1>8. QuietStep(s, q)
  BY <1>1, <1>2, <1>4, <1>5, <1>6, <1>7 DEF QuietStep
<1>9. QED BY <1>4, <1>8, QuietKeeps

\* An insert that fails leaves the failure as the evidence.
LEMMA InsertFailsKept ==
  ASSUME IngestInv, NEW s \in Slots, InsertFails(s)
  PROVE  IngestInv'
<1> DEFINE q == IF egReq[s].kind = "push" THEN [egReq[s] EXCEPT !.pc = "next"] ELSE NoEvent
<1>1. /\ egReq[s] \in EvRequests /\ egNow \in Nat /\ egSeq \in Nat
      /\ egAcked \subseteq Stamps /\ egFailed \subseteq Stamps /\ egReq \in [Slots -> EvRequests]
  BY DEF IngestInv, IngestTypes
<1>2. /\ egFailed' = egFailed \cup {Fresh(egReq[s])} /\ egSeq' = egSeq
      /\ UNCHANGED <<egNow, egCams, egCache, egLog, egIds, egMark, egGot, egLogged, egAcked,
              egPut, egSince>>
  BY DEF InsertFails, egOutside
<1>3. egReq[s].key.src = egReq[s].kind /\ egReq[s].at <= egNow
  BY DEF IngestInv, SlotsTrue
<1>4. /\ q \in EvRequests /\ q.pc \in {"none", "next"} /\ q.key.src = q.kind /\ q.at <= egNow
      /\ q.pc = "next" => q.kind = "push"
  <2>1. CASE egReq[s].kind = "push"
    BY <1>1, <1>3, <2>1 DEF EvRequests
  <2>2. CASE egReq[s].kind # "push"
    BY <1>1, <2>2, NoEventTyped
  <2>3. QED BY <2>1, <2>2
<1>5. egReq' = [egReq EXCEPT ![s] = q]
  BY <1>1 DEF InsertFails, ReqDone, EvRequests
<1> HIDE DEF q
<1>6. Fresh(egReq[s]) \in Stamps
  BY <1>1 DEF Fresh, Stamps, EvRequests
<1>7. QuietStep(s, q)
  BY <1>1, <1>2, <1>4, <1>5, <1>6 DEF QuietStep
<1>8. QED BY <1>4, <1>7, QuietKeeps

\* The messages of an envelope: pushed events are not deduplicated, so none is pending.
LEMMA EnvelopeKept ==
  ASSUME IngestInv, NEW s \in Slots, PushArrive(s) \/ PushNext(s)
  PROVE  IngestInv'
<1>1. /\ egReq[s] \in EvRequests /\ egNow \in Nat /\ egSeq \in Nat
      /\ egAcked \subseteq Stamps /\ egFailed \subseteq Stamps /\ egReq \in [Slots -> EvRequests]
  BY DEF IngestInv, IngestTypes
<1>2. /\ egReq[s].pc \in {"sent", "next"} /\ egReq[s].kind = "push" /\ egSeq' = egSeq
      /\ egReq[s].key.src = "push" /\ egReq[s].at <= egNow
      /\ UNCHANGED <<egNow, egCams, egCache, egLog, egIds, egMark, egGot, egLogged, egFailed,
              egAcked, egPut, egSince>>
  BY DEF IngestInv, SlotsTrue, PushArrive, PushNext, egOutside, egServer
<1>3. ASSUME NEW q \in EvRequests, egReq' = [egReq EXCEPT ![s] = q], q.key.src = q.kind,
        q.at <= egNow,
             q.pc \in {"none", "next", "insert"}, q.pc # "none" => q.kind = "push"
      PROVE  IngestInv'
  <2>1. QuietStep(s, q)
    BY <1>1, <1>2, <1>3 DEF QuietStep
  <2>2. QED BY <2>1, QuietKeeps
<1>4. CASE egReq' = [egReq EXCEPT ![s] = NoEvent]
  <2>1. NoEvent.key.src = NoEvent.kind /\ NoEvent.at <= egNow /\ NoEvent.pc \in {"none",
          "next", "insert"}
        /\ NoEvent \in EvRequests /\ (NoEvent.pc # "none" => NoEvent.kind = "push")
    BY <1>1, NoEventTyped
  <2>2. QED BY <1>3, <1>4, <2>1, Zenon
<1>5. CASE egReq' = [egReq EXCEPT ![s].pc = "next"]
  <2> DEFINE q == [egReq[s] EXCEPT !.pc = "next"]
  <2>1. /\ q \in EvRequests /\ q.pc = "next" /\ q.kind = "push" /\ q.key.src = "push" /\ q.at <= egNow
        /\ egReq' = [egReq EXCEPT ![s] = q]
    BY <1>1, <1>2, <1>5 DEF EvRequests
  <2> HIDE DEF q
  <2>2. QED BY <1>3, <2>1
<1>6. CASE PushNext(s) /\ egReq[s].left # {}
  <2> DEFINE k == CHOOSE k \in egReq[s].left : \A j \in egReq[s].left : k <= j
             q == [egReq[s] EXCEPT !.pc = "insert", !.left = @ \ {k}, !.at = egNow, !.key.n = k]
  <2>1. \E i \in egReq[s].left : \A j \in egReq[s].left : i <= j
    <3>1. egReq[s].left \subseteq {1, 2}
      BY <1>1 DEF EvRequests
    <3>2. QED BY <1>6, <3>1
  <2>2. k \in egReq[s].left
    BY <2>1, Zenon
  <2>3. k \in Nat
    BY <1>1, <2>2 DEF EvRequests
  <2>4. egReq' = [egReq EXCEPT ![s] = q]
    BY <1>6 DEF PushNext
  <2> HIDE DEF k
  <2>5. q \in EvRequests /\ q.pc = "insert" /\ q.kind = "push" /\ q.key.src = "push" /\ q.at = egNow
    <3>1. egReq[s].key \in EvKeys
      BY <1>1 DEF EvRequests
    <3>2. [egReq[s].key EXCEPT !.n = k] \in EvKeys /\ [egReq[s].key EXCEPT !.n = k].src = "push"
      BY <1>2, <2>3, <3>1 DEF EvKeys
    <3>3. QED BY <1>1, <1>2, <3>2 DEF EvRequests
  <2> HIDE DEF q
  <2>6. q.key.src = q.kind /\ q.at <= egNow /\ q.pc \in {"none", "next", "insert"}
        /\ (q.pc # "none" => q.kind = "push")
    BY <1>1, <2>5
  <2>7. QED BY <1>3, <2>4, <2>5, <2>6, Zenon
<1>7. QED BY <1>4, <1>5, <1>6 DEF PushArrive, PushNext, ReqDone

\* A new claim to a key: what was claimed before is past its window.
LEMMA AdmitKept ==
  ASSUME IngestInv, NEW s \in Slots, Admit(s)
  PROVE  IngestInv'
<1> DEFINE k == egReq[s].key
           q == [egReq[s] EXCEPT !.pc = "insert", !.at = egNow]
<1>1. /\ egReq[s] \in EvRequests /\ egNow \in Nat /\ egReq \in [Slots -> EvRequests]
      /\ IngestTypes /\ SlotsTrue /\ Spaced /\ Covered /\ AcknowledgedIsLogged
  BY DEF IngestInv, IngestTypes
<1>2. /\ egReq[s].pc = "sent" /\ egReq[s].kind \in {"kiosk", "io"} /\ ~Seen(egReq[s])
      /\ egCache' = [j \in DOMAIN egCache \cup {k} |-> IF j = k THEN egNow ELSE egCache[j]]
      /\ UNCHANGED <<egNow, egCams, egSeq, egLog, egIds, egMark, egGot, egLogged, egFailed,
              egAcked, egPut, egSince>>
  BY DEF Admit, egOutside
<1>3. /\ q \in EvRequests /\ q.pc = "insert" /\ q.kind = egReq[s].kind /\ q.key = k /\ q.at = egNow
      /\ egReq' = [egReq EXCEPT ![s] = q]
  BY <1>1 DEF EvRequests, Admit
<1>4. k \in EvKeys /\ k.src = q.kind /\ k.src # "push" /\ KeyWindow(k) \in Nat
  BY <1>1, <1>2, <1>3, IngestBounds DEF EvRequests, SlotsTrue
<1> HIDE DEF q
<1>5. egReq' \in [Slots -> EvRequests] /\ egReq'[s] = q /\ \A t \in Slots : t # s => egReq'[t] = egReq[t]
  BY <1>1, <1>3, SlotSet
<1>6. /\ DOMAIN egCache' = DOMAIN egCache \cup {k} /\ egCache'[k] = egNow
      /\ \A j \in DOMAIN egCache : j # k => egCache'[j] = egCache[j]
  BY <1>2
<1>7. \A a \in Nat : Remembered(k, a) => a + KeyWindow(k) <= egNow
  <2>1. Window(egReq[s]) = KeyWindow(k)
    BY <1>1 DEF Window, KeyWindow, SlotsTrue
  <2>2. k \in DOMAIN egCache => egNow - egCache[k] >= KeyWindow(k) /\ egCache[k] \in Nat
    BY <1>1, <1>2, <1>4, <2>1 DEF Seen, IngestTypes
  <2>3. QED BY <1>1, <1>4, <2>2 DEF Remembered
<1> HIDE DEF k
<1>8. IngestTypes'
  <2>1. \A j \in DOMAIN egCache' : egCache'[j] \in 0..egNow'
    BY <1>1, <1>2, <1>6 DEF IngestTypes
  <2>2. QED BY <1>1, <1>2, <1>5, <2>1 DEF IngestTypes
<1>9. SlotsTrue'
  <2> SUFFICES ASSUME NEW t \in Slots
               PROVE  /\ egReq'[t].key.src = egReq'[t].kind /\ egReq'[t].at <= egNow'
                      /\ egReq'[t].pc = "next" => egReq'[t].kind = "push"
                      /\ egReq'[t].pc \in {"act", "forward"} => Fresh(egReq'[t]) \in egLogged'
    BY DEF SlotsTrue, Fresh
  <2>1. CASE t = s
    BY <1>1, <1>2, <1>3, <1>4, <1>5, <2>1
  <2>2. CASE t # s
    BY <1>1, <1>2, <1>5, <2>2 DEF SlotsTrue, Fresh
  <2>3. QED BY <2>1, <2>2
<1>10. \A t \in Slots : t # s /\ Pending(t)' =>
         Pending(t) /\ egReq'[t] = egReq[t] /\ (egReq[t].key = k => egReq[t].at + KeyWindow(k) <= egNow)
  <2> SUFFICES ASSUME NEW t \in Slots, t # s, Pending(t)'
               PROVE  Pending(t) /\ egReq'[t] = egReq[t]
                        /\ (egReq[t].key = k => egReq[t].at + KeyWindow(k) <= egNow)
    OBVIOUS
  <2>1. Pending(t) /\ egReq'[t] = egReq[t] /\ egReq[t].at \in Nat
    BY <1>1, <1>5 DEF Pending, EvRequests
  <2>2. Remembered(egReq[t].key, egReq[t].at)
    BY <1>1, <2>1 DEF Covered
  <2>3. QED BY <1>7, <2>1, <2>2
<1>11. \A e \in egLog : LiveRow(e) /\ e.key = k => e.at + KeyWindow(k) <= egNow
  <2> SUFFICES ASSUME NEW e \in egLog, LiveRow(e), e.key = k
               PROVE  e.at + KeyWindow(k) <= egNow
    OBVIOUS
  <2>1. Remembered(k, e.at) /\ e.at \in Nat
    BY <1>1 DEF Covered, IngestTypes, EvRows
  <2>2. QED BY <1>7, <2>1
<1>12. Spaced'
  <2>1. \A e \in egLog : LiveRow(e)' <=> LiveRow(e)
    BY <1>2 DEF LiveRow
  <2>2. ASSUME NEW e \in egLog', NEW f \in egLog', LiveRow(e)', LiveRow(f)', e.id # f.id,
          e.key = f.key
        PROVE  Apart(e.at, f.at, KeyWindow(e.key))
    BY <1>1, <1>2, <2>1, <2>2 DEF Spaced
  <2>3. ASSUME NEW e \in egLog', NEW t \in Slots, LiveRow(e)', Pending(t)',
          e.key = egReq'[t].key
        PROVE  Apart(e.at, egReq'[t].at, KeyWindow(e.key))
    <3>1. CASE t = s
      BY <1>2, <1>3, <1>5, <1>11, <2>1, <2>3, <3>1 DEF Apart
    <3>2. CASE t # s
      BY <1>1, <1>2, <1>10, <2>1, <2>3, <3>2 DEF Spaced
    <3>3. QED BY <3>1, <3>2
  <2>4. ASSUME NEW t \in Slots, NEW u \in Slots, t # u, Pending(t)', Pending(u)',
          egReq'[t].key = egReq'[u].key
        PROVE  Apart(egReq'[t].at, egReq'[u].at, KeyWindow(egReq'[t].key))
    <3>1. CASE t = s
      BY <1>3, <1>5, <1>10, <2>4, <3>1 DEF Apart
    <3>2. CASE u = s
      BY <1>3, <1>5, <1>10, <2>4, <3>2 DEF Apart
    <3>3. CASE t # s /\ u # s
      BY <1>1, <1>10, <2>4, <3>3 DEF Spaced
    <3>4. QED BY <3>1, <3>2, <3>3
  <2>5. QED BY <2>2, <2>3, <2>4 DEF Spaced, Apart, KeyWindow
<1>13. Covered'
  <2>1. ASSUME NEW j, NEW a \in Nat, Remembered(j, a), a <= egNow
        PROVE  Remembered(j, a)'
    <3>1. KeyWindow(j)' = KeyWindow(j)
      BY DEF KeyWindow
    <3>2. CASE j = k
      BY <1>2, <1>6, <2>1, <3>2 DEF Remembered
    <3>3. CASE j # k
      BY <1>2, <1>6, <2>1, <3>1, <3>3 DEF Remembered
    <3>4. QED BY <3>2, <3>3
  <2>2. ASSUME NEW e \in egLog', LiveRow(e)'
        PROVE  Remembered(e.key, e.at)'
    <3>1. LiveRow(e) /\ e.at \in Nat /\ e.at <= egNow /\ e \in egLog
      BY <1>1, <1>2, <2>2 DEF LiveRow, IngestTypes, EvRows
    <3>2. Remembered(e.key, e.at)
      BY <1>1, <3>1 DEF Covered
    <3>3. QED BY <2>1, <3>1, <3>2
  <2>3. ASSUME NEW t \in Slots, Pending(t)'
        PROVE  Remembered(egReq[t].key, egReq[t].at)'
    <3>1. CASE t = s
      BY <1>1, <1>2, <1>3, <1>5, <1>6, <3>1 DEF Remembered
    <3>2. CASE t # s
      <4>1. Pending(t) /\ egReq'[t] = egReq[t] /\ egReq[t].at \in Nat /\ egReq[t].at <= egNow
        BY <1>1, <1>10, <2>3, <3>2 DEF SlotsTrue, EvRequests
      <4>2. Remembered(egReq[t].key, egReq[t].at)
        BY <1>1, <4>1 DEF Covered
      <4>3. QED BY <2>1, <4>1, <4>2 DEF Remembered, KeyWindow
    <3>3. QED BY <3>1, <3>2
  <2>4. QED BY <2>2, <2>3 DEF Covered
<1>14. Recorded \subseteq Recorded'
  <2>1. ASSUME NEW t \in Slots, egReq[t].pc = "insert"
        PROVE  egReq'[t].pc = "insert" /\ egReq'[t].key = egReq[t].key /\ egReq'[t].at = egReq[t].at
    BY <1>2, <1>5, <2>1
  <2>2. QED BY <1>2, <2>1, RecordedKept
<1>15. CacheTrue'
  <2> SUFFICES ASSUME NEW j \in DOMAIN egCache'
               PROVE  [key |-> j, at |-> egCache'[j]] \in Recorded'
    BY DEF CacheTrue
  <2>1. CASE j = k
    BY <1>3, <1>5, <1>6, <2>1 DEF Recorded, Fresh
  <2>2. CASE j # k
    BY <1>6, <1>14, <2>2 DEF IngestInv, CacheTrue
  <2>3. QED BY <2>1, <2>2
<1>16. AcknowledgedIsLogged'
  BY <1>1, <1>2, <1>14, AnswersKept
<1>17. ForwardsTrue' /\ ControlIsLogged'
  BY <1>2 DEF IngestInv, ForwardsTrue, MarkedMeansDelivered, ControlIsLogged
<1>18. QED BY <1>8, <1>9, <1>12, <1>13, <1>15, <1>16, <1>17 DEF IngestInv

\* The row takes over the claim of its slot.
LEMMA RowKept ==
  ASSUME IngestInv, NEW s \in Slots, Insert(s) \/ InsertWithoutCamera(s)
  PROVE  IngestInv'
<1>1. /\ egReq[s] \in EvRequests /\ egNow \in Nat /\ egIds \in Nat /\ egReq \in [Slots -> EvRequests]
      /\ IngestTypes /\ SlotsTrue /\ Spaced /\ Covered /\ AcknowledgedIsLogged
  BY DEF IngestInv, IngestTypes
<1>2. PICK cam \in EvCameras \cup {"none"} :
        /\ egLog' = egLog \cup {[id |-> egIds + 1, key |-> egReq[s].key, at |-> egReq[s].at,
                cam |-> cam, fwd |-> FALSE]}
        /\ egReq[s].pc = "insert" /\ egIds' = egIds + 1 /\ egLogged' = egLogged \cup {Fresh(egReq[s])}
        /\ egReq' = [egReq EXCEPT ![s] = [[egReq[s] EXCEPT !.pc = "act"] EXCEPT !.row = egIds + 1]]
        /\ UNCHANGED <<egNow, egCams, egSeq, egCache, egMark, egGot, egFailed, egAcked, egPut,
                egSince>>
  <2>1. CASE Insert(s)
    <3>1. insertEvent(s, egReq[s].cam, [egReq[s] EXCEPT !.pc = "act"]) /\ egReq[s].pc = "insert"
      BY <2>1 DEF Insert
    <3>2. egReq[s].cam \in EvCameras \cup {"none"}
      BY <1>1 DEF EvRequests
    <3>3. QED BY <3>1, <3>2 DEF insertEvent, egOutside
  <2>2. CASE InsertWithoutCamera(s)
    <3>1. insertEvent(s, "none", [egReq[s] EXCEPT !.pc = "act"]) /\ egReq[s].pc = "insert"
      BY <2>2 DEF InsertWithoutCamera
    <3>2. QED BY <3>1 DEF insertEvent, egOutside
  <2>3. QED BY <2>1, <2>2
<1> DEFINE n == egIds + 1
           q == [[egReq[s] EXCEPT !.pc = "act"] EXCEPT !.row = n]
           x == [id |-> n, key |-> egReq[s].key, at |-> egReq[s].at, cam |-> cam, fwd |-> FALSE]
<1>3. n \in Nat /\ egReq' = [egReq EXCEPT ![s] = q] /\ egLog' = egLog \cup {x} /\ n = egIds + 1
  BY <1>1, <1>2
<1> HIDE DEF n
<1>4. /\ q \in EvRequests /\ q.pc = "act" /\ q.kind = egReq[s].kind /\ q.key = egReq[s].key
      /\ q.at = egReq[s].at /\ egReq' = [egReq EXCEPT ![s] = q]
  BY <1>1, <1>3 DEF EvRequests
<1>5. PICK r \in EvRows :
      /\ r.id = egIds + 1 /\ r.key = egReq[s].key /\ r.at = egReq[s].at /\ r.fwd = FALSE
      /\ egLog' = egLog \cup {r}
  <2>1. x \in EvRows
    BY <1>1, <1>3 DEF EvRequests, EvRows
  <2>2. QED BY <2>1, <1>3
<1> HIDE DEF q, x
<1>6. egReq' \in [Slots -> EvRequests] /\ egReq'[s] = q /\ \A t \in Slots : t # s => egReq'[t] = egReq[t]
  BY <1>1, <1>4, SlotSet
<1>7. Fresh(egReq[s]) \in Stamps /\ Fresh(q) = Fresh(egReq[s])
  BY <1>1, <1>4 DEF Stamps, EvRequests, Fresh
<1>8. IngestTypes'
  <2>1. egReq[s].at <= egNow
    BY <1>1 DEF SlotsTrue
  <2>2. egIds \in Nat /\ egIds' = egIds + 1 /\ egSince' = egSince /\ egSince \in 0..egIds
    <3>1. egSince \in 0..egIds
      BY <1>1 DEF IngestTypes
    <3>2. QED BY <1>1, <1>2, <3>1, Zenon
  <2>3. \A e \in egLog' : e.id \in 1..egIds' /\ e.at <= egNow'
    <3>1. egIds + 1 \in 1..egIds' /\ 1..egIds \subseteq 1..egIds'
      BY <2>2
    <3>2. \A e \in egLog : e.id \in 1..egIds /\ e.at <= egNow
      BY <1>1 DEF IngestTypes
    <3>3. QED BY <1>2, <1>5, <2>1, <3>1, <3>2
  <2>4. egSince' \in 0..egIds' /\ egIds' \in Nat
    BY <2>2
  <2>5. egLog' \subseteq EvRows /\ egLogged' \subseteq Stamps
    BY <1>1, <1>2, <1>5, <1>7 DEF IngestTypes
  <2>6. QED BY <1>1, <1>2, <1>6, <2>3, <2>4, <2>5 DEF IngestTypes
<1>9. SlotsTrue'
  <2> SUFFICES ASSUME NEW t \in Slots
               PROVE  /\ egReq'[t].key.src = egReq'[t].kind /\ egReq'[t].at <= egNow'
                      /\ egReq'[t].pc = "next" => egReq'[t].kind = "push"
                      /\ egReq'[t].pc \in {"act", "forward"} => Fresh(egReq'[t]) \in egLogged'
    BY DEF SlotsTrue, Fresh
  <2>1. CASE t = s
    BY <1>1, <1>2, <1>4, <1>6, <1>7, <2>1 DEF SlotsTrue
  <2>2. CASE t # s
    BY <1>1, <1>2, <1>6, <2>2 DEF SlotsTrue
  <2>3. QED BY <2>1, <2>2
<1>10. \A t \in Slots : Pending(t)' => t # s /\ Pending(t) /\ egReq'[t] = egReq[t]
  BY <1>4, <1>6 DEF Pending
<1>11. /\ \A e \in egLog : LiveRow(e)' <=> LiveRow(e)
       /\ LiveRow(r)' => Pending(s)
  <2>1. egReq[s].key.src = egReq[s].kind
    BY <1>1 DEF SlotsTrue
  <2>2. QED BY <1>2, <1>5, <2>1 DEF LiveRow, Pending
<1>12. Spaced'
  <2>1. ASSUME NEW e \in egLog', NEW f \in egLog', LiveRow(e)', LiveRow(f)', e.id # f.id,
          e.key = f.key
        PROVE  Apart(e.at, f.at, KeyWindow(e.key))
    <3>1. CASE e \in egLog /\ f \in egLog
      BY <1>1, <1>11, <2>1, <3>1 DEF Spaced
    <3>2. CASE e = r /\ f \in egLog
      BY <1>1, <1>5, <1>11, <2>1, <3>2 DEF Spaced, Apart
    <3>3. CASE e \in egLog /\ f = r
      BY <1>1, <1>5, <1>11, <2>1, <3>3 DEF Spaced, Apart
    <3>4. QED BY <1>5, <2>1, <3>1, <3>2, <3>3
  <2>2. ASSUME NEW e \in egLog', NEW t \in Slots, LiveRow(e)', Pending(t)',
          e.key = egReq'[t].key
        PROVE  Apart(e.at, egReq'[t].at, KeyWindow(e.key))
    <3>1. CASE e \in egLog
      BY <1>1, <1>10, <1>11, <2>2, <3>1 DEF Spaced
    <3>2. CASE e = r
      BY <1>1, <1>5, <1>10, <1>11, <2>2, <3>2 DEF Spaced
    <3>3. QED BY <1>5, <3>1, <3>2
  <2>3. ASSUME NEW t \in Slots, NEW u \in Slots, t # u, Pending(t)', Pending(u)',
          egReq'[t].key = egReq'[u].key
        PROVE  Apart(egReq'[t].at, egReq'[u].at, KeyWindow(egReq'[t].key))
    BY <1>1, <1>10, <2>3 DEF Spaced
  <2>4. QED BY <2>1, <2>2, <2>3 DEF Spaced, Apart, KeyWindow
<1>13. Covered'
  <2>1. \A k, a : Remembered(k, a)' <=> Remembered(k, a)
    BY <1>2 DEF Remembered, KeyWindow
  <2>2. ASSUME NEW e \in egLog', LiveRow(e)'
        PROVE  Remembered(e.key, e.at)
    <3>1. CASE e \in egLog
      BY <1>1, <1>11, <2>2, <3>1 DEF Covered
    <3>2. CASE e = r
      BY <1>1, <1>5, <1>11, <2>2, <3>2 DEF Covered
    <3>3. QED BY <1>5, <3>1, <3>2
  <2>3. ASSUME NEW t \in Slots, Pending(t)'
        PROVE  Remembered(egReq'[t].key, egReq'[t].at)
    BY <1>1, <1>10, <2>3 DEF Covered
  <2>4. QED BY <2>1, <2>2, <2>3 DEF Covered, Remembered, KeyWindow
<1>14. Recorded \subseteq Recorded'
  <2>1. ASSUME NEW t \in Slots, egReq[t].pc = "insert"
        PROVE  \/ egReq'[t].pc = "insert" /\ egReq'[t].key = egReq[t].key /\ egReq'[t].at = egReq[t].at
               \/ Fresh(egReq[t]) \in egLogged' \cup egFailed'
    BY <1>2, <1>6, <2>1
  <2>2. QED BY <1>2, <2>1, RecordedKept
<1>15. CacheTrue'
  BY <1>2, <1>14 DEF CacheTrue, IngestInv
<1>16. AcknowledgedIsLogged'
  BY <1>1, <1>2, <1>14, AnswersKept
<1>17. ForwardsTrue' /\ ControlIsLogged'
  BY <1>2, <1>5 DEF IngestInv, ForwardsTrue, MarkedMeansDelivered, ControlIsLogged
<1>18. QED BY <1>8, <1>9, <1>12, <1>13, <1>15, <1>16, <1>17 DEF IngestInv

\* What concerns neither the requests under way nor the claims to a key: the rows
\* that are left keep their number, key and time, and the trim drops what is past.
LEMMA AsideKept ==
  ASSUME IngestInv, egNow' \in Nat, egNow <= egNow', egSeq' \in Nat,
          egCams' \subseteq EvCameras,
         egLog' \subseteq EvRows,
         \A f \in egLog' : \E e \in egLog : e.id = f.id /\ e.key = f.key /\ e.at = f.at,
         \A k \in DOMAIN egCache' : k \in DOMAIN egCache /\ egCache'[k] = egCache[k],
         \A k \in DOMAIN egCache : \/ k \in DOMAIN egCache'
                                   \/ egCache[k] + KeyWindow(k) <= egNow,
         ForwardsTrue',
         UNCHANGED <<egReq, egIds, egAcked, egLogged, egFailed, egPut, egSince>>
  PROVE  IngestInv'
<1>1. IngestTypes /\ SlotsTrue /\ egNow \in Nat
  BY DEF IngestInv, IngestTypes
<1>2. IngestTypes'
  <2>1. \A k \in DOMAIN egCache' : egCache'[k] \in 0..egNow'
    BY <1>1 DEF IngestTypes
  <2>2. \A f \in egLog' : f.id \in 1..egIds' /\ f.at <= egNow'
    <3> SUFFICES ASSUME NEW f \in egLog' PROVE f.id \in 1..egIds' /\ f.at <= egNow'
      OBVIOUS
    <3>1. PICK e \in egLog : e.id = f.id /\ e.key = f.key /\ e.at = f.at
      OBVIOUS
    <3>2. e.id \in 1..egIds /\ e.at <= egNow /\ e.at \in Nat
      BY <1>1 DEF IngestTypes, EvRows
    <3>3. QED BY <1>1, <3>1, <3>2
  <2>3. QED BY <1>1, <2>1, <2>2 DEF IngestTypes
<1>3. SlotsTrue'
  <2>1. \A s \in Slots : egReq[s].at \in Nat
    BY <1>1 DEF IngestTypes, EvRequests
  <2>2. QED BY <1>1, <2>1 DEF SlotsTrue, Fresh
<1>4. \A s \in Slots : Pending(s)' =>
        Pending(s) /\ egReq'[s].key = egReq[s].key /\ egReq'[s].at = egReq[s].at
  BY DEF Pending
<1>5. Spaced'
  BY <1>4, SpacedKept DEF IngestInv
<1>6. Covered'
  <2>1. \A k \in DOMAIN egCache : \/ k \in DOMAIN egCache' /\ egCache'[k] = egCache[k]
                                  \/ egCache[k] + KeyWindow(k) <= egNow
    OBVIOUS
  <2>2. egReq' \in [Slots -> EvRequests] /\ Covered
    BY <1>1 DEF IngestTypes, IngestInv
  <2>3. QED BY <1>1, <1>4, <2>1, <2>2, CoveredKept
<1>7. Recorded \subseteq Recorded'
  BY DEF Recorded, Fresh
<1>8. CacheTrue'
  BY <1>7 DEF CacheTrue, IngestInv
<1>9. AcknowledgedIsLogged' /\ ControlIsLogged'
  BY <1>7, AnswersKept DEF IngestInv, ControlIsLogged
<1>10. QED BY <1>2, <1>3, <1>5, <1>6, <1>8, <1>9 DEF IngestInv

\* The firmware's reboot, time, the trim and the retention.
LEMMA HousekeepingKept ==
  ASSUME IngestInv, Reboot \/ EvTick \/ TrimCache \/ purgeEventLog
  PROVE  IngestInv'
<1>1. /\ egNow \in Nat /\ egSeq \in Nat /\ egCams \subseteq EvCameras /\ egLog \subseteq EvRows
      /\ \A k \in DOMAIN egCache : egCache[k] \in Nat
      /\ ForwardsTrue /\ \A k : KeyWindow(k) \in Nat
  BY IngestBounds DEF IngestInv, IngestTypes
<1>2. CASE TrimCache
  <2> DEFINE old == {k \in DOMAIN egCache : egNow - egCache[k] > (IF k.src = "io" THEN IoWindow ELSE KioskWindow)}
  <2>1. /\ egCache' = [k \in DOMAIN egCache \ old |-> egCache[k]]
        /\ UNCHANGED <<egNow, egSeq, egCams, egReq, egLog, egIds, egMark, egGot, egAcked,
                egLogged, egFailed, egPut, egSince>>
    BY <1>2 DEF TrimCache, egOutside
  <2>2. \A k \in old : egCache[k] + KeyWindow(k) <= egNow
    BY <1>1 DEF KeyWindow
  <2> HIDE DEF old
  <2>3. /\ \A k \in DOMAIN egCache' : k \in DOMAIN egCache /\ egCache'[k] = egCache[k]
        /\ \A k \in DOMAIN egCache : k \in DOMAIN egCache' \/ egCache[k] + KeyWindow(k) <= egNow
    BY <2>1, <2>2
  <2>4. ForwardsTrue'
    BY <1>1, <2>1 DEF ForwardsTrue, MarkedMeansDelivered
  <2>5. QED BY <1>1, <2>1, <2>3, <2>4, AsideKept
<1>3. CASE purgeEventLog
  <2>1. /\ egLog' \subseteq egLog
        /\ UNCHANGED <<egNow, egSeq, egCams, egReq, egCache, egIds, egMark, egGot, egAcked,
                egLogged, egFailed, egPut, egSince>>
    BY <1>3 DEF purgeEventLog, egOutside
  <2>2. ForwardsTrue'
    BY <1>1, <2>1 DEF ForwardsTrue, MarkedMeansDelivered
  <2>3. QED BY <1>1, <2>1, <2>2, AsideKept
<1>4. CASE Reboot \/ EvTick
  <2>1. /\ egNow' \in Nat /\ egNow <= egNow' /\ egSeq' \in Nat
        /\ UNCHANGED <<egCams, egReq, egCache, egLog, egIds, egMark, egGot, egAcked, egLogged,
                egFailed, egPut, egSince>>
    BY <1>1, <1>4 DEF Reboot, EvTick, egServer
  <2>2. ForwardsTrue'
    BY <1>1, <2>1 DEF ForwardsTrue, MarkedMeansDelivered
  <2>3. QED BY <1>1, <2>1, <2>2, AsideKept
<1>5. QED BY <1>2, <1>3, <1>4

\* The mark of a row Node-RED has accepted.
LEMMA RowsMarkedKept ==
  ASSUME IngestInv, NEW r \in 1..egIds, markEventForwarded(r)
  PROVE  IngestInv'
<1>1. /\ egNow \in Nat /\ egSeq \in Nat /\ egCams \subseteq EvCameras /\ egLog \subseteq EvRows
      /\ egMark \subseteq egGot /\ \A e \in egLog : e.fwd => e.id \in egGot
  BY DEF IngestInv, IngestTypes, ForwardsTrue, MarkedMeansDelivered
<1>2. /\ r \in egMark /\ egMark' = egMark \ {r} /\ egGot' = egGot
      /\ egLog' = {IF e.id = r THEN [e EXCEPT !.fwd = TRUE] ELSE e : e \in egLog}
      /\ UNCHANGED <<egNow, egSeq, egCams, egReq, egCache, egIds, egAcked, egLogged, egFailed,
              egPut, egSince>>
  BY DEF markEventForwarded, egOutside
<1>3. ASSUME NEW f \in egLog'
      PROVE  /\ f \in EvRows
             /\ \E e \in egLog : e.id = f.id /\ e.key = f.key /\ e.at = f.at
             /\ f.fwd => f.id \in egGot
  <2>1. PICK e \in egLog : f = IF e.id = r THEN [e EXCEPT !.fwd = TRUE] ELSE e
    BY <1>2
  <2>2. CASE e.id = r
    <3>1. f = [e EXCEPT !.fwd = TRUE] /\ e \in EvRows
      BY <1>1, <2>1, <2>2
    <3>2. f \in EvRows /\ e.id = f.id /\ e.key = f.key /\ e.at = f.at
      BY <3>1 DEF EvRows
    <3>3. QED BY <1>1, <1>2, <2>2, <3>2
  <2>3. CASE e.id # r
    BY <1>1, <2>1, <2>3
  <2>4. QED BY <2>2, <2>3
<1>4. ForwardsTrue'
  BY <1>1, <1>2, <1>3 DEF ForwardsTrue, MarkedMeansDelivered
<1>5. egNow' \in Nat /\ egNow <= egNow' /\ egSeq' \in Nat /\ egCams' \subseteq EvCameras /\ egLog' \subseteq EvRows
  BY <1>1, <1>2, <1>3
<1>6. QED BY <1>2, <1>3, <1>4, <1>5, AsideKept

\* The rows of a deleted camera stay, without it.
LEMMA CamerasDeletedKept ==
  ASSUME IngestInv, NEW c \in EvCameras, DeleteCamera(c)
  PROVE  IngestInv'
<1>1. /\ egNow \in Nat /\ egSeq \in Nat /\ egCams \subseteq EvCameras /\ egLog \subseteq EvRows
      /\ egMark \subseteq egGot /\ \A e \in egLog : e.fwd => e.id \in egGot
  BY DEF IngestInv, IngestTypes, ForwardsTrue, MarkedMeansDelivered
<1>2. /\ egCams' = egCams \ {c} /\ egLog' = {IF e.cam = c THEN [e EXCEPT !.cam = "none"] ELSE e : e \in egLog}
      /\ UNCHANGED <<egNow, egSeq, egReq, egCache, egIds, egMark, egGot, egAcked, egLogged,
              egFailed, egPut, egSince>>
  BY DEF DeleteCamera
<1>3. ASSUME NEW f \in egLog'
      PROVE  /\ f \in EvRows
             /\ \E e \in egLog : e.id = f.id /\ e.key = f.key /\ e.at = f.at
             /\ f.fwd => f.id \in egGot
  <2>1. PICK e \in egLog : f = IF e.cam = c THEN [e EXCEPT !.cam = "none"] ELSE e
    BY <1>2
  <2>2. CASE e.cam = c
    <3>1. f = [e EXCEPT !.cam = "none"] /\ e \in EvRows
      BY <1>1, <2>1, <2>2
    <3>2. f \in EvRows /\ e.id = f.id /\ e.key = f.key /\ e.at = f.at /\ e.fwd = f.fwd
      BY <3>1 DEF EvRows
    <3>3. QED BY <1>1, <3>2
  <2>3. CASE e.cam # c
    BY <1>1, <2>1, <2>3
  <2>4. QED BY <2>2, <2>3
<1>4. ForwardsTrue'
  BY <1>1, <1>2, <1>3 DEF ForwardsTrue, MarkedMeansDelivered
<1>5. egNow' \in Nat /\ egNow <= egNow' /\ egSeq' \in Nat /\ egCams' \subseteq EvCameras /\ egLog' \subseteq EvRows
  BY <1>1, <1>2, <1>3
<1>6. QED BY <1>2, <1>3, <1>4, <1>5, AsideKept

\* Node-RED accepts an event, or does not.
LEMMA NoderedAnswersKept ==
  ASSUME IngestInv, NEW r \in 1..egIds, NEW ok \in BOOLEAN, NoderedAnswers(r, ok)
  PROVE  IngestInv'
<1>1. /\ egNow \in Nat /\ egSeq \in Nat /\ egCams \subseteq EvCameras /\ egLog \subseteq EvRows
      /\ egMark \subseteq egGot /\ \A e \in egLog : e.fwd => e.id \in egGot
  BY DEF IngestInv, IngestTypes, ForwardsTrue, MarkedMeansDelivered
<1>2. /\ egMark' = IF ok THEN egMark \cup {r} ELSE egMark
      /\ egGot' = IF ok THEN egGot \cup {r} ELSE egGot
      /\ UNCHANGED <<egNow, egSeq, egCams, egReq, egCache, egLog, egIds, egAcked, egLogged,
              egFailed, egPut, egSince>>
  BY DEF NoderedAnswers, egOutside
<1>3. ForwardsTrue'
  BY <1>1, <1>2 DEF ForwardsTrue, MarkedMeansDelivered
<1>4. egNow' \in Nat /\ egNow <= egNow' /\ egSeq' \in Nat /\ egCams' \subseteq EvCameras /\ egLog' \subseteq EvRows
  BY <1>1, <1>2
<1>5. QED BY <1>2, <1>3, <1>4, AsideKept

\* A restart: no row counts for the windows that start then, and what was to be
\* inserted has failed.
LEMMA RestartKept ==
  ASSUME IngestInv, ServerRestart
  PROVE  IngestInv'
<1>1. /\ egReq' = [s \in Slots |-> NoEvent] /\ egMark' = {} /\ egSince' = egIds
      /\ egCache' = <<>>
      /\ egFailed' = egFailed \cup {Fresh(egReq[s]) : s \in {q \in Slots : egReq[q].pc = "insert"}}
      /\ UNCHANGED <<egNow, egCams, egSeq, egLog, egIds, egGot, egAcked, egLogged, egPut>>
  BY DEF ServerRestart
<1>2. IngestTypes /\ egNow \in Nat /\ egIds \in Nat
  BY DEF IngestInv, IngestTypes
<1>3. DOMAIN egCache' = {}
  BY <1>1
<1>4. \A s \in Slots : egReq'[s] = NoEvent /\ ~Pending(s)'
  BY <1>1, NoEventTyped DEF Pending
<1>5. IngestTypes'
  <2>1. egFailed' \subseteq Stamps
    BY <1>1, <1>2 DEF IngestTypes, EvRequests, Stamps, Fresh
  <2>2. egSince' \in 0..egIds'
    BY <1>1, <1>2
  <2>3. egReq' \in [Slots -> EvRequests]
    BY <1>1, NoEventTyped
  <2>4. QED BY <1>1, <1>2, <1>3, <2>1, <2>2, <2>3 DEF IngestTypes
<1>6. SlotsTrue'
  BY <1>1, <1>2, <1>4, NoEventTyped DEF SlotsTrue
<1>7. \A e \in egLog' : ~LiveRow(e)'
  BY <1>1, <1>2 DEF LiveRow, IngestTypes
<1>8. Spaced' /\ Covered'
  BY <1>4, <1>7 DEF Spaced, Covered
<1>9. CacheTrue'
  BY <1>3 DEF CacheTrue
<1>10. Recorded \subseteq Recorded'
  BY <1>1 DEF Recorded
<1>11. AcknowledgedIsLogged'
  BY <1>1, <1>10, AnswersKept DEF IngestInv
<1>12. ForwardsTrue' /\ ControlIsLogged'
  BY <1>1 DEF IngestInv, ForwardsTrue, MarkedMeansDelivered, ControlIsLogged
<1>13. QED BY <1>5, <1>6, <1>8, <1>9, <1>11, <1>12 DEF IngestInv

\* The first state.
LEMMA IngestInitInv == ASSUME IngestInit PROVE IngestInv
<1>1. DOMAIN egCache = {}
  BY DEF IngestInit
<1>2. \A s \in Slots : egReq[s] = NoEvent /\ ~Pending(s)
  BY NoEventTyped DEF IngestInit, Pending
<1>3. IngestTypes /\ SlotsTrue
  BY <1>1, <1>2, NoEventTyped DEF IngestInit, IngestTypes, SlotsTrue
<1>4. Spaced /\ Covered /\ CacheTrue
  BY <1>1, <1>2 DEF IngestInit, Spaced, Covered, CacheTrue
<1>5. AcknowledgedIsLogged /\ ForwardsTrue /\ ControlIsLogged
  BY DEF IngestInit, AcknowledgedIsLogged, ForwardsTrue, MarkedMeansDelivered, ControlIsLogged
<1>6. QED BY <1>3, <1>4, <1>5 DEF IngestInv

\* Every step.
LEMMA IngestNextInv == ASSUME IngestInv, [IngestNext]_egVars PROVE IngestInv'
<1>1. ASSUME NEW s \in Slots, IngestHandler(s)
      PROVE  IngestInv'
  <2>1. CASE Deduplicated(s) \/ Rejected(s)
    BY <2>1, FreedKept
  <2>2. CASE Admit(s)
    BY <2>2, AdmitKept
  <2>3. CASE Insert(s) \/ InsertWithoutCamera(s)
    BY <2>3, RowKept
  <2>4. CASE InsertFails(s)
    BY <2>4, InsertFailsKept
  <2>5. CASE updateActiveLayout(s) \/ proxyIoBoxEventToKiosk(s) \/ NothingToDo(s)
    BY <2>5, StepsOnKept
  <2>6. CASE forward(s)
    BY <2>6, ForwardKept
  <2>7. CASE PushArrive(s) \/ PushNext(s)
    BY <2>7, EnvelopeKept
  <2>8. QED BY <1>1, <2>1, <2>2, <2>3, <2>4, <2>5, <2>6, <2>7 DEF IngestHandler
<1>2. CASE UNCHANGED egVars
  <2>1. ForwardsTrue' /\ egNow \in Nat
    BY <1>2 DEF IngestInv, IngestTypes, ForwardsTrue, MarkedMeansDelivered, egVars, egServer
  <2>2. QED BY <1>2, <2>1, AsideKept DEF IngestInv, IngestTypes, egVars, egServer
<1>3. QED
  BY <1>1, <1>2, ReportsKept, CameraEventsKept, BoxEventsKept, FreedKept, HousekeepingKept,
          RestartKept,
     RowsMarkedKept, NoderedAnswersKept, CamerasDeletedKept DEF IngestNext

\* The invariant implies the claims: two rows are a window apart in the order
\* of their times.
LEMMA IngestInvSafe == ASSUME IngestInv PROVE IngestSafe
<1>1. ASSUME NEW e \in egLog, NEW f \in egLog, e.id # f.id, e.at <= f.at, e.key = f.key,
             e.key.src # "push", {e.id, f.id} \cap (1..egSince) = {}
      PROVE  f.at - e.at >= (IF e.key.src = "io" THEN IoWindow ELSE KioskWindow)
  <2>1. /\ e.id \in 1..egIds /\ f.id \in 1..egIds /\ egIds \in Nat /\ egSince \in Nat
        /\ e.at \in Nat /\ f.at \in Nat
    BY DEF IngestInv, IngestTypes, EvRows
  <2>2. LiveRow(e) /\ LiveRow(f)
    BY <1>1, <2>1 DEF LiveRow
  <2>3. Apart(e.at, f.at, KeyWindow(e.key))
    BY <1>1, <2>2 DEF IngestInv, Spaced
  <2>4. QED BY <1>1, <2>1, <2>3, IngestBounds DEF Apart, KeyWindow
<1>2. OneRowPerWindow
  BY <1>1 DEF OneRowPerWindow
<1>3. QED BY <1>2 DEF IngestInv, IngestSafe, ForwardsTrue

\* However many requests overlap, in whatever order their handlers run, for all
\* windows, and with inserts that fail, cameras that are deleted and restarts of
\* the server: while it runs, one row per key and window; an event answered with
\* ok is in the log or an equal one is, or its insert failed or is outstanding;
\* a row marked as forwarded was accepted; a control that ran is in the log.
THEOREM IngestStaysSafe == IngestSpec => []IngestSafe
<1>1. IngestInit => IngestInv
  BY IngestInitInv
<1>2. IngestInv /\ [IngestNext]_egVars => IngestInv'
  BY IngestNextInv
<1>3. IngestInv => IngestSafe
  BY IngestInvSafe
<1>4. QED BY <1>1, <1>2, <1>3, PTL DEF IngestSpec

-----------------------------------------------------------------------------
(* CloudCameras: the cameras of a vendor's account *)

CloudRows == [id : Nat, cam : Cams, name : CamNames, ent : {0, 1}]
CloudPlaces == {"idle", "list", "select", "write", "entity", "prune", "finish", "failed"}
CloudLists == Seq(Cams \X CamNames)
CloudSyncs == [pc : CloudPlaces, list : CloudLists, i : Nat, row : Nat]

CloudTypes ==
  /\ cvendor \in CloudVendors
  /\ cremote \in [Cams -> CamNames \cup {NoCam}]
  /\ crows \in SUBSET CloudRows
  /\ csync \in [Syncs -> CloudSyncs]
  /\ crowId \in Nat /\ cchanges \in Nat
  /\ crenamed \in BOOLEAN /\ cfailed \in BOOLEAN
  /\ cmoved \in [Syncs -> BOOLEAN]

\* The table's keys: no id and no name twice.
CloudKeys ==
  /\ \A r \in crows : r.id \in 1..crowId
  /\ \A r, q \in crows : r.id = q.id \/ r.name = q.name => r = q

\* While no camera was renamed, one name per camera explains what the vendor
\* has, what it answered and what is stored.
OneName ==
  ~crenamed => \E N \in [Cams -> CamNames] :
    /\ \A c \in Cams : cremote[c] \in {N[c], NoCam}
    /\ \A r \in crows : r.name = N[r.cam]
    /\ \A s \in Syncs : \A k \in DOMAIN csync[s].list : csync[s].list[k][2] = N[csync[s].list[k][1]]

\* The place of a sync in its list.
InList(s) ==
  /\ csync[s].pc = "list" => csync[s].i = 1
  /\ csync[s].pc \in {"select", "write", "entity"} => csync[s].i \in 1..Len(csync[s].list)
  /\ csync[s].pc \in {"prune", "finish"} => csync[s].i = Len(csync[s].list) + 1

\* Nothing else is under way beside a sync that nothing disturbed.
CalmSyncAlone ==
  \A s, t \in Syncs : ~cmoved[s] /\ csync[s].pc # "idle" /\ t # s => csync[t].pc = "idle"

\* The row a sync has read, if it still is, is one of the camera it is about.
RowHeld(s) ==
  csync[s].pc = "write" => /\ csync[s].row <= crowId
                           /\ \A r \in crows : r.id = csync[s].row => r.cam = Cam(s)

Stored(p) == \E r \in crows : <<r.cam, r.name>> = p

\* What such a sync has achieved: the cameras before its place are stored, and
\* what it read still holds.
CalmSyncTrue(s) ==
  /\ csync[s].pc \in {"select", "write", "entity", "prune", "finish"} => csync[s].list \in Listings
  /\ csync[s].pc \in {"select", "write", "entity", "prune", "finish"} =>
       \A j \in 1..(csync[s].i - 1) : Stored(csync[s].list[j])
  /\ csync[s].pc = "write" /\ csync[s].row # 0 => \E r \in crows : r.id = csync[s].row /\ r.cam = Cam(s)
  /\ csync[s].pc = "write" /\ csync[s].row = 0 => RowsOf(Cam(s)) = {}
  /\ csync[s].pc = "entity" => Stored(csync[s].list[csync[s].i])
  /\ csync[s].pc = "finish" => \A r \in crows : r.cam \in Kept(s)

CloudInv ==
  /\ CloudTypes /\ CloudKeys /\ OneName /\ CalmSyncAlone /\ CameraPickable
  /\ \A s \in Syncs : InList(s) /\ RowHeld(s) /\ (~cmoved[s] => CalmSyncTrue(s))

LEMMA PresentTyped ==
  ASSUME CloudTypes
  PROVE  /\ Cardinality(Present) \in Nat /\ Present \subseteq Cams \X CamNames
         /\ \A p \in Present : p[2] = cremote[p[1]]
<1> DEFINE has == {c \in Cams : cremote[c] # NoCam}
           f == [c \in has |-> <<c, cremote[c]>>]
<1>1. IsFiniteSet(has)
  BY FS_Subset, CloudAssumption DEF CloudAssumption
<1>2. Present \subseteq Cams \X CamNames /\ \A p \in Present : p[2] = cremote[p[1]]
  BY DEF Present, CloudTypes
<1>3. f \in Surjection(has, Present)
  BY DEF Present, Surjection
<1>4. IsFiniteSet(Present)
  BY <1>1, <1>3, FS_Surjection
<1> QED
  BY <1>2, <1>4, FS_CardinalityType

LEMMA ListingsTyped ==
  ASSUME CloudTypes, NEW l \in Listings
  PROVE  /\ l \in CloudLists /\ Len(l) = Cardinality(Present) /\ Len(l) \in Nat /\ DOMAIN l = 1..Len(l)
         /\ \A k \in 1..Len(l) : l[k] \in Present
         /\ \A p \in Present : \E k \in 1..Len(l) : l[k] = p
<1> DEFINE n == Cardinality(Present)
<1>1. n \in Nat /\ Present \subseteq Cams \X CamNames
  BY PresentTyped
<1>2. l \in [1..n -> Present] /\ \A p \in Present : \E k \in DOMAIN l : l[k] = p
  BY DEF Listings
<1> HIDE DEF n
<1>3. l \in Seq(Present) /\ Len(l) = n
  BY <1>1, <1>2
<1>4. l \in CloudLists
  BY <1>1, <1>2 DEF CloudLists
<1> QED
  BY <1>1, <1>2, <1>3, <1>4 DEF n

LEMMA AnswersTyped ==
  ASSUME CloudTypes, NEW a \in listCameras, a # Throws
  PROVE  a \in CloudLists
<1>1. <<>> \in CloudLists
  BY DEF CloudLists
<1>2. <<<<1, DefaultName>>>> \in CloudLists
  <2>1. DefaultName \in CamNames
    BY CloudAssumption DEF DefaultName, CloudAssumption
  <2>2. <<1, DefaultName>> \in Cams \X CamNames
    BY <2>1, CloudAssumption DEF CloudAssumption
  <2> QED
    BY <2>2 DEF CloudLists
<1>3. FirstPages \subseteq CloudLists
  <2> SUFFICES ASSUME NEW p \in FirstPages PROVE p \in CloudLists
    OBVIOUS
  <2>0. PICK l \in Listings : p \in {SubSeq(l, 1, n) : n \in 0..Len(l)}
    BY DEF FirstPages
  <2>b. PICK n \in 0..Len(l) : p = SubSeq(l, 1, n)
    BY <2>0
  <2>1. /\ l \in Seq(Cams \X CamNames) /\ n \in Nat /\ n <= Len(l) /\ Len(l) \in Nat
    <3>1. l \in CloudLists /\ Len(l) = Cardinality(Present) /\ Len(l) \in Nat
      BY ListingsTyped
    <3> QED
      BY <3>1 DEF CloudLists
  <2> QED
    BY <2>b, <2>1 DEF CloudLists
<1>4. Listings \subseteq CloudLists
  BY ListingsTyped
<1>5. cvendor \in {"hikconnect", "ezviz", "eagle_eye", "tuya", "dahua", "uniview", "tplink", "reolink"}
  BY CloudAssumption DEF CloudTypes, CloudAssumption
<1>6. listCameras \subseteq FirstPages \cup Listings \cup {<<>>, <<<<1, DefaultName>>>>, Throws}
  BY <1>5 DEF listCameras, HikConnectList, EzvizList, EagleEyeList, TuyaList, DahuaList, UniviewList,
              TpLinkList, ReolinkList
<1> QED
  BY <1>1, <1>2, <1>3, <1>4, <1>6

\* A step of one sync sets the fields of its request.
SyncSet(s, pc, list, i, row) ==
  /\ \A t \in Syncs \ {s} : csync'[t] = csync[t]
  /\ csync'[s].pc = pc /\ csync'[s].list = list /\ csync'[s].i = i /\ csync'[s].row = row
  /\ csync' \in [Syncs -> CloudSyncs]

LEMMA SyncForms ==
  ASSUME NEW s \in Syncs, csync \in [Syncs -> CloudSyncs]
  PROVE  LET x == csync[s] IN
         /\ x.pc \in CloudPlaces /\ x.list \in CloudLists /\ x.i \in Nat /\ x.row \in Nat
         /\ \A pc \in CloudPlaces :
              csync' = [csync EXCEPT ![s].pc = pc] => SyncSet(s, pc, x.list, x.i, x.row)
         /\ \A pc \in CloudPlaces, a \in CloudLists :
              csync' = [csync EXCEPT ![s].list = a, ![s].pc = pc] => SyncSet(s, pc, a, x.i, x.row)
         /\ \A pc \in CloudPlaces, row \in Nat :
              csync' = [csync EXCEPT ![s].row = row, ![s].pc = pc] => SyncSet(s, pc, x.list, x.i, row)
         /\ \A pc \in CloudPlaces, row \in Nat :
              csync' = [csync EXCEPT ![s].pc = pc, ![s].row = row] => SyncSet(s, pc, x.list, x.i, row)
         /\ \A pc \in CloudPlaces :
              csync' = [csync EXCEPT ![s].pc = pc, ![s].i = @ + 1]
                => SyncSet(s, pc, x.list, x.i + 1, x.row)
<1> DEFINE x == csync[s]
<1>1. x \in CloudSyncs /\ x.pc \in CloudPlaces /\ x.list \in CloudLists /\ x.i \in Nat /\ x.row \in Nat
  BY DEF CloudSyncs
<1>2. ASSUME NEW pc \in CloudPlaces, csync' = [csync EXCEPT ![s].pc = pc]
      PROVE  SyncSet(s, pc, x.list, x.i, x.row)
  <2>1. csync'[s] = [x EXCEPT !.pc = pc] /\ \A t \in Syncs \ {s} : csync'[t] = csync[t]
    BY <1>2
  <2>2. csync' \in [Syncs -> CloudSyncs]
    BY <1>1, <1>2 DEF CloudSyncs
  <2> QED
    BY <1>1, <2>1, <2>2 DEF CloudSyncs, SyncSet
<1>3. ASSUME NEW pc \in CloudPlaces, NEW a \in CloudLists,
             csync' = [csync EXCEPT ![s].list = a, ![s].pc = pc]
      PROVE  SyncSet(s, pc, a, x.i, x.row)
  <2> DEFINE y == [x EXCEPT !.list = a, !.pc = pc]
  <2>1. y \in CloudSyncs /\ y.pc = pc /\ y.list = a /\ y.i = x.i /\ y.row = x.row
    BY <1>1 DEF CloudSyncs
  <2>2. csync' = [csync EXCEPT ![s] = y]
    BY <1>3
  <2> HIDE DEF y
  <2> QED
    BY <2>1, <2>2 DEF SyncSet
<1>4. ASSUME NEW pc \in CloudPlaces, NEW row \in Nat,
             csync' = [csync EXCEPT ![s].row = row, ![s].pc = pc]
      PROVE  SyncSet(s, pc, x.list, x.i, row)
  <2> DEFINE y == [x EXCEPT !.row = row, !.pc = pc]
  <2>1. y \in CloudSyncs /\ y.pc = pc /\ y.list = x.list /\ y.i = x.i /\ y.row = row
    BY <1>1 DEF CloudSyncs
  <2>2. csync' = [csync EXCEPT ![s] = y]
    BY <1>4
  <2> HIDE DEF y
  <2> QED
    BY <2>1, <2>2 DEF SyncSet
<1>5. ASSUME NEW pc \in CloudPlaces, NEW row \in Nat,
             csync' = [csync EXCEPT ![s].pc = pc, ![s].row = row]
      PROVE  SyncSet(s, pc, x.list, x.i, row)
  <2> DEFINE y == [x EXCEPT !.pc = pc, !.row = row]
  <2>1. y \in CloudSyncs /\ y.pc = pc /\ y.list = x.list /\ y.i = x.i /\ y.row = row
    BY <1>1 DEF CloudSyncs
  <2>2. csync' = [csync EXCEPT ![s] = y]
    BY <1>5
  <2> HIDE DEF y
  <2> QED
    BY <2>1, <2>2 DEF SyncSet
<1>6. ASSUME NEW pc \in CloudPlaces, csync' = [csync EXCEPT ![s].pc = pc, ![s].i = @ + 1]
      PROVE  SyncSet(s, pc, x.list, x.i + 1, x.row)
  <2> DEFINE j == x.i + 1
             y == [x EXCEPT !.pc = pc, !.i = j]
  <2>0. j \in Nat
    BY <1>1
  <2>2. csync'[s] = y /\ \A t \in Syncs \ {s} : csync'[t] = csync[t]
    BY <1>6
  <2> HIDE DEF j
  <2>1. y \in CloudSyncs /\ y.pc = pc /\ y.list = x.list /\ y.i = j /\ y.row = x.row
    BY <1>1, <2>0 DEF CloudSyncs
  <2>3. csync' = [t \in Syncs |-> csync'[t]]
    BY <1>6
  <2> HIDE DEF y
  <2>4. csync' \in [Syncs -> CloudSyncs]
    BY <2>1, <2>2, <2>3
  <2> QED
    BY <2>1, <2>2, <2>4 DEF SyncSet, j
<1> QED
  BY <1>1, <1>2, <1>3, <1>4, <1>5, <1>6

LEMMA VendorSame ==
  ASSUME cremote' = cremote
  PROVE  Present' = Present /\ Listings' = Listings
BY DEF Present, Listings

\* A step of one sync concerns no other one that is calm: there is none.
LEMMA SyncActs ==
  ASSUME CloudInv, NEW s \in Syncs, csync[s].pc # "idle",
         \A t \in Syncs \ {s} : csync'[t] = csync[t],
         \A t \in Syncs : ~cmoved'[t] => ~cmoved[t],
         crowId' \in Nat, crowId <= crowId',
         \A r \in crows' : r.id > crowId \/ \E q \in crows : q.id = r.id /\ q.cam = r.cam,
         InList(s)', RowHeld(s)', ~cmoved'[s] => CalmSyncTrue(s)'
  PROVE  CalmSyncAlone' /\ \A t \in Syncs : InList(t)' /\ RowHeld(t)' /\ (~cmoved'[t] => CalmSyncTrue(t)')
<1>1. \A t \in Syncs \ {s} : ~cmoved'[t] => csync[t].pc = "idle"
  BY DEF CloudInv, CalmSyncAlone
<1>2. CalmSyncAlone'
  BY <1>1 DEF CloudInv, CalmSyncAlone
<1>3. \A t \in Syncs \ {s} : InList(t)'
  BY DEF CloudInv, InList
<1>4. \A t \in Syncs \ {s} : ~cmoved'[t] => CalmSyncTrue(t)'
  BY <1>1 DEF CalmSyncTrue
<1>5. ASSUME NEW t \in Syncs \ {s} PROVE RowHeld(t)'
  <2>1. csync[t].row \in Nat /\ crowId \in Nat /\ csync'[t] = csync[t] /\ RowHeld(t)
    BY SyncForms DEF CloudInv, CloudTypes
  <2>2. Cam(t)' = Cam(t)
    BY DEF Cam
  <2> QED
    BY <2>1, <2>2 DEF RowHeld, CloudInv, CloudKeys
<1> QED
  BY <1>2, <1>3, <1>4, <1>5

\* A step that leaves the rows alone and gives a sync no other list.
LEMMA RowsSame ==
  ASSUME CloudInv, NEW s \in Syncs, UNCHANGED <<crows, cremote, crowId>>,
         crenamed => crenamed', cfailed => cfailed',
         csync[s].pc = "entity" => cfailed',
         \A t \in Syncs \ {s} : csync'[t] = csync[t],
         csync'[s].list \in {csync[s].list, <<>>}
  PROVE  CloudKeys' /\ OneName' /\ CameraPickable'
<1>1. CloudKeys'
  BY DEF CloudInv, CloudKeys
<1>2. OneName'
  <2> SUFFICES ASSUME ~crenamed' PROVE OneName'
    BY DEF OneName
  <2>1. PICK N \in [Cams -> CamNames] :
          /\ \A c \in Cams : cremote[c] \in {N[c], NoCam}
          /\ \A r \in crows : r.name = N[r.cam]
          /\ \A t \in Syncs : \A k \in DOMAIN csync[t].list : csync[t].list[k][2] = N[csync[t].list[k][1]]
    BY DEF CloudInv, OneName
  <2>2. \A t \in Syncs : \A k \in DOMAIN csync'[t].list : csync'[t].list[k][2] = N[csync'[t].list[k][1]]
    BY <2>1
  <2> QED
    BY <2>1, <2>2 DEF OneName
<1>3. CameraPickable'
  BY DEF CloudInv, CameraPickable
<1> QED
  BY <1>1, <1>2, <1>3

\* Nothing about cameras changes.
LEMMA CloudSame ==
  ASSUME CloudInv, UNCHANGED <<cvendor, cremote, crows, csync, crowId, cchanges, crenamed, cfailed>>,
         cmoved' \in [Syncs -> BOOLEAN], \A t \in Syncs : ~cmoved'[t] => ~cmoved[t]
  PROVE  CloudInv'
<1>1. CloudTypes'
  BY DEF CloudInv, CloudTypes
<1>2. CloudKeys' /\ OneName' /\ CameraPickable' /\ CalmSyncAlone'
  BY DEF CloudInv, CloudKeys, OneName, CameraPickable, CalmSyncAlone
<1>3. ASSUME NEW t \in Syncs PROVE InList(t)' /\ RowHeld(t)' /\ (~cmoved'[t] => CalmSyncTrue(t)')
  <2>1. InList(t) /\ RowHeld(t) /\ (~cmoved'[t] => CalmSyncTrue(t))
    BY DEF CloudInv
  <2>2. InList(t)' /\ RowHeld(t)'
    BY <2>1 DEF InList, RowHeld, Cam
  <2>3. Stored(csync[t].list[csync[t].i])' <=> Stored(csync[t].list[csync[t].i])
    BY DEF Stored
  <2>4. \A j \in 1..(csync[t].i - 1) : Stored(csync[t].list[j])' <=> Stored(csync[t].list[j])
    BY DEF Stored
  <2>5. Kept(t)' = Kept(t) /\ Cam(t)' = Cam(t) /\ RowsOf(Cam(t))' = RowsOf(Cam(t))
    BY DEF Kept, Cam, RowsOf
  <2>6. (~cmoved'[t] => CalmSyncTrue(t)')
    BY <2>1, <2>3, <2>4, <2>5, VendorSame DEF CalmSyncTrue
  <2> QED
    BY <2>2, <2>6
<1> QED
  BY <1>1, <1>2, <1>3 DEF CloudInv

LEMMA SyncStartKept ==
  ASSUME CloudInv, NEW s \in Syncs, SyncStart(s)
  PROVE  CloudInv'
<1> DEFINE x == [IdleSync EXCEPT !.pc = "list"]
<1>1. /\ csync[s].pc = "idle" /\ csync' = [csync EXCEPT ![s] = x]
      /\ cmoved' = [t \in Syncs |-> IF t = s THEN \E u \in Syncs : csync[u].pc # "idle" ELSE TRUE]
      /\ UNCHANGED <<cvendor, cremote, crows, crowId, cchanges, crenamed, cfailed>>
  BY DEF SyncStart
<1>2. x \in CloudSyncs /\ x.pc = "list" /\ x.list = <<>> /\ x.i = 1
  <2>1. <<>> \in CloudLists
    BY DEF CloudLists
  <2>2. x = [pc |-> "list", list |-> <<>>, i |-> 1, row |-> 0]
    BY DEF IdleSync
  <2> QED
    BY <2>1, <2>2 DEF CloudSyncs, CloudPlaces
<1> HIDE DEF x
<1>3. /\ \A t \in Syncs \ {s} : csync'[t] = csync[t]
      /\ csync'[s] = x /\ csync' \in [Syncs -> CloudSyncs]
  BY <1>1, <1>2 DEF CloudInv, CloudTypes
<1>4. CloudTypes'
  <2>1. cmoved' \in [Syncs -> BOOLEAN]
    BY <1>1
  <2> QED
    BY <1>1, <1>3, <2>1 DEF CloudInv, CloudTypes
<1>5. CloudKeys' /\ OneName' /\ CameraPickable'
  BY <1>1, <1>2, <1>3, RowsSame
<1>6. CalmSyncAlone'
  BY <1>1, <1>3 DEF CalmSyncAlone
<1>7. \A t \in Syncs : InList(t)' /\ RowHeld(t)'
  BY <1>1, <1>2, <1>3 DEF CloudInv, InList, RowHeld, Cam
<1>8. \A t \in Syncs : ~cmoved'[t] => CalmSyncTrue(t)'
  BY <1>1, <1>2, <1>3 DEF CalmSyncTrue
<1> QED
  BY <1>4, <1>5, <1>6, <1>7, <1>8 DEF CloudInv

LEMMA SyncListKept ==
  ASSUME CloudInv, NEW s \in Syncs, SyncList(s)
  PROVE  CloudInv'
<1> DEFINE x == csync[s]
<1>1. PICK a \in listCameras :
        /\ cchanges' = cchanges + (IF a \in Listings THEN 0 ELSE 1)
        /\ IF a = Throws THEN Goto(s, "failed")
           ELSE csync' = [csync EXCEPT ![s].list = a, ![s].pc = IF a = <<>> THEN "prune" ELSE "select"]
        /\ cmoved' = [cmoved EXCEPT ![s] = @ \/ a \notin Listings]
        /\ crenamed' = (crenamed \/ (a # Throws /\ \E k \in DOMAIN a : a[k][2] # cremote[a[k][1]]))
  BY DEF SyncList
<1>2. x.pc = "list" /\ UNCHANGED <<cvendor, cremote, crows, crowId, cfailed>>
  BY DEF SyncList
<1>3. csync \in [Syncs -> CloudSyncs] /\ CloudTypes /\ InList(s)
  BY DEF CloudInv, CloudTypes
<1>4. x.list \in CloudLists /\ x.i = 1 /\ x.row \in Nat
  BY <1>2, <1>3, SyncForms DEF InList
<1>5. CASE a = Throws
  <2>1. SyncSet(s, "failed", x.list, x.i, x.row)
    BY <1>1, <1>3, <1>5, SyncForms DEF Goto, CloudPlaces
  <2>2. CloudTypes'
    BY <1>1, <1>2, <1>3, <2>1 DEF CloudTypes, SyncSet
  <2>3. CloudKeys' /\ OneName' /\ CameraPickable'
    BY <1>1, <1>2, <2>1, RowsSame DEF SyncSet
  <2>4. InList(s)' /\ RowHeld(s)' /\ CalmSyncTrue(s)'
    BY <2>1 DEF SyncSet, InList, RowHeld, CalmSyncTrue
  <2>5. \A t \in Syncs : ~cmoved'[t] => ~cmoved[t]
    BY <1>1, <1>3 DEF CloudTypes
  <2> QED
    BY <1>2, <2>1, <2>2, <2>3, <2>4, <2>5, SyncActs DEF SyncSet, CloudInv, CloudTypes
<1>6. CASE a # Throws
  <2> DEFINE pc == IF a = <<>> THEN "prune" ELSE "select"
  <2>1. a \in CloudLists /\ pc \in CloudPlaces
    BY <1>3, <1>6, AnswersTyped DEF CloudPlaces
  <2>2. csync' = [csync EXCEPT ![s].list = a, ![s].pc = pc]
    BY <1>1, <1>6
  <2> HIDE DEF pc
  <2>3. SyncSet(s, pc, a, x.i, x.row)
    BY <1>3, <2>1, <2>2, SyncForms
  <2>4. /\ a \in Seq(Cams \X CamNames) /\ Len(a) \in Nat /\ DOMAIN a = 1..Len(a)
        /\ a # <<>> => Len(a) >= 1
        /\ a = <<>> => Len(a) = 0
    BY <2>1 DEF CloudLists
  <2>5. CloudTypes'
    BY <1>1, <1>2, <1>3, <2>3 DEF CloudTypes, SyncSet
  <2>6. CloudKeys' /\ CameraPickable'
    BY <1>2, <2>3 DEF CloudInv, CloudKeys, CameraPickable, SyncSet
  <2>7. OneName'
    <3> SUFFICES ASSUME ~crenamed' PROVE OneName'
      BY DEF OneName
    <3>1. ~crenamed /\ \A k \in DOMAIN a : a[k][2] = cremote[a[k][1]]
      BY <1>1, <1>6
    <3>2. PICK N \in [Cams -> CamNames] :
            /\ \A c \in Cams : cremote[c] \in {N[c], NoCam}
            /\ \A r \in crows : r.name = N[r.cam]
            /\ \A t \in Syncs : \A k \in DOMAIN csync[t].list : csync[t].list[k][2] = N[csync[t].list[k][1]]
      BY <3>1 DEF CloudInv, OneName
    <3>3. \A k \in DOMAIN a : a[k][1] \in Cams /\ a[k][2] \in CamNames
      BY <2>4
    <3>4. \A k \in DOMAIN a : a[k][2] = N[a[k][1]]
      BY <3>1, <3>2, <3>3, CloudAssumption DEF CloudAssumption
    <3>5. \A t \in Syncs : \A k \in DOMAIN csync'[t].list : csync'[t].list[k][2] = N[csync'[t].list[k][1]]
      BY <2>3, <3>2, <3>4 DEF SyncSet
    <3> QED
      BY <1>2, <3>2, <3>5 DEF OneName
  <2>8. InList(s)' /\ RowHeld(s)'
    BY <1>4, <2>3, <2>4 DEF SyncSet, InList, RowHeld, pc
  <2>9. ~cmoved'[s] => CalmSyncTrue(s)'
    <3> SUFFICES ASSUME ~cmoved'[s] PROVE CalmSyncTrue(s)'
      OBVIOUS
    <3>1. a \in Listings
      BY <1>1, <1>3 DEF CloudTypes
    <3> QED
      BY <1>2, <1>4, <2>3, <3>1, VendorSame DEF CalmSyncTrue, SyncSet, pc
  <2>10. \A t \in Syncs : ~cmoved'[t] => ~cmoved[t]
    BY <1>1, <1>3 DEF CloudTypes
  <2> QED
    BY <1>2, <2>3, <2>5, <2>6, <2>7, <2>8, <2>9, <2>10, SyncActs DEF SyncSet, CloudInv, CloudTypes
<1> QED
  BY <1>5, <1>6

\* What a sync knows of the camera its place names.
LEMMA PlaceTyped ==
  ASSUME CloudInv, NEW s \in Syncs, csync[s].pc \in {"select", "write", "entity"}
  PROVE  LET x == csync[s] IN
         /\ Len(x.list) \in Nat /\ x.i \in 1..Len(x.list) /\ DOMAIN x.list = 1..Len(x.list)
         /\ \A j \in 1..Len(x.list) : x.list[j] \in Cams \X CamNames
         /\ x.list[x.i] = <<Cam(s), Name(s)>> /\ Cam(s) \in Cams /\ Name(s) \in CamNames
<1>1. csync \in [Syncs -> CloudSyncs] /\ InList(s)
  BY DEF CloudInv, CloudTypes
<1>2. csync[s].list \in Seq(Cams \X CamNames)
  BY <1>1, SyncForms DEF CloudLists
<1> QED
  BY <1>1, <1>2 DEF InList, Cam, Name

LEMMA UpsertSelectKept ==
  ASSUME CloudInv, NEW s \in Syncs, UpsertSelect(s)
  PROVE  CloudInv'
<1> DEFINE x == csync[s]
<1>1. PICK r \in RowsOf(Cam(s)) \cup {[id |-> 0, cam |-> Cam(s), name |-> Name(s), ent |-> 0]} :
        /\ (r.id = 0) <=> (RowsOf(Cam(s)) = {})
        /\ csync' = [csync EXCEPT ![s].row = r.id, ![s].pc = "write"]
  BY DEF UpsertSelect
<1>2. x.pc = "select" /\ UNCHANGED <<cvendor, cremote, crows, crowId, cchanges, crenamed, cfailed, cmoved>>
  BY DEF UpsertSelect, Calm
<1>3. csync \in [Syncs -> CloudSyncs] /\ CloudTypes /\ InList(s) /\ CloudKeys /\ crowId \in Nat
  BY DEF CloudInv, CloudTypes
<1>4. /\ r.id \in Nat /\ r.id <= crowId /\ r.cam = Cam(s)
      /\ r.id # 0 => r \in crows
      /\ r.id = 0 => RowsOf(Cam(s)) = {}
      /\ \A q \in crows : q.id = r.id => q.cam = Cam(s)
  BY <1>1, <1>3 DEF RowsOf, CloudKeys
<1>5. SyncSet(s, "write", x.list, x.i, r.id)
  BY <1>1, <1>3, <1>4, SyncForms DEF CloudPlaces
<1>6. CloudTypes'
  BY <1>2, <1>3, <1>5 DEF CloudTypes, SyncSet
<1>7. CloudKeys' /\ OneName' /\ CameraPickable'
  BY <1>2, <1>5, RowsSame DEF SyncSet
<1>8. Cam(s)' = Cam(s) /\ RowsOf(Cam(s))' = RowsOf(Cam(s))
  BY <1>2, <1>5 DEF SyncSet, Cam, RowsOf
<1>9. InList(s)' /\ RowHeld(s)'
  BY <1>2, <1>3, <1>4, <1>5, <1>8 DEF SyncSet, InList, RowHeld
<1>10. ~cmoved'[s] => CalmSyncTrue(s)'
  <2> SUFFICES ASSUME ~cmoved'[s] PROVE CalmSyncTrue(s)'
    OBVIOUS
  <2>1. CalmSyncTrue(s)
    BY <1>2 DEF CloudInv
  <2>2. x.list \in Listings' /\ \A j \in 1..(x.i - 1) : Stored(x.list[j])
    <3>1. x.list \in Listings /\ \A j \in 1..(x.i - 1) : Stored(x.list[j])
      BY <1>2, <2>1 DEF CalmSyncTrue
    <3>2. Listings' = Listings
      BY <1>2, VendorSame
    <3> QED
      BY <3>1, <3>2
  <2>4. /\ csync'[s].pc = "write" /\ csync'[s].list = x.list /\ csync'[s].i = x.i /\ csync'[s].row = r.id
    BY <1>5 DEF SyncSet
  <2>5. \A j \in 1..(csync'[s].i - 1) : Stored(csync[s].list[j])'
    BY <1>2, <2>2, <2>4 DEF Stored
  <2>6. (r.id # 0 => \E q \in crows' : q.id = r.id /\ q.cam = Cam(s)') /\ (r.id = 0 => RowsOf(Cam(s))' = {})
    BY <1>2, <1>4, <1>8
  <2> QED
    BY <2>2, <2>4, <2>5, <2>6 DEF CalmSyncTrue
<1> QED
  BY <1>2, <1>3, <1>5, <1>6, <1>7, <1>9, <1>10, SyncActs DEF SyncSet, CloudInv, CloudTypes

\* A sync that fails, or is over, has nothing more to keep.
LEMMA SyncEnds ==
  ASSUME CloudInv, NEW s \in Syncs, csync[s].pc # "idle",
         UNCHANGED <<cvendor, cremote, crows, crowId, crenamed>>,
         cchanges' \in Nat, cfailed' \in BOOLEAN, cfailed => cfailed', csync[s].pc = "entity" => cfailed',
         cmoved' \in [Syncs -> BOOLEAN], \A t \in Syncs : ~cmoved'[t] => ~cmoved[t],
         csync' \in [Syncs -> CloudSyncs], \A t \in Syncs \ {s} : csync'[t] = csync[t],
         csync'[s].pc \in {"idle", "failed"}, csync'[s].list \in {csync[s].list, <<>>}
  PROVE  CloudInv'
<1>1. CloudTypes'
  BY DEF CloudInv, CloudTypes
<1>2. CloudKeys' /\ OneName' /\ CameraPickable'
  BY RowsSame
<1>3. InList(s)' /\ RowHeld(s)' /\ CalmSyncTrue(s)'
  BY DEF InList, RowHeld, CalmSyncTrue
<1>4. crowId \in Nat
  BY DEF CloudInv, CloudTypes
<1> QED
  BY <1>1, <1>2, <1>3, <1>4, SyncActs DEF CloudInv

\* Disturb(s) leaves no other sync calm.
LEMMA DisturbTyped ==
  ASSUME CloudInv, NEW s \in Syncs, Disturb(s)
  PROVE  /\ cmoved' \in [Syncs -> BOOLEAN] /\ cmoved'[s] = cmoved[s]
         /\ \A t \in Syncs : ~cmoved'[t] => ~cmoved[t]
BY DEF CloudInv, CloudTypes, Disturb

LEMMA updateCloudAccountKept ==
  ASSUME CloudInv, NEW s \in Syncs, updateCloudAccount(s)
  PROVE  CloudInv'
<1>1. /\ csync[s].pc \in {"finish", "failed"} /\ csync' = [csync EXCEPT ![s] = IdleSync] /\ Disturb(s)
      /\ UNCHANGED <<cvendor, cremote, crows, crowId, cchanges, crenamed, cfailed>>
  BY DEF updateCloudAccount
<1>2. CloudTypes
  BY DEF CloudInv
<1>3. IdleSync \in CloudSyncs /\ IdleSync.pc = "idle" /\ IdleSync.list = <<>>
  <2>1. <<>> \in CloudLists
    BY DEF CloudLists
  <2> QED
    BY <2>1 DEF IdleSync, CloudSyncs, CloudPlaces
<1>4. csync' \in [Syncs -> CloudSyncs] /\ csync'[s] = IdleSync /\ \A t \in Syncs \ {s} : csync'[t] = csync[t]
  BY <1>1, <1>2, <1>3 DEF CloudTypes
<1>5. cchanges' \in Nat /\ cfailed' \in BOOLEAN /\ cfailed' = cfailed
  BY <1>1, <1>2 DEF CloudTypes
<1> QED
  BY <1>1, <1>3, <1>4, <1>5, DisturbTyped, SyncEnds

LEMMA StatementFailsKept ==
  ASSUME CloudInv, NEW s \in Syncs, StatementFails(s)
  PROVE  CloudInv'
<1>1. /\ csync[s].pc # "idle" /\ csync' = [csync EXCEPT ![s].pc = "failed"]
      /\ cchanges' = cchanges + 1 /\ cfailed' = TRUE
      /\ UNCHANGED <<cvendor, cremote, crows, crowId, crenamed, cmoved>>
  BY DEF StatementFails, Goto, Calm
<1>2. csync \in [Syncs -> CloudSyncs] /\ cchanges \in Nat /\ cmoved \in [Syncs -> BOOLEAN]
  BY DEF CloudInv, CloudTypes
<1>3. SyncSet(s, "failed", csync[s].list, csync[s].i, csync[s].row)
  BY <1>1, <1>2, SyncForms DEF CloudPlaces
<1> QED
  BY <1>1, <1>2, <1>3, SyncEnds DEF SyncSet

LEMMA VendorChangesKept ==
  ASSUME CloudInv, NEW c \in Cams, NEW n \in CamNames \cup {NoCam}, VendorChanges(c, n)
  PROVE  CloudInv'
<1>1. /\ cremote' = [cremote EXCEPT ![c] = n] /\ cchanges' = cchanges + 1
      /\ crenamed' = (crenamed \/ n # NoCam) /\ cmoved' = [s \in Syncs |-> TRUE]
      /\ UNCHANGED <<cvendor, crows, csync, crowId, cfailed>>
  BY DEF VendorChanges
<1>2. CloudTypes'
  BY <1>1 DEF CloudInv, CloudTypes
<1>3. CloudKeys' /\ CameraPickable' /\ CalmSyncAlone'
  BY <1>1 DEF CloudInv, CloudKeys, CameraPickable, CalmSyncAlone
<1>4. OneName'
  <2> SUFFICES ASSUME ~crenamed' PROVE OneName'
    BY DEF OneName
  <2>1. PICK N \in [Cams -> CamNames] :
          /\ \A d \in Cams : cremote[d] \in {N[d], NoCam}
          /\ \A r \in crows : r.name = N[r.cam]
          /\ \A t \in Syncs : \A k \in DOMAIN csync[t].list : csync[t].list[k][2] = N[csync[t].list[k][1]]
    BY <1>1 DEF CloudInv, OneName
  <2>2. \A d \in Cams : cremote'[d] \in {N[d], NoCam}
    BY <1>1, <2>1 DEF CloudInv, CloudTypes
  <2> QED
    BY <1>1, <2>1, <2>2 DEF OneName
<1>5. \A s \in Syncs : InList(s)' /\ RowHeld(s)' /\ cmoved'[s]
  BY <1>1 DEF CloudInv, InList, RowHeld, Cam
<1> QED
  BY <1>2, <1>3, <1>4, <1>5 DEF CloudInv

\* What stays stored when a statement of a sync has changed the rows.
LEMMA StoredOn ==
  ASSUME CloudInv, NEW s \in Syncs, CalmSyncTrue(s), UNCHANGED cremote,
         csync[s].pc \in {"select", "write", "entity", "prune", "finish"},
         csync'[s].list = csync[s].list, \A p \in Present : Stored(p) => Stored(p)'
  PROVE  /\ csync'[s].list \in Listings' /\ Len(csync[s].list) \in Nat
         /\ \A j \in 1..Len(csync[s].list) : csync[s].list[j] \in Present
         /\ \A j \in 1..(csync[s].i - 1) : Stored(csync[s].list[j])'
<1> DEFINE l == csync[s].list
<1>1. l \in Listings /\ \A j \in 1..(csync[s].i - 1) : Stored(l[j])
  BY DEF CalmSyncTrue
<1>2. Len(l) \in Nat /\ \A j \in 1..Len(l) : l[j] \in Present
  BY <1>1, ListingsTyped DEF CloudInv
<1>3. csync[s].i \in Nat /\ csync[s].i <= Len(l) + 1
  BY <1>2, SyncForms DEF CloudInv, CloudTypes, InList
<1>4. \A j \in 1..(csync[s].i - 1) : j \in 1..Len(l)
  BY <1>2, <1>3
<1>5. \A j \in 1..(csync[s].i - 1) : Stored(l[j])'
  BY <1>1, <1>2, <1>4
<1> QED
  BY <1>1, <1>2, <1>5, VendorSame

LEMMA pruneKept ==
  ASSUME CloudInv, NEW s \in Syncs, deleteCloudCamerasNotIn(s)
  PROVE  CloudInv'
<1> DEFINE x == csync[s]
<1>1. /\ x.pc = "prune" /\ crows' = {r \in crows : r.cam \in Kept(s)}
      /\ csync' = [csync EXCEPT ![s].pc = "finish"] /\ Disturb(s)
      /\ UNCHANGED <<cvendor, cremote, crowId, cchanges, crenamed, cfailed>>
  BY DEF deleteCloudCamerasNotIn, Goto
<1>2. csync \in [Syncs -> CloudSyncs] /\ CloudTypes /\ crowId \in Nat /\ InList(s)
  BY DEF CloudInv, CloudTypes
<1>3. SyncSet(s, "finish", x.list, x.i, x.row)
  BY <1>1, <1>2, SyncForms DEF CloudPlaces
<1>4. crows' \subseteq crows
  BY <1>1
<1>5. CloudTypes'
  BY <1>1, <1>2, <1>3, <1>4, DisturbTyped DEF CloudTypes, SyncSet
<1>6. CloudKeys' /\ CameraPickable'
  BY <1>1, <1>3, <1>4 DEF CloudInv, CloudKeys, CameraPickable, SyncSet
<1>7. OneName'
  <2> SUFFICES ASSUME ~crenamed' PROVE OneName'
    BY DEF OneName
  <2>1. PICK N \in [Cams -> CamNames] :
          /\ \A d \in Cams : cremote[d] \in {N[d], NoCam}
          /\ \A r \in crows : r.name = N[r.cam]
          /\ \A t \in Syncs : \A k \in DOMAIN csync[t].list : csync[t].list[k][2] = N[csync[t].list[k][1]]
    BY <1>1 DEF CloudInv, OneName
  <2>2. \A t \in Syncs : \A k \in DOMAIN csync'[t].list : csync'[t].list[k][2] = N[csync'[t].list[k][1]]
    BY <1>3, <2>1 DEF SyncSet
  <2> QED
    BY <1>1, <1>4, <2>1, <2>2 DEF OneName
<1>8. InList(s)' /\ RowHeld(s)'
  BY <1>1, <1>2, <1>3 DEF SyncSet, InList, RowHeld
<1>9. ~cmoved'[s] => CalmSyncTrue(s)'
  <2> SUFFICES ASSUME ~cmoved'[s] PROVE CalmSyncTrue(s)'
    OBVIOUS
  <2>1. CalmSyncTrue(s)
    BY <1>1, DisturbTyped DEF CloudInv
  <2>2. x.list \in Listings /\ x.i = Len(x.list) + 1 /\ \A j \in 1..(x.i - 1) : Stored(x.list[j])
    BY <1>1, <1>2, <2>1 DEF CalmSyncTrue, InList
  <2>3. Len(x.list) \in Nat /\ DOMAIN x.list = 1..Len(x.list)
    BY <1>2, <2>2, ListingsTyped
  <2>4. ASSUME NEW j \in 1..(x.i - 1) PROVE Stored(x.list[j])'
    <3>1. PICK r \in crows : <<r.cam, r.name>> = x.list[j]
      BY <2>2 DEF Stored
    <3>2. r.cam \in Kept(s)
      BY <2>2, <2>3, <3>1 DEF Kept
    <3> QED
      BY <1>1, <3>1, <3>2 DEF Stored
  <2>5. Kept(s)' = Kept(s)
    BY <1>3 DEF SyncSet, Kept
  <2>6. csync'[s].pc = "finish" /\ csync'[s].list = x.list /\ csync'[s].i = x.i
    BY <1>3 DEF SyncSet
  <2>7. x.list \in Listings' /\ \A r \in crows' : r.cam \in Kept(s)'
    BY <1>1, <2>2, <2>5, VendorSame
  <2>8. \A j \in 1..(csync'[s].i - 1) : Stored(csync[s].list[j])'
    BY <2>4, <2>6 DEF Stored
  <2> QED
    BY <2>6, <2>7, <2>8 DEF CalmSyncTrue
<1>10. \A r \in crows' : r.id > crowId \/ \E q \in crows : q.id = r.id /\ q.cam = r.cam
  BY <1>4
<1> QED
  BY <1>1, <1>2, <1>3, <1>5, <1>6, <1>7, <1>8, <1>9, <1>10, DisturbTyped, SyncActs DEF SyncSet, CloudInv

\* After a camera the sync is at the next one, or at the end.
LEMMA NextPlace ==
  ASSUME CloudInv, NEW s \in Syncs, csync[s].pc \in {"select", "write", "entity"}, NextCam(s)
  PROVE  /\ csync'[s].list = csync[s].list /\ csync'[s].i = csync[s].i + 1
         /\ csync'[s].pc \in {"select", "prune"}
         /\ csync' \in [Syncs -> CloudSyncs] /\ \A t \in Syncs \ {s} : csync'[t] = csync[t]
         /\ InList(s)' /\ RowHeld(s)'
<1> DEFINE x == csync[s]
<1>1. csync \in [Syncs -> CloudSyncs] /\ InList(s)
  BY DEF CloudInv, CloudTypes
<1>2. Len(x.list) \in Nat /\ x.i \in 1..Len(x.list)
  BY PlaceTyped
<1>3. After(s) \in CloudPlaces /\ After(s) \in {"select", "prune"}
  BY DEF After, CloudPlaces
<1>4. SyncSet(s, After(s), x.list, x.i + 1, x.row)
  <2>1. csync' = [csync EXCEPT ![s].pc = After(s), ![s].i = @ + 1]
    BY DEF NextCam
  <2> QED
    BY <1>1, <1>3, <2>1, SyncForms
<1>5. InList(s)' /\ RowHeld(s)'
  BY <1>2, <1>3, <1>4 DEF SyncSet, InList, RowHeld, After
<1> QED
  BY <1>3, <1>4, <1>5 DEF SyncSet

LEMMA UpsertUpdateKept ==
  ASSUME CloudInv, NEW s \in Syncs, UpsertUpdate(s)
  PROVE  CloudInv'
<1> DEFINE x == csync[s]
<1>1. /\ x.pc = "write" /\ x.row # 0 /\ Disturb(s)
      /\ UNCHANGED <<cvendor, cremote, cacct, crowId, cchanges, crenamed>>
  BY DEF UpsertUpdate
<1>2. csync \in [Syncs -> CloudSyncs] /\ CloudTypes /\ crowId \in Nat /\ cchanges \in Nat /\ RowHeld(s)
  BY DEF CloudInv, CloudTypes
<1>3. CASE ~(\A r \in crows : r.id = x.row => NameFree(Name(s), r.id))
  <2>1. csync' = [csync EXCEPT ![s].pc = "failed"] /\ cfailed' = TRUE /\ crows' = crows
    BY <1>3 DEF UpsertUpdate, Goto
  <2>2. SyncSet(s, "failed", x.list, x.i, x.row)
    BY <1>2, <2>1, SyncForms DEF CloudPlaces
  <2> QED
    BY <1>1, <1>2, <2>1, <2>2, DisturbTyped, SyncEnds DEF SyncSet
<1>4. CASE \A r \in crows : r.id = x.row => NameFree(Name(s), r.id)
  <2>1. /\ crows' = {IF r.id = x.row THEN [r EXCEPT !.name = Name(s)] ELSE r : r \in crows}
        /\ NextCam(s) /\ cfailed' = cfailed
    BY <1>4 DEF UpsertUpdate
  <2>2. /\ x.list[x.i] = <<Cam(s), Name(s)>> /\ Cam(s) \in Cams /\ Name(s) \in CamNames
        /\ x.i \in 1..Len(x.list) /\ Len(x.list) \in Nat /\ DOMAIN x.list = 1..Len(x.list)
    BY <1>1, PlaceTyped
  <2>3. \A r \in crows : r.id = x.row => r.cam = Cam(s)
    BY <1>1, <1>2 DEF RowHeld
  <2>4. ASSUME NEW r \in crows, r.id = x.row
        PROVE  /\ [r EXCEPT !.name = Name(s)] \in crows' /\ [r EXCEPT !.name = Name(s)] \in CloudRows
               /\ [r EXCEPT !.name = Name(s)].id = r.id /\ [r EXCEPT !.name = Name(s)].cam = r.cam
               /\ [r EXCEPT !.name = Name(s)].name = Name(s) /\ [r EXCEPT !.name = Name(s)].ent = r.ent
    <3>1. r \in CloudRows
      BY <1>2 DEF CloudTypes
    <3> QED
      BY <2>1, <2>2, <2>4, <3>1 DEF CloudRows
  <2>5. \A r \in crows : r.id # x.row => r \in crows'
    BY <2>1
  <2>6. ASSUME NEW q \in crows'
        PROVE  /\ q \in CloudRows
               /\ \E r \in crows : /\ q.id = r.id /\ q.cam = r.cam /\ q.ent = r.ent
                                   /\ IF r.id = x.row THEN q = [r EXCEPT !.name = Name(s)] /\ q.name = Name(s)
                                      ELSE q = r
    <3>1. PICK r \in crows : q = IF r.id = x.row THEN [r EXCEPT !.name = Name(s)] ELSE r
      BY <2>1
    <3>2. r \in CloudRows
      BY <1>2 DEF CloudTypes
    <3> QED
      BY <2>4, <3>1, <3>2
  <2>7. CloudTypes'
    BY <1>1, <1>2, <2>1, <2>6, NextPlace, DisturbTyped DEF CloudTypes
  <2>8. CloudKeys'
    <3>1. CloudKeys
      BY DEF CloudInv
    <3>2. \A q \in crows' : q.id \in 1..crowId'
      BY <1>1, <2>6, <3>1 DEF CloudKeys
    <3>3. ASSUME NEW q \in crows', NEW p \in crows', q.id = p.id \/ q.name = p.name PROVE q = p
      <4>1. PICK r \in crows : /\ q.id = r.id
                               /\ IF r.id = x.row THEN q = [r EXCEPT !.name = Name(s)] /\ q.name = Name(s)
                                  ELSE q = r
        BY <2>6
      <4>2. PICK o \in crows : /\ p.id = o.id
                               /\ IF o.id = x.row THEN p = [o EXCEPT !.name = Name(s)] /\ p.name = Name(s)
                                  ELSE p = o
        BY <2>6
      <4>3. r = o => q = p
        BY <4>1, <4>2
      <4>4. r.id = o.id => r = o
        BY <3>1 DEF CloudKeys
      <4>5. r.id # x.row /\ o.id # x.row /\ r.name = o.name => r = o
        BY <3>1 DEF CloudKeys
      <4>6. r.id = x.row /\ o.id # x.row /\ o.name = Name(s) => o.id = r.id
        BY <1>4 DEF NameFree
      <4>7. o.id = x.row /\ r.id # x.row /\ r.name = Name(s) => r.id = o.id
        BY <1>4 DEF NameFree
      <4> QED
        BY <3>3, <4>1, <4>2, <4>3, <4>4, <4>5, <4>6, <4>7
    <3> QED
      BY <3>2, <3>3 DEF CloudKeys
  <2>9. OneName'
    <3> SUFFICES ASSUME ~crenamed' PROVE OneName'
      BY DEF OneName
    <3>1. PICK N \in [Cams -> CamNames] :
            /\ \A d \in Cams : cremote[d] \in {N[d], NoCam}
            /\ \A r \in crows : r.name = N[r.cam]
            /\ \A t \in Syncs : \A k \in DOMAIN csync[t].list : csync[t].list[k][2] = N[csync[t].list[k][1]]
      BY <1>1 DEF CloudInv, OneName
    <3>2. Name(s) = N[Cam(s)]
      BY <2>2, <3>1
    <3>3. \A q \in crows' : q.name = N[q.cam]
      BY <2>3, <2>6, <3>1, <3>2
    <3>4. \A t \in Syncs : csync'[t].list = csync[t].list
      BY <1>1, <2>1, NextPlace
    <3> QED
      BY <1>1, <3>1, <3>3, <3>4 DEF OneName
  <2>10. CameraPickable'
    <3> SUFFICES ASSUME ~cfailed', NEW q \in crows', q.ent # 1
                 PROVE  \E t \in Syncs : csync'[t].pc = "entity" /\ csync'[t].row = q.id
      BY DEF CameraPickable
    <3>1. PICK r \in crows : q.id = r.id /\ q.ent = r.ent
      BY <2>6
    <3>2. PICK t \in Syncs : csync[t].pc = "entity" /\ csync[t].row = r.id
      BY <2>1, <3>1 DEF CloudInv, CameraPickable
    <3> QED
      BY <1>1, <2>1, <3>1, <3>2, NextPlace
  <2>11. ~cmoved'[s] => CalmSyncTrue(s)'
    <3> SUFFICES ASSUME ~cmoved'[s] PROVE CalmSyncTrue(s)'
      OBVIOUS
    <3>1. CalmSyncTrue(s)
      BY <1>1, DisturbTyped DEF CloudInv
    <3> DEFINE here == <<Cam(s), Name(s)>>
    <3>2. x.list \in Listings /\ x.list[x.i] = here /\ here \in Present
      <4>1. x.list \in Listings
        BY <1>1, <3>1 DEF CalmSyncTrue
      <4> QED
        BY <1>2, <2>2, <4>1, ListingsTyped
    <3>3. \A p : p = here => Stored(p)'
      <4>1. PICK r \in crows : r.id = x.row
        BY <1>1, <3>1 DEF CalmSyncTrue
      <4>2. \E q \in crows' : q.cam = Cam(s) /\ q.name = Name(s)
        BY <2>3, <2>4, <4>1
      <4> QED
        BY <4>2 DEF Stored
    <3> HIDE DEF here
    <3>4. ASSUME NEW p \in Present, Stored(p) PROVE Stored(p)'
      <4>1. PICK r \in crows : <<r.cam, r.name>> = p
        BY <3>4 DEF Stored
      <4>2. CASE r.id = x.row
        <5>1. p[1] = Cam(s) /\ here[1] = Cam(s) /\ p[2] = here[2] /\ p \in Cams \X CamNames
          BY <1>2, <2>2, <2>3, <3>2, <4>1, <4>2, PresentTyped DEF here
        <5>2. p = here
          BY <5>1 DEF here
        <5> QED
          BY <3>3, <5>2
      <4> QED
        BY <2>5, <4>1, <4>2 DEF Stored
    <3>5. csync'[s].list \in Listings' /\ \A j \in 1..(x.i - 1) : Stored(x.list[j])'
      BY <1>1, <2>1, <3>1, <3>4, NextPlace, StoredOn
    <3>6. \A j \in 1..(csync'[s].i - 1) : Stored(csync[s].list[j])'
      <4>1. csync'[s].list = x.list /\ csync'[s].i = x.i + 1
        BY <1>1, <2>1, NextPlace
      <4>2. \A j \in 1..x.i : Stored(x.list[j])'
        BY <2>2, <3>2, <3>3, <3>5, <4>1
      <4> QED
        BY <2>2, <4>1, <4>2 DEF Stored
    <3> QED
      BY <1>1, <2>1, <3>5, <3>6, NextPlace DEF CalmSyncTrue
  <2>12. \A r \in crows' : r.id > crowId \/ \E q \in crows : q.id = r.id /\ q.cam = r.cam
    BY <2>6
  <2> QED
    BY <1>1, <1>2, <2>1, <2>7, <2>8, <2>9, <2>10, <2>11, <2>12, NextPlace, DisturbTyped, SyncActs
       DEF CloudInv
<1> QED
  BY <1>3, <1>4

LEMMA UpsertInsertKept ==
  ASSUME CloudInv, NEW s \in Syncs, UpsertInsert(s)
  PROVE  CloudInv'
<1> DEFINE x == csync[s]
<1>1. /\ x.pc = "write" /\ x.row = 0 /\ Disturb(s)
      /\ UNCHANGED <<cvendor, cremote, cacct, cchanges, crenamed>>
  BY DEF UpsertInsert
<1>2. csync \in [Syncs -> CloudSyncs] /\ CloudTypes /\ crowId \in Nat /\ cchanges \in Nat
  BY DEF CloudInv, CloudTypes
<1>3. CASE ~NameFree(Name(s), 0)
  <2>1. csync' = [csync EXCEPT ![s].pc = "failed"] /\ cfailed' = TRUE /\ crows' = crows /\ crowId' = crowId
    BY <1>3 DEF UpsertInsert, Goto
  <2>2. SyncSet(s, "failed", x.list, x.i, x.row)
    BY <1>2, <2>1, SyncForms DEF CloudPlaces
  <2> QED
    BY <1>1, <1>2, <2>1, <2>2, DisturbTyped, SyncEnds DEF SyncSet
<1>4. CASE NameFree(Name(s), 0)
  <2> DEFINE added == [id |-> crowId', cam |-> Cam(s), name |-> Name(s), ent |-> 0]
  <2>1. /\ crowId' = crowId + 1 /\ crows' = crows \cup {added} /\ cfailed' = cfailed
        /\ csync' = [csync EXCEPT ![s].pc = "entity", ![s].row = crowId']
    BY <1>4 DEF UpsertInsert
  <2>2. /\ x.list[x.i] = <<Cam(s), Name(s)>> /\ Cam(s) \in Cams /\ Name(s) \in CamNames
        /\ x.i \in 1..Len(x.list) /\ Len(x.list) \in Nat /\ DOMAIN x.list = 1..Len(x.list)
    BY <1>1, PlaceTyped
  <2>3. crowId' \in Nat /\ crowId' > crowId /\ crowId <= crowId'
    BY <1>2, <2>1
  <2>4. /\ added \in CloudRows /\ added \in crows'
        /\ added.id = crowId' /\ added.cam = Cam(s) /\ added.name = Name(s) /\ added.ent = 0
    BY <2>1, <2>2, <2>3 DEF CloudRows
  <2> HIDE DEF added
  <2>5. SyncSet(s, "entity", x.list, x.i, crowId')
    BY <1>2, <2>1, <2>3, SyncForms DEF CloudPlaces
  <2>6. CloudTypes'
    BY <1>1, <1>2, <2>1, <2>3, <2>4, <2>5, DisturbTyped DEF CloudTypes, SyncSet
  <2>7. CloudKeys'
    <3>1. \A r \in crows : r.id \in 1..crowId /\ r.id # 0 /\ r.id # crowId'
      BY <1>2, <2>1 DEF CloudInv, CloudKeys
    <3>2. \A r \in crows : r.name # added.name /\ r.id # added.id
      BY <1>4, <2>4, <3>1 DEF NameFree
    <3>3. \A r \in crows' : r.id \in 1..crowId'
      BY <1>2, <2>1, <2>3, <2>4, <3>1
    <3>4. \A r, q \in crows' : r.id = q.id \/ r.name = q.name => r = q
      BY <2>1, <3>2 DEF CloudInv, CloudKeys
    <3> QED
      BY <3>3, <3>4 DEF CloudKeys
  <2>8. OneName'
    <3> SUFFICES ASSUME ~crenamed' PROVE OneName'
      BY DEF OneName
    <3>1. PICK N \in [Cams -> CamNames] :
            /\ \A d \in Cams : cremote[d] \in {N[d], NoCam}
            /\ \A r \in crows : r.name = N[r.cam]
            /\ \A t \in Syncs : \A k \in DOMAIN csync[t].list : csync[t].list[k][2] = N[csync[t].list[k][1]]
      BY <1>1 DEF CloudInv, OneName
    <3>2. \A q \in crows' : q.name = N[q.cam]
      BY <2>1, <2>2, <2>4, <3>1
    <3>3. \A t \in Syncs : csync'[t].list = csync[t].list
      BY <2>5 DEF SyncSet
    <3> QED
      BY <1>1, <3>1, <3>2, <3>3 DEF OneName
  <2>9. CameraPickable'
    <3> SUFFICES ASSUME ~cfailed', NEW q \in crows', q.ent # 1
                 PROVE  \E t \in Syncs : csync'[t].pc = "entity" /\ csync'[t].row = q.id
      BY DEF CameraPickable
    <3>1. CASE q = added
      BY <2>4, <2>5, <3>1 DEF SyncSet
    <3>2. CASE q \in crows
      <4>1. PICK t \in Syncs : csync[t].pc = "entity" /\ csync[t].row = q.id
        BY <2>1, <3>2 DEF CloudInv, CameraPickable
      <4> QED
        BY <1>1, <2>5, <4>1 DEF SyncSet
    <3> QED
      BY <2>1, <3>1, <3>2
  <2>10. InList(s)' /\ RowHeld(s)'
    BY <2>2, <2>5 DEF SyncSet, InList, RowHeld
  <2>11. ~cmoved'[s] => CalmSyncTrue(s)'
    <3> SUFFICES ASSUME ~cmoved'[s] PROVE CalmSyncTrue(s)'
      OBVIOUS
    <3>1. CalmSyncTrue(s)
      BY <1>1, DisturbTyped DEF CloudInv
    <3>2. \A p \in Present : Stored(p) => Stored(p)'
      BY <2>1 DEF Stored
    <3>3. csync'[s].list \in Listings' /\ \A j \in 1..(x.i - 1) : Stored(x.list[j])'
      BY <1>1, <2>5, <3>1, <3>2, StoredOn DEF SyncSet
    <3>4. \E r \in crows' : <<r.cam, r.name>> = x.list[x.i]
      BY <2>2, <2>4
    <3>5. csync'[s].pc = "entity" /\ csync'[s].list = x.list /\ csync'[s].i = x.i
      BY <2>5 DEF SyncSet
    <3>6. Stored(csync[s].list[csync[s].i])'
      BY <3>4, <3>5 DEF Stored
    <3>7. \A j \in 1..(csync'[s].i - 1) : Stored(csync[s].list[j])'
      BY <3>3, <3>5
    <3> QED
      BY <3>3, <3>5, <3>6, <3>7 DEF CalmSyncTrue
  <2>12. \A r \in crows' : r.id > crowId \/ \E q \in crows : q.id = r.id /\ q.cam = r.cam
    BY <2>1, <2>3, <2>4
  <2> QED
    BY <1>1, <1>2, <2>3, <2>5, <2>6, <2>7, <2>8, <2>9, <2>10, <2>11, <2>12, DisturbTyped, SyncActs
       DEF CloudInv, SyncSet
<1> QED
  BY <1>3, <1>4

LEMMA ensureCameraEntityKept ==
  ASSUME CloudInv, NEW s \in Syncs, ensureCameraEntity(s)
  PROVE  CloudInv'
<1> DEFINE x == csync[s]
<1>1. /\ x.pc = "entity" /\ UNCHANGED <<cvendor, cremote, cacct, crowId, cchanges, crenamed, cmoved>>
  BY DEF ensureCameraEntity, Calm
<1>2. /\ csync \in [Syncs -> CloudSyncs] /\ CloudTypes /\ crowId \in Nat /\ cchanges \in Nat
      /\ cmoved \in [Syncs -> BOOLEAN]
  BY DEF CloudInv, CloudTypes
<1>3. CASE ~(\E r \in crows : r.id = x.row)
  <2>1. csync' = [csync EXCEPT ![s].pc = "failed"] /\ cfailed' = TRUE /\ crows' = crows
    BY <1>3 DEF ensureCameraEntity, Goto
  <2>2. SyncSet(s, "failed", x.list, x.i, x.row)
    BY <1>2, <2>1, SyncForms DEF CloudPlaces
  <2> QED
    BY <1>1, <1>2, <2>1, <2>2, SyncEnds DEF SyncSet
<1>4. CASE \E r \in crows : r.id = x.row
  <2>1. /\ crows' = {IF r.id = x.row THEN [r EXCEPT !.ent = 1] ELSE r : r \in crows}
        /\ NextCam(s) /\ cfailed' = cfailed
    BY <1>4 DEF ensureCameraEntity
  <2>2. /\ x.i \in 1..Len(x.list) /\ Len(x.list) \in Nat /\ DOMAIN x.list = 1..Len(x.list)
    BY <1>1, PlaceTyped
  <2>3. ASSUME NEW r \in crows
        PROVE  \E q \in crows' : q.id = r.id /\ q.cam = r.cam /\ q.name = r.name
    <3>1. r \in CloudRows
      BY <1>2 DEF CloudTypes
    <3> DEFINE q == IF r.id = x.row THEN [r EXCEPT !.ent = 1] ELSE r
    <3>2. q \in crows'
      BY <2>1
    <3>3. q.id = r.id /\ q.cam = r.cam /\ q.name = r.name
      BY <3>1 DEF CloudRows
    <3> QED
      BY <3>2, <3>3
  <2>4. ASSUME NEW q \in crows'
        PROVE  /\ q \in CloudRows
               /\ \E r \in crows : /\ q.id = r.id /\ q.cam = r.cam /\ q.name = r.name
                                   /\ IF r.id = x.row THEN q = [r EXCEPT !.ent = 1] /\ q.ent = 1 ELSE q = r
    <3>1. PICK r \in crows : q = IF r.id = x.row THEN [r EXCEPT !.ent = 1] ELSE r
      BY <2>1
    <3>2. r \in CloudRows
      BY <1>2 DEF CloudTypes
    <3> QED
      BY <3>1, <3>2 DEF CloudRows
  <2>5. CloudTypes'
    BY <1>1, <1>2, <2>1, <2>4, NextPlace DEF CloudTypes
  <2>6. CloudKeys'
    <3>1. CloudKeys
      BY DEF CloudInv
    <3>2. \A q \in crows' : q.id \in 1..crowId'
      BY <1>1, <2>4, <3>1 DEF CloudKeys
    <3>3. ASSUME NEW q \in crows', NEW p \in crows', q.id = p.id \/ q.name = p.name PROVE q = p
      <4>1. PICK r \in crows : /\ q.id = r.id /\ q.name = r.name
                               /\ IF r.id = x.row THEN q = [r EXCEPT !.ent = 1] ELSE q = r
        BY <2>4
      <4>2. PICK o \in crows : /\ p.id = o.id /\ p.name = o.name
                               /\ IF o.id = x.row THEN p = [o EXCEPT !.ent = 1] ELSE p = o
        BY <2>4
      <4>3. r = o
        BY <3>1, <3>3, <4>1, <4>2 DEF CloudKeys
      <4> QED
        BY <4>1, <4>2, <4>3
    <3> QED
      BY <3>2, <3>3 DEF CloudKeys
  <2>7. OneName'
    <3> SUFFICES ASSUME ~crenamed' PROVE OneName'
      BY DEF OneName
    <3>1. PICK N \in [Cams -> CamNames] :
            /\ \A d \in Cams : cremote[d] \in {N[d], NoCam}
            /\ \A r \in crows : r.name = N[r.cam]
            /\ \A t \in Syncs : \A k \in DOMAIN csync[t].list : csync[t].list[k][2] = N[csync[t].list[k][1]]
      BY <1>1 DEF CloudInv, OneName
    <3>2. \A q \in crows' : q.name = N[q.cam]
      BY <2>4, <3>1
    <3>3. \A t \in Syncs : csync'[t].list = csync[t].list
      BY <1>1, <2>1, NextPlace
    <3> QED
      BY <1>1, <3>1, <3>2, <3>3 DEF OneName
  <2>8. CameraPickable'
    <3> SUFFICES ASSUME ~cfailed', NEW q \in crows', q.ent # 1
                 PROVE  \E t \in Syncs : csync'[t].pc = "entity" /\ csync'[t].row = q.id
      BY DEF CameraPickable
    <3>1. q \in crows /\ q.id # x.row
      BY <2>4
    <3>2. PICK t \in Syncs : csync[t].pc = "entity" /\ csync[t].row = q.id
      BY <2>1, <3>1 DEF CloudInv, CameraPickable
    <3>3. csync'[t] = csync[t]
      BY <1>1, <2>1, <3>1, <3>2, NextPlace
    <3> QED
      BY <3>2, <3>3
  <2>9. ~cmoved'[s] => CalmSyncTrue(s)'
    <3> SUFFICES ASSUME ~cmoved'[s] PROVE CalmSyncTrue(s)'
      OBVIOUS
    <3>1. CalmSyncTrue(s)
      BY <1>1 DEF CloudInv
    <3>2. \A p : Stored(p) => Stored(p)'
      BY <2>3 DEF Stored
    <3>3. csync'[s].list \in Listings' /\ \A j \in 1..(x.i - 1) : Stored(x.list[j])'
      BY <1>1, <2>1, <3>1, <3>2, NextPlace, StoredOn
    <3>4. csync'[s].list = x.list /\ csync'[s].i = x.i + 1 /\ csync'[s].pc \in {"select", "prune"}
      BY <1>1, <2>1, NextPlace
    <3> DEFINE here == x.list[x.i]
    <3>5. \A p : p = here => Stored(p)'
      BY <1>1, <3>1, <3>2 DEF CalmSyncTrue
    <3> HIDE DEF here
    <3>6. \A j \in 1..x.i : Stored(x.list[j])'
      BY <2>2, <3>3, <3>4, <3>5 DEF here
    <3>7. \A j \in 1..(csync'[s].i - 1) : Stored(csync[s].list[j])'
      BY <2>2, <3>4, <3>6
    <3> QED
      BY <3>3, <3>4, <3>7 DEF CalmSyncTrue
  <2>10. \A r \in crows' : r.id > crowId \/ \E q \in crows : q.id = r.id /\ q.cam = r.cam
    BY <2>4
  <2> QED
    BY <1>1, <1>2, <2>1, <2>5, <2>6, <2>7, <2>8, <2>9, <2>10, NextPlace, SyncActs DEF CloudInv
<1> QED
  BY <1>3, <1>4

LEMMA CloudInitTrue ==
  CloudInit => CloudInv
<1> SUFFICES ASSUME CloudInit PROVE CloudInv
  OBVIOUS
<1>1. IdleSync \in CloudSyncs /\ IdleSync.pc = "idle" /\ IdleSync.list = <<>>
  <2>1. <<>> \in CloudLists
    BY DEF CloudLists
  <2> QED
    BY <2>1 DEF IdleSync, CloudSyncs, CloudPlaces
<1>2. \A s \in Syncs : csync[s] = IdleSync
  BY DEF CloudInit
<1>3. cremote \in [Cams -> CamNames \cup {NoCam}] /\ crows = {}
  BY DEF CloudInit
<1>4. CloudTypes
  BY <1>1, <1>3 DEF CloudInit, CloudTypes
<1>5. CloudKeys /\ CameraPickable /\ CalmSyncAlone
  BY <1>1, <1>2, <1>3 DEF CloudKeys, CameraPickable, CalmSyncAlone
<1>6. OneName
  <2> DEFINE N == [c \in Cams |-> IF cremote[c] = NoCam THEN DefaultName ELSE cremote[c]]
  <2>1. N \in [Cams -> CamNames]
    BY <1>3, CloudAssumption DEF CloudAssumption, DefaultName
  <2>2. \A c \in Cams : cremote[c] \in {N[c], NoCam}
    OBVIOUS
  <2> HIDE DEF N
  <2>3. \A s \in Syncs : DOMAIN csync[s].list = {}
    BY <1>1, <1>2
  <2> QED
    BY <1>3, <2>1, <2>2, <2>3 DEF OneName
<1>7. \A s \in Syncs : InList(s) /\ RowHeld(s) /\ CalmSyncTrue(s)
  BY <1>1, <1>2 DEF InList, RowHeld, CalmSyncTrue
<1> QED
  BY <1>4, <1>5, <1>6, <1>7 DEF CloudInv

LEMMA CloudSteps ==
  CloudInv /\ [CloudNext]_cloudVars => CloudInv'
<1> SUFFICES ASSUME CloudInv, [CloudNext]_cloudVars PROVE CloudInv'
  OBVIOUS
<1>0. cmoved \in [Syncs -> BOOLEAN]
  BY DEF CloudInv, CloudTypes
<1>1. CASE createCloudAccount
  BY <1>0, <1>1, CloudSame DEF createCloudAccount
<1>2. CASE deleteCloudAccount
  <2>1. cmoved' = [s \in Syncs |-> TRUE]
    BY <1>2 DEF deleteCloudAccount
  <2> QED
    BY <1>2, <2>1, CloudSame DEF deleteCloudAccount
<1>3. CASE UNCHANGED cloudVars
  BY <1>0, <1>3, CloudSame DEF cloudVars
<1>4. CASE \E s \in Syncs : SyncStart(s) \/ SyncList(s) \/ UpsertSelect(s) \/ UpsertUpdate(s)
                         \/ UpsertInsert(s)
  BY <1>4, SyncStartKept, SyncListKept, UpsertSelectKept, UpsertUpdateKept, UpsertInsertKept
<1>5. CASE \E s \in Syncs : ensureCameraEntity(s) \/ deleteCloudCamerasNotIn(s) \/ updateCloudAccount(s)
                         \/ StatementFails(s)
  BY <1>5, ensureCameraEntityKept, pruneKept, updateCloudAccountKept, StatementFailsKept
<1>6. CASE \E c \in Cams, n \in CamNames \cup {NoCam} : VendorChanges(c, n)
  BY <1>6, VendorChangesKept
<1> QED
  BY <1>1, <1>2, <1>3, <1>4, <1>5, <1>6 DEF CloudNext

LEMMA CloudInvSafe ==
  CloudInv => CloudSafe
<1> SUFFICES ASSUME CloudInv PROVE CloudSafe
  OBVIOUS
<1>1. CloudTypes /\ CloudKeys
  BY DEF CloudInv
<1>2. SyncConverges
  <2> SUFFICES ASSUME NEW s \in Syncs, csync[s].pc = "finish", ~cmoved[s], NoTwin
               PROVE  {<<r.cam, r.name>> : r \in crows} = Present
    BY DEF SyncConverges
  <2> DEFINE l == csync[s].list
  <2>1. CalmSyncTrue(s) /\ InList(s)
    BY DEF CloudInv
  <2>2. l \in Listings /\ csync[s].i = Len(l) + 1 /\ \A r \in crows : r.cam \in Kept(s)
    BY <2>1 DEF CalmSyncTrue, InList
  <2>3. /\ Len(l) \in Nat /\ DOMAIN l = 1..Len(l) /\ \A k \in 1..Len(l) : l[k] \in Present
        /\ \A p \in Present : \E k \in 1..Len(l) : l[k] = p
    BY <1>1, <2>2, ListingsTyped
  <2>4. \A k \in 1..Len(l) : Stored(l[k])
    BY <2>1, <2>2, <2>3 DEF CalmSyncTrue
  <2>5. ASSUME NEW p \in Present PROVE \E r \in crows : <<r.cam, r.name>> = p
    BY <2>3, <2>4 DEF Stored
  <2>6. ASSUME NEW r \in crows PROVE <<r.cam, r.name>> \in Present
    <3>1. PICK k \in 1..Len(l) : l[k][1] = r.cam
      BY <2>2, <2>3 DEF Kept
    <3>2. PICK q \in crows : <<q.cam, q.name>> = l[k]
      BY <2>4 DEF Stored
    <3>3. r = q
      BY <1>1, <3>1, <3>2 DEF NoTwin, CloudKeys
    <3> QED
      BY <2>3, <3>2, <3>3
  <2> QED
    BY <2>5, <2>6
<1>3. OneRowPerVendorCamera
  BY <1>1 DEF OneRowPerVendorCamera, NoTwin, CloudInv, OneName, CloudKeys
<1> QED
  BY <1>2, <1>3 DEF CloudSafe, CloudInv

\* The cameras of a vendor's account (syncCloudAccount, upsertCloudCamera,
\* deleteCloudCamerasNotIn), for every number of syncs, cameras and names: a sync
\* that ran undisturbed on a full answer has made the local cameras the vendor's,
\* no vendor camera has two rows unless one was renamed, and a camera row has its
\* entity or its insert is under way, unless a statement failed.
THEOREM CloudStaysSafe == CloudSpec => []CloudSafe
<1>1. CloudSpec => []CloudInv
  BY CloudInitTrue, CloudSteps, PTL DEF CloudSpec
<1> QED
  BY <1>1, CloudInvSafe, PTL
-----------------------------------------------------------------------------
(* AppUpdate: the kiosk's own executable, for every set of releases,       *)
(* healthy or not, every crash, failed write, interrupted copy and run of  *)
(* setup.sh.                                                               *)

(* What the running process knows of the files: it is the executable until *)
(* its own swap, and an update is always to a later release, so that the   *)
(* marker it publishes never names itself.                                 *)
ProcessInv ==
  /\ svc # "running" => run = None /\ upd = NoUpdate
  /\ svc = "running" /\ upd.pc # "swapped" => run = bin
  /\ svc = "copying" => marker # None /\ prev # None

WorkerInv ==
  /\ upd.pc # "idle" => /\ svc = "running" /\ run \in Versions /\ upd.v \in Versions
                        /\ upd.v > run
  /\ upd.pc \in {"staged", "stashed", "armed"} => new = upd.v
  /\ upd.pc \in {"armed", "swapped"} => marker = upd.v

SetupInv ==
  /\ svc = "setup" <=> setup.pc \in {"stopped", "stashed", "staged", "armed", "swapped"}
  /\ setup.pc # "idle" => setup.v \in Versions
  /\ setup.pc \in {"staged", "armed"} => new = setup.v
  /\ setup.pc \in {"armed", "swapped"} => marker = setup.v

AppInv == TypeOK /\ ProcessInv /\ WorkerInv /\ SetupInv /\ RollbackArmed

LEMMA AppInvInit == Init => AppInv
BY AppAssumption
DEF Init, AppInv, TypeOK, ProcessInv, WorkerInv, SetupInv, RollbackArmed, NoUpdate, NoSetup,
    Versions, MAX_ATTEMPTS, ATTEMPT_LIMIT

(* The service's steps: starts, rollbacks, crashes and confirmations.      *)
LEMMA ServiceStepKeeps == AppInv /\ ServiceStep => AppInv'
<1> SUFFICES ASSUME AppInv, ServiceStep PROVE AppInv'
  OBVIOUS
<1> USE AppAssumption DEF AppInv, TypeOK, ProcessInv, WorkerInv, SetupInv, RollbackArmed,
        NoUpdate, NoSetup, Launch, clear_bookkeeping, files, MAX_ATTEMPTS, ATTEMPT_LIMIT
<1>1. CASE Start BY <1>1 DEF Start
<1>2. CASE StartCandidate BY <1>2 DEF StartCandidate
<1>3. CASE AttemptTorn BY <1>3 DEF AttemptTorn
<1>4. CASE RollbackBegins BY <1>4 DEF RollbackBegins
<1>5. CASE RollbackEnds BY <1>5 DEF RollbackEnds
<1>6. CASE RollbackWithoutBackup BY <1>6 DEF RollbackWithoutBackup
<1>7. CASE Stop
  <2>1. CASE setup' = NoSetup BY <1>7, <2>1 DEF Stop
  <2>2. CASE setup' = setup /\ setup.pc # "watching" BY <1>7, <2>2 DEF Stop
  <2>3. CASE setup' = [setup EXCEPT !.pc = "failed"] /\ setup.pc = "watching"
    BY <1>7, <2>3 DEF Stop
  <2> QED BY <1>7, <2>1, <2>2, <2>3 DEF Stop, SetupNotices
<1>8. CASE mark_firmware_applied
  \* A process that has published a marker cannot be the release it names.
  <2>1. marker = run => run = bin
    BY <1>8 DEF mark_firmware_applied, Versions
  <2>2. run \in Versions BY <1>8 DEF mark_firmware_applied
  <2>3. TypeOK'
    BY <1>8, <2>2 DEF mark_firmware_applied
  <2>4. ProcessInv' /\ WorkerInv' /\ SetupInv'
    BY <1>8, <2>2 DEF mark_firmware_applied, Versions
  <2>5. RollbackArmed'
    BY <1>8, <2>1, <2>2 DEF mark_firmware_applied
  <2> QED BY <2>3, <2>4, <2>5
<1> QED BY <1>1, <1>2, <1>3, <1>4, <1>5, <1>6, <1>7, <1>8 DEF ServiceStep

(* The update worker's steps.                                              *)
LEMMA UpdateStepKeeps == AppInv /\ UpdateStep => AppInv'
<1> SUFFICES ASSUME AppInv, UpdateStep PROVE AppInv'
  OBVIOUS
<1> USE AppAssumption DEF AppInv, TypeOK, ProcessInv, WorkerInv, SetupInv, RollbackArmed,
        NoUpdate, NoSetup, Worker, files, MAX_ATTEMPTS, ATTEMPT_LIMIT
<1>1. ASSUME NEW v \in Versions, CheckUpdate(v) PROVE AppInv'
  BY <1>1 DEF CheckUpdate
<1>2. CASE Deferred BY <1>2 DEF Deferred
<1>3. CASE Staged BY <1>3 DEF Staged
<1>4. CASE stash_previous_binary BY <1>4 DEF stash_previous_binary
<1>5. CASE persist_pending_marker BY <1>5 DEF persist_pending_marker
<1>6. CASE Swap BY <1>6 DEF Swap
<1>7. CASE ApplyFails
  <2>1. guard' \in [Versions -> 0..3]
    BY <1>7 DEF ApplyFails
  <2> QED BY <1>7, <2>1 DEF ApplyFails
<1> QED BY <1>1, <1>2, <1>3, <1>4, <1>5, <1>6, <1>7 DEF UpdateStep

(* The steps of setup.sh.                                                  *)
LEMMA SetupStepKeeps == AppInv /\ SetupStep => AppInv'
<1> SUFFICES ASSUME AppInv, SetupStep PROVE AppInv'
  OBVIOUS
<1> USE AppAssumption DEF AppInv, TypeOK, ProcessInv, WorkerInv, SetupInv, RollbackArmed,
        NoUpdate, NoSetup, SetupAt, files, MAX_ATTEMPTS, ATTEMPT_LIMIT
<1>1. ASSUME NEW v \in Versions, NEW p \in BOOLEAN, SetupStarts(v, p) PROVE AppInv'
  BY <1>1 DEF SetupStarts
<1>2. CASE SetupStashes BY <1>2 DEF SetupStashes
<1>3. CASE clear_interrupted_update BY <1>3 DEF clear_interrupted_update
<1>4. CASE arm_setup_candidate BY <1>4 DEF arm_setup_candidate
<1>5. CASE SetupSwaps BY <1>5 DEF SetupSwaps
<1>6. CASE SetupLaunches
  <2>1. CASE setup' = NoSetup BY <1>6, <2>1 DEF SetupLaunches
  <2>2. CASE setup' = [setup EXCEPT !.pc = "watching"] BY <1>6, <2>2 DEF SetupLaunches
  <2> QED BY <1>6, <2>1, <2>2 DEF SetupLaunches
<1>7. CASE SetupSatisfied BY <1>7 DEF SetupSatisfied
<1>8. CASE SetupRestores BY <1>8 DEF SetupRestores, clear_bookkeeping
<1>9. CASE SetupInterrupted BY <1>9 DEF SetupInterrupted
<1> QED BY <1>1, <1>2, <1>3, <1>4, <1>5, <1>6, <1>7, <1>8, <1>9 DEF SetupStep

LEMMA AppInvStep == AppInv /\ [Next]_vars => AppInv'
<1> SUFFICES ASSUME AppInv, [Next]_vars PROVE AppInv'
  OBVIOUS
<1>1. CASE UNCHANGED vars
  BY <1>1 DEF vars, files, AppInv, TypeOK, ProcessInv, WorkerInv, SetupInv, RollbackArmed
<1> QED BY <1>1, ServiceStepKeeps, UpdateStepKeeps, SetupStepKeeps DEF Next

-----------------------------------------------------------------------------
(* The files and processes of the update always have their declared types: *)
(* no update ever installs or backs up an interrupted copy.                *)
THEOREM AppUpdateTypes == Spec => []TypeOK
<1>1. AppInv => TypeOK BY DEF AppInv
<1> QED BY <1>1, AppInvInit, AppInvStep, PTL DEF Spec

(* No order of crashes, failed writes, late confirmations by the replaced  *)
(* process and repairs leaves an unproven or interrupted executable        *)
(* without the rollback that firmware.rs and setup.sh arm before a swap.   *)
THEOREM RollbackStaysArmed == Spec => []RollbackArmed
<1>1. AppInv => RollbackArmed BY DEF AppInv
<1> QED BY <1>1, AppInvInit, AppInvStep, PTL DEF Spec

(* Types and the armed rollback together: AppUpdateSafe.                   *)
THEOREM AppUpdateIsSafe == Spec => []AppUpdateSafe
<1>1. TypeOK /\ RollbackArmed => AppUpdateSafe BY DEF AppUpdateSafe
<1> QED BY <1>1, AppUpdateTypes, RollbackStaysArmed, PTL
-----------------------------------------------------------------------------
(* EventTopics: the topics of a camera *)

Tags == [kind : {"open", "empty", "close"}, name : TagNames \cup {""}, topic : BOOLEAN]
Names == TagNames \cup {""}
DepthAt(d, m) == Depth(SubSeq(d, 1, m))
TagStep(t) == IF t.kind = "open" THEN 1 ELSE IF t.kind = "close" THEN -1 ELSE 0

OfKind(d, k) == {i \in DOMAIN d : d[i].kind = k}

LEMMA KindsAppended ==
  ASSUME NEW d \in Seq(Tags), NEW t \in Tags, NEW k
  PROVE  /\ Cardinality(OfKind(d, k)) \in Nat
         /\ Cardinality(OfKind(Append(d, t), k)) = Cardinality(OfKind(d, k)) + (IF t.kind = k THEN 1 ELSE 0)
<1> DEFINE n == Len(d)
           S == OfKind(d, k)
<1>1. n \in Nat /\ DOMAIN d = 1..n /\ DOMAIN Append(d, t) = 1..(n + 1)
      /\ Append(d, t)[n + 1] = t /\ \A i \in 1..n : Append(d, t)[i] = d[i]
  OBVIOUS
<1>2. S \in SUBSET (1..n) /\ n + 1 \notin S
  BY <1>1 DEF OfKind
<1>3. OfKind(Append(d, t), k) = IF t.kind = k THEN S \cup {n + 1} ELSE S
  BY <1>1 DEF OfKind
<1> HIDE DEF S
<1>4. IsFiniteSet(1..n)
  <2>1. 1 \in Int /\ n \in Int
    BY <1>1
  <2> QED BY <2>1, FS_Interval
<1>5. IsFiniteSet(S)
  BY <1>2, <1>4, FS_Subset
<1>6. Cardinality(S) \in Nat /\ Cardinality(S \cup {n + 1}) = Cardinality(S) + 1
  BY <1>2, <1>5, FS_AddElement, FS_CardinalityType
<1>7. Cardinality(OfKind(Append(d, t), k)) = Cardinality(S) + (IF t.kind = k THEN 1 ELSE 0)
  BY <1>3, <1>6
<1> QED BY <1>6, <1>7 DEF S

LEMMA DepthAppended ==
  ASSUME NEW d \in Seq(Tags), NEW t \in Tags
  PROVE  /\ Depth(d) \in Int
         /\ Depth(Append(d, t)) = Depth(d) + TagStep(t)
<1>1. \A e : Depth(e) = Cardinality(OfKind(e, "open")) - Cardinality(OfKind(e, "close"))
  BY DEF Depth, OfKind
<1>2. \A k \in {"open", "close"} :
        /\ Cardinality(OfKind(d, k)) \in Nat
        /\ Cardinality(OfKind(Append(d, t), k)) = Cardinality(OfKind(d, k)) + (IF t.kind = k THEN 1 ELSE 0)
  BY KindsAppended
<1> QED BY <1>1, <1>2 DEF TagStep

LEMMA PrefixesStay ==
  ASSUME NEW d \in Seq(Tags), NEW t \in Tags
  PROVE  /\ \A m \in 0..Len(d) : SubSeq(Append(d, t), 1, m) = SubSeq(d, 1, m) /\ SubSeq(d, 1, m) \in Seq(Tags)
         /\ SubSeq(Append(d, t), 1, Len(d) + 1) = Append(d, t)
         /\ SubSeq(d, 1, Len(d)) = d
<1> DEFINE n == Len(d)
           e == Append(d, t)
<1>1. n \in Nat /\ e \in Seq(Tags) /\ Len(e) = n + 1 /\ \A i \in 1..n : e[i] = d[i]
  OBVIOUS
<1> HIDE DEF e
<1>2. ASSUME NEW m \in 0..n PROVE SubSeq(e, 1, m) = SubSeq(d, 1, m) /\ SubSeq(d, 1, m) \in Seq(Tags)
  <2>1. SubSeq(e, 1, m) = [i \in 1..m |-> e[i]]
    BY <1>1, <1>2
  <2>2. SubSeq(d, 1, m) = [i \in 1..m |-> d[i]]
    BY <1>1, <1>2
  <2>3. \A i \in 1..m : e[i] = d[i] /\ d[i] \in Tags
    BY <1>1, <1>2
  <2>4. SubSeq(d, 1, m) \in Seq(Tags)
    BY <1>2, <2>3, SubSeqProperties
  <2> QED BY <2>1, <2>2, <2>3, <2>4
<1>3. \A s \in Seq(Tags) : SubSeq(s, 1, Len(s)) = s
  BY SubSeqFull
<1> QED BY <1>1, <1>2, <1>3 DEF e

LEMMA DepthsAppended ==
  ASSUME NEW d \in Seq(Tags), NEW t \in Tags
  PROVE  /\ \A m \in 0..Len(d) : DepthAt(Append(d, t), m) = DepthAt(d, m) /\ DepthAt(d, m) \in Int
         /\ DepthAt(Append(d, t), Len(d) + 1) = DepthAt(d, Len(d)) + TagStep(t)
         /\ DepthAt(d, Len(d)) = Depth(d)
<1>1. \A m \in 0..Len(d) : DepthAt(Append(d, t), m) = DepthAt(d, m) /\ DepthAt(d, m) \in Int
  BY PrefixesStay, DepthAppended DEF DepthAt
<1>2. /\ DepthAt(Append(d, t), Len(d) + 1) = DepthAt(d, Len(d)) + TagStep(t)
      /\ DepthAt(d, Len(d)) = Depth(d)
  BY PrefixesStay, DepthAppended DEF DepthAt
<1> QED BY <1>1, <1>2

(* Tag j is open from its place to place m.                                *)
OpenTo(d, j, m) == /\ d[j].kind = "open"
                   /\ \A i \in j..m : DepthAt(d, i) >= DepthAt(d, j)
OpenNow(d) == {j \in 1..Len(d) : OpenTo(d, j, Len(d))}
Around(d, i) == {j \in 1..Len(d) : j < i /\ OpenTo(d, j, i)}
Upto(S, j) == {m \in S : m <= j}
Rank(S, j) == Cardinality(Upto(S, j))

LEMMA RankFacts ==
  ASSUME NEW n \in Nat, NEW S \in SUBSET (1..n)
  PROVE  /\ IsFiniteSet(S) /\ Cardinality(S) \in Nat
         /\ \A j \in S : Rank(S, j) \in 1..Cardinality(S)
         /\ \A i, j \in S : i < j => Rank(S, i) < Rank(S, j)
<1>1. IsFiniteSet(S)
  <2>1. IsFiniteSet(1..n)
    BY FS_Interval
  <2> QED BY <2>1, FS_Subset
<1>2. Cardinality(S) \in Nat
  BY <1>1, FS_CardinalityType
<1>3. \A j : IsFiniteSet(Upto(S, j)) /\ Rank(S, j) \in Nat /\ Rank(S, j) <= Cardinality(S)
  <2> TAKE j
  <2>1. Upto(S, j) \in SUBSET S
    BY DEF Upto
  <2> QED BY <1>1, <2>1, FS_Subset, FS_CardinalityType DEF Rank
<1>4. ASSUME NEW j \in S PROVE Rank(S, j) # 0
  <2>1. j \in Upto(S, j)
    BY DEF Upto
  <2> QED BY <1>3, <2>1, FS_EmptySet DEF Rank
<1>5. ASSUME NEW i \in S, NEW j \in S, i < j PROVE Rank(S, i) < Rank(S, j)
  <2>1. Upto(S, i) \in SUBSET Upto(S, j) /\ j \in Upto(S, j) /\ j \notin Upto(S, i)
    <3>1. \A m \in S : m <= i => m <= j
      BY <1>5
    <3>2. ~(j <= i) /\ j <= j
      BY <1>5
    <3> QED BY <3>1, <3>2 DEF Upto
  <2>2. Rank(S, i) <= Rank(S, j) /\ Rank(S, i) # Rank(S, j)
    BY <1>3, <2>1, FS_Subset DEF Rank
  <2> QED BY <1>3, <2>2
<1> QED BY <1>1, <1>2, <1>3, <1>4, <1>5

(* The stack names the tags that are open, from the outermost in; the one  *)
(* at place k of the stack is at depth k.                                  *)
StackAgrees(d, st) ==
  /\ Len(st) = Depth(d)
  /\ Cardinality(OpenNow(d)) = Len(st)
  /\ \A j \in OpenNow(d) : /\ DepthAt(d, j) = Rank(OpenNow(d), j)
                            /\ st[Rank(OpenNow(d), j)] = d[j].name
  /\ \A k \in 1..Len(st) : \E j \in OpenNow(d) : DepthAt(d, j) = k

LEMMA OpenAppended ==
  ASSUME NEW d \in Seq(Tags), NEW t \in Tags, NEW j \in 1..Len(d)
  PROVE  /\ \A m \in 1..Len(d) : OpenTo(Append(d, t), j, m) <=> OpenTo(d, j, m)
         /\ OpenTo(Append(d, t), j, Len(d) + 1)
              <=> OpenTo(d, j, Len(d)) /\ Depth(d) + TagStep(t) >= DepthAt(d, j)
<1> DEFINE n == Len(d)
           e == Append(d, t)
<1>1. n \in Nat /\ e[j] = d[j]
  OBVIOUS
<1>2. /\ \A m \in 0..n : DepthAt(e, m) = DepthAt(d, m) /\ DepthAt(d, m) \in Int
      /\ DepthAt(e, n + 1) = Depth(d) + TagStep(t)
  BY DepthsAppended
<1>3. \A m \in 1..n : OpenTo(e, j, m) <=> OpenTo(d, j, m)
  BY <1>1, <1>2 DEF OpenTo
<1>4. j..(n + 1) = (j..n) \cup {n + 1}
  BY <1>1
<1>5. OpenTo(e, j, n + 1) <=> OpenTo(d, j, n) /\ Depth(d) + TagStep(t) >= DepthAt(d, j)
  <2>1. OpenTo(e, j, n + 1) <=> e[j].kind = "open" /\ (\A i \in j..n : DepthAt(e, i) >= DepthAt(e, j))
                                 /\ DepthAt(e, n + 1) >= DepthAt(e, j)
    BY <1>4 DEF OpenTo
  <2> HIDE DEF e
  <2> QED BY <1>1, <1>2, <2>1 DEF OpenTo
<1> QED BY <1>3, <1>5

LEMMA OpenSetAppended ==
  ASSUME NEW d \in Seq(Tags), NEW t \in Tags, NEW st, StackAgrees(d, st)
  PROVE  /\ t.kind = "empty" => OpenNow(Append(d, t)) = OpenNow(d)
         /\ t.kind = "open" => OpenNow(Append(d, t)) = OpenNow(d) \cup {Len(d) + 1}
         /\ t.kind = "close" => OpenNow(Append(d, t)) = {j \in OpenNow(d) : DepthAt(d, j) # Depth(d)}
         /\ t.kind # "close" => Around(Append(d, t), Len(d) + 1) = OpenNow(d)
<1> DEFINE n == Len(d)
           e == Append(d, t)
<1>1. /\ n \in Nat /\ Len(e) = n + 1 /\ e[n + 1] = t
      /\ 1..(n + 1) = (1..n) \cup {n + 1} /\ n + 1 \notin 1..n
      /\ t.kind \in {"open", "empty", "close"}
  <2>1. n \in Nat /\ Len(e) = n + 1 /\ e[n + 1] = t
    OBVIOUS
  <2>2. t.kind \in {"open", "empty", "close"}
    BY DEF Tags
  <2> HIDE DEF e, n
  <2> QED BY <2>1, <2>2
<1>2. Depth(d) \in Int
  BY DepthAppended
<1>3. \A j \in OpenNow(d) : DepthAt(d, j) \in Int /\ DepthAt(d, j) <= Depth(d)
  <2>1. OpenNow(d) \in SUBSET (1..n)
    BY DEF OpenNow
  <2>2. \A j \in OpenNow(d) : DepthAt(d, j) \in 1..Cardinality(OpenNow(d))
    <3>1. \A j \in OpenNow(d) : Rank(OpenNow(d), j) \in 1..Cardinality(OpenNow(d))
      BY <1>1, <2>1, RankFacts
    <3> QED BY <3>1 DEF StackAgrees
  <2> QED BY <1>2, <2>2 DEF StackAgrees
<1>4. \A j \in 1..n : OpenTo(e, j, n + 1) <=> j \in OpenNow(d) /\ Depth(d) + TagStep(t) >= DepthAt(d, j)
  BY OpenAppended DEF OpenNow
<1>5. OpenTo(e, n + 1, n + 1) <=> t.kind = "open"
  <2>1. DepthAt(e, n + 1) \in Int
    BY <1>2, DepthsAppended, <1>1 DEF TagStep
  <2> HIDE DEF e
  <2>2. \A i \in (n + 1)..(n + 1) : i = n + 1
    BY <1>1
  <2> QED BY <1>1, <2>1, <2>2 DEF OpenTo
<1>6. OpenNow(e) = {j \in OpenNow(d) : Depth(d) + TagStep(t) >= DepthAt(d, j)}
                   \cup (IF t.kind = "open" THEN {n + 1} ELSE {})
  <2>1. OpenNow(d) \in SUBSET (1..n)
    BY DEF OpenNow
  <2>2. OpenNow(e) = {j \in 1..(n + 1) : OpenTo(e, j, n + 1)}
    BY <1>1 DEF OpenNow
  <2> HIDE DEF e
  <2> QED BY <1>1, <1>4, <1>5, <2>1, <2>2
<1>7. Around(e, n + 1) = {j \in OpenNow(d) : Depth(d) + TagStep(t) >= DepthAt(d, j)}
  <2>1. OpenNow(d) \in SUBSET (1..n)
    BY DEF OpenNow
  <2>2. Around(e, n + 1) = {j \in 1..(n + 1) : j < n + 1 /\ OpenTo(e, j, n + 1)}
    BY <1>1 DEF Around
  <2> HIDE DEF e
  <2> QED BY <1>1, <1>4, <2>1, <2>2
<1> HIDE DEF e
<1>8. t.kind # "close" => \A j \in OpenNow(d) : Depth(d) + TagStep(t) >= DepthAt(d, j)
  BY <1>1, <1>2, <1>3 DEF TagStep
<1>9. t.kind = "close" => \A j \in OpenNow(d) : Depth(d) + TagStep(t) >= DepthAt(d, j) <=> DepthAt(d, j) # Depth(d)
  BY <1>1, <1>2, <1>3 DEF TagStep
<1> QED BY <1>6, <1>7, <1>8, <1>9, <1>1 DEF e

LEMMA StackStarts ==
  ASSUME NEW d \in Seq(Tags), NEW t \in Tags, NEW st \in Seq(Names), StackAgrees(d, st), t.kind = "open"
  PROVE  StackAgrees(Append(d, t), Append(st, t.name))
<1> DEFINE n == Len(d)
           e == Append(d, t)
           S == OpenNow(d)
           D == Len(st)
           after == Append(st, t.name)
<1>1. /\ n \in Nat /\ e[n + 1] = t /\ \A j \in 1..n : e[j] = d[j]
      /\ D \in Nat /\ Len(after) = D + 1 /\ after[D + 1] = t.name /\ \A k \in 1..D : after[k] = st[k]
  OBVIOUS
<1>2. S \in SUBSET (1..n) /\ \A j \in S : j \in Nat /\ j <= n
  BY <1>1 DEF OpenNow
<1>3. OpenNow(e) = S \cup {n + 1}
  BY OpenSetAppended
<1>4. /\ Depth(d) = D /\ Cardinality(S) = D
      /\ \A j \in S : DepthAt(d, j) = Rank(S, j) /\ st[Rank(S, j)] = d[j].name
      /\ \A k \in 1..D : \E j \in S : DepthAt(d, j) = k
  BY DEF StackAgrees
<1>5. /\ Depth(e) = D + 1 /\ DepthAt(e, n + 1) = D + 1
      /\ \A j \in S : DepthAt(e, j) = DepthAt(d, j)
  BY <1>1, <1>2, <1>4, DepthsAppended, DepthAppended DEF TagStep
<1> HIDE DEF e, S, D, n, after
<1>6. IsFiniteSet(S) /\ \A j \in S : Rank(S, j) \in 1..D
  BY <1>1, <1>2, <1>4, RankFacts
<1>7. n + 1 \notin S
  BY <1>1, <1>2
<1>8. Cardinality(S \cup {n + 1}) = D + 1
  BY <1>4, <1>6, <1>7, FS_AddElement
<1>9. Rank(S \cup {n + 1}, n + 1) = D + 1 /\ \A j \in S : Rank(S \cup {n + 1}, j) = Rank(S, j)
  <2>1. Upto(S \cup {n + 1}, n + 1) = S \cup {n + 1}
    <3>1. \A m \in S \cup {n + 1} : m <= n + 1
      BY <1>1, <1>2
    <3> QED BY <3>1 DEF Upto
  <2>2. \A j \in S : Upto(S \cup {n + 1}, j) = Upto(S, j)
    BY <1>1, <1>2 DEF Upto
  <2> QED BY <1>8, <2>1, <2>2 DEF Rank
<1>10. \A j \in S \cup {n + 1} : /\ DepthAt(e, j) = Rank(S \cup {n + 1}, j)
                                /\ after[Rank(S \cup {n + 1}, j)] = e[j].name
  BY <1>1, <1>2, <1>4, <1>5, <1>6, <1>9
<1>11. ASSUME NEW k \in 1..(D + 1) PROVE \E j \in S \cup {n + 1} : DepthAt(e, j) = k
  <2>1. k = D + 1 \/ k \in 1..D
    BY <1>1
  <2> QED BY <2>1, <1>4, <1>5
<1>12. StackAgrees(e, after)
  BY <1>1, <1>3, <1>5, <1>8, <1>10, <1>11 DEF StackAgrees
<1> QED BY <1>12 DEF e, after

LEMMA StackKept ==
  ASSUME NEW d \in Seq(Tags), NEW t \in Tags, NEW st \in Seq(Names), StackAgrees(d, st), t.kind = "empty"
  PROVE  StackAgrees(Append(d, t), st)
<1> DEFINE n == Len(d)
           e == Append(d, t)
           S == OpenNow(d)
<1>1. n \in Nat /\ \A j \in 1..n : e[j] = d[j]
  OBVIOUS
<1>2. S \in SUBSET (1..n)
  BY DEF OpenNow
<1>3. OpenNow(e) = S
  BY OpenSetAppended
<1>4. Depth(e) = Depth(d) /\ \A j \in S : DepthAt(e, j) = DepthAt(d, j)
  BY <1>1, <1>2, DepthsAppended, DepthAppended DEF TagStep
<1>5. \A j \in S : e[j] = d[j]
  BY <1>1, <1>2
<1> HIDE DEF e, S
<1>6. StackAgrees(d, st) <=>
        /\ Len(st) = Depth(d)
        /\ Cardinality(S) = Len(st)
        /\ \A j \in S : DepthAt(d, j) = Rank(S, j) /\ st[Rank(S, j)] = d[j].name
        /\ \A k \in 1..Len(st) : \E j \in S : DepthAt(d, j) = k
  BY DEF StackAgrees, S
<1> QED BY <1>3, <1>4, <1>5, <1>6 DEF StackAgrees, e

LEMMA StackEnds ==
  ASSUME NEW d \in Seq(Tags), NEW t \in Tags, NEW st \in Seq(Names), StackAgrees(d, st),
         t.kind = "close", Depth(d) > 0
  PROVE  StackAgrees(Append(d, t), SubSeq(st, 1, Len(st) - 1))
<1> DEFINE n == Len(d)
           e == Append(d, t)
           S == OpenNow(d)
           D == Len(st)
           after == SubSeq(st, 1, D - 1)
<1>1. n \in Nat /\ D \in Nat /\ \A j \in 1..n : e[j] = d[j]
  OBVIOUS
<1>2. S \in SUBSET (1..n) /\ \A j \in S : j \in Nat
  BY <1>1 DEF OpenNow
<1>3. /\ Depth(d) = D /\ Cardinality(S) = D
      /\ \A j \in S : DepthAt(d, j) = Rank(S, j) /\ st[Rank(S, j)] = d[j].name
      /\ \A k \in 1..D : \E j \in S : DepthAt(d, j) = k
  BY DEF StackAgrees
<1>4. OpenNow(e) = {j \in S : DepthAt(d, j) # D}
  BY <1>3, OpenSetAppended
<1>5. Depth(e) = D - 1 /\ \A j \in S : DepthAt(e, j) = DepthAt(d, j)
  BY <1>1, <1>2, <1>3, DepthsAppended, DepthAppended DEF TagStep
<1>6. D > 0 /\ D - 1 \in Nat /\ D \in 1..D
  BY <1>1, <1>3
<1>7. Len(after) = D - 1 /\ \A k \in 1..(D - 1) : after[k] = st[k]
  <2>1. \A k \in 1..(D - 1) : st[k] \in Names
    BY <1>1
  <2>2. /\ Len(after) = IF 1 <= D - 1 THEN (D - 1) - 1 + 1 ELSE 0
        /\ \A k \in 1..((D - 1) - 1 + 1) : after[k] = st[1 + k - 1]
    <3>1. 1 \in Int /\ D - 1 \in Int
      BY <1>1
    <3> HIDE DEF D
    <3> QED BY <2>1, <3>1, SubSeqProperties
  <2> HIDE DEF after, D
  <2> QED BY <1>6, <2>2
<1> HIDE DEF e, S, D, n, after
<1>8. /\ IsFiniteSet(S) /\ \A j \in S : Rank(S, j) \in 1..D
      /\ \A i, j \in S : i < j => Rank(S, i) < Rank(S, j)
  BY <1>1, <1>2, <1>3, RankFacts
<1>9. PICK top \in S : DepthAt(d, top) = D
  BY <1>3, <1>6
<1>10. \A j \in S : j # top => j < top
  <2> TAKE j \in S
  <2> HAVE j # top
  <2>1. Rank(S, top) = D /\ Rank(S, j) <= D
    BY <1>1, <1>3, <1>8, <1>9
  <2>2. ~(top < j)
    BY <1>1, <1>8, <2>1
  <2> QED BY <1>2, <2>2
<1>11. \A j \in S : j # top => DepthAt(d, j) \in 1..(D - 1)
  <2> TAKE j \in S
  <2> HAVE j # top
  <2>1. Rank(S, j) < Rank(S, top)
    BY <1>8, <1>10
  <2> QED BY <1>1, <1>3, <1>8, <1>9, <2>1
<1>12. OpenNow(e) = S \ {top}
  BY <1>1, <1>4, <1>9, <1>11
<1>13. Cardinality(S \ {top}) = D - 1
  BY <1>3, <1>8, FS_RemoveElement
<1>14. \A j \in S \ {top} : Rank(S \ {top}, j) = Rank(S, j)
  <2> TAKE j \in S \ {top}
  <2>1. ~(top <= j)
    BY <1>2, <1>10
  <2>2. Upto(S \ {top}, j) = Upto(S, j)
    BY <2>1 DEF Upto
  <2> QED BY <2>2 DEF Rank
<1>15. \A j \in S \ {top} : /\ DepthAt(e, j) = Rank(S \ {top}, j)
                           /\ after[Rank(S \ {top}, j)] = e[j].name
  <2> TAKE j \in S \ {top}
  <2>1. DepthAt(e, j) = DepthAt(d, j) /\ DepthAt(d, j) = Rank(S, j) /\ st[Rank(S, j)] = d[j].name
    BY <1>3, <1>5
  <2>2. Rank(S, j) \in 1..(D - 1) /\ e[j] = d[j]
    BY <1>1, <1>2, <1>11, <2>1
  <2> QED BY <1>7, <1>14, <2>1, <2>2
<1>16. ASSUME NEW k \in 1..(D - 1) PROVE \E j \in S \ {top} : DepthAt(e, j) = k
  <2>1. k \in 1..D /\ k # D
    BY <1>1
  <2>2. PICK j \in S : DepthAt(d, j) = k
    BY <1>3, <2>1
  <2> QED BY <1>5, <1>9, <2>1, <2>2
<1>17. StackAgrees(e, after)
  BY <1>5, <1>7, <1>12, <1>13, <1>15, <1>16 DEF StackAgrees
<1> QED BY <1>17 DEF e, after, D

Marked(d) == {i \in 1..Len(d) : d[i].topic}
PathAgrees(d, i, path) ==
  /\ Len(path) = Cardinality(Around(d, i)) + 1 /\ path[Len(path)] = d[i].name
  /\ \A j \in Around(d, i) : path[Rank(Around(d, i), j)] = d[j].name
FoundAgrees(d, found) ==
  /\ Len(found) = Cardinality(Marked(d))
  /\ \A i \in Marked(d) : PathAgrees(d, i, found[Rank(Marked(d), i)])

LEMMA WalkAgrees ==
  ASSUME etDoc \in Seq(Tags)
  PROVE  WalkFindsTopics <=> FoundAgrees(etDoc, etFound)
<1>1. DOMAIN etDoc = 1..Len(etDoc)
  OBVIOUS
<1>2. \A i : {j \in DOMAIN etDoc : Encloses(j, i)} = Around(etDoc, i)
  BY <1>1 DEF Encloses, Around, OpenTo, DepthAt
<1>3. {i \in DOMAIN etDoc : etDoc[i].topic} = Marked(etDoc)
  BY <1>1 DEF Marked
<1>4. \A i, j : {m \in {k \in DOMAIN etDoc : Encloses(k, i)} : m <= j} = Upto(Around(etDoc, i), j)
  BY <1>2 DEF Upto
<1>5. \A i : {m \in {k \in DOMAIN etDoc : etDoc[k].topic} : m <= i} = Upto(Marked(etDoc), i)
  BY <1>3 DEF Upto
<1>6. ASSUME NEW i, NEW path
      PROVE  PathAgrees(etDoc, i, path) <=>
               /\ Len(path) = Cardinality({j \in DOMAIN etDoc : Encloses(j, i)}) + 1
               /\ path[Len(path)] = etDoc[i].name
               /\ \A j \in {k \in DOMAIN etDoc : Encloses(k, i)} :
                    path[Cardinality({m \in {k \in DOMAIN etDoc : Encloses(k, i)} : m <= j})] = etDoc[j].name
  <2>1. {j \in DOMAIN etDoc : Encloses(j, i)} = Around(etDoc, i)
    BY <1>2
  <2>2. \A j : {m \in Around(etDoc, i) : m <= j} = Upto(Around(etDoc, i), j)
    BY DEF Upto
  <2> QED BY <2>1, <2>2, Zenon DEF PathAgrees, Rank
<1>7. \A i : Cardinality({m \in {k \in DOMAIN etDoc : etDoc[k].topic} : m <= i}) = Rank(Marked(etDoc), i)
  BY <1>5 DEF Rank
<1> DEFINE marked == {k \in DOMAIN etDoc : etDoc[k].topic}
           found(i) == etFound[Cardinality({m \in marked : m <= i})]
           about(i) == /\ Len(found(i)) = Cardinality({j \in DOMAIN etDoc : Encloses(j, i)}) + 1
                       /\ found(i)[Len(found(i))] = etDoc[i].name
                       /\ \A j \in {k \in DOMAIN etDoc : Encloses(k, i)} :
                            found(i)[Cardinality({m \in {k \in DOMAIN etDoc : Encloses(k, i)} : m <= j})] = etDoc[j].name
<1>8. \A i : about(i) <=> PathAgrees(etDoc, i, etFound[Rank(Marked(etDoc), i)])
  <2> TAKE i
  <2>1. found(i) = etFound[Rank(Marked(etDoc), i)]
    BY <1>7
  <2>2. about(i) <=> PathAgrees(etDoc, i, found(i))
    BY <1>6, Zenon
  <2> QED BY <2>1, <2>2, Zenon
<1>9. WalkFindsTopics <=> Len(etFound) = Cardinality(marked) /\ \A i \in marked : about(i)
  BY Zenon DEF WalkFindsTopics
<1> HIDE DEF about
<1> QED BY <1>3, <1>8, <1>9, Zenon DEF FoundAgrees

LEMMA PathsStay ==
  ASSUME NEW d \in Seq(Tags), NEW t \in Tags, NEW i \in 1..Len(d), NEW path, PathAgrees(d, i, path)
  PROVE  PathAgrees(Append(d, t), i, path)
<1> DEFINE n == Len(d)
           e == Append(d, t)
<1>1. n \in Nat /\ Len(e) = n + 1 /\ \A j \in 1..n : e[j] = d[j]
  OBVIOUS
<1>2. \A j \in 1..n : OpenTo(e, j, i) <=> OpenTo(d, j, i)
  BY OpenAppended
<1>3. Around(e, i) = Around(d, i)
  <2>1. \A j \in 1..(n + 1) : j < i => j \in 1..n
    BY <1>1
  <2>2. 1..n \in SUBSET (1..(n + 1))
    BY <1>1
  <2> HIDE DEF e
  <2> QED BY <1>1, <1>2, <2>1, <2>2 DEF Around
<1>4. Around(d, i) \in SUBSET (1..n)
  BY DEF Around
<1> HIDE DEF e
<1>5. PathAgrees(e, i, path)
  BY <1>1, <1>3, <1>4 DEF PathAgrees
<1> QED BY <1>5 DEF e

(* What is found stays found; a tag that is marked is found by the stack.  *)
LEMMA FoundSteps ==
  ASSUME NEW d \in Seq(Tags), NEW t \in Tags, NEW st \in Seq(Names), NEW found \in Seq(Seq(Names)),
         StackAgrees(d, st), FoundAgrees(d, found), t.topic => t.kind # "close"
  PROVE  FoundAgrees(Append(d, t), IF t.topic THEN Append(found, Append(st, t.name)) ELSE found)
<1> DEFINE n == Len(d)
           e == Append(d, t)
           M == Marked(d)
           path == Append(st, t.name)
           F == Len(found)
<1>1. n \in Nat /\ F \in Nat /\ Len(e) = n + 1 /\ e[n + 1] = t /\ \A j \in 1..n : e[j] = d[j]
  OBVIOUS
<1>2. M \in SUBSET (1..n) /\ (\A j \in M : j <= n) /\ n + 1 \notin M
  BY <1>1 DEF Marked
<1>3. Marked(e) = IF t.topic THEN M \cup {n + 1} ELSE M
  <2>1. 1..(n + 1) = (1..n) \cup {n + 1}
    BY <1>1
  <2> HIDE DEF e
  <2> QED BY <1>1, <2>1 DEF Marked
<1>4. F = Cardinality(M) /\ \A i \in M : PathAgrees(d, i, found[Rank(M, i)])
  BY DEF FoundAgrees
<1>5. \A i \in M : PathAgrees(e, i, found[Rank(M, i)])
  BY <1>2, <1>4, PathsStay
<1> HIDE DEF e
<1>6. CASE ~t.topic
  BY <1>3, <1>4, <1>5, <1>6 DEF FoundAgrees, e
<1>7. CASE t.topic
  <2>1. /\ path \in Seq(Names) /\ Len(path) = Len(st) + 1 /\ path[Len(st) + 1] = t.name
        /\ Len(st) \in Nat /\ \A k \in 1..Len(st) : path[k] = st[k]
    <3>1. t.name \in Names
      BY DEF Names, Tags
    <3> QED BY <3>1
  <2> DEFINE after == Append(found, path)
  <2>2. Len(after) = F + 1 /\ after[F + 1] = path /\ \A k \in 1..F : after[k] = found[k]
    BY <2>1
  <2> HIDE DEF path, after, M, n, F
  <2>3. Around(e, n + 1) = OpenNow(d)
    BY <1>7, OpenSetAppended DEF e, n
  <2>4. OpenNow(d) \in SUBSET (1..n)
    BY DEF OpenNow, n
  <2>5. /\ Cardinality(OpenNow(d)) = Len(st)
        /\ \A j \in OpenNow(d) : st[Rank(OpenNow(d), j)] = d[j].name
    BY DEF StackAgrees
  <2>6. \A j \in OpenNow(d) : Rank(OpenNow(d), j) \in 1..Len(st)
    BY <1>1, <2>4, <2>5, RankFacts
  <2>7. PathAgrees(e, n + 1, path)
    BY <1>1, <2>1, <2>3, <2>4, <2>5, <2>6 DEF PathAgrees
  <2>8. IsFiniteSet(M) /\ \A j \in M : Rank(M, j) \in 1..F
    BY <1>1, <1>2, <1>4, RankFacts
  <2>9. Cardinality(M \cup {n + 1}) = F + 1
    BY <1>2, <1>4, <2>8, FS_AddElement
  <2>10. Rank(M \cup {n + 1}, n + 1) = F + 1 /\ \A j \in M : Rank(M \cup {n + 1}, j) = Rank(M, j)
    <3>1. \A j \in M : ~(n + 1 <= j) /\ j <= n + 1
      BY <1>1, <1>2
    <3>2. n + 1 <= n + 1
      BY <1>1
    <3>3. Upto(M \cup {n + 1}, n + 1) = M \cup {n + 1}
      BY <3>1, <3>2 DEF Upto
    <3>4. \A j \in M : Upto(M \cup {n + 1}, j) = Upto(M, j)
      BY <3>1 DEF Upto
    <3> QED BY <2>9, <3>3, <3>4 DEF Rank
  <2>11. \A i \in M \cup {n + 1} : PathAgrees(e, i, after[Rank(M \cup {n + 1}, i)])
    BY <1>5, <2>2, <2>7, <2>8, <2>10
  <2>12. FoundAgrees(e, after)
    BY <1>3, <1>7, <2>2, <2>9, <2>11 DEF FoundAgrees
  <2> QED BY <1>7, <2>12 DEF e, after, path
<1> QED BY <1>6, <1>7

(* The walk agrees with the tree of the document; a refresh that no other  *)
(* overlaps has read the list as it still is.                              *)
WalkInv ==
  /\ etDoc \in Seq(Tags) /\ etStack \in Seq(Names) /\ etFound \in Seq(Seq(Names))
  /\ StackAgrees(etDoc, etStack)
  /\ FoundAgrees(etDoc, etFound)

RefreshRows == [pc : {"idle", "ask", "save"}, read : SUBSET EtTopics, found : SUBSET EtTopics,
                alone : BOOLEAN]
RefreshInv ==
  /\ etRefresh \in [EtRefreshes -> RefreshRows]
  /\ etReal \in SUBSET EtTopics /\ etList \in SUBSET EtTopics
  /\ \A r \in EtRefreshes : etRefresh[r].pc # "idle" /\ etRefresh[r].alone
       => /\ etRefresh[r].read = etList
          /\ \A q \in EtRefreshes \ {r} : etRefresh[q].pc = "idle"

TopicsInv == WalkInv /\ RefreshInv

LEMMA TopicsInitially == TopicsInit => TopicsInv
<1> SUFFICES ASSUME TopicsInit PROVE TopicsInv
  OBVIOUS
<1>1. \A k : OfKind(<<>>, k) = {}
  BY DEF OfKind
<1>2. \A e : Depth(e) = Cardinality(OfKind(e, "open")) - Cardinality(OfKind(e, "close"))
  BY DEF Depth, OfKind
<1>3. OpenNow(<<>>) = {} /\ Marked(<<>>) = {} /\ Len(<<>>) = 0
  BY DEF OpenNow, Marked
<1>4. Cardinality({}) = 0
  BY FS_EmptySet
<1>5. Depth(<<>>) = 0
  BY <1>1, <1>2, <1>4
<1>6. StackAgrees(<<>>, <<>>) /\ FoundAgrees(<<>>, <<>>)
  <2>1. 1..0 = {}
    OBVIOUS
  <2>2. StackAgrees(<<>>, <<>>)
    BY <1>3, <1>4, <1>5, <2>1, Zenon DEF StackAgrees
  <2> QED BY <1>3, <1>4, <2>2, Zenon DEF FoundAgrees
<1>7. WalkInv
  BY <1>6 DEF WalkInv, TopicsInit
<1>8. RefreshInv
  BY DEF RefreshInv, RefreshRows, TopicsInit, NoRefresh
<1> QED BY <1>7, <1>8 DEF TopicsInv

LEMMA WalkKept ==
  ASSUME WalkInv, ReadTag
  PROVE  WalkInv'
<1>1. CASE EndTag
  <2> DEFINE t == [kind |-> "close", name |-> "", topic |-> FALSE]
  <2>1. t \in Tags /\ t.kind = "close" /\ t.topic = FALSE
    BY DEF Tags
  <2>2. /\ Depth(etDoc) > 0 /\ etDoc' = Append(etDoc, t)
        /\ etStack' = SubSeq(etStack, 1, Len(etStack) - 1) /\ etFound' = etFound
    BY <1>1 DEF EndTag
  <2> HIDE DEF t
  <2>3. StackAgrees(etDoc', etStack')
    BY <2>1, <2>2, StackEnds DEF WalkInv
  <2>4. FoundAgrees(etDoc', etFound')
    BY <2>1, <2>2, FoundSteps DEF WalkInv
  <2>5. etDoc' \in Seq(Tags)
    BY <2>1, <2>2 DEF WalkInv
  <2>6. etStack' \in Seq(Names)
    <3>1. /\ Len(etStack) \in Nat /\ 1 \in Int /\ Len(etStack) - 1 \in Int
          /\ \A k \in 1..(Len(etStack) - 1) : etStack[k] \in Names
      BY DEF WalkInv
    <3> QED BY <2>2, <3>1, SubSeqProperties
  <2> QED BY <2>2, <2>3, <2>4, <2>5, <2>6 DEF WalkInv
<1>2. ASSUME NEW kind \in {"open", "empty"}, NEW name \in TagNames, NEW topic \in BOOLEAN,
             StartTag(kind, name, topic)
      PROVE  WalkInv'
  <2> DEFINE t == [kind |-> kind, name |-> name, topic |-> topic]
  <2>1. t \in Tags /\ t.kind = kind /\ t.name = name /\ t.topic = topic /\ name \in Names
    BY DEF Tags, Names
  <2>2. /\ etDoc' = Append(etDoc, t)
        /\ etFound' = IF topic THEN Append(etFound, Append(etStack, name)) ELSE etFound
        /\ etStack' = IF kind = "empty" THEN etStack ELSE Append(etStack, name)
    BY <1>2 DEF StartTag
  <2> HIDE DEF t
  <2>3. StackAgrees(etDoc', etStack')
    <3>1. CASE kind = "open"
      BY <2>1, <2>2, <3>1, StackStarts DEF WalkInv
    <3>2. CASE kind = "empty"
      BY <2>1, <2>2, <3>2, StackKept DEF WalkInv
    <3> QED BY <3>1, <3>2
  <2>4. FoundAgrees(etDoc', etFound')
    <3>1. kind # "close"
      OBVIOUS
    <3> QED BY <2>1, <2>2, <3>1, FoundSteps DEF WalkInv
  <2>5. etDoc' \in Seq(Tags) /\ etStack' \in Seq(Names) /\ etFound' \in Seq(Seq(Names))
    BY <2>1, <2>2 DEF WalkInv
  <2> QED BY <2>3, <2>4, <2>5 DEF WalkInv
<1> QED BY <1>1, <1>2 DEF ReadTag

LEMMA RefreshKept ==
  ASSUME RefreshInv,
         \/ \E r \in EtRefreshes : RefreshBegin(r) \/ RefreshAsk(r) \/ RefreshSave(r)
         \/ \E topics \in SUBSET EtTopics : CameraTopics(topics)
  PROVE  /\ RefreshInv'
         /\ \A r \in EtRefreshes : (etRefresh[r].pc = "save" /\ etRefresh'[r].pc = "idle" /\ etRefresh[r].alone)
               => etList \subseteq etList'
<1>1. ASSUME NEW r \in EtRefreshes, RefreshBegin(r)
      PROVE  RefreshInv' /\ etList' = etList
  <2>1. PICK calm \in BOOLEAN : calm <=> \A p \in EtRefreshes : etRefresh[p].pc = "idle"
    OBVIOUS
  <2> DEFINE asks == [pc |-> "ask", read |-> etList, found |-> {}, alone |-> calm]
  <2>2. etRefresh' = [q \in EtRefreshes |-> IF q = r THEN asks ELSE [etRefresh[q] EXCEPT !.alone = FALSE]]
    BY <1>1, <2>1 DEF RefreshBegin
  <2>3. etReal' = etReal /\ etList' = etList
    BY <1>1 DEF RefreshBegin
  <2>4. /\ etRefresh'[r].pc = "ask" /\ etRefresh'[r].read = etList /\ etRefresh'[r].found = {}
        /\ etRefresh'[r].alone = calm
        /\ \A q \in EtRefreshes \ {r} : etRefresh'[q].pc = etRefresh[q].pc /\ ~etRefresh'[q].alone
    BY <2>2 DEF RefreshInv, RefreshRows
  <2>5. etRefresh' \in [EtRefreshes -> RefreshRows]
    <3>1. asks \in RefreshRows /\ \A row \in RefreshRows : [row EXCEPT !.alone = FALSE] \in RefreshRows
      BY DEF RefreshInv, RefreshRows
    <3>2. \A q \in EtRefreshes : etRefresh[q] \in RefreshRows
      BY DEF RefreshInv
    <3> HIDE DEF asks
    <3> QED BY <2>2, <3>1, <3>2
  <2>6. \A q \in EtRefreshes : etRefresh'[q].pc # "idle" /\ etRefresh'[q].alone => q = r /\ calm
    BY <2>4
  <2> QED BY <2>1, <2>3, <2>4, <2>5, <2>6 DEF RefreshInv
<1>2. ASSUME NEW r \in EtRefreshes, RefreshAsk(r)
      PROVE  RefreshInv' /\ etList' = etList
  BY <1>2 DEF RefreshAsk, RefreshInv, RefreshRows
<1>3. ASSUME NEW r \in EtRefreshes, RefreshSave(r)
      PROVE  /\ RefreshInv'
             /\ \A q \in EtRefreshes : (etRefresh[q].pc = "save" /\ etRefresh'[q].pc = "idle" /\ etRefresh[q].alone)
               => etList \subseteq etList'
  BY <1>3 DEF RefreshSave, RefreshInv, RefreshRows, NoRefresh
<1>4. ASSUME NEW topics \in SUBSET EtTopics, CameraTopics(topics)
      PROVE  RefreshInv' /\ etList' = etList
  BY <1>4 DEF CameraTopics, RefreshInv
<1> QED BY <1>1, <1>2, <1>3, <1>4

LEMMA TopicsStep == TopicsInv /\ [TopicsNext]_etVars => TopicsInv'
<1> SUFFICES ASSUME TopicsInv, [TopicsNext]_etVars PROVE TopicsInv'
  OBVIOUS
<1>1. CASE ReadTag
  <2>1. WalkInv'
    BY <1>1, WalkKept DEF TopicsInv
  <2>2. RefreshInv'
    BY <1>1 DEF TopicsInv, RefreshInv, ReadTag, etListVars
  <2> QED BY <2>1, <2>2 DEF TopicsInv
<1>2. CASE \/ \E r \in EtRefreshes : RefreshBegin(r) \/ RefreshAsk(r) \/ RefreshSave(r)
           \/ \E topics \in SUBSET EtTopics : CameraTopics(topics)
  <2>1. RefreshInv'
    BY <1>2, RefreshKept DEF TopicsInv
  <2>2. UNCHANGED <<etDoc, etStack, etFound>>
    BY <1>2 DEF RefreshBegin, RefreshAsk, RefreshSave, CameraTopics, etWalkVars
  <2>3. WalkInv'
    BY <2>2 DEF TopicsInv, WalkInv
  <2> QED BY <2>1, <2>3 DEF TopicsInv
<1>3. CASE UNCHANGED etVars
  BY <1>3 DEF etVars, TopicsInv, WalkInv, RefreshInv
<1> QED BY <1>1, <1>2, <1>3 DEF TopicsNext

(* For every document, list of topics and overlap of refreshes: the walk   *)
(* of getEventProperties finds every marked element by the names around    *)
(* it, and a refresh nobody overlaps removes no topic from the list.       *)
THEOREM WalkAndListHold == TopicsSpec => TopicsSteps
<1>1. TopicsInv => WalkFindsTopics
  BY WalkAgrees DEF TopicsInv, WalkInv
<1>2. TopicsInv /\ TopicsInv' /\ [TopicsNext]_etVars => [WalkFindsTopics']_etVars
  <2>1. TopicsInv' => WalkFindsTopics'
    BY <1>1, PTL
  <2> QED BY <2>1
<1>3. TopicsInv /\ [TopicsNext]_etVars =>
        [\A r \in EtRefreshes : (etRefresh[r].pc = "save" /\ etRefresh'[r].pc = "idle" /\ etRefresh[r].alone)
           => etList \subseteq etList']_etVars
  <2> SUFFICES ASSUME TopicsInv, TopicsNext
        PROVE \A r \in EtRefreshes : (etRefresh[r].pc = "save" /\ etRefresh'[r].pc = "idle" /\ etRefresh[r].alone)
           => etList \subseteq etList'
    OBVIOUS
  <2>1. CASE ReadTag
    BY <2>1 DEF ReadTag, etListVars
  <2>2. CASE \/ \E r \in EtRefreshes : RefreshBegin(r) \/ RefreshAsk(r) \/ RefreshSave(r)
             \/ \E topics \in SUBSET EtTopics : CameraTopics(topics)
    BY <2>2, RefreshKept DEF TopicsInv
  <2> QED BY <2>1, <2>2 DEF TopicsNext
<1> QED BY <1>1, <1>2, <1>3, TopicsInitially, TopicsStep, PTL DEF TopicsSpec, TopicsSteps, TopicsKept
=============================================================================
