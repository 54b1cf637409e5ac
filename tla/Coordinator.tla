----------------------------- MODULE Coordinator -----------------------------
(***************************************************************************)
(* The coordinator's channel to one kiosk (service-coordinator-ws): the    *)
(* registered socket, the queue of commands for an offline kiosk, requests *)
(* that wait for an answer, and the debug sessions of administrators.      *)
(*                                                                         *)
(* Handlers run to completion, so each is one step; sockets, answers,      *)
(* timers and the assignment check of a viewer come back later, in any     *)
(* order.  A dead connection stays "open" on the server until its close    *)
(* event, a missed pong or a reconnection; what is sent meanwhile is lost. *)
(* Power commands, which take another path, are in ViewerPower.            *)
(***************************************************************************)
EXTENDS Integers, Sequences, FiniteSets

CONSTANTS Admins,         \* administrators whose debug sessions pass authentication
          Requests,       \* requests that may be made (requestId)
          Layouts,        \* layouts a viewer may be told to show
          QueueCap,       \* MESSAGE_QUEUE_CAP
          MaxSocks,       \* bound on connections
          MaxMsgs         \* bound on messages

ASSUME CoordAssumption ==
  QueueCap \in Nat \ {0} /\ MaxSocks \in Nat /\ MaxMsgs \in Nat

VARIABLES
  viewer,    \* is the kiosk an Android viewer?
  assigned,  \* layouts assigned to the viewer (the database)
  conn,      \* connectedKiosks: the registered socket, 0 if there is none
  sock,      \* readyState of every socket of this kiosk
  client,    \* the socket the kiosk itself is using, 0 if none
  wire,      \* messages sent on each socket and not yet received
  queue,     \* offlineQueues
  req,       \* pendingRequests, and how requests ended
  answers,   \* answers on their way: <<socket, request>>
  checks,    \* layout switches whose assignment is being read
  subs,      \* debugSubscribers
  streaming, \* the kiosk's journal stream; it dies with the connection
  sent,      \* number of the last message
  ran        \* history: numbers of the commands the kiosk ran

coordVars == <<viewer, assigned, conn, sock, client, wire, queue, req, answers,
               checks, subs, streaming, sent, ran>>
netVars == <<conn, sock, client>>

Socks == 1..MaxSocks
IsOpen == conn # 0 /\ sock[conn] = "open"
Msg(type) == [type |-> type, n |-> sent + 1, about |-> 0]
NoRequest == [state |-> "none", sock |-> 0]
-----------------------------------------------------------------------------
(* Sending *)

\* androidViewerCommandAllowed for a command that is not a power command.
androidViewerCommandAllowed(m) == m.type \in {"reload-bundle", "layout-switch"}

\* FIFO eviction beyond the cap.
Enqueue(q, m) == IF Len(q) < QueueCap THEN Append(q, m) ELSE Append(Tail(q), m)

\* What sendToKiosk does with message m on the state it finds.
sendToKiosk(m, queueWhenOffline) ==
  IF conn # 0 /\ viewer /\ ~androidViewerCommandAllowed(m) THEN UNCHANGED <<queue, wire, checks>>
  ELSE IF conn # 0 /\ viewer /\ m.type = "layout-switch" THEN
    /\ checks' = IF IsOpen THEN checks \cup {[sock |-> conn, m |-> m, ok |-> "reading"]} ELSE checks
    /\ UNCHANGED <<queue, wire>>
  ELSE IF IsOpen THEN wire' = [wire EXCEPT ![conn] = Append(@, m)] /\ UNCHANGED <<queue, checks>>
  ELSE /\ queue' = IF queueWhenOffline THEN Enqueue(queue, m) ELSE queue
       /\ UNCHANGED <<wire, checks>>

\* A command of the admin pages, or a reload after a configuration change; the
\* broadcasts (notifyBundleChanged) do not queue.
SendCommand(type, about, queueWhenOffline) ==
  /\ sent < MaxMsgs /\ sent' = sent + 1
  /\ sendToKiosk([Msg(type) EXCEPT !.about = about], queueWhenOffline)
  /\ UNCHANGED <<viewer, assigned, netVars, req, answers, subs, streaming, ran>>

\* validateViewerLayout reads the assignment ...
CheckRead(c) ==
  /\ c.ok = "reading"
  /\ checks' = (checks \ {c}) \cup {[c EXCEPT !.ok = IF c.m.about \in assigned THEN "yes" ELSE "no"]}
  /\ UNCHANGED <<viewer, assigned, netVars, wire, queue, req, answers, subs, streaming, sent, ran>>

\* ... and the switch goes out only on the socket it was asked for.
CheckDone(c) ==
  /\ c.ok # "reading"
  /\ checks' = checks \ {c}
  /\ wire' = IF c.ok = "yes" /\ conn = c.sock /\ IsOpen
             THEN [wire EXCEPT ![conn] = Append(@, c.m)] ELSE wire
  /\ UNCHANGED <<viewer, assigned, netVars, queue, req, answers, subs, streaming, sent, ran>>

Assign(set) ==
  /\ viewer /\ assigned' = set
  /\ UNCHANGED <<viewer, netVars, wire, queue, req, answers, checks, subs, streaming, sent, ran>>
-----------------------------------------------------------------------------
(* Connections *)

\* Pending requests of a socket that is gone are rejected.
RejectRequests(s) == [r \in Requests |-> IF req[r].state = "pending" /\ req[r].sock = s
                                         THEN [req[r] EXCEPT !.state = "rejected"] ELSE req[r]]

\* What of the queue goes out at once, each message of it in its turn: for a
\* viewer only reloads do, layout switches after their check.
Due == {i \in DOMAIN queue : ~viewer \/ queue[i].type = "reload-bundle"}

SendQueued(s) ==
  /\ \E turn \in [1..Cardinality(Due) -> Due] :
       /\ \A i, j \in DOMAIN turn : i < j => turn[i] < turn[j]
       /\ \A d \in Due : \E i \in DOMAIN turn : turn[i] = d
       /\ wire' = [wire EXCEPT ![s] = [i \in 1..Cardinality(Due) |-> queue[turn[i]]]]
  /\ checks' = checks \cup {[sock |-> s, m |-> queue[i], ok |-> "reading"] :
                              i \in {j \in DOMAIN queue : viewer /\ queue[j].type = "layout-switch"}}

\* Mutant: the queue is not deleted once it has been sent.
drainOfflineQueueKept(s) == SendQueued(s) /\ queue' = queue

\* Every queued message goes through sendToKiosk; the queue is deleted.
drainOfflineQueue(s) == SendQueued(s) /\ queue' = <<>>

\* The upgrade of a kiosk: register the socket, reject what waits on the
\* previous one and terminate it, drain the queue.
Connect ==
  \E s \in Socks :
    /\ client = 0
    /\ sock[s] = "unused" /\ \A t \in 1..(s - 1) : sock[t] # "unused"
    /\ client' = s /\ conn' = s
    /\ sock' = [t \in Socks |-> IF t = s THEN "open"
                                ELSE IF t = conn /\ sock[t] = "open" THEN "closing" ELSE sock[t]]
    /\ req' = RejectRequests(conn)
    /\ drainOfflineQueue(s)
    /\ UNCHANGED <<viewer, assigned, answers, subs, streaming, sent, ran>>

\* The kiosk loses its connection; the server need not know.  The journal
\* stream belongs to the connection and ends with it.
Disconnect ==
  /\ client # 0
  /\ client' = 0 /\ streaming' = FALSE
  /\ UNCHANGED <<viewer, assigned, conn, sock, wire, queue, req, answers, checks, subs, sent, ran>>

\* terminateStale, before every ping: no pong was read for 90 seconds.
terminateStale ==
  /\ IsOpen
  /\ sock' = [sock EXCEPT ![conn] = "closing"]
  /\ UNCHANGED <<viewer, assigned, conn, client, wire, queue, req, answers, checks, subs, streaming,
                 sent, ran>>

\* The close event: removeSocket forgets the connection only if it is this
\* socket, and its requests are rejected.
CloseEvent(s) ==
  /\ sock[s] = "closing" \/ (sock[s] = "open" /\ client # s)
  /\ sock' = [sock EXCEPT ![s] = "closed"]
  /\ IF conn = s THEN conn' = 0 /\ req' = RejectRequests(s) ELSE UNCHANGED <<conn, req>>
  /\ UNCHANGED <<viewer, assigned, client, wire, queue, answers, checks, subs, streaming, sent, ran>>
-----------------------------------------------------------------------------
(* Requests *)

\* requestKiosk: rejected at once unless the message goes out now; never queued.
requestKiosk(r) ==
  /\ req[r].state = "none" /\ sent < MaxMsgs
  /\ LET goes == IsOpen /\ ~viewer
         m    == [Msg("request") EXCEPT !.about = r]
     IN  /\ req' = [req EXCEPT ![r] = [state |-> IF goes THEN "pending" ELSE "rejected", sock |-> conn]]
         /\ wire' = IF goes THEN [wire EXCEPT ![conn] = Append(@, m)] ELSE wire
         /\ sent' = IF goes THEN sent + 1 ELSE sent
  /\ UNCHANGED <<viewer, assigned, netVars, queue, answers, checks, subs, streaming, ran>>

\* The timer of a request fires.
RequestTimeout(r) ==
  /\ req[r].state = "pending"
  /\ req' = [req EXCEPT ![r].state = "rejected"]
  /\ UNCHANGED <<viewer, assigned, netVars, wire, queue, answers, checks, subs, streaming, sent, ran>>

\* An answer arrives: it counts if its socket is the registered one and the
\* request went out on it.
AcceptAnswer(a) ==
  /\ sock[a[1]] = "open" /\ answers' = answers \ {a}
  /\ req' = IF conn = a[1] /\ req[a[2]] = [state |-> "pending", sock |-> a[1]]
            THEN [req EXCEPT ![a[2]].state = "resolved"] ELSE req
  /\ UNCHANGED <<viewer, assigned, netVars, wire, queue, checks, subs, streaming, sent, ran>>
-----------------------------------------------------------------------------
(* Debug sessions *)

\* The upgrade of an administrator: refused for viewers.
addDebugSubscriber(a) ==
  /\ ~viewer /\ a \notin subs
  /\ subs' = subs \cup {a}
  /\ UNCHANGED <<viewer, assigned, netVars, wire, queue, req, answers, checks, streaming, sent, ran>>

\* A message of a subscriber is relayed, or queued.
relayToKiosk(a, type) ==
  /\ a \in subs
  /\ SendCommand(type, 0, TRUE)

\* A subscriber leaves; the last one stops the stream and the terminal.  (One
\* message stands for both: the kiosk ends both sessions.)
SubscriberClosed(a) ==
  /\ a \in subs /\ subs' = subs \ {a}
  /\ IF subs = {a} THEN sent < MaxMsgs + 1 /\ sent' = sent + 1 /\ sendToKiosk(Msg("journal-stop"), TRUE)
     ELSE UNCHANGED <<sent, wire, queue, checks>>
  /\ UNCHANGED <<viewer, assigned, netVars, req, answers, streaming, ran>>
-----------------------------------------------------------------------------
(* The kiosk *)

\* The kiosk takes the next message of its connection and runs it.
Receive ==
  /\ client # 0 /\ wire[client] # <<>>
  /\ LET m == Head(wire[client])
     IN  /\ wire' = [wire EXCEPT ![client] = Tail(@)]
         /\ ran' = Append(ran, m.n)
         /\ streaming' = CASE m.type = "journal-start" -> TRUE
                           [] m.type = "journal-stop" -> FALSE
                           [] OTHER -> streaming
         /\ answers' = IF m.type = "request" THEN answers \cup {<<client, m.about>>} ELSE answers
  /\ UNCHANGED <<viewer, assigned, netVars, queue, req, checks, subs, sent>>
-----------------------------------------------------------------------------
CoordInit ==
  /\ viewer \in BOOLEAN
  /\ assigned \in IF viewer THEN {Layouts} ELSE {{}}
  /\ conn = 0 /\ client = 0
  /\ sock = [s \in Socks |-> "unused"]
  /\ wire = [s \in Socks |-> <<>>]
  /\ queue = <<>> /\ checks = {} /\ answers = {} /\ subs = {}
  /\ req = [r \in Requests |-> NoRequest]
  /\ streaming = FALSE /\ sent = 0 /\ ran = <<>>

CoordNext ==
  \/ \E q \in BOOLEAN : SendCommand("reload-bundle", 0, q)
  \/ \E l \in Layouts : SendCommand("layout-switch", l, TRUE)
  \/ \E c \in checks : CheckRead(c) \/ CheckDone(c)
  \/ \E set \in SUBSET Layouts : Assign(set)
  \/ Connect \/ Disconnect \/ terminateStale
  \/ \E s \in Socks : CloseEvent(s)
  \/ \E r \in Requests : requestKiosk(r) \/ RequestTimeout(r)
  \/ \E a \in answers : AcceptAnswer(a)
  \/ \E a \in Admins : \/ addDebugSubscriber(a)
                       \/ \E type \in {"journal-start", "journal-stop"} : relayToKiosk(a, type)
                       \/ SubscriberClosed(a)
  \/ Receive

CoordSpec == CoordInit /\ [][CoordNext]_coordVars
-----------------------------------------------------------------------------
\* The state has its types, and the queue never exceeds its cap.
CoordTypeOK ==
  /\ viewer \in BOOLEAN /\ assigned \subseteq Layouts
  /\ conn \in 0..MaxSocks /\ client \in 0..MaxSocks
  /\ sock \in [Socks -> {"unused", "open", "closing", "closed"}]
  /\ \A s \in Socks : \A i \in DOMAIN wire[s] : wire[s][i].n \in 1..sent
  /\ Len(queue) <= QueueCap
  /\ req \in [Requests -> [state : {"none", "pending", "resolved", "rejected"}, sock : 0..MaxSocks]]
  /\ answers \subseteq Socks \X Requests
  /\ subs \subseteq Admins /\ streaming \in BOOLEAN /\ sent \in 0..(MaxMsgs + 1)

\* A request waits only on the socket that is registered: none survives the
\* close or the replacement of its connection to be answered by another.
RequestsFollowSocket ==
  \A r \in Requests : req[r].state = "pending" => req[r].sock = conn

\* Nothing is queued behind an open connection: what is sent to a connected
\* kiosk cannot overtake what was queued while it was away.
OpenMeansDrained == IsOpen => queue = <<>>

\* Commands are run in the order they were given and never twice, across
\* disconnections, replaced sockets and drained queues.  (A viewer's layout
\* switches are sent after a check of their own and may change places.)
CommandsInOrder == ~viewer => \A i, j \in DOMAIN ran : i < j => ran[i] < ran[j]

\* With nobody watching and nothing under way, the kiosk is not streaming its
\* journal, whichever connections were lost in between.
NoOrphanStream ==
  (subs = {} /\ queue = <<>> /\ client # 0 /\ client = conn /\ wire[client] = <<>>) => ~streaming

\* The channel to a kiosk as a whole: the claims above.
ChannelSafe ==
  /\ CoordTypeOK
  /\ RequestsFollowSocket
  /\ OpenMeansDrained
  /\ CommandsInOrder
  /\ NoOrphanStream
====
