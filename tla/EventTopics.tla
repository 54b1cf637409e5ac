---------------------------- MODULE EventTopics -----------------------------
(***************************************************************************)
(* The topics of an ONVIF camera: how the server reads them from the       *)
(* camera's topic set, a walk over its tags with a stack, and how requests *)
(* to refresh them, which may overlap, merge them into the stored list.    *)
(***************************************************************************)
EXTENDS Naturals, FiniteSets, Sequences

CONSTANTS TagNames, MaxTags,    \* documents: bounds
          EtTopics,             \* topics for the stored list
          EtRefreshes           \* refresh-events requests that may be under way at once

ASSUME TopicsAssumption == MaxTags \in Nat

VARIABLES etDoc,       \* tags read: [kind, name, topic]
          etStack,     \* names of the open elements
          etFound,     \* topics found, in order
          etReal,      \* topics the camera has (external)
          etList,      \* cameras.supported_event_topics
          etRows,      \* camera_event_subscriptions: topics with a row of their own
          etRefresh    \* refresh-events requests

etWalkVars == <<etDoc, etStack, etFound>>
etListVars == <<etReal, etList, etRows, etRefresh>>
etVars == <<etDoc, etStack, etFound, etReal, etList, etRows, etRefresh>>

Depth(doc) ==
  Cardinality({i \in DOMAIN doc : doc[i].kind = "open"}) - Cardinality({i \in DOMAIN doc : doc[i].kind = "close"})

-----------------------------------------------------------------------------
(* getEventProperties: one step per tag the expression finds. *)

\* Mutant: an element that closes itself stays open.
StartTagStays(kind, name, topic) ==
  LET stack == Append(etStack, name) IN
  /\ etDoc' = Append(etDoc, [kind |-> kind, name |-> name, topic |-> topic])
  /\ etFound' = IF topic THEN Append(etFound, stack) ELSE etFound
  /\ etStack' = stack

StartTag(kind, name, topic) ==
  LET stack == Append(etStack, name) IN
  /\ etDoc' = Append(etDoc, [kind |-> kind, name |-> name, topic |-> topic])
  /\ etFound' = IF topic THEN Append(etFound, stack) ELSE etFound
  /\ etStack' = IF kind = "empty" THEN etStack ELSE stack

EndTag ==
  /\ Depth(etDoc) > 0
  /\ etDoc' = Append(etDoc, [kind |-> "close", name |-> "", topic |-> FALSE])
  /\ etStack' = SubSeq(etStack, 1, Len(etStack) - 1) /\ UNCHANGED etFound

ReadTag ==
  /\ Len(etDoc) < MaxTags
  /\ \/ EndTag
     \/ \E kind \in {"open", "empty"}, name \in TagNames, topic \in BOOLEAN : StartTag(kind, name, topic)
  /\ UNCHANGED etListVars

-----------------------------------------------------------------------------
(* POST /admin/cameras/:id/refresh-events *)

NoRefresh == [pc |-> "idle", read |-> {}, found |-> {}, alone |-> TRUE]

RefreshBegin(r) ==
  /\ etRefresh[r].pc = "idle"
  /\ etRefresh' = [q \in EtRefreshes |->
       IF q = r THEN [pc |-> "ask", read |-> etList, found |-> {},
                      alone |-> \A p \in EtRefreshes : etRefresh[p].pc = "idle"]
       ELSE [etRefresh[q] EXCEPT !.alone = FALSE]]
  /\ UNCHANGED <<etReal, etList, etRows>> /\ UNCHANGED etWalkVars

\* None when the camera does not answer.
RefreshAsk(r) ==
  /\ etRefresh[r].pc = "ask"
  /\ \E found \in {etReal, {}} : etRefresh' = [etRefresh EXCEPT ![r].pc = "save", ![r].found = found]
  /\ UNCHANGED <<etReal, etList, etRows>> /\ UNCHANGED etWalkVars

\* The statement names no id, and the column has no default: it fails whether
\* or not the topic has a row, and the request's catch ends the loop.
upsertEventSubscription(rows, topic) == rows

\* Merged with the list read before the camera was asked.
RefreshSave(r) ==
  /\ etRefresh[r].pc = "save"
  /\ etList' = etRefresh[r].read \cup etRefresh[r].found
  /\ IF etRefresh[r].found = {} THEN UNCHANGED etRows
     ELSE \E t \in etRefresh[r].found : etRows' = upsertEventSubscription(etRows, t)
  /\ etRefresh' = [etRefresh EXCEPT ![r] = NoRefresh]
  /\ UNCHANGED etReal /\ UNCHANGED etWalkVars

CameraTopics(topics) ==
  /\ topics # etReal /\ etReal' = topics
  /\ UNCHANGED <<etList, etRows, etRefresh>> /\ UNCHANGED etWalkVars

-----------------------------------------------------------------------------
TopicsInit ==
  /\ etDoc = <<>> /\ etStack = <<>> /\ etFound = <<>>
  /\ etReal \in SUBSET EtTopics /\ etList = {} /\ etRows = {}
  /\ etRefresh = [r \in EtRefreshes |-> NoRefresh]

\* The walk and the list are looked at one at a time: a document is read
\* while no request is under way.
TopicsNext ==
  \/ etList = {} /\ etReal = {} /\ (\A r \in EtRefreshes : etRefresh[r].pc = "idle") /\ ReadTag
  \/ /\ etDoc = <<>>
     /\ \/ \E r \in EtRefreshes : RefreshBegin(r) \/ RefreshAsk(r) \/ RefreshSave(r)
        \/ \E topics \in SUBSET EtTopics : CameraTopics(topics)

TopicsSpec == TopicsInit /\ [][TopicsNext]_etVars

-----------------------------------------------------------------------------
(* Properties. *)

\* Tag j encloses tag i: it is open at every place from j to i.
Encloses(j, i) ==
  /\ j < i /\ etDoc[j].kind = "open"
  /\ \A m \in j..i : Depth(SubSeq(etDoc, 1, m)) >= Depth(SubSeq(etDoc, 1, j))

\* The walk finds every element marked as a topic, in the order of the
\* document, each by the names of all the elements around it from the
\* outermost in: getEventProperties' stack agrees with the tree.
WalkFindsTopics ==
  LET marked == {i \in DOMAIN etDoc : etDoc[i].topic}
      nth(i) == Cardinality({m \in marked : m <= i})
      around(i) == {j \in DOMAIN etDoc : Encloses(j, i)} IN
  /\ Len(etFound) = Cardinality(marked)
  /\ \A i \in marked :
       LET path == etFound[nth(i)] IN
       /\ Len(path) = Cardinality(around(i)) + 1 /\ path[Len(path)] = etDoc[i].name
       /\ \A j \in around(i) : path[Cardinality({m \in around(i) : m <= j})] = etDoc[j].name

\* "new topics are added to the existing list, never removed": true of a
\* refresh no other one overlaps, whatever the camera answers.
TopicsKept ==
  [][\A r \in EtRefreshes : (etRefresh[r].pc = "save" /\ etRefresh'[r].pc = "idle" /\ etRefresh[r].alone)
       => etList \subseteq etList']_etVars

\* routes-admin.ts: "Upsert subscription rows for each discovered topic".
TopicsHaveRows ==
  (\A r \in EtRefreshes : etRefresh[r].pc = "idle") => etList \subseteq etRows

\* What every step of a refresh keeps, as a whole: the claims about the walk
\* and the list.
TopicsSteps == [][WalkFindsTopics']_etVars /\ TopicsKept
=============================================================================
