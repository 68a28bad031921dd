--------------------------- MODULE MqttLink_proofs ---------------------------
(***************************************************************************)
(* For any number of callers, requests, publications and connections: the  *)
(* flag that is_connected reads follows the connection, and, in a          *)
(* namespace of one level, the topics of what is received are parsed into  *)
(* what they were built from.                                              *)
(***************************************************************************)
EXTENDS MqttLink, TLAPS

\* The flag is set while the connection is up, and clear when there is none.
Follows == (link = "up" => connected) /\ (connected => link # "down")

\* Where the flag is behind, the event that brings it up to date is at hand: a
\* ConnAck for a connection that is up, a Disconnect for one that is closing,
\* an error for one that is down.
IInv ==
  /\ Polling => Follows
  /\ loop = "handling" /\ event.kind \in {"publish", "other"} => Follows
  /\ loop = "handling" /\ event.kind = "connack" => link = "up"
  /\ loop = "handling" /\ event.kind = "disconnect" => link = "closing"
  /\ loop = "handling" /\ event.kind = "error" => link = "down"
  /\ loop = "pausing" => link = "down" /\ ~connected

LEMMA InitIInv == Init => IInv
  BY DEF Init, IInv, Polling, Follows

\* What poll returns, and what it leaves behind.
LEMMA PollKeepsIInv ==
  ASSUME IInv, Connects \/ ConnectFails \/ SendsRequest \/ Receives \/ IsDismissed \/ Breaks
  PROVE  IInv'
<1> USE DEF IInv, Polling, Follows, Returns
<1>1. CASE Connects
  BY <1>1 DEF Connects
<1>2. CASE ConnectFails
  BY <1>2 DEF ConnectFails
<1>3. CASE SendsRequest
  <2>1. link = "up" /\ connected
    BY <1>3 DEF SendsRequest
  <2>2. event'.kind = "other" /\ loop' = "handling" /\ connected' = connected
    BY <1>3 DEF SendsRequest
  <2>3. link' \in {"up", "closing"}
    BY <1>3, <2>1 DEF SendsRequest, Serve
  <2> QED
    BY <2>1, <2>2, <2>3
<1>4. CASE Receives
  BY <1>4 DEF Receives
<1>5. CASE IsDismissed
  BY <1>5 DEF IsDismissed
<1>6. CASE Breaks
  BY <1>6 DEF Breaks
<1> QED
  BY <1>1, <1>2, <1>3, <1>4, <1>5, <1>6

\* The arms of the match, and the pause.
LEMMA HandlingKeepsIInv ==
  ASSUME IInv, HandleEvent \/ PauseEnds \/ Park \/ ShutdownChanged
  PROVE  IInv'
<1> USE DEF IInv, Polling, Follows, Handles
<1>1. CASE HandlePublish
  BY <1>1 DEF HandlePublish
<1>2. CASE HandleConnAck
  BY <1>2 DEF HandleConnAck
<1>3. CASE HandleDisconnect
  BY <1>3 DEF HandleDisconnect
<1>4. CASE HandleOther
  BY <1>4 DEF HandleOther
<1>5. CASE HandleError
  BY <1>5 DEF HandleError
<1>6. CASE PauseEnds \/ Park \/ ShutdownChanged
  BY <1>6 DEF PauseEnds, Park, ShutdownChanged, Goto
<1> QED
  BY <1>1, <1>2, <1>3, <1>4, <1>5, <1>6 DEF HandleEvent

LEMMA StepIInv == IInv /\ [Next]_vars => IInv'
<1> SUFFICES ASSUME IInv, [Next]_vars PROVE IInv'
  OBVIOUS
<1>1. CASE UNCHANGED <<loop, event, link, connected>>
  BY <1>1 DEF IInv, Polling, Follows
<1>2. ASSUME NEW c \in Callers, CallReturns(c) \/ \E r \in Requests : Call(c, r)
      PROVE  IInv'
  BY <1>1, <1>2 DEF CallReturns, Call
<1>3. CASE Connects \/ ConnectFails \/ SendsRequest \/ Receives \/ IsDismissed \/ Breaks
  BY <1>3, PollKeepsIInv
<1>4. CASE \E m \in Publications : Publish(m)
  BY <1>1, <1>4 DEF Publish
<1>5. CASE HandleEvent \/ PauseEnds \/ Park \/ ShutdownChanged
  BY <1>5, HandlingKeepsIInv
<1>6. CASE \E s \in {"true", "false", "dropped"} : Signal(s)
  BY <1>1, <1>6 DEF Signal
<1>7. CASE Read \/ Quiet \/ UNCHANGED vars
  BY <1>1, <1>7 DEF Read, Quiet, vars
<1> QED
  BY <1>2, <1>3, <1>4, <1>5, <1>6, <1>7 DEF Next

\* "Check if connected" (client.rs:201): whenever the loop polls, the flag is
\* set if the connection is up, and clear if there is none, however calls,
\* publications, lost connections and shutdown signals interleave.
THEOREM FlagIsRight == Spec => []FlagFollows
<1>1. IInv => FlagFollows
  BY DEF IInv, FlagFollows, Follows
<1> QED
  BY <1>1, InitIInv, StepIInv, PTL DEF Spec
-----------------------------------------------------------------------------
Messages == Publications \cup {r.message : r \in {q \in Requests : q.op = "publish"}}

\* A namespace of one level, and not a wildcard.
OneLevel == Len(Namespace) = 1 /\ Namespace[1] # "+"

\* A level more at the end, or two sequences of levels in a row.
LEMMA Joined ==
  ASSUME NEW S, NEW s \in Seq(S), NEW r \in Seq(S)
  PROVE  /\ s \o r \in Seq(S) /\ Len(s \o r) = Len(s) + Len(r)
         /\ \A k \in 1..Len(s) : (s \o r)[k] = s[k]
         /\ \A k \in (Len(s) + 1)..(Len(s) + Len(r)) : (s \o r)[k] = r[k - Len(s)]
  OBVIOUS

\* What Build makes of a namespace and an identifier of one level each.
Levels(a, b, c, d, e) == <<a>> \o <<b>> \o (<<c>> \o <<d>> \o <<e>>)

\* They are five, in that order.
LEMMA FiveLevels ==
  ASSUME NEW a, NEW b, NEW c, NEW d, NEW e
  PROVE  /\ Len(Levels(a, b, c, d, e)) = 5
         /\ Levels(a, b, c, d, e)[1] = a /\ Levels(a, b, c, d, e)[2] = b
         /\ Levels(a, b, c, d, e)[3] = c /\ Levels(a, b, c, d, e)[4] = d
         /\ Levels(a, b, c, d, e)[5] = e
<1> DEFINE t == Levels(a, b, c, d, e)
           S == {a, b, c, d, e}
           A == <<a>>  B == <<b>>  C == <<c>>  D == <<d>>  E == <<e>>
           AB == A \o B  CD == C \o D  CDE == CD \o E
<1>1. A \in Seq(S) /\ B \in Seq(S) /\ C \in Seq(S) /\ D \in Seq(S) /\ E \in Seq(S)
  OBVIOUS
<1>2. /\ Len(A) = 1 /\ Len(B) = 1 /\ Len(C) = 1 /\ Len(D) = 1 /\ Len(E) = 1
      /\ A[1] = a /\ B[1] = b /\ C[1] = c /\ D[1] = d /\ E[1] = e
  OBVIOUS
<1>3. t = AB \o CDE
  BY DEF Levels
<1> HIDE DEF t, S, A, B, C, D, E
<1>4. /\ AB \in Seq(S) /\ Len(AB) = Len(A) + Len(B)
      /\ \A k \in 1..Len(A) : AB[k] = A[k]
      /\ \A k \in (Len(A) + 1)..(Len(A) + Len(B)) : AB[k] = B[k - Len(A)]
  BY <1>1, Joined
<1>5. /\ CD \in Seq(S) /\ Len(CD) = Len(C) + Len(D)
      /\ \A k \in 1..Len(C) : CD[k] = C[k]
      /\ \A k \in (Len(C) + 1)..(Len(C) + Len(D)) : CD[k] = D[k - Len(C)]
  BY <1>1, Joined
<1>6. AB \in Seq(S) /\ CD \in Seq(S)
  BY <1>4, <1>5
<1> HIDE DEF AB, CD
<1>7. /\ CDE \in Seq(S) /\ Len(CDE) = Len(CD) + Len(E)
      /\ \A k \in 1..Len(CD) : CDE[k] = CD[k]
      /\ \A k \in (Len(CD) + 1)..(Len(CD) + Len(E)) : CDE[k] = E[k - Len(CD)]
  BY <1>1, <1>6, Joined
<1>8. CDE \in Seq(S)
  BY <1>7
<1> HIDE DEF CDE
<1> DEFINE T == AB \o CDE
<1>9. /\ T \in Seq(S) /\ Len(T) = Len(AB) + Len(CDE)
      /\ \A k \in 1..Len(AB) : T[k] = AB[k]
      /\ \A k \in (Len(AB) + 1)..(Len(AB) + Len(CDE)) : T[k] = CDE[k - Len(AB)]
  BY <1>6, <1>8, Joined
<1>10. T = t
  BY <1>3
<1> HIDE DEF T
<1>11. Len(AB) = 2 /\ AB[1] = a /\ AB[2] = b
  BY <1>2, <1>4
<1>12. Len(CD) = 2 /\ CD[1] = c /\ CD[2] = d
  BY <1>2, <1>5
<1>13. Len(CDE) = 3 /\ CDE[1] = c /\ CDE[2] = d /\ CDE[3] = e
  BY <1>2, <1>7, <1>12
<1>14. Len(T) = 5 /\ T[1] = a /\ T[2] = b /\ T[3] = c /\ T[4] = d /\ T[5] = e
  BY <1>9, <1>11, <1>13
<1> QED
  BY <1>10, <1>14 DEF t

\* Kinds of topics differ in the section, or else in the last level.
LEMMA KindsDiffer ==
  ASSUME NEW k \in DOMAIN Path, NEW topic, topic[3] = Path[k][1], topic[5] = Path[k][2]
  PROVE  ParsedKind(topic) = k /\ topic[3] # "discovery"
<1>1. k \in {"ServiceStatus", "ServiceControl", "PipelineFrames", "PipelineEvents",
            "ActorInbox"}
  BY DEF Path
<1>2. /\ Path["ServiceStatus"] = <<"services", "status">>
      /\ Path["ServiceControl"] = <<"services", "control">>
      /\ Path["PipelineFrames"] = <<"pipelines", "frames">>
      /\ Path["PipelineEvents"] = <<"pipelines", "events">>
      /\ Path["ActorInbox"] = <<"actors", "inbox">>
      /\ DOMAIN Path = {"ServiceStatus", "ServiceControl", "PipelineFrames",
                        "PipelineEvents", "ActorInbox"}
  BY DEF Path
<1>3. topic[3] # "discovery"
  BY <1>1, <1>2
<1>4. {j \in DOMAIN Path : /\ Path[j][1] = topic[3]
                           /\ j = "ActorInbox" \/ Path[j][2] = topic[5]} = {k}
  BY <1>1, <1>2
<1> QED
  BY <1>3, <1>4 DEF ParsedKind

\* What was built from an identifier of one level is read back.
LEMMA BuiltIsParsed ==
  ASSUME OneLevel, Namespace \in Seq(STRING),
         NEW m \in Messages, m.ns = Namespace, Len(m.id) = 1
  PROVE  Parse(Namespace, Topic(m)) = [kind |-> m.kind, id |-> m.id[1]]
<1>1. /\ m \in [ns : Seq(STRING), kind : TopicKind \ {"Unknown"}, id : Seq(STRING)]
      /\ m.kind = "Discovery" => m.id = <<>>
  BY MessagesAssumption DEF Messages
<1>2. m.kind \in DOMAIN Path /\ m.kind # "Discovery"
  BY <1>1 DEF TopicKind
<1> DEFINE n == Namespace[1]  k == m.kind  i == m.id[1]  topic == Topic(m)
           aiko == "aiko"  section == Path[k][1]  last == Path[k][2]
<1>3. m.ns = <<n>> /\ m.id = <<i>>
  BY <1>1 DEF OneLevel
<1>4. topic = Levels(aiko, n, section, i, last)
  BY <1>2, <1>3 DEF Topic, Build, Levels
<1> HIDE DEF topic, n, i, aiko, section, last
<1>5. Len(topic) = 5 /\ topic[1] = aiko /\ topic[2] = n /\ topic[3] = section
      /\ topic[4] = i /\ topic[5] = last
  BY <1>4, FiveLevels
<1>6. Len(topic) = 5 /\ topic[1] = "aiko" /\ topic[2] = n /\ topic[3] = Path[k][1]
      /\ topic[4] = i /\ topic[5] = Path[k][2]
  BY <1>5 DEF aiko, section, last
<1>7. ParsedKind(topic) = k /\ topic[3] # "discovery"
  BY <1>2, <1>6, KindsDiffer
<1>8. <<topic[2]>> = Namespace
  BY <1>3, <1>6
<1>9. \E j \in DOMAIN Path : Path[j][1] = topic[3]
  BY <1>2, <1>6
<1>10. Parse(Namespace, topic) = [kind |-> k, id |-> i]
  BY <1>6, <1>7, <1>8, <1>9 DEF Parse
<1> QED
  BY <1>10 DEF topic, i

\* What a wildcard subscription brings is of its kind, whoever built it.
LEMMA MatchIsParsed ==
  ASSUME OneLevel, Namespace \in Seq(STRING), NEW k \in WildcardKinds, NEW topic,
         Matches(AllOf(Namespace, k), topic)
  PROVE  Parse(Namespace, topic).kind = k
<1> DEFINE n == Namespace[1]  filter == AllOf(Namespace, k)
           aiko == "aiko"  section == Path[k][1]  any == "+"  last == Path[k][2]
<1>1. k \in DOMAIN Path /\ k # "Discovery"
  BY DEF WildcardKinds, Path
<1>2. Namespace = <<n>> /\ n # "+"
  BY DEF OneLevel
<1>3. filter = Levels(aiko, n, section, any, last)
  BY <1>1, <1>2 DEF AllOf, Build, Levels
<1> HIDE DEF filter, n, aiko, section, any, last
<1>4. Len(filter) = 5 /\ filter[1] = aiko /\ filter[2] = n /\ filter[3] = section
      /\ filter[4] = any /\ filter[5] = last
  BY <1>3, FiveLevels
<1>5. Len(filter) = 5 /\ filter[1] = "aiko" /\ filter[2] = n /\ filter[3] = Path[k][1]
      /\ filter[5] = Path[k][2]
  BY <1>4 DEF aiko, section, last
<1>6. Len(topic) = 5 /\ \A j \in 1..5 : filter[j] \in {"+", topic[j]}
  BY <1>5 DEF Matches, filter
<1>7. Path[k][1] # "+" /\ Path[k][2] # "+"
  BY DEF WildcardKinds, Path
<1>8. topic[1] = "aiko" /\ topic[2] = n /\ topic[3] = Path[k][1] /\ topic[5] = Path[k][2]
  BY <1>2, <1>5, <1>6, <1>7
<1>9. ParsedKind(topic) = k /\ topic[3] # "discovery"
  BY <1>1, <1>8, KindsDiffer
<1>10. <<topic[2]>> = Namespace
  BY <1>2, <1>8
<1>11. \E j \in DOMAIN Path : Path[j][1] = topic[3]
  BY <1>1, <1>8
<1>12. Parse(Namespace, topic) = [kind |-> k, id |-> topic[4]]
  BY <1>6, <1>8, <1>9, <1>10, <1>11 DEF Parse
<1> QED
  BY <1>12

\* Requests are those of the callers, and messages those that were published.
Carried ==
  /\ call \in [Callers -> Requests \cup {NoRequest}]
  /\ requests \in Seq(Requests) /\ pending \in Seq(Requests)
  /\ wire \in Seq(Messages) /\ inbox \in Seq(Messages)
  /\ event.kind = "publish" => event.message \in Messages

LEMMA InitCarried == Init => Carried
  BY DEF Init, Carried

LEMMA RequestsCarried ==
  ASSUME Carried, NEW c \in Callers, CallReturns(c) \/ \E r \in Requests : Call(c, r)
  PROVE  Carried'
<1>1. PICK r \in Requests : HandOver(r) \/ UNCHANGED requests
  BY DEF CallReturns, Call, Carried
<1>2. requests' \in Seq(Requests)
  <2>1. requests' \in {requests, Append(requests, r)}
    BY <1>1 DEF HandOver
  <2>2. requests \in Seq(Requests) /\ Append(requests, r) \in Seq(Requests)
    BY DEF Carried
  <2> QED
    BY <2>1, <2>2
<1>3. call' \in [Callers -> Requests \cup {NoRequest}]
  BY DEF CallReturns, Call, Carried
<1> QED
  BY <1>2, <1>3 DEF CallReturns, Call, Carried

LEMMA ServingCarries ==
  ASSUME Carried, SendsRequest PROVE Carried'
<1>1. PICK r \in Requests : Serve(r)
  <2>1. pending # <<>> => Head(pending) \in Requests
    BY DEF Carried
  <2>2. requests # <<>> => Head(requests) \in Requests
    BY DEF Carried
  <2> QED
    BY <2>1, <2>2 DEF SendsRequest
<1>2. wire' \in Seq(Messages)
  <2>1. r.op = "publish" => r.message \in Messages
    BY DEF Messages
  <2> QED
    BY <1>1, <2>1 DEF Serve, Carried
<1>3. requests' \in Seq(Requests) /\ pending' \in Seq(Requests)
  <2>1. /\ requests # <<>> => Tail(requests) \in Seq(Requests)
        /\ pending # <<>> => Tail(pending) \in Seq(Requests)
    BY DEF Carried
  <2> QED
    BY <2>1 DEF SendsRequest, Carried
<1> QED
  BY <1>2, <1>3 DEF SendsRequest, Returns, Carried

LEMMA StepCarried == Carried /\ [Next]_vars => Carried'
<1> SUFFICES ASSUME Carried, [Next]_vars PROVE Carried'
  OBVIOUS
<1>1. CASE Connects \/ ConnectFails \/ IsDismissed
  <2>1. <<>> \in Seq(Requests)
    OBVIOUS
  <2>2. UNCHANGED <<call, requests, wire, inbox>>
    BY <1>1 DEF Connects, ConnectFails, IsDismissed, Returns
  <2>3. pending' \in Seq(Requests)
    BY <1>1, <2>1 DEF Connects, ConnectFails, IsDismissed, Returns, Carried
  <2>4. event'.kind # "publish"
    BY <1>1 DEF Connects, ConnectFails, IsDismissed, Returns
  <2> QED
    BY <2>2, <2>3, <2>4 DEF Carried
<1>2. CASE Receives
  <2>1. Head(wire) \in Messages /\ Tail(wire) \in Seq(Messages)
    BY <1>2 DEF Receives, Carried
  <2> QED
    BY <1>2, <2>1 DEF Receives, Returns, Carried
<1>3. CASE Breaks
  <2>1. /\ pending \o requests \in Seq(Requests)
        /\ <<>> \in Seq(Requests) /\ <<>> \in Seq(Messages)
    BY DEF Carried
  <2> QED
    BY <1>3, <2>1 DEF Breaks, Returns, Carried
<1>4. ASSUME NEW m \in Publications, Publish(m) PROVE Carried'
  <2>1. Append(wire, m) \in Seq(Messages)
    BY DEF Carried, Messages
  <2> QED
    BY <1>4, <2>1 DEF Publish, Carried
<1>5. CASE HandleEvent
  <2>1. event.kind = "publish" =>
          Append(IF Len(inbox) = InboxCap THEN Tail(inbox) ELSE inbox, event.message)
            \in Seq(Messages)
    <3>1. Len(inbox) = InboxCap => Tail(inbox) \in Seq(Messages)
      BY CapAssumption DEF Carried
    <3> QED
      BY <3>1 DEF Carried
  <2>2. inbox' \in Seq(Messages)
    BY <1>5, <2>1 DEF HandleEvent, HandlePublish, HandleConnAck, HandleDisconnect, HandleOther,
       HandleError, Handles, Carried
  <2>3. event'.kind # "publish" /\ UNCHANGED <<call, requests, pending, wire>>
    BY <1>5 DEF HandleEvent, HandlePublish, HandleConnAck, HandleDisconnect, HandleOther,
       HandleError, Handles
  <2> QED
    BY <2>2, <2>3 DEF Carried
<1>6. CASE Read
  <2>1. Tail(inbox) \in Seq(Messages)
    BY <1>6 DEF Read, Carried
  <2> QED
    BY <1>6, <2>1 DEF Read, Carried
<1>7. CASE \/ PauseEnds \/ Park \/ ShutdownChanged \/ Quiet \/ UNCHANGED vars
           \/ \E s \in {"true", "false", "dropped"} : Signal(s)
  BY <1>7 DEF PauseEnds, Park, ShutdownChanged, Goto, Quiet, Signal, vars, Carried
<1> QED
  BY <1>1, <1>2, <1>3, <1>4, <1>5, <1>6, <1>7, RequestsCarried, ServingCarries DEF Next

\* For any messages, and a namespace of one level (TopicMatcher::parse compares
\* one level with all of it, topics.rs:111-117): what reaches the application is
\* parsed into what it was built from, and has the kind of the subscription.
THEOREM TopicsParseBack ==
  ASSUME OneLevel, Namespace \in Seq(STRING)
  PROVE  Spec => []ParsedAsBuilt
<1>1. Carried => ParsedAsBuilt
  <2> SUFFICES ASSUME Carried, NEW i \in DOMAIN inbox
               PROVE  /\ inbox[i].ns = Namespace /\ Len(inbox[i].id) = 1
                          => Parse(Namespace, Topic(inbox[i]))
                               = [kind |-> inbox[i].kind, id |-> inbox[i].id[1]]
                      /\ \A k \in WildcardKinds :
                           Matches(AllOf(Namespace, k), Topic(inbox[i]))
                             => Parse(Namespace, Topic(inbox[i])).kind = k
    BY DEF ParsedAsBuilt
  <2>1. inbox[i] \in Messages
    BY DEF Carried
  <2> QED
    BY <2>1, BuiltIsParsed, MatchIsParsed
<1> QED
  BY <1>1, InitCarried, StepCarried, PTL DEF Spec
=============================================================================
