------------------------------- MODULE Topics -------------------------------
(***************************************************************************)
(* The topics of aiko-mqtt (topics.rs).  A topic is the sequence of its    *)
(* levels: what '/' separates.  A namespace or an identifier is given to   *)
(* TopicBuilder as a string and may itself hold a '/', so each is a        *)
(* sequence of levels as well.                                             *)
(***************************************************************************)
EXTENDS Naturals, Sequences

\* The section and the last level of the topics that carry an identifier.
Path == [ServiceStatus  |-> <<"services", "status">>,
         ServiceControl |-> <<"services", "control">>,
         PipelineFrames |-> <<"pipelines", "frames">>,
         PipelineEvents |-> <<"pipelines", "events">>,
         ActorInbox     |-> <<"actors", "inbox">>]

TopicKind == DOMAIN Path \cup {"Discovery", "Unknown"}

\* TopicBuilder: service_status and its like; discovery has no identifier.
Build(ns, kind, id) ==
  <<"aiko">> \o ns \o
    (IF kind = "Discovery" THEN <<"discovery">>
     ELSE <<Path[kind][1]>> \o id \o <<Path[kind][2]>>)

\* TopicBuilder: the wildcard subscriptions.
WildcardKinds == {"ServiceStatus", "PipelineFrames", "PipelineEvents"}
AllOf(ns, kind) == Build(ns, kind, <<"+">>)

\* The broker: '+' stands for one level.
Matches(filter, topic) ==
  /\ Len(filter) = Len(topic)
  /\ \A i \in 1..Len(filter) : filter[i] \in {"+", topic[i]}

-----------------------------------------------------------------------------
NotParsed == [kind |-> "None", id |-> "none"]

\* A topic without identifier is a Discovery however it goes on; an actor's
\* topic is an inbox whatever its last level is.
ParsedKind(topic) ==
  LET fits == {k \in DOMAIN Path : /\ Path[k][1] = topic[3]
                                   /\ k = "ActorInbox" \/ Path[k][2] = topic[5]}
  IN IF fits = {} THEN "Unknown" ELSE CHOOSE k \in fits : TRUE

\* Deviation: the kind is read one level too early, the identifier too late.
ParseSwapped(ns, topic) ==
  IF Len(topic) < 5 THEN NotParsed
  ELSE [kind |-> ParsedKind(Append(topic, topic[4])), id |-> topic[5]]
\* TopicMatcher::parse: the level after "aiko" is compared with the whole
\* namespace, and only the first five levels are read.
Parse(ns, topic) ==
  IF Len(topic) < 3 \/ topic[1] # "aiko" \/ <<topic[2]>> # ns THEN NotParsed
  ELSE IF topic[3] = "discovery" THEN [kind |-> "Discovery", id |-> ""]
  ELSE IF Len(topic) >= 5 /\ \E k \in DOMAIN Path : Path[k][1] = topic[3]
    THEN [kind |-> ParsedKind(topic), id |-> topic[4]]
  ELSE NotParsed
=============================================================================
