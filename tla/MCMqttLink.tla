----------------------------- MODULE MCMqttLink -----------------------------
(***************************************************************************)
(* One namespace, its wildcard subscription for service status, and        *)
(* publications of this and of another namespace below it.                 *)
(***************************************************************************)
EXTENDS MqttLink

CONSTANT app

Home == <<"home">>
AllStatus == AllOf(Home, "ServiceStatus")
Message(ns, kind, id) == [ns |-> ns, kind |-> kind, id |-> id]

SomeRequests ==
  {[op |-> "subscribe", filter |-> AllStatus],
   [op |-> "subscribe", filter |-> Build(Home, "ActorInbox", <<"a1">>)],
   [op |-> "unsubscribe", filter |-> AllStatus],
   [op |-> "publish", message |-> Message(Home, "ServiceStatus", <<"n1">>)],
   [op |-> "disconnect"]}

\* The last one is sent by a service whose identifier holds a '/'.
SomePublications ==
  {Message(Home, "ServiceStatus", <<"n1">>),
   Message(Home, "ActorInbox", <<"a1">>),
   Message(Home, "ServiceStatus", <<"n1", "x">>)}
=============================================================================
