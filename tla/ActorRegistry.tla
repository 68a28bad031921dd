--------------------------- MODULE ActorRegistry ---------------------------
(***************************************************************************)
(* ActorRegistry (aiko-actor, registry.rs): one registry shared by the     *)
(* threads of a program, two concurrent maps from ids and from names to    *)
(* actors.  Each map operation is atomic, a registry operation is not: it  *)
(* touches one map and then the other, and other threads run in between.   *)
(* An ActorRef is its id; its name never changes.  Names may be shared,    *)
(* and any thread may operate on any actor: nothing prevents either.       *)
(***************************************************************************)
EXTENDS Naturals

CONSTANTS
  Threads,  \* the threads that share the registry
  Ids,      \* actor ids, unique (ActorId::new)
  Names,    \* actor names, chosen by the application
  NameOf,   \* the name each actor is spawned with
  NoActor   \* not an id

ASSUME NameAssumption == NameOf \in [Ids -> Names]
ASSUME NoActorAssumption == NoActor \notin Ids

VARIABLES
  by_id,    \* the ids with an entry in by_id
  by_name,  \* the actor filed under each name, NoActor if none
  call,     \* the second half of the operation a thread is in
  crossed,  \* history: threads whose operation another one has overlapped, on the same name
  last      \* history: the latest operation on a name, if it is over and nothing overlapped it

vars == <<by_id, by_name, call, crossed, last>>

NoCall == [op |-> "none", id |-> NoActor]
Calls == {NoCall} \cup [op : {"register", "unregister", "unregister_by_name"}, id : Ids]

Init ==
  /\ by_id = {}
  /\ by_name = [n \in Names |-> NoActor]
  /\ call = [t \in Threads |-> NoCall]
  /\ crossed = {}
  /\ last = [n \in Names |-> NoCall]

In(t, o) == call[t].op = o
BusyOn(n) == {t \in Threads : call[t] # NoCall /\ NameOf[call[t].id] = n}

Begin(t, o, i) ==
  /\ call[t] = NoCall
  /\ call' = [call EXCEPT ![t] = [op |-> o, id |-> i]]
  /\ LET others == BusyOn(NameOf[i])
     IN  crossed' = IF others = {} THEN crossed ELSE crossed \cup others \cup {t}
  /\ last' = [last EXCEPT ![NameOf[i]] = NoCall]

Return(t) ==
  /\ call' = [call EXCEPT ![t] = NoCall]
  /\ crossed' = crossed \ {t}
  /\ last' = IF t \in crossed THEN last
             ELSE [last EXCEPT ![NameOf[call[t].id]] = call[t]]

\* register: by_id.insert, then by_name.insert whatever the name holds.
RegisterId(t, i) ==
  /\ by_id' = by_id \cup {i}
  /\ Begin(t, "register", i)
  /\ UNCHANGED by_name

RegisterName(t) ==
  /\ In(t, "register")
  /\ by_name' = [by_name EXCEPT ![NameOf[call[t].id]] = call[t].id]
  /\ Return(t)
  /\ UNCHANGED by_id

\* unregister: an unknown id changes nothing.
UnregisterId(t, i) ==
  /\ i \in by_id
  /\ by_id' = by_id \ {i}
  /\ Begin(t, "unregister", i)
  /\ UNCHANGED by_name

\* Deviation: the name is left behind.
UnregisterNameForgotten(t) ==
  In(t, "unregister") /\ Return(t) /\ UNCHANGED <<by_id, by_name>>

\* by_name.remove(name), whichever actor is filed there by now.
UnregisterName(t) ==
  /\ In(t, "unregister")
  /\ by_name' = [by_name EXCEPT ![NameOf[call[t].id]] = NoActor]
  /\ Return(t)
  /\ UNCHANGED by_id

\* unregister_by_name: the actor found there decides which id goes.
RemoveName(t, n) ==
  /\ by_name[n] # NoActor
  /\ by_name' = [by_name EXCEPT ![n] = NoActor]
  /\ Begin(t, "unregister_by_name", by_name[n])
  /\ UNCHANGED by_id

RemoveId(t) ==
  /\ In(t, "unregister_by_name")
  /\ by_id' = by_id \ {call[t].id}
  /\ Return(t)
  /\ UNCHANGED by_name

Next ==
  \E t \in Threads :
    \/ \E i \in Ids : RegisterId(t, i) \/ UnregisterId(t, i)
    \/ \E n \in Names : RemoveName(t, n)
    \/ RegisterName(t) \/ UnregisterName(t) \/ RemoveId(t)

Spec == Init /\ [][Next]_vars

-----------------------------------------------------------------------------
\* The maps hold only known actors and each thread is in one operation.
TypeOK ==
  /\ by_id \subseteq Ids
  /\ by_name \in [Names -> Ids \cup {NoActor}]
  /\ call \in [Threads -> Calls]
  /\ crossed \subseteq Threads
  /\ last \in [Names -> Calls]

\* An operation that no other one on the same name overlaps takes effect in
\* both maps, and the effect stays until the next operation on that name
\* begins: whatever races and shared names have left in the maps before, and
\* whatever other threads do meanwhile under other names (register,
\* unregister and unregister_by_name, registry.rs:22-39).
MapsAgree ==
  \A n \in Names :
    LET i == last[n].id
    IN  /\ last[n].op = "register" => i \in by_id /\ by_name[n] = i
        /\ last[n].op \in {"unregister", "unregister_by_name"} =>
             i \notin by_id /\ by_name[n] # i
=============================================================================
