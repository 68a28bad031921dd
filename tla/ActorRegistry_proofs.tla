------------------------ MODULE ActorRegistry_proofs ------------------------
(***************************************************************************)
(* For any threads, actors and names, shared ones as well: an operation of *)
(* the registry that no other one on the same name overlaps takes effect   *)
(* in both maps, and keeps it until the next operation on that name.       *)
(***************************************************************************)
EXTENDS ActorRegistry, TLAPS

\* An actor is filed under its own name only.
NameFiled == \A n \in Names : by_name[n] # NoActor => NameOf[by_name[n]] = n

\* Two operations under way on one name have overlapped.
Overlap ==
  \A t, u \in Threads :
    /\ t # u
    /\ call[t] # NoCall
    /\ call[u] # NoCall
    /\ NameOf[call[t].id] = NameOf[call[u].id]
    => t \in crossed

\* What is remembered of a name is an operation on it, and nobody is in another.
Remembered ==
  \A n \in Names :
    last[n] # NoCall => NameOf[last[n].id] = n /\ BusyOn(n) = {}

\* The first half of an operation that was not overlapped is still in place.
HalfDone(t) ==
  LET i == call[t].id
  IN  /\ In(t, "register") => i \in by_id
      /\ In(t, "unregister") => i \notin by_id
      /\ In(t, "unregister_by_name") => by_name[NameOf[i]] # i
Halfway == \A t \in Threads : t \notin crossed => HalfDone(t)

IInv == TypeOK /\ NameFiled /\ Overlap /\ Remembered /\ Halfway /\ MapsAgree

LEMMA InitIInv == Init => IInv
  BY NameAssumption, NoActorAssumption
  DEF Init, IInv, TypeOK, Calls, NoCall, NameFiled, Overlap, Remembered, BusyOn,
      Halfway, HalfDone, In, MapsAgree

\* What an operation on actor i does to the maps: nothing under other names.
Touches(i) ==
  /\ by_id' \subseteq Ids
  /\ by_id' \ {i} = by_id \ {i}
  /\ by_name' \in [Names -> Ids \cup {NoActor}]
  /\ \A n \in Names : n # NameOf[i] => by_name'[n] = by_name[n]
  /\ by_name'[NameOf[i]] \in {by_name[NameOf[i]], i, NoActor}

-----------------------------------------------------------------------------
\* The first half of an operation overlaps all those under way on its name.
LEMMA BeginKeeps ==
  ASSUME IInv, NEW t \in Threads, NEW i \in Ids,
         NEW o \in {"register", "unregister", "unregister_by_name"},
         Begin(t, o, i), Touches(i), HalfDone(t)'
  PROVE  IInv'
<1> DEFINE m == NameOf[i]
           c == [op |-> o, id |-> i]
<1> USE NameAssumption, NoActorAssumption
<1>1. /\ call[t] = NoCall
      /\ call' = [call EXCEPT ![t] = c]
      /\ crossed' = IF BusyOn(m) = {} THEN crossed ELSE crossed \cup BusyOn(m) \cup {t}
      /\ last' = [last EXCEPT ![m] = NoCall]
  BY DEF Begin
<1>2. c \in Calls /\ c # NoCall /\ m \in Names
  BY DEF Calls, NoCall
<1>3. TypeOK'
  BY <1>1, <1>2 DEF IInv, TypeOK, Touches, BusyOn, Calls
<1>4. /\ call'[t] = c
      /\ \A u \in Threads : u # t => call'[u] = call[u]
      /\ last'[m] = NoCall
      /\ \A n \in Names : n # m => last'[n] = last[n]
  BY <1>1, <1>2 DEF IInv, TypeOK
<1>5. NameFiled'
  BY <1>2 DEF IInv, NameFiled, TypeOK, Touches
<1>6. Overlap'
  <2>1. SUFFICES ASSUME NEW u \in Threads, NEW w \in Threads, u # w,
                        call'[u] # NoCall, call'[w] # NoCall,
                        NameOf[call'[u].id] = NameOf[call'[w].id]
                 PROVE  u \in crossed'
    BY DEF Overlap
  <2>2. CASE u = t
    <3>1. w \in BusyOn(m)
      BY <2>1, <2>2, <1>4 DEF BusyOn
    <3> QED
      BY <3>1, <2>2, <1>1
  <2>3. CASE w = t
    <3>1. u \in BusyOn(m)
      BY <2>1, <2>3, <1>4 DEF BusyOn
    <3> QED
      BY <3>1, <1>1
  <2>4. CASE u # t /\ w # t
    <3>1. u \in crossed
      BY <2>1, <2>4, <1>4 DEF IInv, Overlap
    <3> QED
      BY <3>1, <1>1
  <2> QED
    BY <2>2, <2>3, <2>4
<1>7. Remembered'
  <2>1. SUFFICES ASSUME NEW n \in Names, last'[n] # NoCall
                 PROVE  NameOf[last'[n].id] = n /\ BusyOn(n)' = {}
    BY DEF Remembered
  <2>2. n # m /\ last'[n] = last[n]
    BY <2>1, <1>4
  <2>3. NameOf[last[n].id] = n /\ BusyOn(n) = {}
    BY <2>1, <2>2 DEF IInv, Remembered
  <2>4. BusyOn(n)' = {}
    BY <2>2, <2>3, <1>4 DEF BusyOn
  <2> QED
    BY <2>2, <2>3, <2>4
<1>8. Halfway'
  <2>1. SUFFICES ASSUME NEW u \in Threads, u \notin crossed', u # t PROVE HalfDone(u)'
    BY DEF Halfway
  <2>2. u \notin crossed /\ u \notin BusyOn(m)
    BY <2>1, <1>1
  <2>3. HalfDone(u) /\ call'[u] = call[u]
    BY <2>1, <2>2, <1>4 DEF IInv, Halfway
  <2>4. CASE call[u] = NoCall
    BY <2>3, <2>4 DEF HalfDone, In, NoCall
  <2>5. CASE call[u] # NoCall
    <3>1. call[u].id \in Ids /\ NameOf[call[u].id] # m /\ NameOf[call[u].id] \in Names
      BY <2>2, <2>5 DEF BusyOn, IInv, TypeOK, Calls
    <3>2. call[u].id # i
      BY <3>1
    <3> QED
      BY <2>3, <3>1, <3>2 DEF HalfDone, In, Touches
  <2> QED
    BY <2>4, <2>5
<1>9. MapsAgree'
  <2>1. SUFFICES ASSUME NEW n \in Names
                 PROVE  LET k == last'[n].id
                        IN  /\ last'[n].op = "register" => k \in by_id' /\ by_name'[n] = k
                            /\ last'[n].op \in {"unregister", "unregister_by_name"} =>
                                 k \notin by_id' /\ by_name'[n] # k
    BY DEF MapsAgree
  <2>2. CASE n = m
    BY <2>2, <1>4 DEF NoCall
  <2>3. CASE n # m
    <3>1. last'[n] = last[n] /\ by_name'[n] = by_name[n]
      BY <2>3, <1>4 DEF Touches
    <3>2. last[n] # NoCall => last[n].id # i
      BY <2>3 DEF IInv, Remembered
    <3> QED
      BY <3>1, <3>2 DEF IInv, MapsAgree, Touches, NoCall
  <2> QED
    BY <2>2, <2>3
<1> HIDE DEF m, c
<1> QED
  BY <1>3, <1>5, <1>6, <1>7, <1>8, <1>9 DEF IInv

-----------------------------------------------------------------------------
\* What an operation has done once both its halves are over.
Done(t) ==
  LET i == call[t].id
  IN  /\ In(t, "register") => i \in by_id' /\ by_name'[NameOf[i]] = i
      /\ call[t].op \in {"unregister", "unregister_by_name"} =>
           i \notin by_id' /\ by_name'[NameOf[i]] # i

\* The second half of an operation ends it; if nothing overlapped it, nobody
\* else is busy on its name.
LEMMA ReturnKeeps ==
  ASSUME IInv, NEW t \in Threads, call[t] # NoCall, Return(t),
         Touches(call[t].id), t \notin crossed => Done(t)
  PROVE  IInv'
<1> DEFINE i == call[t].id
           m == NameOf[i]
<1> USE NameAssumption, NoActorAssumption
<1>1. /\ call' = [call EXCEPT ![t] = NoCall]
      /\ crossed' = crossed \ {t}
      /\ last' = IF t \in crossed THEN last ELSE [last EXCEPT ![m] = call[t]]
  BY DEF Return
<1>2. i \in Ids /\ m \in Names /\ call[t] \in Calls /\ t \in BusyOn(m)
  BY DEF IInv, TypeOK, Calls, BusyOn
<1>3. NoCall \in Calls
  BY DEF Calls
<1>4. TypeOK'
  BY <1>1, <1>2, <1>3 DEF IInv, TypeOK, Touches
<1>5. /\ call'[t] = NoCall
      /\ \A u \in Threads : u # t => call'[u] = call[u]
      /\ \A n \in Names : n # m => last'[n] = last[n]
      /\ t \in crossed => last'[m] = last[m]
      /\ t \notin crossed => last'[m] = call[t]
  BY <1>1, <1>2 DEF IInv, TypeOK
<1>6. last[m] = NoCall
  BY <1>2 DEF IInv, Remembered
<1>7. NameFiled'
  BY <1>2 DEF IInv, NameFiled, TypeOK, Touches
<1>8. Overlap'
  BY <1>1, <1>5 DEF IInv, Overlap
<1>9. Remembered'
  <2>1. SUFFICES ASSUME NEW n \in Names, last'[n] # NoCall
                 PROVE  NameOf[last'[n].id] = n /\ BusyOn(n)' = {}
    BY DEF Remembered
  <2>2. CASE n = m
    <3>1. t \notin crossed /\ last'[n] = call[t]
      BY <2>1, <2>2, <1>5, <1>6
    <3>2. \A u \in Threads : u # t /\ call[u] # NoCall => NameOf[call[u].id] # m
      BY <3>1 DEF IInv, Overlap
    <3>3. BusyOn(n)' = {}
      BY <2>2, <3>2, <1>5 DEF BusyOn
    <3> QED
      BY <2>2, <3>1, <3>3
  <2>3. CASE n # m
    <3>1. NameOf[last'[n].id] = n /\ BusyOn(n) = {}
      BY <2>1, <2>3, <1>5 DEF IInv, Remembered
    <3>2. BusyOn(n)' = {}
      BY <3>1, <1>5 DEF BusyOn
    <3> QED
      BY <3>1, <3>2
  <2> QED
    BY <2>2, <2>3
<1>10. Halfway'
  <2>1. SUFFICES ASSUME NEW u \in Threads, u \notin crossed' PROVE HalfDone(u)'
    BY DEF Halfway
  <2>2. CASE call'[u] = NoCall
    BY <2>2 DEF HalfDone, In, NoCall
  <2>3. CASE call'[u] # NoCall
    <3>1. u # t /\ call'[u] = call[u] /\ u \notin crossed
      BY <2>1, <2>3, <1>1, <1>5
    <3>2. HalfDone(u)
      BY <3>1 DEF IInv, Halfway
    <3>3. NameOf[call[u].id] # m
      BY <3>1, <2>3 DEF IInv, Overlap
    <3>4. call[u].id \in Ids /\ NameOf[call[u].id] \in Names /\ call[u].id # i
      BY <2>3, <3>1, <3>3 DEF IInv, TypeOK, Calls
    <3> QED
      BY <3>1, <3>2, <3>3, <3>4 DEF HalfDone, In, Touches
  <2> QED
    BY <2>2, <2>3
<1>11. MapsAgree'
  <2>1. SUFFICES ASSUME NEW n \in Names
                 PROVE  LET k == last'[n].id
                        IN  /\ last'[n].op = "register" => k \in by_id' /\ by_name'[n] = k
                            /\ last'[n].op \in {"unregister", "unregister_by_name"} =>
                                 k \notin by_id' /\ by_name'[n] # k
    BY DEF MapsAgree
  <2>2. CASE n = m /\ t \in crossed
    BY <2>2, <1>5, <1>6 DEF NoCall
  <2>3. CASE n = m /\ t \notin crossed
    BY <2>3, <1>5 DEF Done, In
  <2>4. CASE n # m
    <3>1. last'[n] = last[n] /\ by_name'[n] = by_name[n]
      BY <2>4, <1>5 DEF Touches
    <3>2. last[n] # NoCall => last[n].id # i
      BY <2>4 DEF IInv, Remembered
    <3> QED
      BY <3>1, <3>2 DEF IInv, MapsAgree, Touches, NoCall
  <2> QED
    BY <2>2, <2>3, <2>4
<1> HIDE DEF m, i
<1> QED
  BY <1>4, <1>7, <1>8, <1>9, <1>10, <1>11 DEF IInv

-----------------------------------------------------------------------------
\* Every operation is two such halves.
LEMMA StepIInv == ASSUME IInv, Next PROVE IInv'
<1> USE NameAssumption, NoActorAssumption
<1>1. PICK t \in Threads :
        \/ \E i \in Ids : RegisterId(t, i) \/ UnregisterId(t, i)
        \/ \E n \in Names : RemoveName(t, n)
        \/ RegisterName(t) \/ UnregisterName(t) \/ RemoveId(t)
  BY DEF Next
<1>2. TypeOK
  BY DEF IInv
<1>3. CASE \E i \in Ids : RegisterId(t, i)
  <2>1. PICK i \in Ids : RegisterId(t, i)
    BY <1>3
  <2>2. Begin(t, "register", i) /\ Touches(i) /\ HalfDone(t)'
    BY <2>1, <1>2 DEF RegisterId, Begin, Touches, HalfDone, In, TypeOK
  <2> QED
    BY <2>2, BeginKeeps
<1>4. CASE \E i \in Ids : UnregisterId(t, i)
  <2>1. PICK i \in Ids : UnregisterId(t, i)
    BY <1>4
  <2>2. Begin(t, "unregister", i) /\ Touches(i) /\ HalfDone(t)'
    BY <2>1, <1>2 DEF UnregisterId, Begin, Touches, HalfDone, In, TypeOK
  <2> QED
    BY <2>2, BeginKeeps
<1>5. CASE \E n \in Names : RemoveName(t, n)
  <2>1. PICK n \in Names : RemoveName(t, n)
    BY <1>5
  <2>2. PICK i \in Ids : i = by_name[n] /\ NameOf[i] = n
    BY <2>1, <1>2 DEF IInv, TypeOK, RemoveName, NameFiled
  <2>3. /\ Begin(t, "unregister_by_name", i)
        /\ by_id' = by_id
        /\ by_name' = [by_name EXCEPT ![n] = NoActor]
    BY <2>1, <2>2 DEF RemoveName
  <2>4. Touches(i) /\ HalfDone(t)'
    BY <2>2, <2>3, <1>2 DEF Begin, Touches, HalfDone, In, TypeOK
  <2> QED
    BY <2>3, <2>4, BeginKeeps
<1>6. CASE RegisterName(t) \/ UnregisterName(t) \/ RemoveId(t)
  <2>1. call[t] # NoCall /\ call[t].id \in Ids /\ Return(t)
    BY <1>6, <1>2
    DEF TypeOK, RegisterName, UnregisterName, RemoveId, In, Calls, NoCall
  <2>2. Touches(call[t].id)
    BY <1>6, <2>1, <1>2
    DEF TypeOK, RegisterName, UnregisterName, RemoveId, Touches
  <2>3. ASSUME t \notin crossed PROVE Done(t)
    <3>1. HalfDone(t)
      BY <2>3 DEF IInv, Halfway
    <3> QED
      BY <3>1, <1>6, <2>1, <1>2
      DEF TypeOK, RegisterName, UnregisterName, RemoveId, HalfDone, Done, In
  <2> QED
    BY <2>1, <2>2, <2>3, ReturnKeeps
<1> QED
  BY <1>1, <1>3, <1>4, <1>5, <1>6

\* For any threads, actors and names, whoever uses the registry: what an
\* operation that nothing on its name overlapped has done to the two maps
\* stays until the next one on that name (registry.rs:22-39).
THEOREM MapsAlwaysAgree == Spec => []MapsAgree
<1>1. IInv /\ [Next]_vars => IInv'
  <2>1. CASE Next
    BY <2>1, StepIInv
  <2>2. CASE UNCHANGED vars
    BY <2>2 DEF vars, IInv, TypeOK, NameFiled, Overlap, Remembered, BusyOn,
                Halfway, HalfDone, In, MapsAgree
  <2> QED
    BY <2>1, <2>2
<1>2. IInv => MapsAgree
  BY DEF IInv
<1> QED
  BY InitIInv, <1>1, <1>2, PTL DEF Spec
=============================================================================
