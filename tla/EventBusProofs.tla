--------------------------- MODULE EventBusProofs ---------------------------
(***************************************************************************)
(* Proofs about EventBus for any topics, publishers, subscribers, closers  *)
(* and buffer size: type correctness, no send on a closed channel, no      *)
(* leaked worker, and exact delivery.                                      *)
(***************************************************************************)
EXTENDS EventBus, SequenceTheorems, TLAPS

(* Where a Close call is after it won closeOnce *)
Active == {"mark", "wake", "drain", "close", "join"}
AfterMark == {"wake", "drain", "close", "join"}

(* closeOnce admits one Close body, and the flag records its progress *)
OnceInv ==
  /\ \A c, d \in Closers : closer[c] \in Active /\ closer[d] \in Active => c = d
  /\ \A c \in Closers : closer[c] \in Active => once = "running"
  /\ \A c \in Closers : closer[c] = "mark" => ~closed
  /\ \A c \in Closers : closer[c] \in AfterMark => closed
  /\ once = "free" => ~closed
  /\ once = "finished" => closed
  /\ \A c \in Closers : closer[c] = "returned" => once = "finished"

(* publishWG counts exactly the Publish calls that may still send, and it  *)
(* is empty from the moment Close has passed its barrier                   *)
BarrierInv ==
  /\ \A p \in Publishers :
       p \in publishWG <=> pub[p] \in {"topic", "send", "blocked"}
  /\ \A p \in Publishers : pub[p] \in {"send", "blocked"} => ptopic[p] \in topics
  /\ \A c \in Closers : closer[c] \in {"close", "join"} => publishWG = {}
  /\ once = "finished" => publishWG = {}
  /\ chClosed # {} => closed /\ publishWG = {}
  /\ \A p \in Publishers : pub[p] # "panicked"

(* Workers exist exactly for the installed topics, and Close's snapshot    *)
(* misses none of them                                                     *)
WorkerInv ==
  /\ \A t \in Topics : t \in topics <=> worker[t] # "none"
  /\ closed => topics \subseteq channels \cup chClosed
  /\ once = "finished" => \A t \in Topics : worker[t] \in {"none", "exited"}

(* A worker past its receive holds an envelope, and so does a Publish in   *)
(* progress                                                                *)
CurInv ==
  /\ \A t \in Topics : worker[t] \in {"snapshot", "dispatch"} => cur[t] \in Events
  /\ \A p \in Publishers : pub[p] # "idle" => pcount[p] >= 1

IInv == TypeOK /\ CurInv /\ OnceInv /\ BarrierInv /\ WorkerInv

-----------------------------------------------------------------------------
(* Sequences keep their element type under the operations the bus uses *)
LEMMA RemoveAtType ==
  ASSUME NEW S, NEW q \in Seq(S), NEW i \in DOMAIN q
  PROVE  SubSeq(q, 1, i - 1) \o SubSeq(q, i + 1, Len(q)) \in Seq(S)
  OBVIOUS

(* A function of sequences keeps its type when one of them is extended *)
LEMMA AppendType ==
  ASSUME NEW D, NEW S, NEW f \in [D -> Seq(S)], NEW d \in D, NEW e \in S
  PROVE  /\ [f EXCEPT ![d] = Append(@, e)] \in [D -> Seq(S)]
         /\ Len(Append(f[d], e)) = Len(f[d]) + 1
  OBVIOUS

(* A send leaves the queues well typed and within their capacity *)
LEMMA SendTypes ==
  ASSUME ControlTypes, EventTypes, NEW p \in Publishers, Event(p) \in Events,
         Send(p, ptopic[p]), UNCHANGED <<cur, delivered>>
  PROVE  EventTypes'
<1> DEFINE t == ptopic[p]
<1>1. t \in Topics /\ BufferSize \in Nat
  BY BufferAssumption DEF ControlTypes
<1>2. CASE t \in chClosed
  BY <1>2 DEF EventTypes, Send
<1>3. CASE t \notin chClosed
  <2>1. /\ Len(queue[t]) < BufferSize
        /\ queue' = [queue EXCEPT ![t] = Append(@, Event(p))]
        /\ accepted' = [accepted EXCEPT ![t] = Append(@, Event(p))]
    BY <1>3 DEF Send
  <2>2. /\ queue' \in [Topics -> Seq(Events)]
        /\ accepted' \in [Topics -> Seq(Events)]
        /\ Len(queue'[t]) = Len(queue[t]) + 1
    BY <1>1, <2>1, AppendType DEF EventTypes
  <2>3. \A u \in Topics : Len(queue'[u]) <= BufferSize
    <3> TAKE u \in Topics
    <3>1. CASE u = t
      BY <1>1, <2>1, <2>2, <3>1 DEF EventTypes
    <3>2. CASE u # t
      BY <2>1, <3>2 DEF EventTypes
    <3> QED BY <3>1, <3>2
  <2> QED BY <2>2, <2>3 DEF EventTypes
<1> QED BY <1>2, <1>3

(* The initial state satisfies the inductive invariant *)
LEMMA InitInv == Init => IInv
<1> SUFFICES ASSUME Init PROVE IInv
  OBVIOUS
<1>1. TypeOK
  <2>0. pcount \in [Publishers -> 0..MaxPublish]
    BY PublishAssumption DEF Init
  <2>1. ControlTypes
    BY <2>0 DEF Init, ControlTypes
  <2>2. ListTypes
    BY DEF Init, ListTypes
  <2>3. EventTypes
    BY BufferAssumption DEF Init, EventTypes
  <2> QED BY <2>1, <2>2, <2>3 DEF TypeOK
<1>2. CurInv
  BY DEF Init, CurInv
<1>3. OnceInv
  BY DEF Init, OnceInv, Active, AfterMark
<1>4. BarrierInv
  BY DEF Init, BarrierInv
<1>5. WorkerInv
  BY DEF Init, WorkerInv
<1> QED BY <1>1, <1>2, <1>3, <1>4, <1>5 DEF IInv

(* TypeOK and CurInv are preserved by every step of Publish *)
LEMMA PublishTypes ==
  ASSUME TypeOK, CurInv, NEW p \in Publishers,
         PublishCall(p) \/ PublishCancelled(p) \/ PublisherStep(p)
  PROVE  TypeOK' /\ CurInv'
<1> USE BufferAssumption, PublishAssumption
<1> USE DEF TypeOK, busVars, closeVars, pubVars, subVars, workVars
<1>1. CASE PublishCall(p)
  <2>1. ControlTypes'
    BY <1>1 DEF ControlTypes, PublishCall
  <2>2. ListTypes'
    BY <1>1 DEF ControlTypes, ListTypes, EventTypes, PublishCall
  <2>3. EventTypes'
    BY <1>1 DEF ControlTypes, ListTypes, EventTypes, CurInv, PublishCall
  <2>4. CurInv'
    BY <1>1 DEF ControlTypes, EventTypes, CurInv, PublishCall
  <2> QED BY <2>1, <2>2, <2>3, <2>4 DEF TypeOK
<1>2. CASE PublishCancelled(p)
  <2>1. ControlTypes'
    BY <1>2 DEF ControlTypes, PublishCancelled, Return
  <2>2. ListTypes'
    BY <1>2 DEF ControlTypes, ListTypes, EventTypes, PublishCancelled, Return
  <2>3. EventTypes'
    BY <1>2 DEF ControlTypes, ListTypes, EventTypes, CurInv, PublishCancelled, Return
  <2>4. CurInv'
    BY <1>2 DEF ControlTypes, EventTypes, CurInv, PublishCancelled, Return
  <2> QED BY <2>1, <2>2, <2>3, <2>4 DEF TypeOK
<1>3. CASE PublishRegister(p)
  <2>1. ControlTypes'
    BY <1>3 DEF ControlTypes, PublishRegister
  <2>2. ListTypes'
    BY <1>3 DEF ControlTypes, ListTypes, EventTypes, PublishRegister
  <2>3. EventTypes'
    BY <1>3 DEF ControlTypes, ListTypes, EventTypes, CurInv, PublishRegister
  <2>4. CurInv'
    BY <1>3 DEF ControlTypes, EventTypes, CurInv, PublishRegister
  <2> QED BY <2>1, <2>2, <2>3, <2>4 DEF TypeOK
<1>4. CASE getOrCreateTopic(p)
  <2>1. ControlTypes'
    BY <1>4 DEF ControlTypes, getOrCreateTopic, install, Return
  <2>2. ListTypes'
    BY <1>4 DEF ControlTypes, ListTypes, EventTypes, getOrCreateTopic, install, Return
  <2>3. EventTypes'
    BY <1>4 DEF ControlTypes, ListTypes, EventTypes, CurInv, getOrCreateTopic, install, Return
  <2>4. CurInv'
    BY <1>4 DEF ControlTypes, EventTypes, CurInv, getOrCreateTopic, install, Return
  <2> QED BY <2>1, <2>2, <2>3, <2>4 DEF TypeOK
<1>5. CASE PublishFast(p)
  <2>1. ControlTypes'
    BY <1>5 DEF ControlTypes, PublishFast, Send, Return, Event, Events
  <2>2. ListTypes'
    BY <1>5 DEF ControlTypes, ListTypes, EventTypes, PublishFast, Send, Return, Event, Events
  <2>0. Event(p) \in Events
    BY <1>5 DEF ControlTypes, CurInv, PublishFast, Event, Events
  <2>3. EventTypes'
    BY <1>5, <2>0, SendTypes DEF EventTypes, PublishFast
  <2>4. CurInv'
    BY <1>5 DEF ControlTypes, EventTypes, CurInv, PublishFast, Send, Return, Event, Events
  <2> QED BY <2>1, <2>2, <2>3, <2>4 DEF TypeOK
<1>6. CASE PublishSlow(p)
  <2>1. ControlTypes'
    BY <1>6 DEF ControlTypes, PublishSlow, Send, Return, Event, Events
  <2>2. ListTypes'
    BY <1>6 DEF ControlTypes, ListTypes, EventTypes, PublishSlow, Send, Return, Event, Events
  <2>0. Event(p) \in Events
    BY <1>6 DEF ControlTypes, CurInv, PublishSlow, Event, Events
  <2>3. EventTypes'
    BY <1>6, <2>0, SendTypes DEF EventTypes, PublishSlow
  <2>4. CurInv'
    BY <1>6 DEF ControlTypes, EventTypes, CurInv, PublishSlow, Send, Return, Event, Events
  <2> QED BY <2>1, <2>2, <2>3, <2>4 DEF TypeOK
<1>7. CASE PublishDone(p)
  <2>1. ControlTypes'
    BY <1>7 DEF ControlTypes, PublishDone, Return
  <2>2. ListTypes'
    BY <1>7 DEF ControlTypes, ListTypes, EventTypes, PublishDone, Return
  <2>3. EventTypes'
    BY <1>7 DEF ControlTypes, ListTypes, EventTypes, CurInv, PublishDone, Return
  <2>4. CurInv'
    BY <1>7 DEF ControlTypes, EventTypes, CurInv, PublishDone, Return
  <2> QED BY <2>1, <2>2, <2>3, <2>4 DEF TypeOK
<1> QED BY <1>1, <1>2, <1>3, <1>4, <1>5, <1>6, <1>7 DEF PublisherStep

(* TypeOK and CurInv are preserved by Subscribe and unsubscribe *)
LEMMA SubscribeTypes ==
  ASSUME TypeOK, CurInv, NEW s \in Subscribers,
         SubscribeCall(s) \/ Unsubscribe(s) \/ SubscriberStep(s)
  PROVE  TypeOK' /\ CurInv'
<1> USE BufferAssumption, PublishAssumption
<1> USE DEF TypeOK, busVars, closeVars, pubVars, subVars, workVars
<1>1. CASE SubscribeCall(s)
  <2>1. ControlTypes'
    BY <1>1 DEF ControlTypes, SubscribeCall
  <2>2. ListTypes'
    BY <1>1 DEF ControlTypes, ListTypes, EventTypes, SubscribeCall
  <2>3. EventTypes'
    BY <1>1 DEF ControlTypes, ListTypes, EventTypes, CurInv, SubscribeCall
  <2>4. CurInv'
    BY <1>1 DEF ControlTypes, EventTypes, CurInv, SubscribeCall
  <2> QED BY <2>1, <2>2, <2>3, <2>4 DEF TypeOK
<1>2. CASE Unsubscribe(s)
  <2>1. ControlTypes'
    BY <1>2 DEF ControlTypes, Unsubscribe
  <2>2. ListTypes'
    <3> DEFINE q == subs[stopic[s]]
    <3>1. PICK i \in DOMAIN q :
            subs' = [subs EXCEPT ![stopic[s]] =
                       SubSeq(q, 1, i - 1) \o SubSeq(q, i + 1, Len(q))]
      BY <1>2 DEF Unsubscribe
    <3>2. q \in Seq(Subscribers)
      BY DEF ControlTypes, ListTypes
    <3>3. SubSeq(q, 1, i - 1) \o SubSeq(q, i + 1, Len(q)) \in Seq(Subscribers)
      BY <3>2, RemoveAtType
    <3>4. subs' \in [Topics -> Seq(Subscribers)]
      BY <3>1, <3>3 DEF ListTypes
    <3> QED BY <1>2, <3>4 DEF ListTypes, Unsubscribe
  <2>3. EventTypes'
    BY <1>2 DEF ControlTypes, ListTypes, EventTypes, CurInv, Unsubscribe
  <2>4. CurInv'
    BY <1>2 DEF ControlTypes, EventTypes, CurInv, Unsubscribe
  <2> QED BY <2>1, <2>2, <2>3, <2>4 DEF TypeOK
<1>3. CASE SubscribeLock(s)
  <2>1. ControlTypes'
    BY <1>3 DEF ControlTypes, SubscribeLock, install
  <2>2. ListTypes'
    BY <1>3 DEF ControlTypes, ListTypes, EventTypes, SubscribeLock, install
  <2>3. EventTypes'
    BY <1>3 DEF ControlTypes, ListTypes, EventTypes, CurInv, SubscribeLock, install
  <2>4. CurInv'
    BY <1>3 DEF ControlTypes, EventTypes, CurInv, SubscribeLock, install
  <2> QED BY <2>1, <2>2, <2>3, <2>4 DEF TypeOK
<1>4. CASE SubscribeAppend(s)
  <2>1. ControlTypes'
    BY <1>4 DEF ControlTypes, SubscribeAppend
  <2>2. ListTypes'
    BY SMTT(30), <1>4 DEF ControlTypes, ListTypes, EventTypes, SubscribeAppend
  <2>3. EventTypes'
    BY <1>4 DEF ControlTypes, ListTypes, EventTypes, CurInv, SubscribeAppend
  <2>4. CurInv'
    BY <1>4 DEF ControlTypes, EventTypes, CurInv, SubscribeAppend
  <2> QED BY <2>1, <2>2, <2>3, <2>4 DEF TypeOK
<1> QED BY <1>1, <1>2, <1>3, <1>4 DEF SubscriberStep

(* TypeOK and CurInv are preserved by the topic workers *)
LEMMA WorkerTypes ==
  ASSUME TypeOK, CurInv, NEW t \in Topics, WorkerStep(t)
  PROVE  TypeOK' /\ CurInv'
<1> USE BufferAssumption, PublishAssumption
<1> USE DEF TypeOK, busVars, closeVars, pubVars, subVars, workVars
<1>1. CASE WorkerRecv(t)
  <2>1. ControlTypes'
    BY <1>1 DEF ControlTypes, WorkerRecv
  <2>2. ListTypes'
    BY <1>1 DEF ControlTypes, ListTypes, EventTypes, WorkerRecv
  <2>3. EventTypes'
    BY <1>1 DEF ControlTypes, ListTypes, EventTypes, CurInv, WorkerRecv
  <2>4. CurInv'
    BY <1>1 DEF ControlTypes, EventTypes, CurInv, WorkerRecv
  <2> QED BY <2>1, <2>2, <2>3, <2>4 DEF TypeOK
<1>2. CASE WorkerSnapshot(t)
  <2>1. ControlTypes'
    BY <1>2 DEF ControlTypes, WorkerSnapshot
  <2>2. ListTypes'
    BY <1>2 DEF ControlTypes, ListTypes, EventTypes, WorkerSnapshot
  <2>3. EventTypes'
    BY <1>2 DEF ControlTypes, ListTypes, EventTypes, CurInv, WorkerSnapshot
  <2>4. CurInv'
    BY <1>2 DEF ControlTypes, EventTypes, CurInv, WorkerSnapshot
  <2> QED BY <2>1, <2>2, <2>3, <2>4 DEF TypeOK
<1>3. CASE WorkerHandle(t)
  <2>1. ControlTypes'
    BY <1>3 DEF ControlTypes, WorkerHandle
  <2>2. ListTypes'
    <3>1. snap[t] # <<>> => Tail(snap[t]) \in Seq(Subscribers)
      BY DEF ListTypes
    <3> QED BY <1>3, <3>1 DEF ListTypes, WorkerHandle
  <2>3. EventTypes'
    <3>1. cur[t] \in Events
      BY <1>3 DEF CurInv, WorkerHandle
    <3>2. snap[t] # <<>> => Head(snap[t]) \in Subscribers
      BY DEF ListTypes
    <3>3. delivered' \in [Subscribers -> Seq(Events)]
      <4>1. CASE snap[t] = <<>>
        BY <1>3, <4>1 DEF EventTypes, WorkerHandle
      <4>2. CASE snap[t] # <<>>
        <5>1. delivered' = [delivered EXCEPT ![Head(snap[t])] = Append(@, cur[t])]
          BY <1>3, <4>2 DEF WorkerHandle
        <5>2. Head(snap[t]) \in Subscribers
          BY <3>2, <4>2
        <5> QED BY <3>1, <5>1, <5>2, AppendType DEF EventTypes
      <4> QED BY <4>1, <4>2
    <3>4. cur' \in [Topics -> Events \cup {NoEvent}]
      BY <1>3 DEF EventTypes, WorkerHandle
    <3> QED BY <1>3, <3>3, <3>4 DEF EventTypes, WorkerHandle
  <2>4. CurInv'
    BY <1>3 DEF ControlTypes, EventTypes, CurInv, WorkerHandle
  <2> QED BY <2>1, <2>2, <2>3, <2>4 DEF TypeOK
<1>4. CASE WorkerExit(t)
  <2>1. ControlTypes'
    BY <1>4 DEF ControlTypes, WorkerExit
  <2>2. ListTypes'
    BY <1>4 DEF ControlTypes, ListTypes, EventTypes, WorkerExit
  <2>3. EventTypes'
    BY <1>4 DEF ControlTypes, ListTypes, EventTypes, CurInv, WorkerExit
  <2>4. CurInv'
    BY <1>4 DEF ControlTypes, EventTypes, CurInv, WorkerExit
  <2> QED BY <2>1, <2>2, <2>3, <2>4 DEF TypeOK
<1> QED BY <1>1, <1>2, <1>3, <1>4 DEF WorkerStep

(* TypeOK and CurInv are preserved by Close *)
LEMMA CloseTypes ==
  ASSUME TypeOK, CurInv, NEW c \in Closers, CloseCall(c) \/ CloserStep(c)
  PROVE  TypeOK' /\ CurInv'
<1> USE DEF TypeOK, busVars, closeVars, pubVars, subVars, workVars
<1>1. CASE CloseCall(c)
  <2>1. ControlTypes'
    BY <1>1 DEF ControlTypes, CloseCall
  <2>2. ListTypes'
    BY <1>1 DEF ControlTypes, ListTypes, EventTypes, CloseCall
  <2>3. EventTypes'
    BY <1>1 DEF ControlTypes, ListTypes, EventTypes, CurInv, CloseCall
  <2>4. CurInv'
    BY <1>1 DEF ControlTypes, EventTypes, CurInv, CloseCall
  <2> QED BY <2>1, <2>2, <2>3, <2>4 DEF TypeOK
<1>2. CASE CloseWait(c)
  <2>1. ControlTypes'
    BY <1>2 DEF ControlTypes, CloseWait
  <2>2. ListTypes'
    BY <1>2 DEF ControlTypes, ListTypes, EventTypes, CloseWait
  <2>3. EventTypes'
    BY <1>2 DEF ControlTypes, ListTypes, EventTypes, CurInv, CloseWait
  <2>4. CurInv'
    BY <1>2 DEF ControlTypes, EventTypes, CurInv, CloseWait
  <2> QED BY <2>1, <2>2, <2>3, <2>4 DEF TypeOK
<1>3. CASE CloseMark(c)
  <2>1. ControlTypes'
    BY <1>3 DEF ControlTypes, CloseMark
  <2>2. ListTypes'
    BY <1>3 DEF ControlTypes, ListTypes, EventTypes, CloseMark
  <2>3. EventTypes'
    BY <1>3 DEF ControlTypes, ListTypes, EventTypes, CurInv, CloseMark
  <2>4. CurInv'
    BY <1>3 DEF ControlTypes, EventTypes, CurInv, CloseMark
  <2> QED BY <2>1, <2>2, <2>3, <2>4 DEF TypeOK
<1>4. CASE CloseWake(c)
  <2>1. ControlTypes'
    BY <1>4 DEF ControlTypes, CloseWake
  <2>2. ListTypes'
    BY <1>4 DEF ControlTypes, ListTypes, EventTypes, CloseWake
  <2>3. EventTypes'
    BY <1>4 DEF ControlTypes, ListTypes, EventTypes, CurInv, CloseWake
  <2>4. CurInv'
    BY <1>4 DEF ControlTypes, EventTypes, CurInv, CloseWake
  <2> QED BY <2>1, <2>2, <2>3, <2>4 DEF TypeOK
<1>5. CASE CloseDrain(c)
  <2>1. ControlTypes'
    BY <1>5 DEF ControlTypes, CloseDrain
  <2>2. ListTypes'
    BY <1>5 DEF ControlTypes, ListTypes, EventTypes, CloseDrain
  <2>3. EventTypes'
    BY <1>5 DEF ControlTypes, ListTypes, EventTypes, CurInv, CloseDrain
  <2>4. CurInv'
    BY <1>5 DEF ControlTypes, EventTypes, CurInv, CloseDrain
  <2> QED BY <2>1, <2>2, <2>3, <2>4 DEF TypeOK
<1>6. CASE CloseChannel(c)
  <2>1. ControlTypes'
    BY <1>6 DEF ControlTypes, CloseChannel
  <2>2. ListTypes'
    BY <1>6 DEF ControlTypes, ListTypes, EventTypes, CloseChannel
  <2>3. EventTypes'
    BY <1>6 DEF ControlTypes, ListTypes, EventTypes, CurInv, CloseChannel
  <2>4. CurInv'
    BY <1>6 DEF ControlTypes, EventTypes, CurInv, CloseChannel
  <2> QED BY <2>1, <2>2, <2>3, <2>4 DEF TypeOK
<1>7. CASE CloseJoin(c)
  <2>1. ControlTypes'
    BY <1>7 DEF ControlTypes, CloseJoin
  <2>2. ListTypes'
    BY <1>7 DEF ControlTypes, ListTypes, EventTypes, CloseJoin
  <2>3. EventTypes'
    BY <1>7 DEF ControlTypes, ListTypes, EventTypes, CurInv, CloseJoin
  <2>4. CurInv'
    BY <1>7 DEF ControlTypes, EventTypes, CurInv, CloseJoin
  <2> QED BY <2>1, <2>2, <2>3, <2>4 DEF TypeOK
<1> QED BY <1>1, <1>2, <1>3, <1>4, <1>5, <1>6, <1>7 DEF CloserStep

-----------------------------------------------------------------------------
(* The control invariants are preserved by every step of Publish *)
LEMMA PublishInv ==
  ASSUME IInv, NEW p \in Publishers,
         PublishCall(p) \/ PublishCancelled(p) \/ PublisherStep(p)
  PROVE  OnceInv' /\ BarrierInv' /\ WorkerInv'
<1> USE DEF IInv, TypeOK, ControlTypes, OnceInv, BarrierInv, WorkerInv
<1> USE DEF busVars, closeVars, pubVars, subVars, workVars
<1>1. CASE PublishCall(p)
  BY <1>1 DEF PublishCall
<1>2. CASE PublishCancelled(p)
  BY <1>2 DEF PublishCancelled, Return
<1>3. CASE PublishRegister(p)
  BY <1>3 DEF PublishRegister, Active, AfterMark
<1>4. CASE getOrCreateTopic(p)
  BY <1>4 DEF getOrCreateTopic, install, Return, Active, AfterMark
<1>5. CASE PublishFast(p)
  BY <1>5 DEF PublishFast, Send, Return
<1>6. CASE PublishSlow(p)
  BY <1>6 DEF PublishSlow, Send, Return
<1>7. CASE PublishDone(p)
  BY <1>7 DEF PublishDone, Return
<1> QED BY <1>1, <1>2, <1>3, <1>4, <1>5, <1>6, <1>7 DEF PublisherStep

(* The control invariants are preserved by Subscribe and unsubscribe *)
LEMMA SubscribeInv ==
  ASSUME IInv, NEW s \in Subscribers,
         SubscribeCall(s) \/ Unsubscribe(s) \/ SubscriberStep(s)
  PROVE  OnceInv' /\ BarrierInv' /\ WorkerInv'
<1> USE DEF IInv, TypeOK, ControlTypes, OnceInv, BarrierInv, WorkerInv
<1> USE DEF busVars, closeVars, pubVars, subVars, workVars
<1>1. CASE SubscribeCall(s)
  BY <1>1 DEF SubscribeCall
<1>2. CASE Unsubscribe(s)
  BY <1>2 DEF Unsubscribe
<1>3. CASE SubscribeLock(s)
  BY <1>3 DEF SubscribeLock, install
<1>4. CASE SubscribeAppend(s)
  BY <1>4 DEF SubscribeAppend
<1> QED BY <1>1, <1>2, <1>3, <1>4 DEF SubscriberStep

(* The control invariants are preserved by the topic workers *)
LEMMA WorkerStepInv ==
  ASSUME IInv, NEW t \in Topics, WorkerStep(t)
  PROVE  OnceInv' /\ BarrierInv' /\ WorkerInv'
<1> USE DEF IInv, TypeOK, ControlTypes, OnceInv, BarrierInv, WorkerInv
<1> USE DEF busVars, closeVars, pubVars, subVars, workVars
<1>1. CASE WorkerRecv(t)
  BY <1>1 DEF WorkerRecv
<1>2. CASE WorkerSnapshot(t)
  BY <1>2 DEF WorkerSnapshot
<1>3. CASE WorkerHandle(t)
  BY <1>3 DEF WorkerHandle
<1>4. CASE WorkerExit(t)
  BY <1>4 DEF WorkerExit
<1> QED BY <1>1, <1>2, <1>3, <1>4 DEF WorkerStep

(* The control invariants are preserved by Close *)
LEMMA CloseInv ==
  ASSUME IInv, NEW c \in Closers, CloseCall(c) \/ CloserStep(c)
  PROVE  OnceInv' /\ BarrierInv' /\ WorkerInv'
<1> USE DEF IInv, TypeOK, ControlTypes, OnceInv, BarrierInv, WorkerInv
<1> USE DEF busVars, closeVars, pubVars, subVars, workVars, Active, AfterMark
<1>1. CASE CloseCall(c)
  BY <1>1 DEF CloseCall
<1>2. CASE CloseWait(c)
  BY <1>2 DEF CloseWait
<1>3. CASE CloseMark(c)
  BY <1>3 DEF CloseMark
<1>4. CASE CloseWake(c)
  BY <1>4 DEF CloseWake
<1>5. CASE CloseDrain(c)
  BY <1>5 DEF CloseDrain
<1>6. CASE CloseChannel(c)
  BY <1>6 DEF CloseChannel
<1>7. CASE CloseJoin(c)
  BY <1>7 DEF CloseJoin
<1> QED BY <1>1, <1>2, <1>3, <1>4, <1>5, <1>6, <1>7 DEF CloserStep

-----------------------------------------------------------------------------
(* The invariant is inductive *)
LEMMA NextInv == IInv /\ [Next]_vars => IInv'
<1> SUFFICES ASSUME IInv, [Next]_vars PROVE IInv'
  OBVIOUS
<1>1. CASE \E p \in Publishers :
             PublishCall(p) \/ PublishCancelled(p) \/ PublisherStep(p)
  BY <1>1, PublishTypes, PublishInv DEF IInv
<1>2. CASE \E s \in Subscribers :
             SubscribeCall(s) \/ Unsubscribe(s) \/ SubscriberStep(s)
  BY <1>2, SubscribeTypes, SubscribeInv DEF IInv
<1>3. CASE \E t \in Topics : WorkerStep(t)
  BY <1>3, WorkerTypes, WorkerStepInv DEF IInv
<1>4. CASE \E c \in Closers : CloseCall(c) \/ CloserStep(c)
  BY <1>4, CloseTypes, CloseInv DEF IInv
<1>5. CASE UNCHANGED vars
  BY <1>5 DEF vars, busVars, closeVars, pubVars, subVars, workVars, IInv,
     TypeOK, ControlTypes, ListTypes, EventTypes, CurInv, OnceInv, BarrierInv,
     WorkerInv
<1> QED BY <1>1, <1>2, <1>3, <1>4, <1>5 DEF Next

(* bus.go, the whole package: every state of the bus satisfies the         *)
(* inductive invariant, in particular its type invariant: no channel ever  *)
(* exceeds its capacity.                                                   *)
THEOREM TypeCorrect == Spec => []TypeOK
<1>1. IInv => TypeOK
  BY DEF IInv
<1> QED BY <1>1, InitInv, NextInv, PTL DEF Spec

(* bus.go Close: the publishWG barrier between flagging the bus closed and *)
(* closing its channels rules out a send on a closed channel, for any      *)
(* number of publishers and any buffer size.                               *)
THEOREM SendsAreSafe == Spec => []NoSendOnClosedChannel
<1>1. IInv => NoSendOnClosedChannel
  BY DEF IInv, BarrierInv, NoSendOnClosedChannel
<1> QED BY <1>1, InitInv, NextInv, PTL DEF Spec

(* bus.go getOrCreateTopic: the re-check of closed under Bus.mu means that *)
(* Close's snapshot covers every worker ever spawned, and no worker is     *)
(* alive once a Close call has returned.                                   *)
THEOREM WorkersAreJoined == Spec => []NoLeakedWorker
<1>1. IInv => NoLeakedWorker
  BY DEF IInv, TypeOK, ControlTypes, OnceInv, WorkerInv, NoLeakedWorker
<1> QED BY <1>1, InitInv, NextInv, PTL DEF Spec

-----------------------------------------------------------------------------
(* Delivery: what is queued, in whose hands and handed out, as positions   *)
(* in the queue order accepted[t]                                          *)

(* The envelope a worker took and has not begun to dispatch *)
Taken(t) == IF worker[t] = "snapshot" THEN 1 ELSE 0

(* The queue is what was accepted, less what was taken from it; the worker *)
(* holds the event it took last                                            *)
QueueOf(t) ==
  /\ Len(accepted[t]) = begun[t] + Taken(t) + Len(queue[t])
  /\ \A i \in 1..Len(queue[t]) :
       queue[t][i] = accepted[t][begun[t] + Taken(t) + i]
  /\ worker[t] = "snapshot" => cur[t] = accepted[t][begun[t] + 1]
  /\ worker[t] = "dispatch" => begun[t] >= 1 /\ cur[t] = accepted[t][begun[t]]
  /\ worker[t] = "none" => Len(accepted[t]) = 0
  /\ worker[t] = "exited" => Len(queue[t]) = 0 /\ t \in chClosed

Registered(s) == sub[s] \in {"subscribed", "unsubscribed"}

(* A topic's list holds its subscribers, each once; so does the list its   *)
(* worker works through                                                    *)
ListOf(t) ==
  /\ \A i \in DOMAIN subs[t] : /\ stopic[subs[t][i]] = t
                               /\ sub[subs[t][i]] = "subscribed"
  /\ \A i, j \in DOMAIN subs[t] : subs[t][i] = subs[t][j] => i = j
  /\ worker[t] # "dispatch" => snap[t] = <<>>
  /\ \A i \in DOMAIN snap[t] : stopic[snap[t][i]] = t /\ Registered(snap[t][i])
  /\ \A i, j \in DOMAIN snap[t] : snap[t][i] = snap[t][j] => i = j

(* The worker has yet to call s with the event it dispatches *)
Due(s) == \E i \in DOMAIN snap[stopic[s]] : snap[stopic[s]][i] = s

(* A handler has seen, in order, the events dispatched since it was        *)
(* registered: all of them while it stays, but the one being dispatched    *)
(* if its turn has not come                                                *)
SeenOf(s) ==
  LET b == since[s].begun
      n == Len(delivered[s])
      t == stopic[s]
  IN  /\ ~Registered(s) => n = 0
      /\ Registered(s) =>
           /\ b <= since[s].accepted /\ since[s].accepted <= Len(accepted[t])
           /\ b + n <= begun[t]
           /\ \A j \in 1..n : delivered[s][j] = accepted[t][b + j]
           /\ Due(s) => b + n + 1 = begun[t]
           /\ sub[s] = "subscribed" /\ ~Due(s) => b + n = begun[t]
      /\ sub[s] = "subscribed" => \E i \in DOMAIN subs[t] : subs[t][i] = s

Delivery ==
  /\ \A t \in Topics : QueueOf(t) /\ ListOf(t)
  /\ \A s \in Subscribers : SeenOf(s)

DInv == IInv /\ Delivery

(* What Append, Tail and SubSeq do, element by element *)
LEMMA AppendIs ==
  ASSUME NEW S, NEW q \in Seq(S), NEW e \in S, NEW r, r = Append(q, e)
  PROVE  /\ r \in Seq(S) /\ Len(q) \in Nat /\ Len(r) = Len(q) + 1
         /\ DOMAIN q = 1..Len(q) /\ DOMAIN r = DOMAIN q \cup {Len(q) + 1}
         /\ \A i \in 1..Len(q) : r[i] = q[i]
         /\ r[Len(q) + 1] = e
  OBVIOUS

LEMMA TailIs ==
  ASSUME NEW S, NEW q \in Seq(S), q # <<>>, NEW r, r = Tail(q)
  PROVE  /\ Len(q) \in Nat \ {0} /\ r \in Seq(S) /\ Len(r) = Len(q) - 1
         /\ DOMAIN q = 1..Len(q) /\ DOMAIN r = 1..(Len(q) - 1)
         /\ \A i \in 1..(Len(q) - 1) : r[i] = q[i + 1]
         /\ Head(q) = q[1] /\ q[1] \in S
  OBVIOUS

LEMMA SubSeqIs ==
  ASSUME NEW S, NEW q \in Seq(S), NEW m \in Nat, NEW n \in Nat, m + n <= Len(q),
         NEW r, r = SubSeq(q, m + 1, m + n)
  PROVE  /\ r \in Seq(S) /\ Len(r) = n
         /\ \A i \in 1..n : r[i] = q[m + i]
<1>1. \A i \in (m + 1)..(m + n) : q[i] \in S
  OBVIOUS
<1>2. /\ r \in Seq(S)
      /\ Len(r) = IF m + 1 <= m + n THEN (m + n) - (m + 1) + 1 ELSE 0
      /\ \A i \in 1..((m + n) - (m + 1) + 1) : r[i] = q[(m + 1) + i - 1]
  BY SMTT(30), <1>1, SubSeqProperties
<1>3. (m + n) - (m + 1) + 1 = n /\ \A i \in 1..n : (m + 1) + i - 1 = m + i
  OBVIOUS
<1> QED BY <1>2, <1>3

(* A step that leaves a topic's queue and worker alone keeps QueueOf *)
LEMMA QueueStays ==
  ASSUME NEW t \in Topics, QueueOf(t),
         worker'[t] = worker[t], queue'[t] = queue[t], cur'[t] = cur[t],
         begun'[t] = begun[t], accepted'[t] = accepted[t],
         chClosed \subseteq chClosed'
  PROVE  QueueOf(t)'
  BY DEF QueueOf, Taken

(* A step that leaves a topic's lists and registered handlers alone keeps *)
(* ListOf, also when the topic's worker is spawned or goes on             *)
LEMMA ListStays ==
  ASSUME NEW t \in Topics, TypeOK, ListOf(t),
         subs'[t] = subs[t], snap'[t] = snap[t],
         worker[t] # "dispatch" => worker'[t] # "dispatch",
         worker'[t] # "dispatch" => snap[t] = <<>>,
         \A s \in Subscribers :
           Registered(s) => sub'[s] = sub[s] /\ stopic'[s] = stopic[s]
  PROVE  ListOf(t)'
<1>1. /\ \A i \in DOMAIN subs[t] : subs[t][i] \in Subscribers
      /\ \A i \in DOMAIN snap[t] : snap[t][i] \in Subscribers
  BY DEF TypeOK, ListTypes
<1> QED BY <1>1 DEF ListOf, Registered

(* A handler's record stays true when its topic accepts more events *)
LEMMA SeenStays ==
  ASSUME NEW s \in Subscribers, TypeOK, SeenOf(s), QueueOf(stopic[s]),
         sub'[s] = sub[s], stopic'[s] = stopic[s], since'[s] = since[s],
         delivered'[s] = delivered[s],
         begun'[stopic[s]] = begun[stopic[s]],
         snap'[stopic[s]] = snap[stopic[s]],
         subs'[stopic[s]] = subs[stopic[s]],
         Len(accepted'[stopic[s]]) \in Nat,
         Len(accepted[stopic[s]]) <= Len(accepted'[stopic[s]]),
         \A i \in 1..Len(accepted[stopic[s]]) :
           accepted'[stopic[s]][i] = accepted[stopic[s]][i]
  PROVE  SeenOf(s)'
<1> DEFINE t == stopic[s]
<1> DEFINE b == since[s].begun
<1> DEFINE n == Len(delivered[s])
<1>1. /\ t \in Topics /\ b \in Nat /\ since[s].accepted \in Nat
      /\ n \in Nat /\ begun[t] \in Nat /\ Len(accepted[t]) \in Nat
      /\ Len(queue[t]) \in Nat
  BY DEF TypeOK, ControlTypes, ListTypes, EventTypes
<1>2. begun[t] <= Len(accepted[t])
  BY <1>1 DEF QueueOf, Taken
<1>3. Due(s)' <=> Due(s)
  BY DEF Due
<1>4. Registered(s)' <=> Registered(s)
  BY DEF Registered
<1>5. ASSUME Registered(s) PROVE
        /\ b <= since[s].accepted /\ since[s].accepted <= Len(accepted'[t])
        /\ \A j \in 1..n : delivered[s][j] = accepted'[t][b + j]
  <2>1. /\ b <= since[s].accepted /\ since[s].accepted <= Len(accepted[t])
        /\ b + n <= begun[t]
        /\ \A j \in 1..n : delivered[s][j] = accepted[t][b + j]
    BY <1>5 DEF SeenOf
  <2> HIDE DEF t, b, n
  <2>2. \A j \in 1..n : b + j \in 1..Len(accepted[t])
    BY <1>1, <1>2, <2>1
  <2>3. /\ Len(accepted[t]) <= Len(accepted'[t]) /\ Len(accepted'[t]) \in Nat
        /\ \A i \in 1..Len(accepted[t]) : accepted'[t][i] = accepted[t][i]
    BY DEF t
  <2>4. since[s].accepted <= Len(accepted'[t])
    BY <1>1, <2>1, <2>3
  <2>5. \A j \in 1..n : accepted[t][b + j] = accepted'[t][b + j]
    BY <2>2, <2>3
  <2> QED BY <2>1, <2>4, <2>5
<1> QED BY <1>3, <1>4, <1>5 DEF SeenOf

(* A step that touches no queue, list or handler keeps Delivery *)
LEMMA DeliveryStays ==
  ASSUME DInv, chClosed \subseteq chClosed',
         UNCHANGED <<queue, worker, cur, begun, accepted, subs, snap, sub,
                     stopic, since, delivered>>
  PROVE  Delivery'
<1> USE DEF DInv, IInv, Delivery
<1>1. ASSUME NEW t \in Topics PROVE QueueOf(t)'
  BY QueueStays
<1>2. ASSUME NEW t \in Topics PROVE ListOf(t)'
  BY ListStays DEF ListOf
<1>3. ASSUME NEW s \in Subscribers PROVE SeenOf(s)'
  <2>1. stopic[s] \in Topics
    BY DEF TypeOK, ControlTypes
  <2>2. Len(accepted[stopic[s]]) \in Nat
    BY <2>1 DEF TypeOK, EventTypes
  <2> QED BY <2>1, <2>2, SeenStays
<1> QED BY <1>1, <1>2, <1>3

(* An accepted event goes to the end of both sequences; the topic's worker *)
(* is there, for its channel is not closed                                 *)
LEMMA SendDelivery ==
  ASSUME DInv, NEW p \in Publishers, pub[p] \in {"send", "blocked"},
         ptopic[p] \notin chClosed, pcount[p] >= 1,
         queue' = [queue EXCEPT ![ptopic[p]] = Append(@, Event(p))],
         accepted' = [accepted EXCEPT ![ptopic[p]] = Append(@, Event(p))],
         UNCHANGED <<worker, cur, begun, subs, snap, sub, stopic, since,
                     delivered, chClosed>>
  PROVE  Delivery'
<1> USE DEF DInv, IInv, Delivery
<1> DEFINE t == ptopic[p]
<1> DEFINE e == Event(p)
<1>1. t \in Topics /\ e \in Events
  BY DEF TypeOK, ControlTypes, Event, Events
<1>2. worker[t] # "none" /\ worker[t] # "exited"
  BY <1>1 DEF BarrierInv, WorkerInv, QueueOf
<1>3. /\ accepted[t] \in Seq(Events) /\ queue[t] \in Seq(Events)
      /\ begun[t] \in Nat /\ begun \in [Topics -> Nat]
      /\ queue \in [Topics -> Seq(Events)]
      /\ accepted \in [Topics -> Seq(Events)]
  BY <1>1 DEF TypeOK, ListTypes, EventTypes
<1>4. accepted'[t] = Append(accepted[t], e) /\ queue'[t] = Append(queue[t], e)
  BY <1>1, <1>3
<1> HIDE DEF t, e
<1>5. ASSUME NEW u \in Topics PROVE QueueOf(u)'
  <2>1. CASE u # t
    BY <2>1, <1>3, QueueStays DEF t
  <2>2. CASE u = t
    <3> DEFINE a == Len(accepted[u])
    <3> DEFINE q == Len(queue[u])
    <3> DEFINE d == begun[u]
    <3>1. /\ a \in Nat /\ q \in Nat /\ d \in Nat
          /\ Len(accepted'[u]) = a + 1 /\ Len(queue'[u]) = q + 1
          /\ \A i \in 1..a : accepted'[u][i] = accepted[u][i]
          /\ accepted'[u][a + 1] = e
          /\ \A i \in 1..q : queue'[u][i] = queue[u][i]
          /\ queue'[u][q + 1] = e
      BY <1>1, <1>3, <1>4, <2>2, AppendIs
    <3> DEFINE k == Taken(u)
    <3>2. Taken(u)' = k /\ k \in Nat
      BY DEF Taken
    <3>3. /\ a = d + k + q
          /\ \A i \in 1..q : queue[u][i] = accepted[u][d + k + i]
          /\ worker[u] = "snapshot" => cur[u] = accepted[u][d + 1]
          /\ worker[u] = "dispatch" => d >= 1 /\ cur[u] = accepted[u][d]
      BY DEF QueueOf
    <3>4. worker[u] = "snapshot" => k = 1
      BY DEF Taken
    <3> HIDE DEF a, q, d, k
    <3>9. a \in Nat /\ q \in Nat /\ d \in Nat /\ k \in Nat /\ a = d + k + q
      BY <3>1, <3>2, <3>3
    <3>5. a + 1 = d + k + (q + 1)
      BY <3>9
    <3>6. ASSUME NEW i \in 1..(q + 1)
          PROVE  queue'[u][i] = accepted'[u][d + k + i]
      <4>1. CASE i = q + 1
        <5>1. d + k + i = a + 1
          BY <3>1, <3>2, <3>3, <4>1
        <5> QED BY <3>1, <4>1, <5>1
      <4>2. CASE i # q + 1
        <5>1. i \in 1..q
          BY <3>9, <4>2
        <5>2. d + k + i \in 1..a
          BY <3>9, <5>1
        <5> QED BY <3>1, <3>3, <5>1, <5>2
      <4> QED BY <4>1, <4>2
    <3>7. worker[u] = "snapshot" => cur[u] = accepted'[u][d + 1]
      <4>1. worker[u] = "snapshot" => d + 1 \in 1..a
        BY SMTT(30), <3>1, <3>3, <3>4
      <4> QED BY <3>1, <3>3, <4>1
    <3>8. worker[u] = "dispatch" => d >= 1 /\ cur[u] = accepted'[u][d]
      <4>1. worker[u] = "dispatch" => d \in 1..a
        BY <3>1, <3>2, <3>3
      <4> QED BY <3>1, <3>3, <4>1
    <3>10. Len(accepted'[u]) = begun'[u] + Taken(u)' + Len(queue'[u])
      BY <3>1, <3>2, <3>5 DEF d
    <3>11. \A i \in 1..Len(queue'[u]) :
             queue'[u][i] = accepted'[u][begun'[u] + Taken(u)' + i]
      BY <3>1, <3>2, <3>6 DEF d
    <3>12. /\ worker'[u] = "snapshot" => cur'[u] = accepted'[u][begun'[u] + 1]
           /\ worker'[u] = "dispatch" =>
                begun'[u] >= 1 /\ cur'[u] = accepted'[u][begun'[u]]
           /\ worker'[u] # "none" /\ worker'[u] # "exited"
      BY <1>2, <2>2, <3>7, <3>8 DEF d
    <3> QED BY <3>10, <3>11, <3>12 DEF QueueOf
  <2> QED BY <2>1, <2>2
<1>6. ASSUME NEW u \in Topics PROVE ListOf(u)'
  BY ListStays DEF ListOf
<1>7. ASSUME NEW s \in Subscribers PROVE SeenOf(s)'
  <2>1. stopic[s] \in Topics
    BY DEF TypeOK, ControlTypes
  <2>2. /\ Len(accepted'[stopic[s]]) \in Nat
        /\ Len(accepted[stopic[s]]) <= Len(accepted'[stopic[s]])
        /\ \A i \in 1..Len(accepted[stopic[s]]) :
             accepted'[stopic[s]][i] = accepted[stopic[s]][i]
    <3>1. CASE stopic[s] = t
      BY <1>3, <1>4, <3>1
    <3>2. CASE stopic[s] # t
      <4>1. accepted'[stopic[s]] = accepted[stopic[s]]
        BY <1>3, <2>1, <3>2 DEF t
      <4>2. Len(accepted[stopic[s]]) \in Nat
        BY <1>3, <2>1
      <4> QED BY <4>1, <4>2
    <3> QED BY <3>1, <3>2
  <2> QED BY <2>1, <2>2, SeenStays
<1> QED BY <1>5, <1>6, <1>7

(* What SendsAreSafe says, of one state *)
LEMMA SendsAreSafeNow ==
  ASSUME IInv, NEW p \in Publishers, pub[p] \in {"send", "blocked"}
  PROVE  ptopic[p] \notin chClosed /\ pcount[p] >= 1
  BY DEF IInv, BarrierInv, CurInv

(* A topic's worker is spawned with nothing to do *)
LEMMA InstallDelivery ==
  ASSUME DInv, NEW t \in Topics, install(t),
         UNCHANGED <<queue, cur, begun, accepted, subs, snap, stopic, since,
                     delivered, chClosed>>,
         \A s \in Subscribers :
           \/ sub'[s] = sub[s]
           \/ ~Registered(s) /\ ~Registered(s)' /\ sub'[s] # "subscribed"
  PROVE  Delivery'
<1> USE DEF DInv, IInv, Delivery
<1>1. \A u \in Topics :
        worker'[u] = worker[u] \/ (worker[u] = "none" /\ worker'[u] = "recv")
  BY DEF install, WorkerInv, TypeOK, ControlTypes
<1>2. ASSUME NEW u \in Topics PROVE QueueOf(u)'
  <2>1. CASE worker'[u] = worker[u]
    BY <2>1, QueueStays
  <2>2. CASE worker[u] = "none" /\ worker'[u] = "recv"
    BY <2>2 DEF QueueOf, Taken
  <2> QED BY <1>1, <2>1, <2>2
<1>3. ASSUME NEW u \in Topics PROVE ListOf(u)'
  <2>1. \A s \in Subscribers :
          Registered(s) => sub'[s] = sub[s] /\ stopic'[s] = stopic[s]
    OBVIOUS
  <2> QED BY <1>1, <2>1, ListStays DEF ListOf
<1>4. ASSUME NEW s \in Subscribers PROVE SeenOf(s)'
  <2>1. stopic[s] \in Topics /\ Len(accepted[stopic[s]]) \in Nat
    BY DEF TypeOK, ControlTypes, EventTypes
  <2>2. CASE sub'[s] = sub[s]
    BY <2>1, <2>2, SeenStays
  <2>3. CASE ~Registered(s) /\ ~Registered(s)' /\ sub'[s] # "subscribed"
    BY <2>3 DEF SeenOf
  <2> QED BY <2>2, <2>3
<1> QED BY <1>2, <1>3, <1>4

(* Delivery is preserved by every step of Publish *)
LEMMA PublishDelivery ==
  ASSUME DInv, NEW p \in Publishers,
         PublishCall(p) \/ PublishCancelled(p) \/ PublisherStep(p)
  PROVE  Delivery'
<1> USE DEF busVars, closeVars, pubVars, subVars, workVars
<1>1. CASE PublishCall(p)
  BY <1>1, DeliveryStays DEF PublishCall
<1>2. CASE PublishCancelled(p)
  BY <1>2, DeliveryStays DEF PublishCancelled
<1>3. CASE PublishRegister(p)
  BY <1>3, DeliveryStays DEF PublishRegister
<1>4. CASE getOrCreateTopic(p)
  <2>1. ptopic[p] \in Topics
    BY DEF DInv, IInv, TypeOK, ControlTypes
  <2>2. CASE install(ptopic[p])
    BY <1>4, <2>1, <2>2, InstallDelivery DEF getOrCreateTopic
  <2>3. CASE ~install(ptopic[p])
    BY <1>4, <2>3, DeliveryStays DEF getOrCreateTopic
  <2> QED BY <2>2, <2>3
<1>5. ASSUME pub[p] \in {"send", "blocked"}, Send(p, ptopic[p]),
             UNCHANGED <<worker, cur, begun, subs, snap, sub, stopic, since,
                         delivered, chClosed>>
      PROVE  Delivery'
  <2>1. pcount[p] >= 1 /\ ptopic[p] \notin chClosed
    BY <1>5, SendsAreSafeNow DEF DInv, IInv, CurInv
  <2> QED BY <1>5, <2>1, SendDelivery DEF Send
<1>6. CASE PublishFast(p)
  <2>1. CASE Send(p, ptopic[p])
    BY <1>5, <1>6, <2>1 DEF PublishFast
  <2>2. CASE ~Send(p, ptopic[p])
    BY <1>6, <2>2, DeliveryStays DEF PublishFast
  <2> QED BY <2>1, <2>2
<1>7. CASE PublishSlow(p)
  BY <1>5, <1>7 DEF PublishSlow
<1>8. CASE PublishDone(p)
  BY <1>8, DeliveryStays DEF PublishDone
<1> QED BY <1>1, <1>2, <1>3, <1>4, <1>6, <1>7, <1>8 DEF PublisherStep

(* Delivery is preserved by Close *)
LEMMA CloseDelivery ==
  ASSUME DInv, NEW c \in Closers, CloseCall(c) \/ CloserStep(c)
  PROVE  Delivery'
<1> USE DEF busVars, closeVars, pubVars, subVars, workVars
<1>1. /\ chClosed \subseteq chClosed'
      /\ UNCHANGED <<queue, worker, cur, begun, accepted, subs, snap, sub,
                     stopic, since, delivered>>
  BY DEF CloserStep, CloseCall, CloseWait, CloseMark, CloseWake, CloseDrain,
         CloseChannel, CloseJoin
<1> QED BY <1>1, DeliveryStays

(* A handler joins the end of its topic's list: it is owed what is         *)
(* dispatched from now on                                                  *)
LEMMA AppendDelivery ==
  ASSUME DInv, NEW s \in Subscribers, SubscribeAppend(s)
  PROVE  Delivery'
<1> USE DEF DInv, IInv, Delivery
<1> USE DEF busVars, closeVars, pubVars, subVars, workVars
<1> DEFINE t == stopic[s]
<1>0. /\ t \in Topics /\ subs[t] \in Seq(Subscribers)
      /\ subs \in [Topics -> Seq(Subscribers)] /\ sub[s] = "locked"
      /\ \A u \in Topics : subs[u] \in Seq(Subscribers) /\ snap[u] \in Seq(Subscribers)
      /\ \A u \in Topics : begun[u] \in Nat /\ accepted[u] \in Seq(Events)
      /\ \A r \in Subscribers : stopic[r] \in Topics /\ delivered[r] \in Seq(Events)
      /\ since \in [Subscribers -> [accepted : Nat, begun : Nat]]
  BY DEF TypeOK, ControlTypes, ListTypes, EventTypes, SubscribeAppend
<1>1. /\ sub' = [sub EXCEPT ![s] = "subscribed"]
      /\ subs' = [subs EXCEPT ![t] = Append(@, s)]
      /\ since' = [since EXCEPT ![s] = [accepted |-> Len(accepted[t]),
                                        begun |-> begun[t]]]
      /\ UNCHANGED <<queue, worker, cur, begun, accepted, snap, stopic,
                     delivered, chClosed>>
  BY DEF SubscribeAppend
<1>2. sub'[s] = "subscribed" /\ \A r \in Subscribers : r # s => sub'[r] = sub[r]
  BY <1>1 DEF TypeOK, ControlTypes
<1>3. /\ subs'[t] = Append(subs[t], s)
      /\ \A u \in Topics : u # t => subs'[u] = subs[u]
  BY <1>0, <1>1
<1>4. ~Registered(s)
  BY <1>0 DEF Registered
<1>5. ASSUME NEW u \in Topics
      PROVE  /\ \A i \in DOMAIN subs[u] : subs[u][i] # s /\ subs[u][i] \in Subscribers
             /\ \A i \in DOMAIN snap[u] : snap[u][i] # s /\ snap[u][i] \in Subscribers
  <2>1. ListOf(u) /\ subs[u] \in Seq(Subscribers) /\ snap[u] \in Seq(Subscribers)
    BY <1>0
  <2>2. /\ \A i \in DOMAIN subs[u] : subs[u][i] \in Subscribers
        /\ \A i \in DOMAIN snap[u] : snap[u][i] \in Subscribers
    BY <2>1
  <2>3. /\ \A i \in DOMAIN subs[u] : sub[subs[u][i]] = "subscribed"
        /\ \A i \in DOMAIN snap[u] : Registered(snap[u][i])
    BY <2>1 DEF ListOf
  <2> QED BY <1>0, <1>4, <2>2, <2>3
<1> HIDE DEF t
<1>6. ASSUME NEW u \in Topics PROVE QueueOf(u)'
  BY <1>1, QueueStays
<1>7. ASSUME NEW u \in Topics PROVE ListOf(u)'
  <2>1. /\ worker'[u] = worker[u] /\ snap'[u] = snap[u]
        /\ \A i \in DOMAIN snap[u] :
             stopic'[snap[u][i]] = u /\ Registered(snap[u][i])'
    BY <1>1, <1>2, <1>5 DEF ListOf, Registered
  <2>2. CASE u # t
    BY <1>1, <1>2, <1>3, <1>5, <2>1, <2>2 DEF ListOf
  <2>3. CASE u = t
    <3>0. ListOf(t) /\ subs[t] \in Seq(Subscribers) /\ stopic[s] = t /\ t \in Topics
      BY <1>0 DEF t
    <3>1. /\ DOMAIN subs'[t] = DOMAIN subs[t] \cup {Len(subs[t]) + 1}
          /\ \A i \in DOMAIN subs[t] : subs'[t][i] = subs[t][i]
          /\ subs'[t][Len(subs[t]) + 1] = s
      BY <1>3, <3>0, AppendIs
    <3>2. ASSUME NEW i \in DOMAIN subs'[t]
          PROVE  stopic'[subs'[t][i]] = t /\ sub'[subs'[t][i]] = "subscribed"
      <4>1. CASE i \in DOMAIN subs[t]
        <5>1. /\ subs[t][i] # s /\ subs[t][i] \in Subscribers
              /\ stopic[subs[t][i]] = t /\ sub[subs[t][i]] = "subscribed"
          BY <1>5, <3>0, <4>1 DEF ListOf
        <5> QED BY <1>1, <1>2, <3>1, <4>1, <5>1
      <4>2. CASE i = Len(subs[t]) + 1
        BY <1>1, <1>2, <3>0, <3>1, <4>2
      <4> QED BY <3>1, <4>1, <4>2
    <3>3. ASSUME NEW i \in DOMAIN subs'[t], NEW j \in DOMAIN subs'[t],
                 subs'[t][i] = subs'[t][j]
          PROVE  i = j
      <4>1. /\ i \in DOMAIN subs[t] => subs'[t][i] # s
            /\ j \in DOMAIN subs[t] => subs'[t][j] # s
        BY <1>5, <3>0, <3>1
      <4>2. \/ i \in DOMAIN subs[t] /\ j \in DOMAIN subs[t]
            \/ i = Len(subs[t]) + 1 /\ j = Len(subs[t]) + 1
        BY <3>1, <3>3, <4>1
      <4> QED BY <3>0, <3>1, <3>3, <4>2 DEF ListOf
    <3> QED BY <2>1, <2>3, <3>2, <3>3 DEF ListOf
  <2> QED BY <2>2, <2>3
<1>8. ASSUME NEW r \in Subscribers PROVE SeenOf(r)'
  <2>1. CASE r # s
    <3>1. /\ sub'[r] = sub[r] /\ since'[r] = since[r]
      BY <1>0, <1>1, <1>2, <2>1
    <3>2. (Due(r)' <=> Due(r)) /\ (Registered(r)' <=> Registered(r))
      BY <1>1, <3>1 DEF Due, Registered
    <3>3. (\E i \in DOMAIN subs[stopic[r]] : subs[stopic[r]][i] = r) =>
          (\E i \in DOMAIN subs'[stopic[r]] : subs'[stopic[r]][i] = r)
      <4>1. CASE stopic[r] = t
        <5>1. /\ \A i \in DOMAIN subs[t] : i \in DOMAIN subs'[t]
              /\ \A i \in DOMAIN subs[t] : subs'[t][i] = subs[t][i]
          <6>1. subs[t] \in Seq(Subscribers)
            BY <1>0 DEF t
          <6> QED BY <1>3, <6>1, AppendIs
        <5> QED BY <4>1, <5>1
      <4>2. CASE stopic[r] # t
        BY <1>0, <1>3, <4>2
      <4> QED BY <4>1, <4>2
    <3> QED BY <1>1, <3>1, <3>2, <3>3 DEF SeenOf
  <2>2. CASE r = s
    <3>1. /\ since'[s].accepted = Len(accepted[t]) /\ since'[s].begun = begun[t]
          /\ stopic'[s] = t /\ delivered'[s] = delivered[s]
          /\ Len(delivered[s]) = 0
      BY <1>0, <1>1, <1>4 DEF t, SeenOf
    <3>2. begun[t] <= Len(accepted[t]) /\ Len(accepted[t]) \in Nat
      <4>1. Len(queue[t]) \in Nat /\ begun[t] \in Nat /\ Len(accepted[t]) \in Nat /\ t \in Topics
        BY SMTT(30) DEF t, TypeOK, ControlTypes, ListTypes, EventTypes
      <4> QED BY <4>1 DEF QueueOf, Taken
    <3>3. ~Due(s)'
      BY <1>0, <1>1, <1>5, <3>1 DEF Due, t
    <3>4. \E i \in DOMAIN subs'[t] : subs'[t][i] = s
      <4>1. subs[t] \in Seq(Subscribers)
        BY <1>0 DEF t
      <4>2. /\ Len(subs[t]) + 1 \in DOMAIN subs'[t]
            /\ subs'[t][Len(subs[t]) + 1] = s
        BY <1>3, <4>1, AppendIs
      <4> QED BY <4>2
    <3>5. Registered(s)' /\ sub'[s] = "subscribed"
      BY <1>2 DEF Registered
    <3> HIDE DEF t
    <3>6. begun[t] \in Nat
      BY <1>0 DEF t
    <3> QED BY <1>1, <2>2, <3>1, <3>2, <3>3, <3>4, <3>5, <3>6 DEF SeenOf
  <2> QED BY <2>1, <2>2
<1> QED BY <1>6, <1>7, <1>8

(* A list without its k-th entry *)
Without(q, k) == SubSeq(q, 1, k - 1) \o SubSeq(q, k + 1, Len(q))

(* Taking one entry out of a list keeps the others, each once *)
LEMMA RemoveAtKeeps ==
  ASSUME NEW S, NEW q \in Seq(S), NEW k \in DOMAIN q,
         \A i, j \in DOMAIN q : q[i] = q[j] => i = j,
         NEW r, r = Without(q, k)
  PROVE  /\ \A i, j \in DOMAIN r : r[i] = r[j] => i = j
         /\ \A i \in DOMAIN r : \E j \in DOMAIN q : j # k /\ r[i] = q[j]
         /\ \A j \in DOMAIN q : j # k => \E i \in DOMAIN r : r[i] = q[j]
<1> DEFINE L == Len(q)
<1> DEFINE x == SubSeq(q, 1, k - 1)
<1> DEFINE y == SubSeq(q, k + 1, L)
<1>1. L \in Nat /\ k \in 1..L /\ k \in Nat /\ DOMAIN q = 1..L
  OBVIOUS
<1>2. /\ \A i \in 1..(k - 1) : q[i] \in S
      /\ \A i \in (k + 1)..L : q[i] \in S
  OBVIOUS
<1>3. r = x \o y
  BY DEF Without
<1>4. /\ x \in Seq(S) /\ Len(x) = k - 1
      /\ \A i \in 1..(k - 1) : x[i] = q[i]
  <2>1. 1 \in Int /\ k - 1 \in Int
    BY <1>1
  <2> HIDE DEF L
  <2>2. /\ x \in Seq(S) /\ Len(x) = IF 1 <= k - 1 THEN (k - 1) - 1 + 1 ELSE 0
        /\ \A i \in 1..((k - 1) - 1 + 1) : x[i] = q[1 + i - 1]
    BY <1>2, <2>1, SubSeqProperties
  <2> HIDE DEF x
  <2>3. (IF 1 <= k - 1 THEN (k - 1) - 1 + 1 ELSE 0) = k - 1 /\ (k - 1) - 1 + 1 = k - 1
    BY <1>1
  <2>4. \A i \in 1..(k - 1) : 1 + i - 1 = i
    BY <1>1
  <2> QED BY <2>2, <2>3, <2>4
<1>5. /\ y \in Seq(S) /\ Len(y) = L - k
      /\ \A i \in 1..(L - k) : y[i] = q[k + i]
  <2>1. k + 1 \in Int /\ L \in Int
    BY <1>1
  <2> HIDE DEF L
  <2>2. /\ y \in Seq(S) /\ Len(y) = IF k + 1 <= L THEN L - (k + 1) + 1 ELSE 0
        /\ \A i \in 1..(L - (k + 1) + 1) : y[i] = q[(k + 1) + i - 1]
    BY <1>2, <2>1, SubSeqProperties
  <2> HIDE DEF y
  <2>3. (IF k + 1 <= L THEN L - (k + 1) + 1 ELSE 0) = L - k /\ L - (k + 1) + 1 = L - k
    BY <1>1
  <2>4. \A i \in 1..(L - k) : (k + 1) + i - 1 = k + i
    BY <1>1
  <2> QED BY <2>2, <2>3, <2>4
<1> HIDE DEF L, x, y
<1>6. /\ Len(r) = L - 1 /\ r \in Seq(S)
      /\ \A i \in 1..(L - 1) : r[i] = IF i <= k - 1 THEN x[i] ELSE y[i - (k - 1)]
  <2>1. /\ r \in Seq(S) /\ Len(r) = Len(x) + Len(y)
        /\ \A i \in 1..(Len(x) + Len(y)) :
             r[i] = IF i <= Len(x) THEN x[i] ELSE y[i - Len(x)]
    <3>1. x \in Seq(S) /\ y \in Seq(S)
      BY <1>4, <1>5
    <3>2. /\ x \o y \in Seq(S) /\ Len(x \o y) = Len(x) + Len(y)
          /\ \A i \in 1..(Len(x) + Len(y)) :
               (x \o y)[i] = IF i <= Len(x) THEN x[i] ELSE y[i - Len(x)]
      BY <3>1, ConcatProperties, ZenonT(30)
    <3> QED BY <1>3, <3>2, Zenon
  <2>2. Len(x) + Len(y) = L - 1
    BY <1>1, <1>4, <1>5
  <2> QED BY <1>4, <2>1, <2>2
<1>7. DOMAIN r = 1..(L - 1)
  BY <1>6
<1>8. ASSUME NEW i \in 1..(k - 1)
      PROVE  i \in DOMAIN r /\ i \in DOMAIN q /\ i # k /\ r[i] = q[i]
  <2>1. i \in 1..(L - 1) /\ i \in 1..L /\ i # k /\ i <= k - 1
    BY <1>1
  <2> QED BY <1>1, <1>4, <1>6, <1>7, <2>1
<1>9. ASSUME NEW i \in k..(L - 1)
      PROVE  /\ i \in DOMAIN r /\ i + 1 \in DOMAIN q /\ i + 1 # k
             /\ r[i] = q[i + 1]
  <2>1. /\ i \in 1..(L - 1) /\ i + 1 \in 1..L /\ i + 1 # k /\ ~(i <= k - 1)
        /\ i - (k - 1) \in 1..(L - k) /\ k + (i - (k - 1)) = i + 1
    BY <1>1
  <2>2. r[i] = y[i - (k - 1)]
    BY <1>6, <2>1
  <2>3. y[i - (k - 1)] = q[k + (i - (k - 1))]
    BY <1>5, <2>1
  <2> QED BY <1>1, <1>7, <2>1, <2>2, <2>3
<1>10. ASSUME NEW i \in DOMAIN r
       PROVE  i \in Nat /\ (i \in 1..(k - 1) \/ i \in k..(L - 1))
  <2>1. i \in 1..(L - 1)
    BY <1>7
  <2> QED BY <1>1, <2>1
<1>11. ASSUME NEW i \in DOMAIN r, NEW j \in DOMAIN r, r[i] = r[j] PROVE i = j
  <2>1. CASE i \in 1..(k - 1) /\ j \in 1..(k - 1)
    BY <1>8, <1>11, <2>1
  <2>2. CASE i \in 1..(k - 1) /\ j \in k..(L - 1)
    <3>1. i = j + 1
      BY <1>8, <1>9, <1>11, <2>2
    <3> QED BY <1>1, <2>2, <3>1
  <2>3. CASE i \in k..(L - 1) /\ j \in 1..(k - 1)
    <3>1. i + 1 = j
      BY <1>8, <1>9, <1>11, <2>3
    <3> QED BY <1>1, <2>3, <3>1
  <2>4. CASE i \in k..(L - 1) /\ j \in k..(L - 1)
    <3>1. i + 1 = j + 1
      BY <1>9, <1>11, <2>4
    <3> QED BY <1>10, <3>1
  <2> QED BY <1>10, <2>1, <2>2, <2>3, <2>4
<1>12. ASSUME NEW i \in DOMAIN r PROVE \E j \in DOMAIN q : j # k /\ r[i] = q[j]
  BY <1>8, <1>9, <1>10
<1>13. ASSUME NEW j \in DOMAIN q, j # k PROVE \E i \in DOMAIN r : r[i] = q[j]
  <2>1. CASE j < k
    <3>1. j \in 1..(k - 1)
      BY <1>1, <2>1
    <3> QED BY <1>8, <3>1
  <2>2. CASE j > k
    <3>1. j - 1 \in k..(L - 1) /\ (j - 1) + 1 = j
      BY <1>1, <2>2
    <3> QED BY <1>9, <3>1
  <2>3. j < k \/ j > k
    BY <1>1, <1>13
  <2> QED BY <2>1, <2>2, <2>3
<1> QED BY <1>11, <1>12, <1>13

(* A handler that leaves keeps what it saw, and may be called once more if *)
(* its turn in the dispatch in progress has not come                       *)
LEMMA UnsubscribeDelivery ==
  ASSUME DInv, NEW s \in Subscribers, Unsubscribe(s)
  PROVE  Delivery'
<1> USE DEF DInv, IInv, Delivery
<1> USE DEF busVars, closeVars, pubVars, subVars, workVars
<1> DEFINE t == stopic[s]
<1>0. /\ t \in Topics /\ sub[s] = "subscribed"
      /\ subs \in [Topics -> Seq(Subscribers)]
      /\ \A u \in Topics : subs[u] \in Seq(Subscribers) /\ snap[u] \in Seq(Subscribers)
      /\ \A r \in Subscribers : stopic[r] \in Topics
  BY DEF TypeOK, ControlTypes, ListTypes, Unsubscribe
<1>1. /\ sub' = [sub EXCEPT ![s] = "unsubscribed"]
      /\ UNCHANGED <<queue, worker, cur, begun, accepted, snap, stopic,
                     delivered, since, chClosed>>
  BY DEF Unsubscribe
<1>2. sub'[s] = "unsubscribed" /\ \A r \in Subscribers : r # s => sub'[r] = sub[r]
  BY <1>1 DEF TypeOK, ControlTypes
<1>3. PICK k \in DOMAIN subs[t] :
        /\ subs[t][k] = s
        /\ subs' = [subs EXCEPT ![t] = SubSeq(subs[t], 1, k - 1)
                                        \o SubSeq(subs[t], k + 1, Len(subs[t]))]
  BY DEF Unsubscribe
<1>4. /\ \A u \in Topics : u # t => subs'[u] = subs[u]
      /\ subs'[t] = SubSeq(subs[t], 1, k - 1) \o SubSeq(subs[t], k + 1, Len(subs[t]))
  BY <1>0, <1>3
<1>5. \A i, j \in DOMAIN subs[t] : subs[t][i] = subs[t][j] => i = j
  BY <1>0 DEF ListOf
<1>6. /\ \A i, j \in DOMAIN subs'[t] : subs'[t][i] = subs'[t][j] => i = j
      /\ \A i \in DOMAIN subs'[t] : \E j \in DOMAIN subs[t] :
           j # k /\ subs'[t][i] = subs[t][j]
      /\ \A j \in DOMAIN subs[t] : j # k =>
           \E i \in DOMAIN subs'[t] : subs'[t][i] = subs[t][j]
  <2> DEFINE q == subs[t]
  <2> DEFINE r == subs'[t]
  <2>1. /\ q \in Seq(Subscribers) /\ k \in DOMAIN q
        /\ \A i, j \in DOMAIN q : q[i] = q[j] => i = j
        /\ r = Without(q, k)
    BY <1>0, <1>3, <1>4, <1>5 DEF Without
  <2> HIDE DEF q, r
  <2>2. /\ \A i, j \in DOMAIN r : r[i] = r[j] => i = j
        /\ \A i \in DOMAIN r : \E j \in DOMAIN q : j # k /\ r[i] = q[j]
        /\ \A j \in DOMAIN q : j # k => \E i \in DOMAIN r : r[i] = q[j]
    BY <2>1, RemoveAtKeeps
  <2> QED BY <2>2 DEF q, r
<1>7. \A u \in Topics : /\ \A i \in DOMAIN subs[u] : subs[u][i] \in Subscribers
                        /\ \A i \in DOMAIN snap[u] : snap[u][i] \in Subscribers
  BY <1>0
<1>8. \A r \in Subscribers : Registered(r)' <=> Registered(r)
  BY <1>0, <1>2 DEF Registered
<1> HIDE DEF t
<1>9. ASSUME NEW u \in Topics PROVE QueueOf(u)'
  BY <1>1, QueueStays
<1>10. ASSUME NEW u \in Topics PROVE ListOf(u)'
  <2>1. /\ worker'[u] = worker[u] /\ snap'[u] = snap[u]
        /\ \A i \in DOMAIN snap[u] :
             stopic'[snap[u][i]] = u /\ Registered(snap[u][i])'
    BY <1>1, <1>7, <1>8 DEF ListOf
  <2>2. CASE u # t
    <3>1. \A i \in DOMAIN subs[u] : subs[u][i] # s
      BY <2>2 DEF ListOf, t
    <3>2. /\ ListOf(u) /\ subs'[u] = subs[u]
          /\ \A i \in DOMAIN subs[u] : subs[u][i] \in Subscribers
      BY <1>4, <1>7, <2>2
    <3>3. \A i \in DOMAIN subs'[u] :
            stopic'[subs'[u][i]] = u /\ sub'[subs'[u][i]] = "subscribed"
      BY <1>1, <1>2, <3>1, <3>2 DEF ListOf
    <3>4. /\ \A i, j \in DOMAIN subs'[u] : subs'[u][i] = subs'[u][j] => i = j
          /\ \A i, j \in DOMAIN snap'[u] : snap'[u][i] = snap'[u][j] => i = j
          /\ worker'[u] # "dispatch" => snap'[u] = <<>>
      BY <2>1, <3>2 DEF ListOf
    <3> QED BY <2>1, <3>3, <3>4 DEF ListOf
  <2>3. CASE u = t
    <3>1. ASSUME NEW i \in DOMAIN subs'[t]
          PROVE  stopic'[subs'[t][i]] = t /\ sub'[subs'[t][i]] = "subscribed"
      <4>1. PICK j \in DOMAIN subs[t] : j # k /\ subs'[t][i] = subs[t][j]
        BY <1>6
      <4>2. subs[t][j] # s /\ subs[t][j] \in Subscribers
        BY <1>0, <1>3, <1>5, <1>7, <4>1
      <4> QED BY <1>0, <1>1, <1>2, <4>1, <4>2 DEF ListOf
    <3>2. worker'[t] # "dispatch" => snap'[t] = <<>>
      <4>1. ListOf(t) /\ snap'[t] = snap[t] /\ worker'[t] = worker[t]
        BY <2>1, <2>3
      <4> QED BY <4>1 DEF ListOf
    <3>3. \A i, j \in DOMAIN snap'[t] : snap'[t][i] = snap'[t][j] => i = j
      <4>1. ListOf(t) /\ snap'[t] = snap[t]
        BY <2>1, <2>3
      <4> QED BY <4>1 DEF ListOf
    <3> QED BY <1>6, <2>1, <2>3, <3>1, <3>2, <3>3 DEF ListOf
  <2> QED BY <2>2, <2>3
<1>11. ASSUME NEW r \in Subscribers PROVE SeenOf(r)'
  <2>1. (Due(r)' <=> Due(r)) /\ (Registered(r)' <=> Registered(r))
    BY <1>1, <1>8 DEF Due
  <2>2. sub'[r] = "subscribed" => sub[r] = "subscribed" /\ r # s
    BY <1>2
  <2>3. ASSUME sub'[r] = "subscribed"
        PROVE  \E i \in DOMAIN subs'[stopic[r]] : subs'[stopic[r]][i] = r
    <3>1. PICK j \in DOMAIN subs[stopic[r]] : subs[stopic[r]][j] = r
      BY <2>2, <2>3 DEF SeenOf
    <3>2. CASE stopic[r] = t
      <4>1. j # k
        BY <1>3, <2>2, <2>3, <3>1, <3>2
      <4> QED BY <1>6, <3>1, <3>2, <4>1
    <3>3. CASE stopic[r] # t
      BY <1>0, <1>4, <3>1, <3>3
    <3> QED BY <3>2, <3>3
  <2> QED BY <1>1, <2>1, <2>2, <2>3 DEF SeenOf
<1> QED BY <1>9, <1>10, <1>11

(* Delivery is preserved by Subscribe and unsubscribe *)
LEMMA SubscribeDelivery ==
  ASSUME DInv, NEW s \in Subscribers,
         SubscribeCall(s) \/ Unsubscribe(s) \/ SubscriberStep(s)
  PROVE  Delivery'
<1> USE DEF busVars, closeVars, pubVars, subVars, workVars
<1>1. CASE SubscribeCall(s)
  <2> USE DEF DInv, IInv, Delivery
  <2>1. /\ UNCHANGED <<queue, worker, cur, begun, accepted, subs, snap, since,
                       delivered, chClosed>>
        /\ ~Registered(s) /\ ~Registered(s)' /\ sub'[s] # "subscribed"
        /\ \A r \in Subscribers : r # s => sub'[r] = sub[r] /\ stopic'[r] = stopic[r]
    BY <1>1 DEF SubscribeCall, Registered, TypeOK, ControlTypes
  <2>2. ASSUME NEW u \in Topics PROVE QueueOf(u)'
    BY <2>1, QueueStays
  <2>3. ASSUME NEW u \in Topics PROVE ListOf(u)'
    <3>1. \A r \in Subscribers :
            Registered(r) => sub'[r] = sub[r] /\ stopic'[r] = stopic[r]
      BY <2>1
    <3> QED BY <2>1, <3>1, ListStays DEF ListOf
  <2>4. ASSUME NEW r \in Subscribers PROVE SeenOf(r)'
    <3>1. CASE r = s
      BY <2>1, <3>1 DEF SeenOf
    <3>2. CASE r # s
      <4>1. stopic[r] \in Topics /\ Len(accepted[stopic[r]]) \in Nat
        BY DEF TypeOK, ControlTypes, EventTypes
      <4> QED BY <2>1, <3>2, <4>1, SeenStays
    <3> QED BY <3>1, <3>2
  <2> QED BY <2>2, <2>3, <2>4
<1>2. CASE Unsubscribe(s)
  BY <1>2, UnsubscribeDelivery
<1>3. CASE SubscribeLock(s)
  <2>1. stopic[s] \in Topics
    BY DEF DInv, IInv, TypeOK, ControlTypes
  <2>2. \A r \in Subscribers :
          \/ sub'[r] = sub[r]
          \/ ~Registered(r) /\ ~Registered(r)' /\ sub'[r] # "subscribed"
    BY <1>3 DEF SubscribeLock, Registered, DInv, IInv, TypeOK, ControlTypes
  <2>3. CASE install(stopic[s])
    BY <1>3, <2>1, <2>2, <2>3, InstallDelivery DEF SubscribeLock
  <2>4. CASE ~install(stopic[s])
    <3>1. UNCHANGED <<queue, worker, cur, begun, accepted, subs, snap, since,
                       delivered, chClosed, stopic>>
      BY <1>3, <2>4 DEF SubscribeLock
    <3> USE DEF DInv, IInv, Delivery
    <3>2. ASSUME NEW u \in Topics PROVE QueueOf(u)'
      BY <3>1, QueueStays
    <3>3. ASSUME NEW u \in Topics PROVE ListOf(u)'
      <4>1. \A r \in Subscribers :
              Registered(r) => sub'[r] = sub[r] /\ stopic'[r] = stopic[r]
        BY <2>2, <3>1
      <4> QED BY <3>1, <4>1, ListStays DEF ListOf
    <3>4. ASSUME NEW r \in Subscribers PROVE SeenOf(r)'
      <4>1. stopic[r] \in Topics /\ Len(accepted[stopic[r]]) \in Nat
        BY DEF TypeOK, ControlTypes, EventTypes
      <4>2. CASE sub'[r] = sub[r]
        BY <3>1, <4>1, <4>2, SeenStays
      <4>3. CASE ~Registered(r) /\ ~Registered(r)' /\ sub'[r] # "subscribed"
        BY <3>1, <4>3 DEF SeenOf
      <4> QED BY <2>2, <4>2, <4>3
    <3> QED BY <3>2, <3>3, <3>4
  <2> QED BY <2>3, <2>4
<1>4. CASE SubscribeAppend(s)
  BY <1>4, AppendDelivery
<1> QED BY <1>1, <1>2, <1>3, <1>4 DEF SubscriberStep

(* The oldest event of the queue becomes the worker's *)
LEMMA RecvDelivery ==
  ASSUME DInv, NEW t \in Topics, WorkerRecv(t)
  PROVE  Delivery'
<1> USE DEF DInv, IInv, Delivery
<1> USE DEF busVars, closeVars, pubVars, subVars, workVars
<1>1. /\ worker[t] = "recv" /\ queue[t] # <<>>
      /\ worker \in [Topics -> {"none", "recv", "snapshot", "dispatch", "exited"}]
      /\ queue \in [Topics -> Seq(Events)] /\ begun[t] \in Nat
      /\ cur \in [Topics -> Events \cup {NoEvent}]
      /\ accepted[t] \in Seq(Events)
  BY DEF WorkerRecv, TypeOK, ControlTypes, ListTypes, EventTypes
<1>2. /\ cur' = [cur EXCEPT ![t] = Head(queue[t])]
      /\ queue' = [queue EXCEPT ![t] = Tail(@)]
      /\ worker' = [worker EXCEPT ![t] = "snapshot"]
      /\ UNCHANGED <<accepted, begun, snap, subs, sub, stopic, since, delivered,
                     chClosed>>
  BY DEF WorkerRecv
<1>3. ASSUME NEW u \in Topics PROVE QueueOf(u)'
  <2>1. CASE u # t
    BY <1>1, <1>2, <2>1, QueueStays
  <2>2. CASE u = t
    <3>1. /\ cur'[t] = queue[t][1] /\ worker'[t] = "snapshot"
          /\ queue'[t] = Tail(queue[t])
      BY <1>1, <1>2
    <3>2. /\ Len(queue[t]) \in Nat \ {0} /\ Len(queue'[t]) = Len(queue[t]) - 1
          /\ \A i \in 1..Len(queue'[t]) : queue'[t][i] = queue[t][i + 1]
      BY <1>1, <3>1
    <3>3. Taken(t) = 0 /\ Taken(t)' = 1
      BY <1>1, <3>1 DEF Taken
    <3>4. /\ Len(accepted[t]) = begun[t] + Len(queue[t])
          /\ \A i \in 1..Len(queue[t]) : queue[t][i] = accepted[t][begun[t] + i]
      BY <1>1, <3>2, <3>3 DEF QueueOf
    <3>5. cur'[t] = accepted'[t][begun'[t] + 1]
      BY <1>2, <3>1, <3>2, <3>4
    <3>6. ASSUME NEW i \in 1..Len(queue'[t])
          PROVE  queue'[t][i] = accepted[t][begun[t] + 1 + i]
      <4> DEFINE q == Len(queue[t])
      <4> DEFINE d == begun[t]
      <4>1. i \in 1..(q - 1) /\ q \in Nat /\ d \in Nat
        BY <1>1, <3>2
      <4> HIDE DEF q, d
      <4>2. i + 1 \in 1..q /\ d + (i + 1) = d + 1 + i
        BY <4>1
      <4> QED BY <3>2, <3>4, <4>2 DEF q, d
    <3>7. Len(accepted'[t]) = begun'[t] + Taken(t)' + Len(queue'[t])
      BY <1>1, <1>2, <3>2, <3>3, <3>4
    <3>8. \A i \in 1..Len(queue'[t]) :
            queue'[t][i] = accepted'[t][begun'[t] + Taken(t)' + i]
      BY <1>2, <3>3, <3>6
    <3> QED BY <2>2, <3>1, <3>5, <3>7, <3>8 DEF QueueOf
  <2> QED BY <2>1, <2>2
<1>4. \A u \in Topics : /\ worker[u] = "dispatch" <=> worker'[u] = "dispatch"
  BY <1>1, <1>2
<1>5. ASSUME NEW u \in Topics PROVE ListOf(u)'
  BY <1>2, <1>4, ListStays DEF ListOf
<1>6. ASSUME NEW r \in Subscribers PROVE SeenOf(r)'
  <2>1. stopic[r] \in Topics /\ Len(accepted[stopic[r]]) \in Nat
    BY DEF TypeOK, ControlTypes, EventTypes
  <2> QED BY <1>2, <2>1, SeenStays
<1> QED BY <1>3, <1>5, <1>6

(* A dispatch begins for exactly the handlers registered now, none of whom *)
(* owes an earlier one                                                     *)
LEMMA SnapshotDelivery ==
  ASSUME DInv, NEW t \in Topics, WorkerSnapshot(t)
  PROVE  Delivery'
<1> USE DEF DInv, IInv, Delivery
<1> USE DEF busVars, closeVars, pubVars, subVars, workVars
<1>1. /\ worker[t] = "snapshot"
      /\ worker \in [Topics -> {"none", "recv", "snapshot", "dispatch", "exited"}]
      /\ begun \in [Topics -> Nat] /\ accepted[t] \in Seq(Events)
      /\ snap \in [Topics -> Seq(Subscribers)]
      /\ subs[t] \in Seq(Subscribers) /\ queue[t] \in Seq(Events)
  BY DEF WorkerSnapshot, TypeOK, ControlTypes, ListTypes, EventTypes
<1>2. /\ snap' = [snap EXCEPT ![t] = subs[t]]
      /\ begun' = [begun EXCEPT ![t] = @ + 1]
      /\ worker' = [worker EXCEPT ![t] = "dispatch"]
      /\ UNCHANGED <<queue, cur, accepted, subs, sub, stopic, since, delivered,
                     chClosed>>
  BY DEF WorkerSnapshot
<1>3. /\ snap'[t] = subs[t] /\ begun'[t] = begun[t] + 1 /\ worker'[t] = "dispatch"
      /\ begun[t] \in Nat
      /\ \A u \in Topics : u # t => /\ snap'[u] = snap[u] /\ begun'[u] = begun[u]
                                    /\ worker'[u] = worker[u]
  BY <1>1, <1>2
<1>4. snap[t] = <<>>
  BY <1>1 DEF ListOf
<1>5. ASSUME NEW u \in Topics PROVE QueueOf(u)'
  <2>1. CASE u # t
    BY <1>2, <1>3, <2>1, QueueStays
  <2>2. CASE u = t
    <3>1. Taken(t) = 1 /\ Taken(t)' = 0
      BY <1>1, <1>3 DEF Taken
    <3>2. /\ Len(accepted[t]) = begun[t] + 1 + Len(queue[t])
          /\ \A i \in 1..Len(queue[t]) : queue[t][i] = accepted[t][begun[t] + 1 + i]
          /\ cur[t] = accepted[t][begun[t] + 1]
      BY SMTT(30), <1>1, <3>1 DEF QueueOf
    <3>3. /\ Len(accepted[t]) = begun'[t] + Taken(t)' + Len(queue[t])
          /\ \A i \in 1..Len(queue[t]) :
               queue[t][i] = accepted[t][begun'[t] + Taken(t)' + i]
      BY <1>3, <3>1, <3>2
    <3> QED BY <1>2, <1>3, <2>2, <3>2, <3>3 DEF QueueOf
  <2> QED BY <2>1, <2>2
<1>6. ASSUME NEW u \in Topics PROVE ListOf(u)'
  <2>1. CASE u # t
    BY <1>2, <1>3, <2>1, ListStays DEF ListOf
  <2>2. CASE u = t
    <3>1. ListOf(t)
      OBVIOUS
    <3>2. \A i \in DOMAIN subs[t] : subs[t][i] \in Subscribers
      BY <1>1
    <3> QED BY <1>2, <1>3, <2>2, <3>1, <3>2 DEF ListOf, Registered
  <2> QED BY <2>1, <2>2
<1>7. ASSUME NEW r \in Subscribers PROVE SeenOf(r)'
  <2>1. stopic[r] \in Topics /\ Len(accepted[stopic[r]]) \in Nat
    BY DEF TypeOK, ControlTypes, EventTypes
  <2>2. CASE stopic[r] # t
    BY <1>2, <1>3, <2>1, <2>2, SeenStays
  <2>3. CASE stopic[r] = t
    <3>1. ~Due(r)
      BY <1>4, <2>3 DEF Due
    <3>2. Due(r)' <=> \E i \in DOMAIN subs[t] : subs[t][i] = r
      BY <1>2, <1>3, <2>3 DEF Due
    <3>3. Due(r)' <=> sub[r] = "subscribed"
      <4>1. \A i \in DOMAIN subs[t] : sub[subs[t][i]] = "subscribed"
        BY DEF ListOf
      <4> QED BY <2>3, <3>2, <4>1 DEF SeenOf
    <3>4. Registered(r)' <=> Registered(r)
      BY <1>2 DEF Registered
    <3>5. /\ since[r].begun \in Nat /\ Len(delivered[r]) \in Nat
          /\ since[r].accepted \in Nat
      BY DEF TypeOK, ListTypes, EventTypes
    <3>6. SeenOf(r)
      OBVIOUS
    <3>7. sub[r] = "subscribed" => Registered(r)
      BY DEF Registered
    <3>8. Registered(r) =>
            /\ since[r].begun + Len(delivered[r]) <= begun'[t]
            /\ Due(r)' => since[r].begun + Len(delivered[r]) + 1 = begun'[t]
      BY <1>3, <2>3, <3>1, <3>3, <3>5, <3>6 DEF SeenOf
    <3> QED BY <1>2, <2>3, <3>3, <3>4, <3>6, <3>7, <3>8 DEF SeenOf
  <2> QED BY <2>2, <2>3
<1> QED BY <1>5, <1>6, <1>7

(* The next handler gets the event: the one after the last it saw *)
LEMMA HandleDelivery ==
  ASSUME DInv, NEW t \in Topics, WorkerHandle(t)
  PROVE  Delivery'
<1> USE DEF DInv, IInv, Delivery
<1> USE DEF busVars, closeVars, pubVars, subVars, workVars
<1>1. /\ worker[t] = "dispatch"
      /\ worker \in [Topics -> {"none", "recv", "snapshot", "dispatch", "exited"}]
      /\ begun \in [Topics -> Nat] /\ accepted[t] \in Seq(Events)
      /\ snap \in [Topics -> Seq(Subscribers)]
      /\ cur \in [Topics -> Events \cup {NoEvent}] /\ queue[t] \in Seq(Events)
      /\ delivered \in [Subscribers -> Seq(Events)]
  BY DEF WorkerHandle, TypeOK, ControlTypes, ListTypes, EventTypes
<1>2. UNCHANGED <<queue, accepted, begun, subs, sub, stopic, since, chClosed>>
  BY DEF WorkerHandle
<1>3. CASE snap[t] = <<>>
  <2>1. /\ worker' = [worker EXCEPT ![t] = "recv"]
        /\ cur' = [cur EXCEPT ![t] = NoEvent]
        /\ UNCHANGED <<snap, delivered>>
    BY <1>3 DEF WorkerHandle
  <2>2. ASSUME NEW u \in Topics PROVE QueueOf(u)'
    <3>1. CASE u # t
      BY <1>1, <1>2, <2>1, <3>1, QueueStays
    <3>2. CASE u = t
      <4>1. worker'[t] = "recv"
        BY <1>1, <2>1
      <4>2. Taken(t)' = Taken(t)
        BY <1>1, <4>1 DEF Taken
      <4> QED BY <1>2, <3>2, <4>1, <4>2 DEF QueueOf
    <3> QED BY <3>1, <3>2
  <2>3. ASSUME NEW u \in Topics PROVE ListOf(u)'
    <3>1. /\ worker[u] # "dispatch" => worker'[u] # "dispatch"
          /\ worker'[u] # "dispatch" => snap[u] = <<>>
      BY <1>1, <1>3, <2>1 DEF ListOf
    <3> QED BY <1>2, <2>1, <3>1, ListStays
  <2>4. ASSUME NEW r \in Subscribers PROVE SeenOf(r)'
    <3>1. stopic[r] \in Topics /\ Len(accepted[stopic[r]]) \in Nat
      BY DEF TypeOK, ControlTypes, EventTypes
    <3> QED BY <1>2, <2>1, <3>1, SeenStays
  <2> QED BY <2>2, <2>3, <2>4
<1>4. CASE snap[t] # <<>>
  <2> DEFINE h == snap[t][1]
  <2>1. /\ delivered' = [delivered EXCEPT ![h] = Append(@, cur[t])]
        /\ snap' = [snap EXCEPT ![t] = Tail(@)]
        /\ UNCHANGED <<worker, cur>>
    BY <1>1, <1>4 DEF WorkerHandle
  <2>2. /\ snap[t] \in Seq(Subscribers) /\ h \in Subscribers
        /\ Len(snap[t]) \in Nat \ {0} /\ 1 \in DOMAIN snap[t]
        /\ snap'[t] = Tail(snap[t])
        /\ DOMAIN snap'[t] = 1..(Len(snap[t]) - 1)
        /\ \A i \in DOMAIN snap'[t] : /\ snap'[t][i] = snap[t][i + 1]
                                      /\ i + 1 \in DOMAIN snap[t]
                                      /\ i \in Nat
        /\ \A i \in DOMAIN snap[t] :
             i = 1 \/ (i - 1 \in DOMAIN snap'[t] /\ i = (i - 1) + 1)
    <3>1. snap[t] \in Seq(Subscribers) /\ snap'[t] = Tail(snap[t])
      BY <1>1, <2>1
    <3>2. /\ Len(snap[t]) \in Nat \ {0}
          /\ DOMAIN snap[t] = 1..Len(snap[t])
          /\ DOMAIN snap'[t] = 1..(Len(snap[t]) - 1)
          /\ \A i \in 1..(Len(snap[t]) - 1) : snap'[t][i] = snap[t][i + 1]
          /\ h \in Subscribers
      BY <1>4, <3>1, TailIs
    <3> HIDE DEF h
    <3> QED BY <3>1, <3>2
  <2>3. /\ stopic[h] = t /\ Registered(h)
        /\ \A i, j \in DOMAIN snap[t] : snap[t][i] = snap[t][j] => i = j
    BY <2>2 DEF ListOf
  <2>4. \A u \in Topics : u # t => snap'[u] = snap[u]
    BY <1>1, <2>1
  <2>5. \A i \in DOMAIN snap'[t] : snap'[t][i] # h
    BY <2>2, <2>3
  <2>6. \A r \in Subscribers : r # h => /\ delivered'[r] = delivered[r]
                                        /\ Due(r)' <=> Due(r)
    <3> TAKE r \in Subscribers
    <3> HAVE r # h
    <3>1. stopic'[r] = stopic[r] /\ stopic[r] \in Topics
      BY <1>2 DEF TypeOK, ControlTypes
    <3>2. CASE stopic[r] # t
      BY <1>1, <2>1, <2>4, <3>1, <3>2 DEF Due
    <3>3. CASE stopic[r] = t
      <4>1. ASSUME Due(r)' PROVE Due(r)
        <5>1. PICK i \in DOMAIN snap'[t] : snap'[t][i] = r
          BY <3>1, <3>3, <4>1 DEF Due
        <5>2. i + 1 \in DOMAIN snap[t] /\ snap[t][i + 1] = r
          BY <2>2, <5>1
        <5> QED BY <3>3, <5>2 DEF Due
      <4>2. ASSUME Due(r) PROVE Due(r)'
        <5>1. PICK i \in DOMAIN snap[t] : snap[t][i] = r
          BY <3>3, <4>2 DEF Due
        <5>2. i - 1 \in DOMAIN snap'[t] /\ snap'[t][i - 1] = r
          BY <2>2, <5>1
        <5> QED BY <3>1, <3>3, <5>2 DEF Due
      <4> QED BY <1>1, <2>1, <4>1, <4>2
    <3> QED BY <3>2, <3>3
  <2>7. Due(h)
    BY <2>2, <2>3 DEF Due
  <2>8. delivered'[h] = Append(delivered[h], cur[t])
    BY <1>1, <2>1, <2>2
  <2>12. PICK z \in Subscribers : z = h
    BY <2>2
  <2>13. ~Due(z)' /\ stopic'[z] = t
    <3>1. stopic'[z] = t
      BY <1>2, <2>3, <2>12
    <3> QED BY <2>5, <2>12, <3>1 DEF Due
  <2> HIDE DEF h
  <2>9. ASSUME NEW u \in Topics PROVE QueueOf(u)'
    BY <1>2, <2>1, QueueStays
  <2>10. ASSUME NEW u \in Topics PROVE ListOf(u)'
    <3>1. CASE u # t
      BY <1>2, <2>1, <2>4, <3>1, ListStays DEF ListOf
    <3>2. CASE u = t
      <4>1. ListOf(t)
        OBVIOUS
      <4>2. \A i \in DOMAIN snap'[t] :
              stopic[snap'[t][i]] = t /\ Registered(snap'[t][i])
        BY <2>2, <4>1 DEF ListOf
      <4>3. \A i, j \in DOMAIN snap'[t] : snap'[t][i] = snap'[t][j] => i = j
        <5> TAKE i, j \in DOMAIN snap'[t]
        <5> HAVE snap'[t][i] = snap'[t][j]
        <5>1. i + 1 = j + 1 /\ i \in Nat /\ j \in Nat
          BY <2>2, <2>3
        <5> QED BY <5>1
      <4>4. worker'[t] = "dispatch"
        BY <1>1, <2>1
      <4> QED BY <1>2, <3>2, <4>1, <4>2, <4>3, <4>4 DEF ListOf, Registered
    <3> QED BY <3>1, <3>2
  <2>11. ASSUME NEW r \in Subscribers PROVE SeenOf(r)'
    <3>1. CASE r # h
      <4>1. Registered(r)' <=> Registered(r)
        BY <1>2 DEF Registered
      <4>2. delivered'[r] = delivered[r] /\ (Due(r)' <=> Due(r))
        BY <2>6, <3>1
      <4> QED BY <1>2, <4>1, <4>2 DEF SeenOf
    <3>2. CASE r = h
      <4>0. r = z /\ h \in Subscribers /\ t \in Topics
        BY <2>2, <2>12, <3>2
      <4> DEFINE b == since[h].begun
      <4> DEFINE n == Len(delivered[h])
      <4>1. /\ b \in Nat /\ n \in Nat /\ delivered[h] \in Seq(Events)
            /\ begun[t] \in Nat
        <5>1. /\ since[h] \in [accepted : Nat, begun : Nat]
              /\ delivered[h] \in Seq(Events) /\ begun[t] \in Nat
          BY <1>1, <4>0 DEF TypeOK, ListTypes
        <5> QED BY <5>1
      <4>2. /\ b <= since[h].accepted /\ since[h].accepted <= Len(accepted[t])
            /\ \A j \in 1..n : delivered[h][j] = accepted[t][b + j]
            /\ b + n + 1 = begun[t]
            /\ sub[h] = "subscribed" => \E i \in DOMAIN subs[t] : subs[t][i] = h
        BY <2>2, <2>3, <2>7 DEF SeenOf
      <4>3. cur[t] = accepted[t][b + (n + 1)]
        <5>1. b + (n + 1) = begun[t]
          BY <4>1, <4>2
        <5> QED BY <1>1, <5>1 DEF QueueOf
      <4>4. cur[t] \in Events
        BY <1>1 DEF CurInv
      <4>5. /\ Len(delivered'[h]) = n + 1
            /\ \A j \in 1..(n + 1) :
                 delivered'[h][j] = IF j = n + 1 THEN cur[t] ELSE delivered[h][j]
        BY <2>8, <4>1, <4>4
      <4>6. \A j \in 1..(n + 1) : delivered'[h][j] = accepted[t][b + j]
        <5> TAKE j \in 1..(n + 1)
        <5>1. CASE j = n + 1
          BY <4>3, <4>5, <5>1
        <5>2. CASE j # n + 1
          <6>1. j \in 1..n
            BY <4>1, <5>2
          <6> QED BY <4>2, <4>5, <5>2, <6>1
        <5> QED BY <5>1, <5>2
      <4>7. b + (n + 1) = begun[t]
        BY <4>1, <4>2
      <4>8. Registered(z)'
        BY <1>2, <2>3, <2>12 DEF Registered
      <4> HIDE DEF n, b
      <4>9. b + (n + 1) <= begun[t]
        BY <4>1, <4>7
      <4>10. /\ since'[z].begun = b /\ since'[z].accepted = since[h].accepted
             /\ Len(delivered'[z]) = n + 1 /\ delivered'[z] = delivered'[h]
             /\ sub'[z] = sub[h] /\ UNCHANGED <<begun, accepted, subs>>
        BY <1>2, <2>12, <4>5 DEF b
      <4> QED BY <2>12, <2>13, <4>0, <4>2, <4>6, <4>7, <4>8, <4>9, <4>10
             DEF SeenOf
    <3> QED BY <3>1, <3>2
  <2> QED BY <2>9, <2>10, <2>11
<1> QED BY <1>3, <1>4

(* Delivery is preserved by the topic workers *)
LEMMA WorkerDelivery ==
  ASSUME DInv, NEW t \in Topics, WorkerStep(t)
  PROVE  Delivery'
<1>1. CASE WorkerExit(t)
  <2> USE DEF DInv, IInv, Delivery
  <2> USE DEF busVars, closeVars, pubVars, subVars, workVars
  <2>1. /\ worker[t] = "recv" /\ queue[t] = <<>> /\ t \in chClosed
        /\ worker' = [worker EXCEPT ![t] = "exited"]
        /\ worker \in [Topics -> {"none", "recv", "snapshot", "dispatch", "exited"}]
        /\ UNCHANGED <<queue, cur, begun, accepted, subs, snap, sub, stopic,
                       since, delivered, chClosed>>
    BY <1>1 DEF WorkerExit, TypeOK, ControlTypes
  <2>2. ASSUME NEW u \in Topics PROVE QueueOf(u)'
    <3>1. CASE u # t
      BY <2>1, <3>1, QueueStays
    <3>2. CASE u = t
      BY <2>1, <3>2 DEF QueueOf, Taken
    <3> QED BY <3>1, <3>2
  <2>3. ASSUME NEW u \in Topics PROVE ListOf(u)'
    BY <2>1, ListStays DEF ListOf
  <2>4. ASSUME NEW r \in Subscribers PROVE SeenOf(r)'
    <3>1. stopic[r] \in Topics /\ Len(accepted[stopic[r]]) \in Nat
      BY DEF TypeOK, ControlTypes, EventTypes
    <3> QED BY <2>1, <3>1, SeenStays
  <2> QED BY <2>2, <2>3, <2>4
<1> QED BY <1>1, RecvDelivery, SnapshotDelivery, HandleDelivery DEF WorkerStep

(* The stronger invariant is inductive *)
LEMMA NextDelivery == DInv /\ [Next]_vars => DInv'
<1> SUFFICES ASSUME DInv, [Next]_vars PROVE DInv'
  OBVIOUS
<1>1. IInv'
  BY NextInv DEF DInv
<1>2. Delivery'
  <2>1. CASE UNCHANGED vars
    BY <2>1, DeliveryStays DEF vars, busVars, closeVars, pubVars, subVars, workVars
  <2>2. CASE Next
    BY <2>2, PublishDelivery, SubscribeDelivery, WorkerDelivery, CloseDelivery
       DEF Next
  <2> QED BY <2>1, <2>2
<1> QED BY <1>1, <1>2 DEF DInv

(* Delivery says what the two delivery properties ask for *)
LEMMA DeliveryShows == DInv => DeliveryIsExact
<1> SUFFICES ASSUME DInv PROVE DeliveryIsExact
  OBVIOUS
<1> USE DEF DInv, IInv, Delivery
<1>1. ASSUME NEW s \in Subscribers, delivered[s] # <<>>
      PROVE  \E i \in since[s].begun .. Len(accepted[stopic[s]]) :
               /\ i + Len(delivered[s]) <= Len(accepted[stopic[s]])
               /\ delivered[s] = SubSeq(accepted[stopic[s]], i + 1,
                                        i + Len(delivered[s]))
  <2> DEFINE t == stopic[s]
  <2> DEFINE b == since[s].begun
  <2> DEFINE n == Len(delivered[s])
  <2>1. /\ t \in Topics /\ b \in Nat /\ n \in Nat /\ begun[t] \in Nat
        /\ delivered[s] \in Seq(Events) /\ accepted[t] \in Seq(Events)
        /\ Len(queue[t]) \in Nat
    BY DEF TypeOK, ControlTypes, ListTypes, EventTypes
  <2>2. n # 0
    BY <1>1, <2>1
  <2>3. /\ b + n <= begun[t]
        /\ \A j \in 1..n : delivered[s][j] = accepted[t][b + j]
    BY <2>2 DEF SeenOf
  <2>4. begun[t] <= Len(accepted[t])
    BY <2>1 DEF QueueOf, Taken
  <2> HIDE DEF t, b
  <2>5. b + n <= Len(accepted[t]) /\ b \in b..Len(accepted[t])
    BY <2>1, <2>3, <2>4
  <2>6. /\ SubSeq(accepted[t], b + 1, b + n) \in Seq(Events)
        /\ Len(SubSeq(accepted[t], b + 1, b + n)) = n
        /\ \A j \in 1..n : SubSeq(accepted[t], b + 1, b + n)[j] = accepted[t][b + j]
    <3> DEFINE q == accepted[t]
    <3>1. q \in Seq(Events) /\ b \in Nat /\ n \in Nat /\ b + n <= Len(q)
      BY <2>1, <2>5
    <3> HIDE DEF q, n
    <3>2. /\ SubSeq(q, b + 1, b + n) \in Seq(Events)
          /\ Len(SubSeq(q, b + 1, b + n)) = n
          /\ \A j \in 1..n : SubSeq(q, b + 1, b + n)[j] = q[b + j]
      BY <3>1, SubSeqIs
    <3> QED BY <3>2 DEF q
  <2> DEFINE x == SubSeq(accepted[t], b + 1, b + n)
  <2>7. delivered[s] = x
    <3>1. x \in Seq(Events) /\ Len(x) = n /\ \A j \in 1..n : delivered[s][j] = x[j]
      BY <2>3, <2>6 DEF t, b
    <3> HIDE DEF x
    <3> QED BY <2>1, <3>1, SeqEqual
  <2> QED BY <2>5, <2>7 DEF t, b
<1>2. ASSUME NEW c \in Closers, closer[c] = "returned"
      PROVE  /\ \A t \in Topics : begun[t] = Len(accepted[t]) /\ queue[t] = <<>>
             /\ \A s \in Subscribers : sub[s] = "subscribed" =>
                  LET acc == accepted[stopic[s]] IN
                  \A i \in since[s].accepted + 1 .. Len(acc) :
                    \E j \in 1..Len(delivered[s]) : delivered[s][j] = acc[i]
  <2>1. \A t \in Topics : worker[t] \in {"none", "exited"}
    BY <1>2 DEF OnceInv, WorkerInv
  <2>2. ASSUME NEW t \in Topics
        PROVE  begun[t] = Len(accepted[t]) /\ queue[t] = <<>>
    <3>1. /\ begun[t] \in Nat /\ Len(accepted[t]) \in Nat /\ Len(queue[t]) \in Nat
          /\ queue[t] \in Seq(Events)
      BY DEF TypeOK, ListTypes, EventTypes
    <3>2. /\ Len(accepted[t]) = begun[t] + Len(queue[t])
          /\ worker[t] = "none" => Len(accepted[t]) = 0
          /\ worker[t] = "exited" => Len(queue[t]) = 0
      BY <2>1, <3>1 DEF QueueOf, Taken
    <3>3. Len(queue[t]) = 0 /\ begun[t] = Len(accepted[t])
      BY <2>1, <3>1, <3>2
    <3> QED BY <3>1, <3>3
  <2>3. ASSUME NEW s \in Subscribers, sub[s] = "subscribed",
               NEW i \in since[s].accepted + 1 .. Len(accepted[stopic[s]])
        PROVE  \E j \in 1..Len(delivered[s]) :
                 delivered[s][j] = accepted[stopic[s]][i]
    <3> DEFINE t == stopic[s]
    <3> DEFINE b == since[s].begun
    <3> DEFINE n == Len(delivered[s])
    <3>1. /\ t \in Topics /\ b \in Nat /\ n \in Nat /\ begun[t] \in Nat
          /\ since[s].accepted \in Nat /\ Len(accepted[t]) \in Nat
      BY DEF TypeOK, ControlTypes, ListTypes, EventTypes
    <3>2. snap[t] = <<>>
      BY <2>1, <3>1 DEF ListOf
    <3>3. ~Due(s) /\ Registered(s)
      BY <2>3, <3>2 DEF Due, Registered
    <3>4. /\ b <= since[s].accepted
          /\ \A j \in 1..n : delivered[s][j] = accepted[t][b + j]
          /\ b + n = begun[t]
      BY <2>3, <3>3 DEF SeenOf
    <3>5. begun[t] = Len(accepted[t])
      BY <2>2, <3>1
    <3>6. i - b \in 1..n /\ b + (i - b) = i
      BY SMTT(30), <3>1, <3>4, <3>5
    <3> QED BY <3>4, <3>6
  <2> QED BY <2>2, <2>3
<1> QED BY <1>1, <1>2 DEF DeliveryIsExact, OrderedOnceNoRetroactive, NoSilentDrop

(* bus.go Subscribe, Publish, runTopic and Close together: every handler   *)
(* gets exactly the events of its topic from its registration on, once, in *)
(* queue order, and nothing accepted is still owed when a Close returns,   *)
(* for any number of topics, publishers, handlers and Close calls.         *)
THEOREM DeliveryHolds == Spec => []DeliveryIsExact
<1>1. Init => DInv
  <2>1. Init => Delivery
    BY DEF Init, Delivery, QueueOf, Taken, ListOf, SeenOf, Registered
  <2> QED BY <2>1, InitInv DEF DInv
<1> QED BY <1>1, NextDelivery, DeliveryShows, PTL DEF Spec
=============================================================================
