---------------------------- MODULE EventsProofs ----------------------------
(***************************************************************************)
(* The event queue for any number of senders, clients and events and any   *)
(* room in the clients' files: when the sends without painter->lock stay   *)
(* clear of disconnects, the queue implements module EventChannel, no      *)
(* event is flushed without a file and none is stranded.                   *)
(***************************************************************************)
EXTENDS Events, SequenceTheorems, TLAPS

-----------------------------------------------------------------------------
(***************************************************************************)
(* Types.                                                                  *)
(***************************************************************************)

Deliveries == [to : Files, event : Event]

Sends == {NoSend} \cup
  [at : {"filp", "connected", "add", "work", "flush", "schedule"},
   event : Event]

\* What the threads, the work item and the disconnect are.
ThreadTypes ==
  /\ worker \in {"idle", "flush", "reschedule"}
  /\ sender \in [Senders -> Sends]
  /\ leaving \in {"no", "cleanup", "cancel", "forget"}
  /\ work \in BOOLEAN /\ cancelling \in BOOLEAN /\ locked \in BOOLEAN
  /\ next_id \in 0..MaxEvents

\* What the client and the queue are.
QueueTypes ==
  /\ is_connected \in BOOLEAN
  /\ drm_filp \in Files \cup {NoFile}
  /\ pending_events \in Seq(Event)
  /\ unread \in [Files -> 0..Capacity]
  /\ delivered \in Seq(Deliveries)

TypeInv == ThreadTypes /\ QueueTypes

LEMMA SendsAt ==
  ASSUME NEW x \in Sends, x.at # "idle"
  PROVE  x # NoSend /\ x.event \in Event
BY DEF Sends, NoSend

LEMMA NoSendIsIdle == NoSend.at = "idle" /\ NoSend \in Sends
BY DEF NoSend, Sends

LEMMA GotoType ==
  ASSUME NEW x \in Sends, x.at # "idle",
         NEW step \in {"filp", "connected", "add", "work", "flush", "schedule"}
  PROVE  /\ [x EXCEPT !.at = step] \in Sends
         /\ [x EXCEPT !.at = step].at = step
         /\ [x EXCEPT !.at = step].event = x.event
BY DEF Sends, NoSend

\* What one sender does leaves the others alone.
LEMMA ReturnType ==
  ASSUME ThreadTypes, NEW s \in Senders, Return(s)
  PROVE  /\ sender' \in [Senders -> Sends] /\ locked' \in BOOLEAN
         /\ sender'[s] = NoSend
         /\ \A t \in Senders \ {s} : sender'[t] = sender[t]
BY NoSendIsIdle DEF Return, ThreadTypes

LEMMA GotoTypes ==
  ASSUME ThreadTypes, NEW s \in Senders, sender[s].at # "idle",
         NEW step \in {"filp", "connected", "add", "work", "flush", "schedule"},
         Goto(s, step)
  PROVE  /\ sender' \in [Senders -> Sends]
         /\ sender'[s].at = step /\ sender'[s].event = sender[s].event
         /\ \A t \in Senders \ {s} : sender'[t] = sender[t]
BY GotoType DEF Goto, ThreadTypes

\* The events that a flush takes out of the list.
Taken(f, q, n) == [i \in 1..n |-> [to |-> f, event |-> q[i]]]

LEMMA TakenType ==
  ASSUME NEW f \in Files, NEW q \in Seq(Event), NEW n \in 0..Len(q)
  PROVE  Taken(f, q, n) \in Seq(Deliveries)
<1>1. \A i \in 1..n : q[i] \in Event
  BY ElementOfSeq
<1>2. n \in Nat
  OBVIOUS
<1> QED
  BY <1>1, <1>2, IsASeq DEF Taken, Deliveries

LEMMA FlushableBound ==
  ASSUME QueueTypes, drm_filp # NoFile
  PROVE  /\ Flushable \in 0..Len(pending_events)
         /\ unread[drm_filp] + Flushable \in 0..Capacity
<1>1. Len(pending_events) \in Nat /\ unread[drm_filp] \in 0..Capacity
  BY DEF QueueTypes
<1>2. Capacity \in Nat
  BY CapacityAssumption
<1> QED
  BY <1>1, <1>2 DEF Flushable, Room

\* A flush hands over a prefix of the list, or does nothing.
LEMMA FlushStep ==
  ASSUME QueueTypes, evdi_painter_flush_pending_events,
         UNCHANGED <<is_connected, drm_filp>>
  PROVE  /\ QueueTypes'
         /\ \/ UNCHANGED <<pending_events, delivered>>
            \/ /\ drm_filp # NoFile
               /\ \E n \in 1..Len(pending_events) :
                    /\ delivered' = delivered \o
                                      Taken(drm_filp, pending_events, n)
                    /\ pending_events' = SubSeq(pending_events, n + 1,
                                                Len(pending_events))
<1>1. CASE pending_events = <<>> /\ UNCHANGED <<pending_events, unread, delivered>>
  BY <1>1 DEF QueueTypes
<1>2. CASE /\ pending_events # <<>>
           /\ drm_filp # NoFile
           /\ delivered' = delivered \o
                             Taken(drm_filp, pending_events, Flushable)
           /\ unread' = [unread EXCEPT ![drm_filp] = @ + Flushable]
           /\ pending_events' = SubSeq(pending_events, Flushable + 1,
                                       Len(pending_events))
  <2> DEFINE n == Flushable
  <2>1. n \in 0..Len(pending_events) /\ unread[drm_filp] + n \in 0..Capacity
    BY <1>2, FlushableBound
  <2>2. pending_events \in Seq(Event) /\ drm_filp \in Files
    BY <1>2 DEF QueueTypes
  <2>3. Taken(drm_filp, pending_events, n) \in Seq(Deliveries)
    BY <2>1, <2>2, TakenType
  <2>4. delivered' \in Seq(Deliveries)
    BY <1>2, <2>3, ConcatProperties DEF QueueTypes
  <2>5. pending_events' \in Seq(Event)
    <3>1. n + 1 \in 1..(Len(pending_events) + 1) /\ Len(pending_events) \in Nat
      BY <2>1, <2>2
    <3> HIDE DEF n
    <3> QED
      BY <1>2, <2>2, <3>1 DEF n
  <2>6. unread' \in [Files -> 0..Capacity]
    BY <1>2, <2>1, <2>2 DEF QueueTypes
  <2>7. QueueTypes'
    BY <2>4, <2>5, <2>6 DEF QueueTypes
  <2>8. CASE n = 0
    <3>1. Taken(drm_filp, pending_events, n) = <<>>
      BY <2>3, <2>8, EmptySeq DEF Taken
    <3>2. delivered' = delivered
      BY <1>2, <3>1, ConcatEmptySeq DEF QueueTypes
    <3>3. pending_events' = pending_events
      BY <1>2, <2>2, <2>8
    <3> QED
      BY <2>7, <3>2, <3>3
  <2>9. CASE n # 0
    <3>1. n \in 1..Len(pending_events)
      BY <2>1, <2>2, <2>9
    <3> HIDE DEF n
    <3> QED
      BY <1>2, <2>7, <3>1 DEF n
  <2> QED
    BY <2>8, <2>9
<1> QED
  BY <1>1, <1>2 DEF evdi_painter_flush_pending_events, Taken

LEMMA ThreadTypesNext == TypeInv /\ [Next]_vars => ThreadTypes'
<1> SUFFICES ASSUME TypeInv, [Next]_vars
             PROVE  ThreadTypes'
  OBVIOUS
<1>a. ThreadTypes
  BY DEF TypeInv
<1>1. ASSUME NEW s \in Senders, SendStep(s)
      PROVE  ThreadTypes'
  <2>1. CASE Return(s) \/ \E step \in {"connected", "add", "work", "flush",
                                      "schedule"} : Goto(s, step)
    <3>1. sender' \in [Senders -> Sends]
      BY <1>a, <1>1, <2>1, ReturnType, GotoTypes
         DEF SendStep, CheckFilp, CheckConnected, CheckWork, SendFlush,
             evdi_painter_add_event_to_pending_list, SendSchedule
    <3>2. locked' \in BOOLEAN
      BY <1>a, <1>1, <2>1, ReturnType
         DEF SendStep, CheckFilp, CheckConnected, CheckWork, SendFlush,
             evdi_painter_add_event_to_pending_list, SendSchedule, ThreadTypes
    <3>3. work' \in BOOLEAN
      BY <1>a, <1>1
         DEF SendStep, CheckFilp, CheckConnected, CheckWork, SendFlush,
             evdi_painter_add_event_to_pending_list, SendSchedule,
             ScheduleWork, ThreadTypes
    <3>4. UNCHANGED <<worker, leaving, cancelling, next_id>>
      BY <1>1
         DEF SendStep, CheckFilp, CheckConnected, CheckWork, SendFlush,
             evdi_painter_add_event_to_pending_list, SendSchedule
    <3> QED
      BY <1>a, <3>1, <3>2, <3>3, <3>4 DEF ThreadTypes
  <2> QED
    BY <1>1, <2>1
       DEF SendStep, CheckFilp, CheckConnected, CheckWork, SendFlush,
           evdi_painter_add_event_to_pending_list, SendSchedule
<1>2. ASSUME NEW s \in Senders, NEW t \in Types, CreateEvent(s, t)
      PROVE  ThreadTypes'
  <2>1. next_id' \in 0..MaxEvents
    BY <1>a, <1>2, CapacityAssumption DEF CreateEvent, ThreadTypes
  <2>2. [at |-> "filp", event |-> [id |-> next_id', type |-> t]] \in Sends
    BY <2>1 DEF Sends, Event
  <2>3. sender' \in [Senders -> Sends]
    BY <1>a, <1>2, <2>2 DEF CreateEvent, ThreadTypes
  <2> QED
    BY <1>a, <1>2, <2>1, <2>3 DEF CreateEvent, ThreadTypes
<1>3. CASE evdi_send_events_work
  BY <1>a, <1>3 DEF evdi_send_events_work, WorkStart, WorkFlush,
                    WorkReschedule, ScheduleWork, ThreadTypes
<1>4. ASSUME NEW f \in Files, evdi_painter_connect(f) \/ ReadEvent(f)
      PROVE  ThreadTypes'
  BY <1>a, <1>4 DEF evdi_painter_connect, ReadEvent, ThreadTypes
<1>5. CASE evdi_painter_disconnect \/ DisconnectStep
  BY <1>a, <1>5 DEF evdi_painter_disconnect, DisconnectStep, CleanupList,
                    CancelWork, DisconnectForget, ThreadTypes
<1>6. CASE UNCHANGED vars
  BY <1>a, <1>6 DEF vars, ThreadTypes
<1> QED
  BY <1>1, <1>2, <1>3, <1>4, <1>5, <1>6 DEF Next

LEMMA AddType ==
  ASSUME TypeInv, NEW s \in Senders,
         evdi_painter_add_event_to_pending_list(s)
  PROVE  pending_events' \in Seq(Event)
<1>1. sender[s].event \in Event
  BY SendsAt DEF evdi_painter_add_event_to_pending_list, TypeInv, ThreadTypes
<1>2. pending_events \in Seq(Event) /\ Len(pending_events) \in Nat
  BY DEF TypeInv, QueueTypes
<1>3. Len(pending_events) > 0 =>
        [pending_events EXCEPT ![Len(pending_events)] = sender[s].event]
          \in Seq(Event)
  BY <1>1, <1>2, ExceptSeq
<1>4. Append(pending_events, sender[s].event) \in Seq(Event)
  BY <1>1, <1>2
<1> QED
  BY <1>3, <1>4 DEF evdi_painter_add_event_to_pending_list

LEMMA QueueTypesNext == TypeInv /\ [Next]_vars => QueueTypes'
<1> SUFFICES ASSUME TypeInv, [Next]_vars
             PROVE  QueueTypes'
  OBVIOUS
<1>a. QueueTypes
  BY DEF TypeInv
<1>1. ASSUME NEW s \in Senders, SendStep(s)
      PROVE  QueueTypes'
  <2>1. CASE evdi_painter_add_event_to_pending_list(s)
    BY <1>a, <2>1, AddType
       DEF evdi_painter_add_event_to_pending_list, QueueTypes
  <2>2. CASE SendFlush(s)
    BY <1>a, <2>2, FlushStep DEF SendFlush
  <2>3. CASE CheckFilp(s) \/ CheckConnected(s) \/ CheckWork(s) \/ SendSchedule(s)
    BY <1>a, <2>3 DEF CheckFilp, CheckConnected, CheckWork, SendSchedule,
                      QueueTypes
  <2> QED
    BY <1>1, <2>1, <2>2, <2>3 DEF SendStep
<1>2. ASSUME NEW s \in Senders, NEW t \in Types, CreateEvent(s, t)
      PROVE  QueueTypes'
  BY <1>a, <1>2 DEF CreateEvent, QueueTypes
<1>3. CASE evdi_send_events_work
  BY <1>a, <1>3, FlushStep DEF evdi_send_events_work, WorkStart, WorkFlush,
                               WorkReschedule, QueueTypes
<1>4. ASSUME NEW f \in Files, evdi_painter_connect(f)
      PROVE  QueueTypes'
  BY <1>a, <1>4 DEF evdi_painter_connect, QueueTypes
<1>5. ASSUME NEW f \in Files, ReadEvent(f)
      PROVE  QueueTypes'
  BY <1>a, <1>5, CapacityAssumption DEF ReadEvent, QueueTypes
<1>6. CASE evdi_painter_disconnect \/ DisconnectStep
  BY <1>a, <1>6, EmptySeq DEF evdi_painter_disconnect, DisconnectStep,
                    CleanupList, CancelWork, DisconnectForget, QueueTypes
<1>7. CASE UNCHANGED vars
  BY <1>a, <1>7 DEF vars, QueueTypes
<1> QED
  BY <1>1, <1>2, <1>3, <1>4, <1>5, <1>6, <1>7 DEF Next

LEMMA TypesAtInit == Init => TypeInv
<1>1. 0 \in 0..Capacity /\ 0 \in 0..MaxEvents
  BY CapacityAssumption
<1> QED
  BY <1>1, NoSendIsIdle, EmptySeq
     DEF Init, TypeInv, ThreadTypes, QueueTypes

\* A file never holds more unread events than it has room for, and every
\* queued event is one that was created, whether or not sends and disconnects
\* overlap.
THEOREM EventsTypeCorrect == Spec => []TypeOK
<1>1. TypeInv => TypeOK
  BY SendsAt, NoSendIsIdle
     DEF TypeInv, ThreadTypes, QueueTypes, TypeOK, Sends, NoSend
<1> QED
  BY <1>1, TypesAtInit, ThreadTypesNext, QueueTypesNext, PTL DEF Spec, TypeInv

-----------------------------------------------------------------------------
(***************************************************************************)
(* Senders, lock and connection.                                           *)
(***************************************************************************)

HoldsLock(s) == sender[s] # NoSend /\ sender[s].event.type \in LockedTypes

\* A sender of update_ready holds the lock, and there is one at most.
LockInv ==
  /\ \A s \in Senders : HoldsLock(s) => locked
  /\ \A s, t \in Senders : HoldsLock(s) /\ HoldsLock(t) => s = t

\* Nobody sends while a client leaves: those with the lock because the
\* disconnect has it, the others because they stay clear.
Quiet == leaving # "no" => \A s \in Senders : sender[s] = NoSend

\* There is a file as long as a client is connected, and until the disconnect
\* has forgotten it.
ClientInv ==
  /\ leaving = "no" => (is_connected <=> drm_filp # NoFile)
  /\ leaving # "no" => ~is_connected /\ drm_filp # NoFile

\* A sender that has passed the first check keeps its client.
PassedInv ==
  \A s \in Senders : sender[s].at \notin {"idle", "filp"} => is_connected

\* The list is emptied before the file is forgotten, and stays empty.
QueueInv ==
  /\ pending_events # <<>> => drm_filp # NoFile
  /\ leaving \in {"cancel", "forget"} => pending_events = <<>>

CancelInv == cancelling => leaving = "cancel"

\* What a step of one sender is to the rest.
LEMMA SendFrame ==
  ASSUME ThreadTypes, NEW s \in Senders, SendStep(s)
  PROVE  /\ sender[s] # NoSend /\ sender[s].at # "idle"
         /\ UNCHANGED <<is_connected, drm_filp, leaving, cancelling>>
         /\ \A t \in Senders \ {s} : sender'[t] = sender[t]
         /\ \/ Return(s) /\ sender'[s] = NoSend
            \/ /\ UNCHANGED locked
               /\ sender'[s].event = sender[s].event
               /\ sender'[s].at \notin {"idle", "filp"}
<1>1. sender[s].at # "idle" /\ UNCHANGED <<is_connected, drm_filp, leaving, cancelling>>
  BY DEF SendStep, CheckFilp, CheckConnected, CheckWork, SendFlush,
         evdi_painter_add_event_to_pending_list, SendSchedule
<1>2. sender[s] # NoSend
  BY <1>1, NoSendIsIdle
<1>3. \/ Return(s)
      \/ /\ UNCHANGED locked
         /\ \E step \in {"connected", "add", "work", "flush", "schedule"} :
              Goto(s, step)
  BY DEF SendStep, CheckFilp, CheckConnected, CheckWork, SendFlush,
         evdi_painter_add_event_to_pending_list, SendSchedule
<1> QED
  BY <1>1, <1>2, <1>3, ReturnType, GotoTypes

\* What a new sender is.
LEMMA CreateFrame ==
  ASSUME ThreadTypes, NEW s \in Senders, NEW t \in Types, CreateEvent(s, t)
  PROVE  /\ sender[s] = NoSend
         /\ leaving = "no" \/ OverlapDisconnect
         /\ UNCHANGED <<is_connected, drm_filp, leaving, cancelling,
                        pending_events, work, worker>>
         /\ \A u \in Senders \ {s} : sender'[u] = sender[u]
         /\ sender'[s].at = "filp" /\ sender'[s].event.type = t
         /\ IF t \in LockedTypes THEN ~locked /\ locked' = TRUE
                                 ELSE UNCHANGED locked
BY DEF CreateEvent, ThreadTypes, LockFree

LEMMA LockNext == TypeInv /\ LockInv /\ [Next]_vars => LockInv'
<1> SUFFICES ASSUME TypeInv, LockInv, [Next]_vars
             PROVE  LockInv'
  OBVIOUS
<1>a. ThreadTypes
  BY DEF TypeInv
<1>1. ASSUME NEW s \in Senders, SendStep(s)
      PROVE  LockInv'
  <2>1. \A t \in Senders \ {s} : HoldsLock(t)' <=> HoldsLock(t)
    BY <1>a, <1>1, SendFrame DEF HoldsLock
  <2>2. CASE Return(s) /\ sender'[s] = NoSend
    <3>1. ~HoldsLock(s)'
      BY <2>2 DEF HoldsLock
    <3>2. locked' = (locked /\ ~HoldsLock(s))
      BY <1>a, <1>1, <2>2, SendFrame DEF Return, HoldsLock
    <3> QED
      BY <2>1, <3>1, <3>2 DEF LockInv
  <2>3. CASE UNCHANGED locked /\ sender'[s].event = sender[s].event
    <3>1. HoldsLock(s)' => HoldsLock(s)
      BY <1>a, <1>1, <2>3, SendFrame DEF HoldsLock
    <3> QED
      BY <2>1, <2>3, <3>1 DEF LockInv
  <2> QED
    BY <1>a, <1>1, <2>2, <2>3, SendFrame
<1>2. ASSUME NEW s \in Senders, NEW t \in Types, CreateEvent(s, t)
      PROVE  LockInv'
  <2>1. \A u \in Senders \ {s} : HoldsLock(u)' <=> HoldsLock(u)
    BY <1>a, <1>2, CreateFrame DEF HoldsLock
  <2>2. HoldsLock(s)' => t \in LockedTypes
    BY <1>a, <1>2, CreateFrame DEF HoldsLock
  <2> QED
    BY <1>a, <1>2, <2>1, <2>2, CreateFrame DEF LockInv
<1>3. CASE UNCHANGED <<sender, locked>>
  BY <1>3 DEF LockInv, HoldsLock
<1> QED
  BY <1>1, <1>2, <1>3
     DEF Next, vars, evdi_send_events_work, WorkStart, WorkFlush,
         WorkReschedule, evdi_painter_connect, ReadEvent,
         evdi_painter_disconnect, DisconnectStep, CleanupList, CancelWork,
         DisconnectForget

\* The steps of others than senders and the disconnect itself.
Elsewhere ==
  \/ evdi_send_events_work
  \/ \E f \in Files : evdi_painter_connect(f) \/ ReadEvent(f)
  \/ UNCHANGED vars

LEMMA ElsewhereFrame ==
  Elsewhere => /\ UNCHANGED <<sender, leaving, cancelling>>
               /\ \/ UNCHANGED <<is_connected, drm_filp>>
                  \/ /\ leaving = "no" /\ is_connected' = TRUE
                     /\ drm_filp' \in Files
                     /\ UNCHANGED <<pending_events, work, worker>>
BY DEF Elsewhere, evdi_send_events_work, WorkStart, WorkFlush, WorkReschedule,
       evdi_painter_connect, LockFree, ReadEvent, vars

LEMMA NextCases ==
  [Next]_vars => \/ \E s \in Senders : SendStep(s)
                 \/ \E s \in Senders, t \in Types : CreateEvent(s, t)
                 \/ evdi_painter_disconnect
                 \/ DisconnectStep
                 \/ Elsewhere
BY DEF Next, Elsewhere

\* The client and its senders, together.
Sessions == LockInv /\ Quiet /\ ClientInv /\ PassedInv

LEMMA SessionsNext ==
  ~OverlapDisconnect /\ TypeInv /\ Sessions /\ [Next]_vars => Sessions'
<1> SUFFICES ASSUME ~OverlapDisconnect, TypeInv, Sessions, [Next]_vars
             PROVE  Quiet' /\ ClientInv' /\ PassedInv'
  BY LockNext DEF Sessions
<1>a. ThreadTypes /\ QueueTypes /\ LockInv /\ Quiet /\ ClientInv /\ PassedInv
  BY DEF TypeInv, Sessions
<1>1. ASSUME NEW s \in Senders, SendStep(s)
      PROVE  Quiet' /\ ClientInv' /\ PassedInv'
  <2>1. leaving = "no"
    BY <1>a, <1>1, SendFrame DEF Quiet
  <2>2. Quiet' /\ ClientInv'
    BY <1>a, <1>1, <2>1, SendFrame DEF Quiet, ClientInv
  <2>3. sender'[s].at \notin {"idle", "filp"} => is_connected
    <3>1. CASE sender[s].at = "filp"
      BY <1>a, <2>1, <1>1, <3>1, ReturnType, NoSendIsIdle
         DEF SendStep, CheckFilp, CheckConnected, CheckWork, SendFlush,
             evdi_painter_add_event_to_pending_list, SendSchedule, ClientInv
    <3>2. CASE sender[s].at # "filp"
      BY <1>a, <1>1, <3>2, SendFrame DEF PassedInv
    <3> QED
      BY <3>1, <3>2
  <2> QED
    BY <1>a, <1>1, <2>2, <2>3, SendFrame DEF PassedInv
<1>2. ASSUME NEW s \in Senders, NEW t \in Types, CreateEvent(s, t)
      PROVE  Quiet' /\ ClientInv' /\ PassedInv'
  BY <1>a, <1>2, CreateFrame DEF Quiet, ClientInv, PassedInv
<1>3. CASE evdi_painter_disconnect
  <2>1. \A s \in Senders : sender[s] = NoSend
    BY <1>a, <1>3
       DEF evdi_painter_disconnect, LockFree, UnlockedSend, LockInv, HoldsLock
  <2> QED
    BY <1>a, <1>3, <2>1, NoSendIsIdle
       DEF evdi_painter_disconnect, LockFree, Quiet, ClientInv, PassedInv
<1>4. CASE DisconnectStep
  <2>1. leaving # "no" /\ UNCHANGED sender
    BY <1>4 DEF DisconnectStep, CleanupList, CancelWork, DisconnectForget
  <2>2. \A s \in Senders : sender[s] = NoSend
    BY <1>a, <2>1 DEF Quiet
  <2>3. ClientInv'
    BY <1>a, <1>4 DEF DisconnectStep, CleanupList, CancelWork,
                      DisconnectForget, ClientInv
  <2> QED
    BY <2>1, <2>2, <2>3, NoSendIsIdle DEF Quiet, PassedInv
<1>5. CASE Elsewhere
  BY <1>a, <1>5, ElsewhereFrame, SenderAssumption
     DEF Quiet, ClientInv, PassedInv
<1> QED
  BY <1>1, <1>2, <1>3, <1>4, <1>5, NextCases

-----------------------------------------------------------------------------
(***************************************************************************)
(* The list.                                                               *)
(***************************************************************************)

LEMMA CancelNext == CancelInv /\ [Next]_vars => CancelInv'
<1> SUFFICES ASSUME CancelInv, [Next]_vars
             PROVE  CancelInv'
  OBVIOUS
<1>1. CASE DisconnectStep
  BY <1>1 DEF DisconnectStep, CleanupList, CancelWork, DisconnectForget,
              CancelInv
<1>2. CASE evdi_painter_disconnect
  BY <1>2 DEF evdi_painter_disconnect, LockFree, CancelInv
<1>3. CASE UNCHANGED <<leaving, cancelling>>
  BY <1>3 DEF CancelInv
<1> QED
  BY <1>1, <1>2, <1>3
     DEF Next, vars, SendStep, CheckFilp, CheckConnected, CheckWork,
         SendFlush, evdi_painter_add_event_to_pending_list, SendSchedule,
         CreateEvent, evdi_send_events_work, WorkStart, WorkFlush,
         WorkReschedule, evdi_painter_connect, ReadEvent

\* An empty list stays empty in a flush, and so does the list of a client that
\* has none to give it to.
LEMMA FlushEmpties ==
  ASSUME QueueTypes, evdi_painter_flush_pending_events,
         UNCHANGED <<is_connected, drm_filp>>
  PROVE  pending_events = <<>> => pending_events' = <<>>
BY DEF evdi_painter_flush_pending_events

LEMMA QueueNext ==
  TypeInv /\ Sessions /\ QueueInv /\ [Next]_vars => QueueInv'
<1> SUFFICES ASSUME TypeInv, Sessions, QueueInv, [Next]_vars
             PROVE  QueueInv'
  OBVIOUS
<1>a. ThreadTypes /\ QueueTypes /\ Quiet /\ ClientInv /\ PassedInv
  BY DEF TypeInv, Sessions
<1>1. ASSUME NEW s \in Senders, SendStep(s)
      PROVE  QueueInv'
  <2>1. leaving = "no" /\ UNCHANGED <<drm_filp, leaving, is_connected>>
    BY <1>a, <1>1, SendFrame DEF Quiet
  <2>2. CASE evdi_painter_add_event_to_pending_list(s)
    BY <1>a, <2>1, <2>2
       DEF evdi_painter_add_event_to_pending_list, PassedInv, ClientInv,
           QueueInv
  <2>3. CASE SendFlush(s)
    BY <1>a, <2>1, <2>3, FlushEmpties DEF SendFlush, QueueInv
  <2>4. CASE UNCHANGED pending_events
    BY <2>1, <2>4 DEF QueueInv
  <2> QED
    BY <1>1, <2>2, <2>3, <2>4
       DEF SendStep, CheckFilp, CheckConnected, CheckWork, SendSchedule
<1>2. ASSUME NEW s \in Senders, NEW t \in Types, CreateEvent(s, t)
      PROVE  QueueInv'
  BY <1>a, <1>2, CreateFrame DEF QueueInv
<1>3. CASE evdi_painter_disconnect
  BY <1>3 DEF evdi_painter_disconnect, QueueInv
<1>4. CASE DisconnectStep
  BY <1>4 DEF DisconnectStep, CleanupList, CancelWork, DisconnectForget,
              QueueInv
<1>5. CASE Elsewhere
  <2>1. CASE UNCHANGED pending_events
    BY <1>5, <2>1, ElsewhereFrame, SenderAssumption DEF QueueInv
  <2>2. CASE WorkFlush
    BY <1>a, <2>2, FlushEmpties DEF WorkFlush, QueueInv
  <2> QED
    BY <1>5, <2>1, <2>2
       DEF Elsewhere, evdi_send_events_work, WorkStart, WorkReschedule,
           evdi_painter_connect, ReadEvent, vars
<1> QED
  BY <1>1, <1>2, <1>3, <1>4, <1>5, NextCases

\* Somebody will look at the list again.
Awaited ==
  \/ work \/ worker # "idle"
  \/ \E s \in Senders : sender[s].at \in {"work", "flush", "schedule"}

LEMMA StrandedNext ==
  TypeInv /\ Sessions /\ QueueInv /\ CancelInv /\ NoStrandedEvent
    /\ [Next]_vars => NoStrandedEvent'
<1> SUFFICES ASSUME TypeInv, Sessions, QueueInv, CancelInv, NoStrandedEvent,
                    [Next]_vars, pending_events' # <<>>
             PROVE  Awaited' \/ leaving' = "cleanup"
  BY DEF NoStrandedEvent, Awaited
<1>a. ThreadTypes /\ QueueTypes /\ Quiet
  BY DEF TypeInv, Sessions
<1>1. ASSUME NEW s \in Senders, SendStep(s)
      PROVE  Awaited'
  <2>1. /\ leaving = "no" /\ ~cancelling
        /\ \A t \in Senders \ {s} : sender'[t] = sender[t]
    BY <1>a, <1>1, SendFrame DEF Quiet, CancelInv
  <2>2. CASE evdi_painter_add_event_to_pending_list(s)
    BY <1>a, <2>2, GotoTypes DEF evdi_painter_add_event_to_pending_list, Awaited
  <2>3. CASE CheckWork(s)
    BY <1>a, <2>3, GotoTypes DEF CheckWork, Awaited
  <2>4. CASE SendFlush(s)
    BY <1>a, <2>4, GotoTypes DEF SendFlush, Awaited
  <2>5. CASE SendSchedule(s)
    BY <2>1, <2>5 DEF SendSchedule, ScheduleWork, Awaited
  <2>6. CASE CheckFilp(s) \/ CheckConnected(s)
    <3>1. Awaited /\ UNCHANGED <<work, worker>>
      BY <2>1, <2>6
         DEF CheckFilp, CheckConnected, NoStrandedEvent, Awaited
    <3>2. sender[s].at \notin {"work", "flush", "schedule"}
      BY <2>6 DEF CheckFilp, CheckConnected
    <3> QED
      BY <2>1, <3>1, <3>2 DEF Awaited
  <2> QED
    BY <1>1, <2>2, <2>3, <2>4, <2>5, <2>6 DEF SendStep
<1>2. ASSUME NEW s \in Senders, NEW t \in Types, CreateEvent(s, t)
      PROVE  Awaited' \/ leaving' = "cleanup"
  <2>1. Awaited \/ leaving = "cleanup"
    BY <1>a, <1>2, CreateFrame DEF NoStrandedEvent, Awaited
  <2>2. UNCHANGED <<work, worker, leaving>> /\ sender[s].at = "idle"
    BY <1>a, <1>2, CreateFrame, NoSendIsIdle
  <2>3. \A u \in Senders : sender[u].at \in {"work", "flush", "schedule"}
                            => sender'[u] = sender[u]
    BY <1>a, <1>2, <2>2, CreateFrame
  <2> QED
    BY <2>1, <2>2, <2>3 DEF Awaited
<1>3. CASE evdi_painter_disconnect
  BY <1>3 DEF evdi_painter_disconnect
<1>4. CASE DisconnectStep
  BY <1>4 DEF DisconnectStep, CleanupList, CancelWork, DisconnectForget,
              QueueInv
<1>5. CASE Elsewhere
  <2>1. CASE WorkStart
    BY <2>1 DEF WorkStart, Awaited
  <2>2. CASE WorkFlush
    BY <2>2 DEF WorkFlush, Awaited
  <2>3. CASE WorkReschedule
    BY <2>3 DEF WorkReschedule, ScheduleWork, Awaited, CancelInv, QueueInv
  <2>4. CASE UNCHANGED <<pending_events, work, worker, sender, leaving>>
    BY <2>4 DEF NoStrandedEvent, Awaited
  <2> QED
    BY <1>5, <2>1, <2>2, <2>3, <2>4
       DEF Elsewhere, evdi_send_events_work, evdi_painter_connect, ReadEvent,
           vars
<1> QED
  BY <1>1, <1>2, <1>3, <1>4, <1>5, NextCases

-----------------------------------------------------------------------------
(***************************************************************************)
(* The theorems.                                                           *)
(***************************************************************************)

EventsInv == TypeInv /\ Sessions /\ QueueInv /\ CancelInv /\ NoStrandedEvent

LEMMA EventsInvAlways ==
  ASSUME ~OverlapDisconnect
  PROVE  Spec => []EventsInv
<1>1. Init => EventsInv
  BY TypesAtInit, NoSendIsIdle
     DEF Init, EventsInv, Sessions, LockInv, HoldsLock, Quiet, ClientInv,
         PassedInv, QueueInv, CancelInv, NoStrandedEvent
<1>2. EventsInv /\ [Next]_vars => EventsInv'
  BY ThreadTypesNext, QueueTypesNext, SessionsNext, QueueNext, CancelNext,
     StrandedNext
     DEF EventsInv, TypeInv
<1> QED
  BY <1>1, <1>2, PTL DEF Spec

\* Neither a sender nor the retry work ever flushes an event to a NULL file,
\* when unlocked sends stay clear of disconnects.
THEOREM FlushesHaveFile ==
  ASSUME ~OverlapDisconnect
  PROVE  Spec => []NoFlushWithoutFile
<1>1. EventsInv => NoFlushWithoutFile
  BY DEF EventsInv, QueueInv, NoFlushWithoutFile
<1> QED
  BY <1>1, EventsInvAlways, PTL

\* An event in the list always has somebody on the way to it.
THEOREM NothingStranded ==
  ASSUME ~OverlapDisconnect
  PROVE  Spec => []NoStrandedEvent
<1>1. EventsInv => NoStrandedEvent
  BY DEF EventsInv
<1> QED
  BY <1>1, EventsInvAlways, PTL

LEMMA ChannelStep ==
  EventsInv /\ EventsInv' /\ [Next]_vars => [Channel!Next]_(Channel!channelVars)
<1> SUFFICES ASSUME EventsInv, EventsInv', [Next]_vars
             PROVE  \/ Channel!Next
                    \/ UNCHANGED <<drm_filp, is_connected, pending_events,
                                   delivered>>
  BY DEF Channel!channelVars
<1>a. /\ ThreadTypes /\ QueueTypes /\ Quiet /\ ClientInv /\ PassedInv
      /\ QueueInv
  BY DEF EventsInv, TypeInv, Sessions
<1>1. ASSUME NEW s \in Senders, evdi_painter_add_event_to_pending_list(s)
      PROVE  Channel!Next
  <2> DEFINE e == sender[s].event
  <2>1. e \in Channel!Event /\ is_connected
    BY <1>a, <1>1, SendsAt
       DEF evdi_painter_add_event_to_pending_list, ThreadTypes, PassedInv,
           Event, Channel!Event
  <2>2. pending_events # <<>> <=> Len(pending_events) > 0
    BY <1>a DEF QueueTypes
  <2>3. pending_events' = Channel!Enqueue(pending_events, e)
    BY <1>1, <2>2
       DEF evdi_painter_add_event_to_pending_list, is_evdi_event_squashable,
           Channel!Enqueue, Channel!Overwrites
  <2>4. UNCHANGED <<drm_filp, is_connected, delivered>>
    BY <1>1 DEF evdi_painter_add_event_to_pending_list
  <2> QED
    BY <2>1, <2>3, <2>4 DEF Channel!Send, Channel!Next
<1>2. ASSUME evdi_painter_flush_pending_events,
             UNCHANGED <<is_connected, drm_filp>>
      PROVE  \/ Channel!Next
             \/ UNCHANGED <<drm_filp, is_connected, pending_events, delivered>>
  BY <1>a, <1>2, FlushStep DEF Taken, Channel!Deliver, Channel!Next
<1>3. ASSUME NEW s \in Senders, SendStep(s)
      PROVE  \/ Channel!Next
             \/ UNCHANGED <<drm_filp, is_connected, pending_events, delivered>>
  BY <1>1, <1>2, <1>3
     DEF SendStep, CheckFilp, CheckConnected, CheckWork, SendFlush,
         SendSchedule
<1>4. CASE evdi_painter_disconnect
  BY <1>a, <1>4
     DEF evdi_painter_disconnect, LockFree, ClientInv, Channel!Leave,
         Channel!Next
<1>5. CASE DisconnectStep
  BY <1>a, <1>5
     DEF DisconnectStep, CleanupList, CancelWork, DisconnectForget, ClientInv,
         QueueInv, Channel!Drop, Channel!Forget, Channel!Next
<1>6. CASE Elsewhere
  BY <1>2, <1>6
     DEF Elsewhere, evdi_send_events_work, WorkStart, WorkFlush,
         WorkReschedule, evdi_painter_connect, ReadEvent, vars,
         Channel!Connect, Channel!Next
<1>7. ASSUME NEW s \in Senders, NEW t \in Types, CreateEvent(s, t)
      PROVE  UNCHANGED <<drm_filp, is_connected, pending_events, delivered>>
  BY <1>7 DEF CreateEvent
<1> QED
  BY <1>3, <1>4, <1>5, <1>6, <1>7, NextCases

\* The list, the retry work and the senders with and without the lock
\* implement the channel: events reach their client in order, none is lost but
\* an overwritten cursor event, and none outlives its connection, whatever
\* room the client's file has.
THEOREM QueueImplementsChannel ==
  ASSUME ~OverlapDisconnect
  PROVE  Spec => ImplementsChannel
<1>1. Init => Channel!Init
  BY DEF Init, Channel!Init
<1> QED
  BY <1>1, ChannelStep, EventsInvAlways, PTL
     DEF Spec, ImplementsChannel, Channel!Spec
=============================================================================
