---------------------------- MODULE EventChannel ----------------------------
(***************************************************************************)
(* What the painter's event queue promises, without its locks, its work    *)
(* item and its threads: the connected client receives the events sent to  *)
(* it in the order they were sent.  A cursor event may be overwritten by   *)
(* the next event if that is of the same type; no other event is lost      *)
(* while the client stays, and none outlives the connection.               *)
(***************************************************************************)
EXTENDS Naturals, Sequences

CONSTANTS Clients, NoClient, Ids, Types, Squashable

VARIABLES
  client,     \* the client events go to, or NoClient
  connected,  \* FALSE from the moment the client starts to leave
  queue,      \* events sent and not yet handed over
  delivered   \* events handed over, in order, with their receiver

channelVars == <<client, connected, queue, delivered>>

Event == [id : Ids, type : Types]

Init ==
  /\ client = NoClient
  /\ connected = FALSE
  /\ queue = <<>>
  /\ delivered = <<>>

\* The next event takes the place of the newest one or goes behind it.
Overwrites(q, e) ==
  q # <<>> /\ q[Len(q)].type = e.type /\ e.type \in Squashable

Enqueue(q, e) ==
  IF Overwrites(q, e) THEN [q EXCEPT ![Len(q)] = e] ELSE Append(q, e)

Send(e) ==
  /\ connected
  /\ queue' = Enqueue(queue, e)
  /\ UNCHANGED <<client, connected, delivered>>

\* The first n events go to the client.
Deliver(n) ==
  /\ client # NoClient
  /\ delivered' = delivered \o [i \in 1..n |-> [to |-> client,
                                               event |-> queue[i]]]
  /\ queue' = SubSeq(queue, n + 1, Len(queue))
  /\ UNCHANGED <<client, connected>>

\* A client may take the place of another; what was queued is handed on.
Connect(c) ==
  /\ client' = c
  /\ connected' = TRUE
  /\ UNCHANGED <<queue, delivered>>

\* The client leaves: no more events are accepted, what is queued is
\* dropped, and only then the client forgotten.
Leave ==
  /\ connected
  /\ connected' = FALSE
  /\ UNCHANGED <<client, queue, delivered>>

Drop ==
  /\ ~connected
  /\ queue' = <<>>
  /\ UNCHANGED <<client, connected, delivered>>

Forget ==
  /\ ~connected
  /\ queue = <<>>
  /\ client' = NoClient
  /\ UNCHANGED <<connected, queue, delivered>>

Next ==
  \/ \E e \in Event : Send(e)
  \/ \E n \in 1..Len(queue) : Deliver(n)
  \/ \E c \in Clients : Connect(c)
  \/ Leave
  \/ Drop
  \/ Forget

Spec == Init /\ [][Next]_channelVars
=============================================================================
