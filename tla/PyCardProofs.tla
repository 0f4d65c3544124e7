---------------------------- MODULE PyCardProofs ----------------------------
(***************************************************************************)
(* What PyCard guarantees for any number of buffer ids, any consumer and   *)
(* any program: the library's list holds the live buffers, and the kernel  *)
(* writes only into a buffer the card asked for and nobody reads; a        *)
(* request that waits is owed an answer, and an announced update is the    *)
(* one the card waits for, unless it has asked in vain.                    *)
(***************************************************************************)
EXTENDS PyCard, FiniteSetTheorems, WellFoundedInduction, TLAPS

\* While a request is outstanding, the library names the same buffer, which
\* is one of the card's list and not the consumer's.
RequestedIsOwn ==
  buffer_requested # NoBuffer =>
    /\ bufferToUpdate = buffer_requested
    /\ buffer_requested \in Listed
    /\ buffer_requested \notin kept

\* A grab is always for a request.
GrabIsRequested ==
  pc \in {"grab", "handler"} => buffer_requested # NoBuffer

\* Handlers run, and buffers are grabbed, on behalf of a call that has
\* somewhere to return to.
CallerReturns == caller \in {"select", "dispatch"}

\* A card that is closed has left no buffer and no request.
ClosedIsEmpty ==
  pc = "closed" => Listed = {} /\ kept = {} /\ buffer_requested = NoBuffer

IInv ==
  /\ RegisteredAreLive
  /\ RequestedIsOwn
  /\ GrabIsRequested
  /\ CallerReturns
  /\ ClosedIsEmpty

USE DEF IInv, RegisteredAreLive, RequestedIsOwn, GrabIsRequested,
        CallerReturns, ClosedIsEmpty, Listed, handleVars, kernelVars, cardVars

LEMMA InitIInv == Init => IInv
BY DEF Init, LibInit

\* Calls between two rounds of event handling.
LEMMA CallsKeepIInv ==
  ASSUME IInv, OpenCard \/ connect \/ disconnect
                 \/ close \/ handle_events
  PROVE  IInv'
<1>1. CASE OpenCard
  BY <1>1 DEF OpenCard, evdi_open
<1>2. CASE connect
  BY <1>2 DEF connect, evdi_connect
<1>3. CASE disconnect
  BY <1>3 DEF disconnect, evdi_disconnect
<1>4. CASE close
  BY <1>4 DEF close, evdi_unregister_buffer
<1>5. CASE handle_events
  BY <1>5 DEF handle_events
<1> QED BY <1>1, <1>2, <1>3, <1>4, <1>5

\* A buffer the consumer drops is unregistered unless the list refers to it.
LEMMA ReleaseKeepsIInv ==
  ASSUME IInv, NEW id \in kept, Release(id)
  PROVE  IInv'
<1>1. CASE id \in Listed
  BY <1>1 DEF Release
<1>2. CASE id \notin Listed
  BY <1>2 DEF Release, evdi_unregister_buffer
<1> QED BY <1>1, <1>2

\* The commits of the compositor.
LEMMA KernelKeepsIInv ==
  ASSUME IInv, KernelStep
  PROVE  IInv'
BY DEF KernelStep, PlaneUpdate, CursorUpdate, CommitStep, FlushMode,
       FlushUpdate

\* A buffer is requested only if it is free, and passed on only after that.
LEMMA RequestKeepsIInv ==
  ASSUME IInv, RequestNothing \/ request_update \/ grab_pixels
                 \/ AcquireFramebuffer
  PROVE  IInv'
<1>1. CASE RequestNothing
  BY <1>1 DEF RequestNothing
<1>2. CASE request_update
  <2>1. PICK i \in 1..Len(buffers) :
          /\ IsFirstFree(i)
          /\ buffer_requested' = buffers[i]
          /\ evdi_request_update(buffers[i])
    BY <1>2 DEF request_update
  <2>2. /\ buffers[i] \in Listed
        /\ buffers[i] \notin kept
    BY <2>1 DEF IsFirstFree, FreeBuffers
  <2>3. /\ bufferToUpdate' = buffer_requested'
        /\ UNCHANGED <<frameBuffers, buffers, kept, caller>>
    BY <1>2, <2>1 DEF request_update, evdi_request_update
  <2>4. buffer_requested' # NoBuffer \/ pc' \notin {"grab", "handler"}
    <3>1. buffers[i] \in FreeBuffers
      BY <2>1 DEF IsFirstFree
    <3>2. buffer_requested = NoBuffer
      BY <1>2 DEF request_update
    <3> QED BY <2>1, <3>1, <3>2 DEF FreeBuffers
  <2>5. pc' # "closed"
    BY <1>2 DEF request_update
  <2> QED BY <2>1, <2>2, <2>3, <2>4, <2>5
<1>3. CASE grab_pixels
  BY <1>3 DEF grab_pixels
<1>4. CASE AcquireFramebuffer
  BY <1>4 DEF AcquireFramebuffer
<1> QED BY <1>1, <1>2, <1>3, <1>4

\* Two new buffers replace those of the list; the consumer's live on.
LEMMA ModeKeepsIInv ==
  ASSUME IInv, card_C_mode_handler
  PROVE  IInv'
<1>1. PICK first, second :
        /\ buffers' = <<first, second>>
        /\ frameBuffers' =
             (frameBuffers \ (Listed \ kept)) \cup {first, second}
  BY DEF card_C_mode_handler, makeBuffers, evdi_register_buffer,
         evdi_unregister_buffer
<1>2. Listed' = {first, second}
  <2>1. Len(buffers') = 2 /\ buffers'[1] = first /\ buffers'[2] = second
    BY <1>1
  <2> QED BY <2>1
<1>3. RegisteredAreLive'
  BY <1>1, <1>2 DEF card_C_mode_handler
<1> QED BY <1>3 DEF card_C_mode_handler

\* The other steps of the event loop.
LEMMA EventsKeepIInv ==
  ASSUME IInv, SelectTimeout \/ ReadEvents \/ DispatchDone
                 \/ default_update_ready_handler
  PROVE  IInv'
<1>1. CASE SelectTimeout
  BY <1>1 DEF SelectTimeout
<1>2. CASE ReadEvents
  BY <1>2 DEF ReadEvents
<1>3. CASE DispatchDone
  BY <1>3 DEF DispatchDone
<1>4. CASE default_update_ready_handler
  BY <1>4 DEF default_update_ready_handler, IsForRequested
<1> QED BY <1>1, <1>2, <1>3, <1>4

LEMMA NextIInv == IInv /\ [Next]_vars => IInv'
<1> SUFFICES ASSUME IInv, [Next]_vars PROVE IInv'
  OBVIOUS
<1>1. CASE UNCHANGED vars
  BY <1>1 DEF vars
<1>2. CASE Next
  BY <1>1, <1>2, CallsKeepIInv, ReleaseKeepsIInv, KernelKeepsIInv,
     RequestKeepsIInv, ModeKeepsIInv, EventsKeepIInv
     DEF Next, CardStep, Aborted
<1> QED BY <1>1, <1>2

LEMMA SpecIInv == Spec => []IInv
BY InitIInv, NextIInv, PTL DEF Spec

\* The library's list of frame buffers (addFrameBuffer, removeFrameBuffer) is
\* the set of live Buffer objects at all times.
THEOREM BuffersRegisteredWhileAlive == Spec => []RegisteredAreLive
<1>1. IInv => RegisteredAreLive
  OBVIOUS
<1> QED BY <1>1, SpecIInv, PTL

\* evdi_grab_pixels finds the buffer the card asked for, registered, and no
\* consumer refers to it.
THEOREM GrabsOwnBuffer == Spec => []GrabWritesOwnBuffer
<1>1. IInv => GrabWritesOwnBuffer
  BY DEF GrabWritesOwnBuffer
<1> QED BY <1>1, SpecIInv, PTL

-----------------------------------------------------------------------------
(***************************************************************************)
(* A request that waits is owed an answer: for any number of buffers, any  *)
(* consumer, and programs that handle events unconnected.                  *)
(***************************************************************************)

\* Events that were read are dispatched before anything else is asked or read.
BatchPlace ==
  batch # <<>> =>
    \/ pc = "aborted"
    \/ /\ pc \in {"dispatch", "request", "grab", "handler"}
       /\ caller = "dispatch"

\* The card asks again after an update, and gets new buffers with a mode.
Answer(s) == Carries(s, "update_ready") \/ Carries(s, "mode_changed")

\* Wherever the card is, except in the middle of a grab, the painter remembers
\* what it waits for, or owes it a mode, or the answer is on its way: queued
\* at the file or already read.
RequestOwed ==
  /\ buffer_requested # NoBuffer /\ is_connected
  /\ pc \notin {"grab", "handler", "aborted"}
  => \/ was_update_requested \/ needs_full_modeset
     \/ Answer(events) \/ Answer(batch)

\* events as a queue, and where request_update and grab_pixels return to.
QueuesOK ==
  /\ events \in Seq(EventTypes) /\ batch \in Seq(EventTypes)
  /\ caller \in {"select", "dispatch"}

OwedInv == QueuesOK /\ BatchPlace /\ RequestOwed

\* An event is queued behind what was there.
LEMMA SendCarries ==
  ASSUME NEW e \in EventTypes, Send(e), events \in Seq(EventTypes)
  PROVE  /\ events' \in Seq(EventTypes)
         /\ \A t \in EventTypes : Carries(events, t) => Carries(events', t)
         /\ is_connected => Carries(events', e)
<1>1. CASE is_connected
  <2>1. events' = Append(events, e)
    BY <1>1 DEF Send
  <2>2. /\ Len(events') = Len(events) + 1 /\ events'[Len(events) + 1] = e
        /\ \A i \in 1..Len(events) : events'[i] = events[i]
        /\ Len(events) \in Nat
    BY <2>1
  <2>3. events' \in Seq(EventTypes)
    BY <2>1
  <2>4. ASSUME NEW t \in EventTypes, Carries(events, t)
        PROVE  Carries(events', t)
    <3>1. PICK i \in 1..Len(events) : events[i] = t
      BY <2>4 DEF Carries
    <3> QED
      BY <2>2, <3>1 DEF Carries
  <2>5. Carries(events', e)
    BY <2>2 DEF Carries
  <2> QED
    BY <2>3, <2>4, <2>5
<1>2. CASE ~is_connected
  BY <1>2 DEF Send
<1> QED
  BY <1>1, <1>2

\* What is left of the events that were read was among them.
LEMMA TailCarried ==
  ASSUME NEW s \in Seq(EventTypes), s # <<>>, NEW t, Carries(Tail(s), t)
  PROVE  Carries(s, t)
<1>1. PICK i \in 1..Len(Tail(s)) : Tail(s)[i] = t
  BY DEF Carries
<1>2. i + 1 \in 1..Len(s) /\ s[i + 1] = t
  BY <1>1
<1> QED
  BY <1>2 DEF Carries

LEMMA NothingCarried == \A t : ~Carries(<<>>, t)
BY DEF Carries

LEMMA OwedInit == Init => OwedInv
BY DEF Init, LibInit, OwedInv, QueuesOK, BatchPlace, RequestOwed

\* The calls of the program.
LEMMA CallsKeepOwed ==
  ASSUME OwedInv, OpenCard \/ connect \/ disconnect
                    \/ close \/ handle_events \/ \E id \in kept : Release(id)
  PROVE  OwedInv'
<1> USE DEF OwedInv, QueuesOK, BatchPlace, RequestOwed
<1>1. CASE OpenCard
  BY <1>1 DEF OpenCard, evdi_open
<1>2. CASE connect
  BY <1>2 DEF connect, evdi_connect
<1>3. CASE disconnect
  BY <1>3 DEF disconnect, evdi_disconnect, Disconnected
<1>4. CASE close
  BY <1>4 DEF close, evdi_close, Disconnected
<1>5. CASE handle_events
  BY <1>5 DEF handle_events
<1>6. CASE \E id \in kept : Release(id)
  BY <1>6 DEF Release
<1> QED
  BY <1>1, <1>2, <1>3, <1>4, <1>5, <1>6

\* The commits: what they tell takes the place of what they forget.
LEMMA KernelKeepsOwed ==
  ASSUME OwedInv, KernelStep
  PROVE  OwedInv'
<1> USE DEF OwedInv, QueuesOK, EventTypes
<1>1. UNCHANGED <<buffer_requested, is_connected, pc, batch, caller>>
  BY DEF KernelStep, PlaneUpdate, CursorUpdate, CommitStep, FlushMode,
         FlushUpdate
<1>2. \/ UNCHANGED events
      \/ \E e \in EventTypes : Send(e)
  BY DEF KernelStep, PlaneUpdate, CursorUpdate, CommitStep, FlushMode,
         FlushUpdate
<1>3. /\ events' \in Seq(EventTypes)
      /\ Answer(events) => Answer(events')
  <2>1. CASE UNCHANGED events
    BY <2>1
  <2>2. ASSUME NEW e \in EventTypes, Send(e)
        PROVE  /\ events' \in Seq(EventTypes)
               /\ Answer(events) => Answer(events')
    BY <2>2, SendCarries DEF Answer
  <2> QED
    BY <1>2, <2>1, <2>2
<1>4. was_update_requested /\ ~was_update_requested' /\ is_connected
        => Answer(events')
  <2>1. SUFFICES ASSUME was_update_requested /\ ~was_update_requested'
                 PROVE  Send("update_ready")
    BY SendCarries DEF Answer
  <2> QED
    BY <2>1 DEF KernelStep, PlaneUpdate, CursorUpdate, CommitStep, FlushMode,
                FlushUpdate
<1>5. needs_full_modeset /\ ~needs_full_modeset' /\ is_connected
        => Answer(events')
  <2>1. SUFFICES ASSUME needs_full_modeset /\ ~needs_full_modeset'
                 PROVE  Send("mode_changed")
    BY SendCarries DEF Answer
  <2> QED
    BY <2>1 DEF KernelStep, PlaneUpdate, CursorUpdate, CommitStep, FlushMode,
                FlushUpdate
<1>6. BatchPlace'
  BY <1>1 DEF BatchPlace
<1>7. RequestOwed'
  BY <1>1, <1>3, <1>4, <1>5 DEF RequestOwed
<1> QED
  BY <1>1, <1>3, <1>6, <1>7

\* Asking and grabbing: a request that is not granted at once is remembered.
LEMMA RequestKeepsOwed ==
  ASSUME OwedInv, RequestNothing \/ request_update \/ grab_pixels
                    \/ AcquireFramebuffer
  PROVE  OwedInv'
<1> USE DEF OwedInv, QueuesOK, BatchPlace, RequestOwed
<1>1. CASE RequestNothing
  BY <1>1 DEF RequestNothing
<1>2. CASE request_update
  <2>1. PICK i \in 1..Len(buffers) : evdi_request_update(buffers[i])
    BY <1>2 DEF request_update
  <2>2. was_update_requested' \/ pc' = "grab"
    BY <1>2, <2>1 DEF request_update, evdi_request_update, GrabImmediately
  <2> QED
    BY <1>2, <2>2 DEF request_update
<1>3. CASE grab_pixels
  BY <1>3 DEF grab_pixels
<1>4. CASE AcquireFramebuffer
  BY <1>4 DEF AcquireFramebuffer
<1> QED
  BY <1>1, <1>2, <1>3, <1>4

\* Reading moves the answers, handling one ends the wait for it.
LEMMA EventsKeepOwed ==
  ASSUME OwedInv, SelectTimeout \/ ReadEvents \/ DispatchDone
                    \/ default_update_ready_handler \/ card_C_mode_handler
  PROVE  OwedInv'
<1> USE DEF OwedInv, QueuesOK, EventTypes
<1>1. CASE SelectTimeout
  BY <1>1 DEF SelectTimeout, BatchPlace, RequestOwed
<1>2. CASE ReadEvents
  <2>1. batch = <<>>
    BY <1>2 DEF ReadEvents, BatchPlace
  <2>2. ~Answer(batch) /\ Answer(batch') = Answer(events)
    BY <1>2, <2>1, NothingCarried DEF Answer, ReadEvents
  <2>3. RequestOwed'
    BY <1>2, <2>2 DEF ReadEvents, RequestOwed
  <2> QED
    BY <1>2, <2>3 DEF ReadEvents, BatchPlace
<1>3. CASE DispatchDone
  BY <1>3 DEF DispatchDone, BatchPlace, RequestOwed
<1>4. CASE default_update_ready_handler
  <2>1. batch' \in Seq(EventTypes)
    BY <1>4 DEF default_update_ready_handler, NextEvent
  <2> QED
    BY <1>4, <2>1
       DEF default_update_ready_handler, NextEvent, BatchPlace, RequestOwed
<1>5. CASE card_C_mode_handler
  <2>1. batch' \in Seq(EventTypes)
    BY <1>5 DEF card_C_mode_handler, NextEvent
  <2> QED
    BY <1>5, <2>1
       DEF card_C_mode_handler, NextEvent, BatchPlace, RequestOwed
<1> QED
  BY <1>1, <1>2, <1>3, <1>4, <1>5

LEMMA OwedNext == OwedInv /\ [Next]_vars => OwedInv'
<1> SUFFICES ASSUME OwedInv, [Next]_vars PROVE OwedInv'
  OBVIOUS
<1>1. CASE UNCHANGED vars
  BY <1>1 DEF vars, OwedInv, QueuesOK, BatchPlace, RequestOwed
<1>2. CASE Next
  BY <1>1, <1>2, CallsKeepOwed, KernelKeepsOwed, RequestKeepsOwed,
     EventsKeepOwed
     DEF Next, CardStep, Aborted
<1> QED
  BY <1>1, <1>2

LEMMA SpecOwed == Spec => []OwedInv
BY OwedInit, OwedNext, PTL DEF Spec

\* A card that is through with its events and waits for an update is owed one,
\* or a mode: the painter has not forgotten the request (evdi_painter.c), and
\* no event that answers it has been dropped on the way.
THEOREM TheRequestIsOwed == Spec => []RequestIsOwed
<1>1. OwedInv => RequestIsOwed
  <2>1. SUFFICES ASSUME OwedInv, pc \in {"idle", "select"}
                 PROVE  ~Answer(batch)
    BY DEF OwedInv, RequestOwed, RequestIsOwed, Answer
  <2>2. batch = <<>>
    BY <2>1 DEF OwedInv, BatchPlace
  <2> QED
    BY <2>2, NothingCarried DEF Answer
<1> QED
  BY <1>1, SpecOwed, PTL

-----------------------------------------------------------------------------
(***************************************************************************)
(* Types.  The code counts ids up and never runs out of them; a finite set *)
(* will do if two are left beside those that FreshIds takes out.           *)
(***************************************************************************)

EnoughIds ==
  \/ BufferIds = Nat
  \/ IsFiniteSet(BufferIds) /\ Cardinality(BufferIds) >= MaxKept + 3

KeptOK ==
  kept \subseteq BufferIds /\ IsFiniteSet(kept) /\ Cardinality(kept) <= MaxKept

\* The list is empty or holds the two buffers of Card::makeBuffers.
TwoBuffers ==
  buffers # <<>> =>
    Len(buffers) = 2 /\ buffers[1] # buffers[2]

TypeInv == TypeOK /\ KeptOK /\ TwoBuffers

LEMMA TwoLeft ==
  ASSUME EnoughIds, NEW S \in SUBSET BufferIds, IsFiniteSet(S),
         Cardinality(S) <= MaxKept + 1
  PROVE  \E i, j \in BufferIds \ S : i # j
<1>1. Cardinality(S) \in Nat
  BY FS_CardinalityType
<1>2. SUFFICES ASSUME ~\E i, j \in BufferIds \ S : i # j PROVE FALSE
  OBVIOUS
<1>3. PICK x : BufferIds \subseteq S \cup {x}
  BY <1>2
<1>4. /\ IsFiniteSet(S \cup {x})
      /\ Cardinality(S \cup {x}) \in Nat
      /\ Cardinality(S \cup {x}) <= MaxKept + 2
  BY <1>1, FS_AddElement, KeptAssumption
<1>5. IsFiniteSet(BufferIds) /\ Cardinality(BufferIds) <= MaxKept + 2
  BY <1>3, <1>4, FS_Subset, FS_CardinalityType, KeptAssumption
<1>6. CASE BufferIds = Nat
  <2> DEFINE n == Cardinality(Nat)
  <2>1. n \in Nat /\ IsFiniteSet(Nat)
    BY <1>5, <1>6, FS_CardinalityType
  <2>2. Cardinality(0..n) = n + 1
    BY <2>1, FS_Interval
  <2>3. Cardinality(0..n) <= n
    BY <2>1, FS_Subset
  <2> QED
    BY <2>1, <2>2, <2>3
<1>7. CASE IsFiniteSet(BufferIds) /\ Cardinality(BufferIds) >= MaxKept + 3
  BY <1>5, <1>7, FS_CardinalityType, KeptAssumption
<1> QED
  BY <1>6, <1>7 DEF EnoughIds

LEMMA LeastId ==
  ASSUME NEW S \in SUBSET Nat, S # {}
  PROVE  \E x \in S : \A y \in S : x <= y
<1>1. PICK x \in S : \A y \in S : ~(<<y, x>> \in OpToRel(<, Nat))
  BY WFMin, NatLessThanWellFounded, Zenon
<1>2. \A y \in S : ~(y < x)
  BY <1>1 DEF OpToRel
<1> QED
  BY <1>2

\* The two new buffers of makeBuffers.
LEMMA NewBuffers ==
  ASSUME EnoughIds, TypeOK, KeptOK, makeBuffers
  PROVE  \E a, b \in FreshIds :
           /\ a # b /\ buffers' = <<a, b>>
           /\ frameBuffers' = (frameBuffers \ (Listed \ kept)) \cup {a, b}
<1> DEFINE first == CHOOSE i \in FreshIds : \A j \in FreshIds : i <= j
           rest == FreshIds \ {first}
           second == CHOOSE i \in rest : \A j \in rest : i <= j
<1>1. PICK i, j \in FreshIds : i # j
  <2> DEFINE S == kept \cup {bufferToUpdate}
  <2>1. S \in SUBSET BufferIds
    BY DEF TypeOK, LibTypeOK, KeptOK
  <2>2. IsFiniteSet(S) /\ Cardinality(S) <= MaxKept + 1
    <3>1. Cardinality(S) \in {Cardinality(kept), Cardinality(kept) + 1}
      BY FS_AddElement DEF KeptOK
    <3>2. IsFiniteSet(S)
      BY FS_AddElement DEF KeptOK
    <3>3. Cardinality(kept) \in Nat
      BY FS_CardinalityType DEF KeptOK
    <3> HIDE DEF S
    <3> QED
      BY <3>1, <3>2, <3>3, KeptAssumption DEF KeptOK
  <2> HIDE DEF S
  <2>3. \E i, j \in BufferIds \ S : i # j
    BY <2>1, <2>2, TwoLeft
  <2> QED
    BY <2>3 DEF FreshIds, S
<1>2. FreshIds \subseteq Nat
  BY IdAssumption DEF FreshIds
<1>3. first \in FreshIds
  BY <1>1, <1>2, LeastId
<1>4. rest # {} /\ rest \subseteq Nat
  <2> HIDE DEF first
  <2>1. i \in rest \/ j \in rest
    BY <1>1
  <2>2. \A x \in rest : x \in Nat
    BY <1>2
  <2> QED
    BY <2>1, <2>2
<1>5. second \in rest
  <2> HIDE DEF rest
  <2>1. \E x \in rest : \A y \in rest : x <= y
    BY <1>4, LeastId
  <2> QED
    BY <2>1
<1>6. /\ buffers' = <<first, second>>
      /\ frameBuffers' =
           (frameBuffers \ (Listed \ kept)) \cup {first, second}
  BY DEF makeBuffers, evdi_register_buffer, evdi_unregister_buffer
<1> QED
  BY <1>3, <1>5, <1>6

LEMMA NoEvents ==
  <<>> \in Seq(EventTypes) /\ Len(<<>>) <= MaxEvents
BY EventAssumption

LEMMA TypesInit == Init => TypeInv
<1> SUFFICES ASSUME Init PROVE TypeInv
  OBVIOUS
<1>1. IsFiniteSet({}) /\ Cardinality({}) = 0
  BY FS_EmptySet
<1>2. LibTypeOK
  BY IdAssumption, NoEvents DEF Init, LibInit, LibTypeOK
<1>3. inVain \in BOOLEAN
  BY Zenon DEF Init
<1> QED
  BY <1>1, <1>2, <1>3, KeptAssumption, NoEvents
     DEF Init, TypeInv, TypeOK, KeptOK, TwoBuffers, Steps

\* The calls of the program.
LEMMA CallsKeepTypes ==
  ASSUME IInv, TypeInv, OpenCard \/ connect \/ disconnect
                 \/ close \/ handle_events
  PROVE  TypeInv'
<1> USE DEF TypeInv, TypeOK, LibTypeOK, KeptOK, TwoBuffers, Steps
<1>1. CASE OpenCard
  BY <1>1, IdAssumption DEF OpenCard, evdi_open
<1>2. CASE connect
  BY <1>2 DEF connect, evdi_connect
<1>3. CASE disconnect
  <2>1. /\ is_connected' \in BOOLEAN /\ scanout' \in BOOLEAN
        /\ was_update_requested' \in BOOLEAN
    BY <1>3 DEF disconnect, evdi_disconnect, Disconnected
  <2>2. UNCHANGED <<damaged, needs_full_modeset, commit, events, handleVars,
                    cardVars>>
    BY <1>3 DEF disconnect, evdi_disconnect
  <2> QED
    BY <2>1, <2>2 DEF handleVars, cardVars
<1>4. CASE close
  <2>1. LibTypeOK'
    BY <1>4, NoEvents
       DEF close, evdi_close, Disconnected, evdi_unregister_buffer
  <2> QED
    BY <1>4, <2>1 DEF close
<1>5. CASE handle_events
  BY <1>5 DEF handle_events
<1> QED
  BY <1>1, <1>2, <1>3, <1>4, <1>5

LEMMA ReleaseKeepsTypes ==
  ASSUME TypeInv, NEW id \in kept, Release(id)
  PROVE  TypeInv'
<1> USE DEF TypeInv, TypeOK, LibTypeOK, KeptOK, TwoBuffers, Steps
<1>1. kept' = kept \ {id} /\ kept' \subseteq kept
  BY DEF Release
<1>2. KeptOK' /\ Cardinality(kept') <= MaxKept
  BY <1>1, FS_Subset, FS_CardinalityType, KeptAssumption
<1> QED
  BY <1>1, <1>2 DEF Release, evdi_unregister_buffer

LEMMA SendTypes ==
  ASSUME TypeInv, NEW e \in EventTypes, Send(e)
  PROVE  events' \in Seq(EventTypes) /\ Len(events') <= MaxEvents
BY EventAssumption DEF Send, TypeInv, TypeOK, LibTypeOK

LEMMA KernelKeepsTypes ==
  ASSUME TypeInv, KernelStep
  PROVE  TypeInv'
<1> USE DEF TypeInv
<1>1. UNCHANGED <<handleVars, cardVars>>
  BY DEF KernelStep, PlaneUpdate, CursorUpdate, CommitStep, FlushMode,
         FlushUpdate
<1>2. \/ UNCHANGED events
      \/ \E e \in EventTypes : Send(e)
  BY DEF KernelStep, PlaneUpdate, CursorUpdate, CommitStep, FlushMode,
         FlushUpdate, EventTypes
<1>3. events' \in Seq(EventTypes) /\ Len(events') <= MaxEvents
  BY <1>2, SendTypes DEF TypeOK, LibTypeOK
<1>4. /\ is_connected' \in BOOLEAN /\ damaged' \in BOOLEAN
      /\ scanout' \in BOOLEAN /\ was_update_requested' \in BOOLEAN
      /\ needs_full_modeset' \in BOOLEAN
      /\ commit' \in {"none", "mode_changed", "flush", "update_ready"}
  BY DEF TypeOK, LibTypeOK, KernelStep, PlaneUpdate, CursorUpdate, CommitStep,
         FlushMode, FlushUpdate
<1> QED
  BY <1>1, <1>3, <1>4 DEF TypeOK, LibTypeOK, KeptOK, TwoBuffers

LEMMA RequestKeepsTypes ==
  ASSUME IInv, TypeInv, RequestNothing \/ request_update \/ grab_pixels
                 \/ AcquireFramebuffer
  PROVE  TypeInv'
<1> USE DEF TypeInv, TypeOK, LibTypeOK, KeptOK, TwoBuffers, Steps
<1>1. CASE RequestNothing
  BY <1>1 DEF RequestNothing
<1>2. CASE request_update
  <2>1. PICK i \in 1..Len(buffers) :
          /\ buffer_requested' = buffers[i]
          /\ evdi_request_update(buffers[i])
    BY <1>2 DEF request_update
  <2>2. buffers[i] \in BufferIds
    OBVIOUS
  <2> QED
    BY <1>2, <2>1, <2>2 DEF request_update, evdi_request_update
<1>3. CASE grab_pixels
  BY <1>3 DEF grab_pixels, evdi_grab_pixels
<1>4. CASE AcquireFramebuffer
  <2>1. buffer_requested \in BufferIds
    BY <1>4 DEF AcquireFramebuffer
  <2>2. KeptOK' /\ Cardinality(kept') <= MaxKept
    <3>1. CASE UNCHANGED kept
      BY <3>1
    <3>2. CASE /\ Cardinality(kept) < MaxKept
               /\ kept' = kept \cup {buffer_requested}
      <4>1. /\ IsFiniteSet(kept')
            /\ Cardinality(kept')
                 \in {Cardinality(kept), Cardinality(kept) + 1}
        BY <3>2, FS_AddElement
      <4> QED
        BY <2>1, <3>2, <4>1, FS_CardinalityType, KeptAssumption
    <3> QED
      BY <1>4, <3>1, <3>2 DEF AcquireFramebuffer
  <2> QED
    BY <1>4, <2>2 DEF AcquireFramebuffer
<1> QED
  BY <1>1, <1>2, <1>3, <1>4

LEMMA EventsKeepTypes ==
  ASSUME EnoughIds, TypeInv,
         SelectTimeout \/ ReadEvents \/ DispatchDone
           \/ default_update_ready_handler \/ card_C_mode_handler
  PROVE  TypeInv'
<1> USE DEF TypeInv, TypeOK, LibTypeOK, KeptOK, TwoBuffers, Steps
<1>1. CASE SelectTimeout
  BY <1>1 DEF SelectTimeout
<1>2. CASE ReadEvents
  BY <1>2, NoEvents DEF ReadEvents
<1>3. CASE DispatchDone
  BY <1>3 DEF DispatchDone
<1>4. ASSUME batch # <<>> /\ batch' = Tail(batch)
      PROVE  batch' \in Seq(EventTypes)
  BY <1>4
<1>5. CASE default_update_ready_handler
  BY <1>4, <1>5 DEF default_update_ready_handler, NextEvent
<1>6. CASE card_C_mode_handler
  <2>1. PICK a, b \in FreshIds :
          /\ a # b /\ buffers' = <<a, b>>
          /\ frameBuffers' = (frameBuffers \ (Listed \ kept)) \cup {a, b}
    BY <1>6, NewBuffers DEF card_C_mode_handler
  <2>2. a \in BufferIds /\ b \in BufferIds
    BY DEF FreshIds
  <2>3. buffers' \in Seq(BufferIds) /\ TwoBuffers'
    BY <2>1, <2>2
  <2>4. frameBuffers' \subseteq BufferIds
    BY <2>1, <2>2
  <2>5. batch' \in Seq(EventTypes)
    BY <1>4, <1>6 DEF card_C_mode_handler, NextEvent
  <2> QED
    BY <1>6, <2>3, <2>4, <2>5 DEF card_C_mode_handler
<1> QED
  BY <1>1, <1>2, <1>3, <1>5, <1>6

LEMMA TypesNext == EnoughIds /\ IInv /\ TypeInv /\ [Next]_vars => TypeInv'
<1> SUFFICES ASSUME EnoughIds, IInv, TypeInv, [Next]_vars PROVE TypeInv'
  OBVIOUS
<1>1. CASE UNCHANGED vars
  BY <1>1 DEF vars, TypeInv, TypeOK, LibTypeOK, KeptOK, TwoBuffers
<1>2. CASE Next
  BY <1>1, <1>2, CallsKeepTypes, ReleaseKeepsTypes, KernelKeepsTypes,
     RequestKeepsTypes, EventsKeepTypes DEF Next, CardStep, Aborted
<1> QED
  BY <1>1, <1>2

LEMMA SpecTypes == ASSUME EnoughIds PROVE Spec => []TypeInv
BY SpecIInv, TypesInit, TypesNext, PTL DEF Spec

\* Card and libevdi keep their types: above all the buffers of a new mode are
\* two different ones that are nobody's.
THEOREM CardTypes == ASSUME EnoughIds PROVE Spec => []TypeOK
<1>1. TypeInv => TypeOK
  BY DEF TypeInv
<1> QED
  BY <1>1, SpecTypes, PTL

-----------------------------------------------------------------------------
(***************************************************************************)
(* An announced update is the one the card waits for, for any consumer and *)
(* any program, unless the card has asked in vain.                         *)
(***************************************************************************)

\* The painter forgets a request with the connection, or the card has asked
\* while it was not connected.
AskedConnected == was_update_requested => is_connected \/ inVain

\* No update was asked for by a card that has no buffers yet.
NoBuffersNoUpdate ==
  buffers = <<>> /\ ~inVain =>
    /\ ~was_update_requested
    /\ ~Carries(events, "update_ready")
    /\ ~Carries(batch, "update_ready")

\* A card that has buffers waits for an update whenever it is not busy with
\* one, if it has found a buffer to ask for.
AlwaysAsks ==
  buffers # <<>> /\ ~inVain /\ pc \in {"idle", "select", "dispatch"} =>
    buffer_requested # NoBuffer

\* A card that is opened again starts without buffers.
ClosedNoBuffers == pc = "closed" => buffers = <<>>

ReadyInv ==
  AskedConnected /\ NoBuffersNoUpdate /\ AlwaysAsks /\ ClosedNoBuffers

LEMMA ReadyInit == Init => ReadyInv
BY NothingCarried
   DEF Init, LibInit, ReadyInv, AskedConnected, NoBuffersNoUpdate, AlwaysAsks,
       ClosedNoBuffers

LEMMA CallsKeepReady ==
  ASSUME IInv, OwedInv, ReadyInv,
         OpenCard \/ connect \/ disconnect
           \/ close \/ handle_events \/ \E id \in kept : Release(id)
  PROVE  ReadyInv'
<1> USE DEF ReadyInv, AskedConnected, NoBuffersNoUpdate, AlwaysAsks,
            ClosedNoBuffers
<1>1. CASE OpenCard
  BY <1>1 DEF OpenCard, evdi_open
<1>2. CASE connect
  BY <1>2 DEF connect, evdi_connect
<1>3. CASE disconnect
  BY <1>3 DEF disconnect, evdi_disconnect, Disconnected
<1>4. CASE close
  <2>1. batch = <<>>
    BY <1>4 DEF close, OwedInv, BatchPlace
  <2>2. was_update_requested' => inVain'
    BY <1>4 DEF close, evdi_close, Disconnected
  <2>3. events' = <<>> /\ batch' = <<>> /\ buffers' = <<>>
    BY <1>4, <2>1 DEF close, evdi_close
  <2> QED
    BY <2>2, <2>3, NothingCarried
<1>5. CASE handle_events
  BY <1>5 DEF handle_events
<1>6. CASE \E id \in kept : Release(id)
  BY <1>6 DEF Release
<1> QED
  BY <1>1, <1>2, <1>3, <1>4, <1>5, <1>6

\* Events are sent to a client that is connected, and an update is announced
\* to one that asked.
LEMMA SendsOnly ==
  ASSUME NEW e \in EventTypes, Send(e), events \in Seq(EventTypes),
         NEW t \in EventTypes, t # e, Carries(events', t)
  PROVE  Carries(events, t)
<1>1. CASE is_connected
  <2>1. events' = Append(events, e)
    BY <1>1 DEF Send
  <2>2. PICK i \in 1..Len(events') : events'[i] = t
    BY DEF Carries
  <2>3. i \in 1..Len(events) /\ events[i] = t
    BY <2>1, <2>2
  <2> QED
    BY <2>3 DEF Carries
<1>2. CASE ~is_connected
  BY <1>2 DEF Send
<1> QED
  BY <1>1, <1>2

LEMMA KernelKeepsReady ==
  ASSUME OwedInv, ReadyInv, KernelStep
  PROVE  ReadyInv'
<1> USE DEF ReadyInv
<1>1. UNCHANGED <<is_connected, cardVars>>
  BY DEF KernelStep, PlaneUpdate, CursorUpdate, CommitStep, FlushMode,
         FlushUpdate
<1>2. was_update_requested' => was_update_requested
  BY DEF KernelStep, PlaneUpdate, CursorUpdate, CommitStep, FlushMode,
         FlushUpdate
<1>3. \/ UNCHANGED events
      \/ Send("mode_changed")
      \/ Send("update_ready") /\ was_update_requested
  BY DEF KernelStep, PlaneUpdate, CursorUpdate, CommitStep, FlushMode,
         FlushUpdate
<1>4. Carries(events', "update_ready") =>
        Carries(events, "update_ready") \/ was_update_requested
  BY <1>3, SendsOnly DEF EventTypes, OwedInv, QueuesOK
<1> QED
  BY <1>1, <1>2, <1>4 DEF AskedConnected, NoBuffersNoUpdate, AlwaysAsks,
                          ClosedNoBuffers

LEMMA RequestKeepsReady ==
  ASSUME IInv, OwedInv, ReadyInv,
         RequestNothing \/ request_update \/ grab_pixels
           \/ AcquireFramebuffer
  PROVE  ReadyInv'
<1> USE DEF ReadyInv, AskedConnected, NoBuffersNoUpdate, AlwaysAsks,
            ClosedNoBuffers
<1>1. CASE RequestNothing
  <2>1. UNCHANGED <<kernelVars, buffers, buffer_requested, batch>>
    BY <1>1 DEF RequestNothing
  <2>2. buffers # <<>> /\ ~inVain' => buffer_requested # NoBuffer
    BY <1>1 DEF RequestNothing
  <2>3. (inVain => inVain') /\ pc' # "closed"
    BY <1>1 DEF RequestNothing
  <2> QED
    BY <2>1, <2>2, <2>3
<1>2. CASE request_update
  <2>1. PICK i \in 1..Len(buffers) :
          /\ IsFirstFree(i)
          /\ buffer_requested' = buffers[i]
          /\ evdi_request_update(buffers[i])
    BY <1>2 DEF request_update
  <2>2. buffers # <<>> /\ buffer_requested' # NoBuffer
    BY <1>2, <2>1 DEF request_update, IsFirstFree, FreeBuffers
  <2>3. /\ UNCHANGED <<is_connected, buffers>>
        /\ (inVain' = (inVain \/ ~is_connected)) /\ pc' # "closed"
    BY <1>2 DEF request_update
  <2> QED
    BY <2>2, <2>3
<1>3. CASE grab_pixels
  BY <1>3 DEF grab_pixels
<1>4. CASE AcquireFramebuffer
  BY <1>4 DEF AcquireFramebuffer
<1> QED
  BY <1>1, <1>2, <1>3, <1>4

LEMMA EventsKeepReady ==
  ASSUME OwedInv, ReadyInv,
         SelectTimeout \/ ReadEvents \/ DispatchDone
           \/ default_update_ready_handler \/ card_C_mode_handler
  PROVE  ReadyInv'
<1> USE DEF ReadyInv, AskedConnected, NoBuffersNoUpdate, AlwaysAsks,
            ClosedNoBuffers
<1>1. CASE SelectTimeout
  BY <1>1 DEF SelectTimeout
<1>2. CASE ReadEvents
  BY <1>2, NothingCarried DEF ReadEvents
<1>3. CASE DispatchDone
  BY <1>3 DEF DispatchDone
<1>4. ASSUME batch # <<>>, batch' = Tail(batch)
      PROVE  Carries(batch', "update_ready") => Carries(batch, "update_ready")
  BY <1>4, TailCarried DEF OwedInv, QueuesOK
<1>5. CASE default_update_ready_handler
  BY <1>4, <1>5 DEF default_update_ready_handler, NextEvent
<1>6. CASE card_C_mode_handler
  <2>1. buffers' # <<>>
    <3>1. PICK a, b : buffers' = <<a, b>>
      BY <1>6 DEF card_C_mode_handler, makeBuffers
    <3> QED
      BY <3>1
  <2>2. pc' = "request" /\ UNCHANGED kernelVars
        /\ (inVain' = (inVain /\ ~is_connected))
    BY <1>6 DEF card_C_mode_handler
  <2> QED
    BY <2>1, <2>2
<1> QED
  BY <1>1, <1>2, <1>3, <1>5, <1>6

LEMMA ReadyNext == IInv /\ OwedInv /\ ReadyInv /\ [Next]_vars => ReadyInv'
<1> SUFFICES ASSUME IInv, OwedInv, ReadyInv, [Next]_vars
             PROVE  ReadyInv'
  OBVIOUS
<1>1. CASE UNCHANGED vars
  BY <1>1 DEF vars, ReadyInv, AskedConnected, NoBuffersNoUpdate, AlwaysAsks,
              ClosedNoBuffers
<1>2. CASE Next
  BY <1>1, <1>2, CallsKeepReady, KernelKeepsReady, RequestKeepsReady,
     EventsKeepReady DEF Next, CardStep, Aborted
<1> QED BY <1>1, <1>2

\* What the assertion of default_update_ready_handler (Card.cpp:13) rests on:
\* through new modes, which replace the buffers while an update is
\* outstanding, disconnects and new sessions, an announced update is the one
\* the card waits for, unless it has found no free buffer or has asked while
\* disconnected since it last got new ones.
THEOREM UpdatesAreForRequests == Spec => []UpdateReadyIsForRequested
<1>1. IInv /\ OwedInv /\ ReadyInv => UpdateReadyIsForRequested
  <2> SUFFICES ASSUME IInv, OwedInv, ReadyInv, NextEvent("update_ready"),
                      ~inVain
               PROVE  IsForRequested
    BY DEF UpdateReadyIsForRequested
  <2>1. Carries(batch, "update_ready")
    <3>1. 1 \in 1..Len(batch) /\ batch[1] = "update_ready"
      BY DEF NextEvent, OwedInv, QueuesOK
    <3> QED
      BY <3>1 DEF Carries
  <2>2. buffers # <<>> /\ pc = "dispatch"
    BY <2>1 DEF ReadyInv, NoBuffersNoUpdate, NextEvent
  <2>3. buffer_requested # NoBuffer
    BY <2>2 DEF ReadyInv, AlwaysAsks
  <2> QED
    BY <2>3 DEF IsForRequested
<1>2. Spec => []ReadyInv
  BY SpecIInv, SpecOwed, ReadyInit, ReadyNext, PTL DEF Spec
<1> QED
  BY <1>1, <1>2, SpecIInv, SpecOwed, PTL
=============================================================================
