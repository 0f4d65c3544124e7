------------------------------ MODULE MCCards ------------------------------
(***************************************************************************)
(* Cards on a small instance.  Two USB devices are needed for a link to the*)
(* wrong one, two handles for the library's table; TLC explores both, but  *)
(* not both at once.                                                       *)
(***************************************************************************)
EXTENDS Cards, TLC

CONSTANT Docked  \* USB devices that are not unplugged

\* A device is linked to q, or a writer or a program is about to link one.
InUse(q) ==
  \/ \E s \in Slots : q \in {link[s], parent[s]}
  \/ \E a \in Writers : thread[a].want = q
  \/ \E a \in Clients : call[a].want = q

\* The docked devices are in use only while no program has a card open or
\* searches for one.  (Both writers go on adding devices for any parent.)
Bounded ==
  /\ Docked \subseteq present
  /\ \/ \A a \in Clients :
          OpenHandles(a) = {} /\ call[a].pc \in {"idle", "add"}
     \/ \A q \in Docked : ~InUse(q)
=============================================================================
