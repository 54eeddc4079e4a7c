---------------------------- MODULE Reachability ----------------------------
(***************************************************************************)
(* What a control flow traversal promises: it discovers, one at a time,    *)
(* places that are reachable from its entry, never one that is not, and    *)
(* it ends only when the places discovered are closed under Successors.    *)
(***************************************************************************)
VARIABLES
  entry,       \* where the traversal starts
  successors,  \* successors[n]: the places control may go to from n
  found,       \* the places discovered so far
  ended        \* the traversal has ended with a result

vars == <<entry, successors, found, ended>>

Closed(S) == entry \in S /\ \A n \in S : successors[n] \subseteq S

Init ==
  /\ found = {}
  /\ ended = FALSE

Discover ==
  /\ ~ended
  /\ \E n \in {entry} \cup UNION {successors[m] : m \in found} :
       found' = found \cup {n}
  /\ UNCHANGED <<entry, successors, ended>>

End ==
  /\ ~ended /\ ended'
  /\ Closed(found)
  /\ UNCHANGED <<entry, successors, found>>

Next == Discover \/ End

Spec == Init /\ [][Next]_vars
=============================================================================
