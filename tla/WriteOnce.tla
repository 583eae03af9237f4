------------------------------ MODULE WriteOnce ------------------------------
(***************************************************************************)
(* What the artifact store promises its callers: a path is bound to one    *)
(* reference, once, and only references that are bound are handed out.     *)
(***************************************************************************)
CONSTANTS Paths, Refs, NoRef

VARIABLES
  bound,     \* the reference each path stands for
  handedOut  \* references some caller has been given

Init ==
  /\ bound = [p \in Paths |-> NoRef]
  /\ handedOut = {}

Bind(r) ==
  /\ bound[r.path] = NoRef
  /\ bound' = [bound EXCEPT ![r.path] = r]
  /\ UNCHANGED handedOut

HandOut(r) ==
  /\ bound[r.path] = r
  /\ handedOut' = handedOut \union {r}
  /\ UNCHANGED bound

Next == \E r \in Refs : Bind(r) \/ HandOut(r)

Spec == Init /\ [][Next]_<<bound, handedOut>>
=============================================================================
