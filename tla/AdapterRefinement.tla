------------------------- MODULE AdapterRefinement -------------------------
(***************************************************************************)
(* AdapterSession keeps the promise of AdapterContract.  Between a failure *)
(* and the end of the next scan a session has published nothing.           *)
(***************************************************************************)
EXTENDS AdapterSession

InTouch == phase \in InSession

\* What the topic of kind k holds for module a.
Content(k, a) ==
    CASE topic[k][a] = None -> "nothing"
      [] topic[k][a] = Own(a, k) -> "own"
      [] OTHER -> "foreign"

\* The variables of AdapterContract.
Members == IF InTouch THEN modules ELSE {}
Known == IF InTouch THEN {a \in Address : announced[a] # <<None, None>>} ELSE {}
Shown == [k \in DataKinds |-> [a \in Address |-> IF InTouch THEN Content(k, a) ELSE "nothing"]]
Stacked == IF InTouch THEN {r.addr : r \in stack} ELSE {}

Contract == INSTANCE AdapterContract WITH
    Module <- Address, DataKind <- DataKinds,
    members <- Members, announced <- Known, shown <- Shown, stack <- Stacked

(* Discovery of all modules, then system parameters, then management info  *)
(* precede the first telemetry of a session; every stack state is made of  *)
(* all modules of the session; and no topic ever carries the data of       *)
(* another module or of another request (run_session_inner).               *)
KeepsContract == Contract!Spec
=============================================================================
