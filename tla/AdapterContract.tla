-------------------------- MODULE AdapterContract --------------------------
(***************************************************************************)
(* What a subscriber may rely on: the publications of one session of the   *)
(* Rust adapter and the order they come in, without the bus, the broker    *)
(* and the errors.  A session announces its modules, gives the system      *)
(* parameters and the management info of each, and then, cycle after       *)
(* cycle, one stack state made of all modules before the state of any.     *)
(* Nothing that is published for a module comes from elsewhere.            *)
(***************************************************************************)
CONSTANTS Module,   \* the addresses a module may have
          DataKind  \* "system", "management", "values"

VARIABLES
    members,    \* the modules of the session; {} between sessions
    announced,  \* those whose discovery has been published
    shown,      \* for each kind and module: "nothing", its "own", "foreign"
    stack       \* the modules that the last stack state is made of

promise == <<members, announced, shown, stack>>

Blank == [k \in DataKind |-> [m \in Module |-> "nothing"]]

\* Has this kind been published for every member?
Complete(k) == \A m \in members : shown[k][m] = "own"

Init == members = {} /\ announced = {} /\ shown = Blank /\ stack = {}

Begin ==
    /\ members = {}
    /\ members' \in (SUBSET Module) \ {{}}
    /\ UNCHANGED <<announced, shown, stack>>

Announce(m) ==
    /\ m \in members \ announced
    /\ announced' = announced \cup {m}
    /\ UNCHANGED <<members, shown, stack>>

Show(k, m) ==
    /\ m \in members
    /\ shown' = [shown EXCEPT ![k][m] = "own"]
    /\ UNCHANGED <<members, announced, stack>>

ShowSystem(m) == announced = members /\ stack = {} /\ Show("system", m)

ShowManagement(m) == Complete("system") /\ Show("management", m)

PublishStack ==
    /\ members # {} /\ announced = members
    /\ Complete("system") /\ Complete("management")
    /\ stack' = members
    /\ UNCHANGED <<members, announced, shown>>

ShowState(m) == stack = members /\ Show("values", m)

End ==
    /\ members' = {} /\ announced' = {} /\ shown' = Blank /\ stack' = {}

Next ==
    \/ Begin \/ PublishStack \/ End
    \/ \E m \in Module : Announce(m) \/ ShowSystem(m) \/ ShowManagement(m) \/ ShowState(m)

Spec == Init /\ [][Next]_promise
=============================================================================
