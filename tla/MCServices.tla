------------------------------ MODULE MCServices ------------------------------
(* Small instances of the card reader library and of the upgrade manager   *)
(* for TLC, with the fairness their modules state.                         *)
EXTENDS Services, TLC

CONSTANTS t1, t2

(* t1 executes commands, t2 does everything else.                          *)
MCFunctions == (t1 :> {"execute"}) @@ (t2 :> {"connect", "disconnect", "cancel"})

(* Versions that differ in the first or in the second number.              *)
MCVersions ==
    { [major |-> 1, minor |-> 0, point |-> 0],
      [major |-> 2, minor |-> 0, point |-> 0],
      [major |-> 1, minor |-> 1, point |-> 0] }

(* The fairness CardLink, CardManager, CardUpdate and UpgradeManager state:*)
(* one component moves, so that a condition on a disjunction is one on     *)
(* each part of it.                                                        *)
FairSpec ==
    /\ Spec
    /\ WF_vars(\/ Of("link", Link!Reader) \/ Of("manager", Manager!Delivery)
               \/ Of("update", Update!Working) \/ Of("upgrade", Upgrade!Manager))
    /\ SF_vars(Of("link", Link!Going(t1)) \/ Of("manager", Manager!Manager))
    /\ SF_vars(Of("link", Link!Going(t2)) \/ Of("manager", Manager!Acquire))
    /\ \A s \in Sessions :
         WF_vars(Of("upgrade", Upgrade!sendConnType(s) \/ Upgrade!svsUpgradeUninit(s)))

(* Calls to the reader, commands to its thread, updates and requests to    *)
(* the upgrade manager come to an end.                                     *)
ServicesEnd == Link!CallsEnd /\ Manager!Managed /\ Update!UpdateEnds /\ Upgrade!Read
=============================================================================
