--------------------------- MODULE EventLifecycle ---------------------------
(***************************************************************************)
(* The life of an event as the comments of event-service tell it: a draft  *)
(* is published once, a draft or a published event may be cancelled,       *)
(* nothing comes back from there, and only an event that is not live may   *)
(* be deleted, for good.  The code has no operation that starts or         *)
(* completes an event.                                                     *)
(***************************************************************************)
CONSTANTS Event, None

VARIABLE status     \* [Event -> status, None before creation, "deleted" after]

Becomes(e, from, to) ==
    /\ status[e] \in from
    /\ status' = [status EXCEPT ![e] = to]

Init == status \in [Event -> {None, "draft", "published"}]

Next ==
    \E e \in Event :
        \/ Becomes(e, {None}, "draft")
        \/ Becomes(e, {"draft"}, "published")
        \/ Becomes(e, {"draft", "published"}, "cancelled")
        \/ Becomes(e, {"draft", "cancelled"}, "deleted")

Spec == Init /\ [][Next]_status

=============================================================================
