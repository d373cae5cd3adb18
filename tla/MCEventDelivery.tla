-------------------------- MODULE MCEventDelivery --------------------------
(***************************************************************************)
(* EventDelivery for TLC: a single event, and a batch in which events have *)
(* the same origin and type.  Events that are otherwise alike are told     *)
(* apart by their text.                                                    *)
(***************************************************************************)
EXTENDS EventDelivery, TLC

CONSTANTS o1, o2

Event(o, t, text) == [origin |-> o, type |-> t, text |-> text]
MCBatches == {
    <<Event(o1, "Removed", 1)>>,
    <<Event(o1, "Added", 1), Event(o1, "Removed", 1), Event(o2, "Added", 1), Event(o1, "Added", 2)>>}
MCFilters == {
    [types |-> {"Added", "Removed"}, origins |-> {}],
    [types |-> {"Added"}, origins |-> {o1}]}
============================================================================
