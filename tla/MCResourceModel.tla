-------------------------- MODULE MCResourceModel --------------------------
(***************************************************************************)
(* Instances of ResourceModel for TLC: a manager with a system, which has  *)
(* two processors.  Managers and systems have URLs of their own, the URL   *)
(* of a processor contains its system's.                                   *)
(***************************************************************************)
EXTENDS ResourceModel, TLC

CONSTANTS m, s, p1, p2

MCUuids == {m, s, p1, p2}
MCKinds == {"Manager", "System", "Processor"}
MCKind == m :> "Manager" @@ s :> "System" @@ p1 :> "Processor" @@ p2 :> "Processor"
MCTopKinds == {"Manager", "System"}
MCParent == m :> Root @@ s :> m @@ p1 :> s @@ p2 :> s
MCPath == m :> {m} @@ s :> {m, s} @@ p1 :> {m, s, p1} @@ p2 :> {m, s, p2}

============================================================================
