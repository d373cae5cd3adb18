---------------------------- MODULE MCSpdkAgent ----------------------------
(***************************************************************************)
(* SPDK has a volume, or a snapshot, x when the agent is first started.      *)
(***************************************************************************)
EXTENDS SpdkAgent

CONSTANTS x, y

MCIdents == {x, y}
MCInstallations ==
    {<<[ident |-> x, snapshot |-> s, source |-> 0]>> : s \in BOOLEAN}
=============================================================================
