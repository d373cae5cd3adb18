----------------------------- MODULE ComputeBmc -----------------------------
(***************************************************************************)
(* One sled of the compute agent (agent/compute/src/status/bmc.cpp): the   *)
(* BMC state machine, the resources discovered behind the BMC, and the     *)
(* self-rescheduling PeriodicDiscovery tasks.  update_state() and every    *)
(* PeriodicDiscovery run on the one worker thread of the BMC, so each is   *)
(* one atomic step; the hardware changes between them.                     *)
(***************************************************************************)
EXTENDS BmcStateMachine, Sequences, FiniteSets

CONSTANTS
    Indicators,   \* values of the MDR region update count and checksum
    Unread,       \* an indicator that was never read: an empty OptionalField
    MaxChanges,   \* bound on the number of hardware changes
    MaxFaults     \* bound on the number of failed IPMI dialogues

ASSUME BoundsAssumption ==
    /\ Indicators # {}
    /\ Unread \notin Indicators
    /\ MaxChanges \in Nat
    /\ MaxFaults \in Nat

VARIABLES
    mdr,         \* update indicators the BMC would report for each MDR region
    iface,       \* m_interface.has_value(): set by on_become_online
    managerUuid, \* m_manager_uuid is not empty
    telemetry,   \* m_telemetry_service is not null
    tree,        \* kinds of resources of this BMC in the agent's tables
    status,      \* State of the manager and chassis entries
    chains,      \* saved indicators of each scheduled PeriodicDiscovery
    told,        \* what a receiver that applies every sent event holds
    missed,      \* a discovery failed since the last successful one
    changes,     \* hardware changes so far
    faults       \* failed IPMI dialogues so far

bmcVars == <<iface, managerUuid, telemetry, tree, status, chains, told, missed>>
allVars == <<vars, mdr, bmcVars, changes, faults>>

(***************************************************************************)
(* The resource tables, grouped by what is removed together: "zone" stands *)
(* for thermal zones, fans, power zones and drives, "part" for             *)
(* processors, memory, network interfaces and devices, storage subsystems  *)
(* and trusted modules, "domain" for memory domains and chunks, "pcie" for *)
(* PCIe devices and functions, "log" for the SEL log service.              *)
(***************************************************************************)
SystemKinds == {"system", "part", "domain"}
ManagerKinds == SystemKinds \union {"manager", "chassis", "zone", "pcie", "log"}
Kinds == ManagerKinds \union {"metric"}

(* remove_systems: everything below a system that it names, and the system *)
RemovedWithSystems == {"system", "part"}

(* remove_manager: systems, chassis, PCIe devices, then the manager entry  *)
RemovedWithManager == RemovedWithSystems \union {"chassis", "zone", "pcie", "manager"}

(* ~TelemetryService removes the metrics it created *)
RemovedWithTelemetry == {"metric"}

(* The MDR regions whose update indicators decide when to discover *)
Regions == {"SMBIOS_TABLE", "ACPI_TABLE"}

-----------------------------------------------------------------------------
BmcInit ==
    /\ Init
    /\ mdr \in [Regions -> Indicators]
    /\ iface = FALSE
    /\ managerUuid = FALSE
    /\ telemetry = FALSE
    /\ tree = {}
    /\ status = "Enabled"
    /\ chains = <<>>
    /\ told = {}
    /\ missed = FALSE
    /\ changes = 0
    /\ faults = 0

(***************************************************************************)
(* The sled is moved, its BMC is reset, or the host reboots with another   *)
(* memory or device configuration (new indicators).                        *)
(***************************************************************************)
HardwareChange ==
    /\ changes < MaxChanges
    /\ changes' = changes + 1
    /\ \/ Hardware /\ hwVars' # hwVars /\ UNCHANGED mdr
       \/ (\E r \in Regions : \E n \in Indicators \ {mdr[r]} : mdr' = [mdr EXCEPT ![r] = n])
          /\ UNCHANGED vars
    /\ UNCHANGED <<bmcVars, faults>>

(***************************************************************************)
(* An IPMI dialogue that ends in an exception uses up one fault.           *)
(***************************************************************************)
Dialogue(ok) ==
    /\ ok \/ faults < MaxFaults
    /\ faults' = IF ok THEN faults ELSE faults + 1

(***************************************************************************)
(* A new PeriodicDiscovery has saved no indicators yet.                    *)
(***************************************************************************)
FirstSavedCurrent == mdr
FirstSaved == [r \in Regions |-> Unread]

(***************************************************************************)
(* on_become_online: a BMC whose interface cannot be read or is of an      *)
(* unsupported platform goes ONLINE without telemetry and discovery.       *)
(***************************************************************************)
OnBecomeOnline(ok) ==
    /\ Dialogue(ok)
    /\ iface' = ok
    /\ telemetry' = (ok \/ telemetry)
    /\ chains' = IF ok THEN Append(chains, FirstSaved) ELSE chains
    /\ UNCHANGED <<managerUuid, tree, status, told, missed>>

(***************************************************************************)
(* on_extraction: remove_manager sends a Remove event for every system and *)
(* chassis entry and, unconditionally, one for the manager uuid.           *)
(***************************************************************************)
OnExtraction ==
    /\ tree' = tree \ ((IF managerUuid THEN RemovedWithManager ELSE {})
                       \union RemovedWithTelemetry)
    /\ told' = told \ (IF managerUuid THEN ManagerKinds ELSE {})
    /\ iface' = FALSE
    /\ telemetry' = FALSE
    /\ UNCHANGED <<managerUuid, status, chains, missed, faults>>

(***************************************************************************)
(* update_status throws, changing nothing, if the manager is not in its    *)
(* table.                                                                  *)
(***************************************************************************)
OfflineStatusKept == status
OfflineStatus == IF "manager" \in tree THEN "UnavailableOffline" ELSE status

(***************************************************************************)
(* on_become_offline: telemetry goes first, then the systems with their    *)
(* Remove events; an exception of update_status is caught here.            *)
(***************************************************************************)
OnBecomeOffline ==
    /\ telemetry' = FALSE
    /\ tree' = tree \ ((IF managerUuid THEN RemovedWithSystems ELSE {})
                       \union RemovedWithTelemetry)
    /\ told' = told \ (IF "system" \in tree THEN SystemKinds ELSE {})
    /\ status' = OfflineStatus
    /\ UNCHANGED <<iface, managerUuid, chains, missed, faults>>

(***************************************************************************)
(* The state_update task: update_state() with the compute agent's actions, *)
(* none of which returns false or throws.                                  *)
(***************************************************************************)
StateUpdate ==
    /\ UpdateStateWith("true", "true")
    /\ CASE state' = "ONLINE" /\ state # "ONLINE"  -> \E ok \in BOOLEAN : OnBecomeOnline(ok)
         [] state' = "ABSENT" /\ state # "ABSENT"  -> OnExtraction
         [] state' = "OFFLINE" /\ state = "ONLINE" -> OnBecomeOffline
         [] OTHER                                  -> UNCHANGED <<bmcVars, faults>>
    /\ UNCHANGED <<mdr, changes>>

-----------------------------------------------------------------------------
(***************************************************************************)
(* add_or_update sends Add for a manager and for a system that             *)
(* add_or_update_entry reports as Added, for no other kind.                *)
(***************************************************************************)
AddEventsOnlyFirst == IF managerUuid THEN {} ELSE {"system", "manager"}
AddEvents == {"system", "manager"} \ tree

(***************************************************************************)
(* DiscoveryManager::discover: talks to the BMC first, so an exception     *)
(* leaves the tables alone; then fills the tables, the metrics only if     *)
(* there is a telemetry service, and sends the events.                     *)
(***************************************************************************)
Discover(ok) ==
    IF ok
    THEN /\ tree' = tree \union ManagerKinds \union (IF telemetry THEN {"metric"} ELSE {})
         /\ status' = "Enabled"
         /\ told' = told \union AddEvents
         /\ managerUuid' = TRUE
         /\ missed' = FALSE
    ELSE /\ missed' = TRUE
         /\ UNCHANGED <<tree, status, told, managerUuid>>

Without(s, i) == SubSeq(s, 1, i - 1) \o SubSeq(s, i + 1, Len(s))

(***************************************************************************)
(* What a run that could read the indicators of the regions rs leaves in   *)
(* the worker's queue when the BMC is ONLINE (itself, with the indicators  *)
(* it has just read) and when it is not (nothing).                         *)
(***************************************************************************)
RescheduledOnFailure(i, rs) ==
    IF rs = Regions THEN Without(chains, i)
    ELSE [chains EXCEPT ![i] = [r \in Regions |-> IF r \in rs THEN mdr[r] ELSE @[r]]]
Rescheduled(i, rs) ==
    [chains EXCEPT ![i] = [r \in Regions |-> IF r \in rs THEN mdr[r] ELSE @[r]]]

Finished(i) == Without(chains, i)

RegionUpdated(i, r) == chains[i][r] # mdr[r]

(***************************************************************************)
(* One run of the i-th scheduled PeriodicDiscovery.  The indicators are    *)
(* saved before the discovery they cause; a run that does not find the BMC *)
(* ONLINE does not reschedule itself.  A run left over from an earlier     *)
(* online period may discover through an m_interface that is empty: what   *)
(* `*bmc.get_interface()' yields then is undefined, and so is the outcome. *)
(***************************************************************************)
PeriodicDiscovery(i) ==
    /\ IF state = "ONLINE"
       THEN \E rs \in SUBSET Regions, ok \in BOOLEAN :
                LET changed == \E r \in rs : RegionUpdated(i, r) IN
                /\ Dialogue(rs = Regions /\ (changed /\ iface => ok))
                /\ chains' = Rescheduled(i, rs)
                /\ IF changed THEN Discover(ok)
                   ELSE UNCHANGED <<tree, status, told, managerUuid, missed>>
       ELSE /\ chains' = Finished(i)
            /\ UNCHANGED <<tree, status, told, managerUuid, missed, faults>>
    /\ UNCHANGED <<vars, mdr, iface, telemetry, changes>>

RunDiscovery == \E i \in DOMAIN chains : PeriodicDiscovery(i)

BmcNext == HardwareChange \/ StateUpdate \/ RunDiscovery

(***************************************************************************)
(* Both are tasks of the BMC's worker thread, whose queue runs every task  *)
(* that becomes due.                                                       *)
(***************************************************************************)
BmcFairness ==
    /\ WF_allVars(StateUpdate)
    /\ \A i \in 1..(MaxChanges + 1) : WF_allVars(i \in DOMAIN chains /\ PeriodicDiscovery(i))

BmcSpec == BmcInit /\ [][BmcNext]_allVars /\ BmcFairness
-----------------------------------------------------------------------------
BmcTypeOK ==
    /\ TypeOK
    /\ mdr \in [Regions -> Indicators]
    /\ iface \in BOOLEAN /\ managerUuid \in BOOLEAN /\ telemetry \in BOOLEAN
    /\ tree \subseteq Kinds
    /\ status \in {"Enabled", "UnavailableOffline"}
    /\ chains \in Seq([Regions -> Indicators \union {Unread}])
    /\ told \subseteq {"manager", "system"}
    /\ missed \in BOOLEAN
    /\ changes \in 0..MaxChanges
    /\ faults \in 0..MaxFaults

(***************************************************************************)
(* The agent shows a system, its parts and its metrics only while the BMC  *)
(* is ONLINE, and shows a manager and chassis only while it is not ABSENT, *)
(* and then never as Enabled when the BMC does not answer.  Only the log   *)
(* service and the memory domains may outlive an extraction: no            *)
(* remove_* function of bmc.cpp names them.                                *)
(***************************************************************************)
TreeMatchesState ==
    /\ state # "ONLINE" => tree \intersect (RemovedWithSystems \union RemovedWithTelemetry) = {}
    /\ state = "ABSENT" => tree \subseteq {"log", "domain"}
    /\ state = "OFFLINE" /\ "manager" \in tree => status = "UnavailableOffline"

(***************************************************************************)
(* The events that on_become_offline, on_extraction and discover() send    *)
(* are enough to follow the tables: a receiver that applies them in order  *)
(* knows a manager or a system exactly when the agent has it.              *)
(***************************************************************************)
EventsFollowTree == told = tree \intersect {"manager", "system"}

(***************************************************************************)
(* A BMC that went ONLINE with a readable interface always has a           *)
(* PeriodicDiscovery scheduled, however often it went offline and online   *)
(* while older runs were still queued.                                     *)
(***************************************************************************)
Monitored == state = "ONLINE" /\ iface => chains # <<>>

(***************************************************************************)
(* An ONLINE BMC with a readable interface is eventually discovered, or it *)
(* leaves ONLINE, or a discovery failed: PeriodicDiscovery saved the       *)
(* indicators before the failure and does not try again by itself.         *)
(***************************************************************************)
OnlineGetsDiscovered ==
    (state = "ONLINE" /\ iface) ~> ("system" \in tree \/ state # "ONLINE" \/ missed)

(***************************************************************************)
(* Once the hardware stops changing, the machine settles in the state that *)
(* describes it: no sample is lost between the flags and the transitions.  *)
(***************************************************************************)
SettlesOnHardware == <>[]Settled
=============================================================================
