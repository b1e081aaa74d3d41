----------------------------- MODULE GatewayStart -----------------------------
(***************************************************************************)
(* How a gateway comes to serve (src/src/gateway/config.rs and             *)
(* GatewayServer::start): the configuration is loaded, every upstream is   *)
(* spawned and initialised, then each lists its tools; any failure ends    *)
(* the start.  Whether a call of a tool is gated later depends on nothing  *)
(* but the tables this leaves behind.                                      *)
(***************************************************************************)
EXTENDS Naturals, Sequences, FiniteSets, Functions

CONSTANTS
    Tools,       \* tool names
    R2RTools,    \* the names that start with CONTROL_PLANE_PREFIX
    Configs      \* the configurations: a sequence of upstreams each

(* What an upstream will list is its own affair; it may even repeat a tool. *)
UpstreamConfig == [controlPlane: BOOLEAN, tools: Seq(Tools)]
ASSUME ToolsAssumption == R2RTools \subseteq Tools
ASSUME ConfigsAssumption == Configs \subseteq Seq(UpstreamConfig)

VARIABLES
    config,        \* the upstreams of the file
    phase,         \* "loading", "connecting", "listing", "serving", "aborted"
    upstreams,     \* how many are connected
    controlPlane,  \* the index of the control plane, 0 for none
    listed,        \* how many have listed their tools
    owners,        \* tool name to upstream index
    catalog        \* the merged catalog

connection == <<upstreams, controlPlane>>
tables == <<listed, owners, catalog>>
startVars == <<config, phase, connection, tables>>

StartInit ==
    /\ config \in Configs
    /\ phase = "loading"
    /\ upstreams = 0 /\ controlPlane = 0
    /\ listed = 0 /\ owners = <<>> /\ catalog = <<>>

-----------------------------------------------------------------------------
(* Seeded fault: the number of control planes is not checked. *)
AnyControlPlanes == TRUE
AtMostOneControlPlane ==
    Cardinality({i \in 1..Len(config): config[i].controlPlane}) <= 1

Load ==
    /\ phase = "loading"
    /\ phase' = IF AtMostOneControlPlane THEN "connecting" ELSE "aborted"
    /\ UNCHANGED <<config, connection, tables>>

Index == upstreams + 1

Connect ==
    /\ phase = "connecting"
    /\ upstreams < Len(config)
    /\ upstreams' = upstreams + 1
    /\ controlPlane' = IF config[upstreams'].controlPlane THEN Index ELSE controlPlane
    /\ UNCHANGED <<config, phase, tables>>

AllConnected ==
    /\ phase = "connecting"
    /\ upstreams = Len(config)
    /\ phase' = "listing"
    /\ UNCHANGED <<config, connection, tables>>

(* A spawn, an initialisation or a listing fails, or initialising times out. *)
UpstreamFails ==
    /\ \/ phase = "connecting" /\ upstreams < Len(config)
       \/ phase = "listing" /\ listed < upstreams
    /\ phase' = "aborted"
    /\ UNCHANGED <<config, connection, tables>>

(* Seeded fault: a name that is already owned is taken over. *)
NeverCollides(tools) == FALSE
Collides(tools) ==
    \/ Range(tools) \cap DOMAIN owners /= {}
    \/ ~IsInjective(tools)

ListTools ==
    /\ phase = "listing"
    /\ listed < upstreams
    /\ LET tools == config[listed + 1].tools
       IN  IF Collides(tools)
           THEN phase' = "aborted" /\ UNCHANGED tables
           ELSE /\ listed' = listed + 1
                /\ owners' = [t \in Range(tools) \cup DOMAIN owners |->
                                 IF t \in Range(tools) THEN listed + 1 ELSE owners[t]]
                /\ catalog' = catalog \o tools
                /\ UNCHANGED phase
    /\ UNCHANGED <<config, connection>>

AllListed ==
    /\ phase = "listing"
    /\ listed = upstreams
    /\ phase' = "serving"
    /\ UNCHANGED <<config, connection, tables>>

StartNext == Load \/ Connect \/ AllConnected \/ UpstreamFails \/ ListTools \/ AllListed

StartSpec == StartInit /\ [][StartNext]_startVars

(* Seeded fault: the name alone makes a tool part of the governance surface. *)
IsControlPlaneToolByName(tool) == tool \in R2RTools
IsControlPlaneTool(tool) ==
    tool \in R2RTools /\ controlPlane /= 0 /\ owners[tool] = controlPlane

(* What call_tool does first with a call of the tool. *)
Route(tool) ==
    IF tool \notin DOMAIN owners THEN "unknown"
    ELSE IF IsControlPlaneTool(tool) THEN "passing" ELSE "gated"

-----------------------------------------------------------------------------
Lists(i, tool) == tool \in Range(config[i].tools)

(* Every variable keeps its type. *)
StartTypeOK ==
    /\ config \in Configs
    /\ phase \in {"loading", "connecting", "listing", "serving", "aborted"}
    /\ upstreams \in 0..Len(config)
    /\ controlPlane \in 0..upstreams
    /\ listed \in 0..upstreams
    /\ DOMAIN owners \subseteq Tools /\ Range(owners) \subseteq 1..listed
    /\ Range(catalog) \subseteq Tools

(* No upstream can smuggle a call past the gate: in a gateway that serves,  *)
(* a tool goes ungated only if it has a governance name and the upstream    *)
(* that the file alone marks as control plane is the only one to list it.   *)
UngatedIsGovernance ==
    phase = "serving" => \A tool \in Tools: Route(tool) = "passing" =>
        /\ tool \in R2RTools
        /\ \A i \in 1..Len(config): config[i].controlPlane <=> Lists(i, tool)

(* "Tool name collisions fail closed at startup" (GatewayServer): whatever  *)
(* the catalog of a serving gateway offers was listed once, by the upstream *)
(* its calls will go to; and nothing listed is missing.                     *)
CatalogIsRouted ==
    phase = "serving" =>
        /\ Range(catalog) = DOMAIN owners
        /\ Len(catalog) = Cardinality(DOMAIN owners)
        /\ \A tool \in Tools, i \in 1..Len(config):
             Lists(i, tool) <=> (tool \in DOMAIN owners /\ owners[tool] = i)
=============================================================================
