------------------------------- MODULE Bridges -------------------------------
(***************************************************************************)
(* The configuration variable of the tools (uberspark_config.ml) and the   *)
(* three build bridges it names (uberspark_bridge*.ml): compiler,          *)
(* assembler and linker.  Both are global variables of one process; the    *)
(* builders overlay the configuration with settings of a manifest, save    *)
(* and restore it, and reload the bridges from it.                         *)
(***************************************************************************)
EXTENDS Naturals

CONSTANTS
    Bridge,         \* bridges that a setting may name
    Unspecified,    \* the setting is the empty string
    Keep, Illtyped, \* in a manifest: no such field; a field of the wrong type
    NoSettings,     \* a manifest without a configuration node
    NoBridge, Mixed \* nothing loaded yet; a load gave up half way

ASSUME BridgesAssumption ==
    /\ Unspecified \notin Bridge
    /\ {Keep, Illtyped} \cap (Bridge \cup {Unspecified}) = {}
    /\ Keep # Illtyped
    /\ {NoBridge, Mixed} \cap (Bridge \cup {Unspecified}) = {}
    /\ NoBridge # Mixed

VARIABLES
    config,     \* json_node_uberspark_config_var, its three bridge settings
    saved,      \* saved_json_node_uberspark_config_var
    bridge,     \* json_node_uberspark_bridge_{cc,as,ld}_var
    initAt,     \* where initialize_from_config is: <<kind, phase>>
    initRet,    \* its local variable retval, its result once it has returned
    complete    \* its last call loaded and built all three bridges (history)

bridgeVars == <<config, saved, bridge, initAt, initRet, complete>>

Kind == {"cc", "as", "ld"}
Position == [cc |-> 1, as |-> 2, ld |-> 3]
Config == [Kind -> Bridge \cup {Unspecified}]
\* A configuration node of a manifest: some of the settings, parsed in order.
Settings == [Kind -> Bridge \cup {Unspecified, Keep, Illtyped}]
InitLocation == (Kind \X {"load", "build"}) \cup {<<"none", "returned">>}
Returned == initAt = <<"none", "returned">>

---------------------------------------------------------------------------
(* json_node_uberspark_config_to_var *)

WellTyped(s) == \A k \in Kind : s[k] # Illtyped

\* Mutant of Overlaid: fields are taken whatever their type.
OverlaidRaw(c, s) == [k \in Kind |-> IF s[k] # Keep THEN s[k] ELSE c[k]]

\* Fields are assigned one by one up to the first of a wrong type.
Overlaid(c, s) ==
    LET reached(k) == \A j \in Kind : Position[j] <= Position[k] => s[j] # Illtyped
    IN  [k \in Kind |-> IF s[k] # Keep /\ reached(k) THEN s[k] ELSE c[k]]

\* The configuration is saved as it is by then.
SettingsSave == saved' = config'
SettingsRestore == config' = saved

---------------------------------------------------------------------------
(* initialize_from_config: load and build cc, then as, then ld *)

BridgesInit(c) ==
    /\ config = c
    /\ saved = [k \in Kind |-> Unspecified]
    /\ bridge = [k \in Kind |-> NoBridge]
    /\ initAt = <<"none", "returned">>
    /\ initRet = FALSE
    /\ complete = FALSE

StartInitialize ==
    /\ initAt' = <<"cc", "load">>
    /\ initRet' = FALSE
    /\ complete' = FALSE

Return(b) == initAt' = <<"none", "returned">> /\ complete' = b

\* Mutant of LoadBridge: the as-bridge is loaded from the cc setting.
LoadBridgeFromCc(k) ==
    /\ initAt = <<k, "load">>
    /\ bridge' = [bridge EXCEPT ![k] = config[IF k = "as" THEN "cc" ELSE k]]
    /\ initRet' = TRUE
    /\ initAt' = <<k, "build">>
    /\ UNCHANGED <<config, saved, complete>>

\* An unspecified bridge, or one whose manifest does not parse, ends the call
\* with whatever retval holds by then; the variable keeps its old contents or
\* a mixture of both.
LoadBridge(k) ==
    /\ initAt = <<k, "load">>
    /\ \/ /\ config[k] # Unspecified
          /\ bridge' = [bridge EXCEPT ![k] = config[k]]
          /\ initRet' = TRUE
          /\ initAt' = <<k, "build">>
          /\ UNCHANGED complete
       \/ /\ \/ UNCHANGED bridge
             \/ config[k] # Unspecified /\ bridge' = [bridge EXCEPT ![k] = Mixed]
          /\ Return(FALSE)
          /\ UNCHANGED initRet
    /\ UNCHANGED <<config, saved>>

Following(k) == CHOOSE j \in Kind : Position[j] = Position[k] + 1

\* A container that does not build ends the call too, and retval is still TRUE.
BuildBridge(k) ==
    /\ initAt = <<k, "build">>
    /\ \/ /\ initRet' = TRUE
          /\ IF k = "ld" THEN Return(TRUE)
             ELSE initAt' = <<Following(k), "load">> /\ UNCHANGED complete
       \/ Return(FALSE) /\ UNCHANGED initRet
    /\ UNCHANGED <<config, saved, bridge>>

InitializeFromConfig == \E k \in Kind : LoadBridge(k) \/ BuildBridge(k)

---------------------------------------------------------------------------

BridgesTypeOK ==
    /\ config \in Config
    /\ saved \in Config
    /\ bridge \in [Kind -> Bridge \cup {NoBridge, Mixed}]
    /\ initAt \in InitLocation
    /\ initRet \in BOOLEAN
    /\ complete \in BOOLEAN
=============================================================================
