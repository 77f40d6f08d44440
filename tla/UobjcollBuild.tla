---------------------------- MODULE UobjcollBuild ----------------------------
(***************************************************************************)
(* Building a uobj collection: build of uberspark_uobjcoll.ml with the     *)
(* methods of uberspark_uobj.ml it calls for each uobj, over the bridges   *)
(* of Bridges.  Every call that can fail is one action, every early return *)
(* ends the build with the value the code returns there.  What compilers   *)
(* and file system answer is arbitrary.                                    *)
(***************************************************************************)
EXTENDS Bridges

CONSTANTS
    NUobjs,         \* the uobjs of the collection, in manifest order
    CollConfig,     \* the configuration when the build starts
    Manifest,       \* the configuration nodes that uobj manifests may have
    Origin, Source, Build   \* directories: the user's, the collection's, _build

ASSUME UobjcollAssumption ==
    /\ NUobjs \in Nat
    /\ CollConfig \in Config
    /\ Manifest \subseteq Settings \cup {NoSettings}
    /\ {Origin, Source, Build} \cap (1 .. NUobjs) = {}
    /\ Origin # Source /\ Origin # Build /\ Source # Build

VARIABLES
    pc,         \* next call of build
    cur,        \* the uobj whose turn it is
    retval,     \* local variable of build
    override,   \* uobj_bridges_override of the current iteration
    cwd, prev,  \* working directory, uobjs standing for theirs; r_prevpath
    result,     \* what build returned
    images,     \* uobjs whose binary image was linked
    linked,     \* the collection image was linked
    own,        \* the settings in each uobj manifest, once read
    used        \* the configuration each uobj was compiled under, once it was

vars == <<bridgeVars, pc, cur, retval, override, cwd, prev, result,
          images, linked, own, used>>

Uobj == 1 .. NUobjs
Location ==
    {"enter", "parse", "sentinels", "bridges", "baseinfo", "namespace",
     "init_uobjs", "layout", "sources", "overlay", "uobj_bridges", "chdir",
     "compile_c", "compile_asm", "link", "restore", "coll_bridges", "check",
     "section_map", "asm", "link_coll", "done"}

Init ==
    /\ BridgesInit(CollConfig)
    /\ pc = "enter"
    /\ cur = 1
    /\ retval = FALSE /\ override = FALSE
    /\ cwd = Origin /\ prev = Origin
    /\ result = "none"
    /\ images = {}
    /\ linked = FALSE
    /\ own = [u \in Uobj |-> NoSettings]
    /\ used = [u \in Uobj |-> NoSettings]

history == <<images, linked, own, used>>
locals == <<cur, retval, override, cwd, prev>>

Goto(from, to) == pc = from /\ pc' = to /\ UNCHANGED result
End(from, value) == pc = from /\ pc' = "done" /\ result' = value

\* A call that returns true, or false and ends the build.
Call(from, to) ==
    /\ Goto(from, to) \/ End(from, "false")
    /\ UNCHANGED <<bridgeVars, locals, history>>

\* File and table operations that raise end the process.
MayRaise ==
    {"parse", "bridges", "uobj_bridges", "coll_bridges", "namespace",
     "init_uobjs", "layout", "sources", "overlay", "section_map"}
Raise ==
    /\ pc \in MayRaise
    /\ pc' = "done"
    /\ result' = "abort"
    /\ UNCHANGED <<bridgeVars, locals, history>>

---------------------------------------------------------------------------
(* preparation *)

\* abspath and dir_change to the source directory, mkdir, which may raise, and
\* dir_change to _build; the second dir_change shadows r_prevpath.
Enter ==
    /\ \/ Goto("enter", "parse") /\ cwd' = Build /\ prev' = Source
       \/ End("enter", "false") /\ cwd' \in {Origin, Source} /\ prev' = Origin
       \/ End("enter", "abort") /\ cwd' = Source /\ prev' = Origin
    /\ UNCHANGED <<bridgeVars, cur, retval, override, history>>

ParseManifest == Call("parse", "sentinels")

CreateSentinelsTable ==
    /\ pc = "sentinels"
    /\ pc' \in {"bridges", "done"}
    /\ result' = IF pc' = "done" THEN "false" ELSE result
    /\ IF pc' = "bridges" THEN StartInitialize ELSE UNCHANGED <<initAt, initRet, complete>>
    /\ UNCHANGED <<config, saved, bridge, locals, history>>

CollectionBridges ==
    /\ Returned
    /\ IF initRet THEN Goto("bridges", "baseinfo") ELSE End("bridges", "false")
    /\ UNCHANGED <<bridgeVars, locals, history>>

InitializeBaseinfo == Call("baseinfo", "namespace")

\* prepare_namespace_for_build, then mkdir and cp of every uobj's sources.
PrepareNamespace ==
    /\ Goto("namespace", "init_uobjs")
    /\ UNCHANGED <<bridgeVars, locals, history>>

\* initialize of every uobj; each may return false, nobody looks.
InitializeUobjs ==
    /\ Goto("init_uobjs", "layout")
    /\ UNCHANGED <<bridgeVars, locals, history>>

\* The first uobj of the rest of the list, if there is one.
Iterate(u) == IF u \in Uobj THEN "sources" ELSE "check"

\* Memory maps, public method tables, sentinel code: no result is false here.
LayOut ==
    /\ Goto("layout", Iterate(1))
    /\ retval' = TRUE
    /\ UNCHANGED <<bridgeVars, cur, override, cwd, prev, history>>

---------------------------------------------------------------------------
(* one iteration of the loop over uobjs *)

\* prepare_sources and prepare_namespace_for_build of the uobj.
PrepareUobj ==
    /\ Goto("sources", "overlay")
    /\ override' = FALSE
    /\ UNCHANGED <<bridgeVars, cur, retval, cwd, prev, history>>

\* Settings are overlaid first and saved afterwards.  A manifest without
\* settings, or with a field of the wrong type, takes the other branch, which
\* forgets an earlier failure.
OverlayConfig ==
    /\ \E s \in Manifest :
        /\ own' = [own EXCEPT ![cur] = s]
        /\ config' = IF s = NoSettings THEN config ELSE Overlaid(config, s)
        /\ IF s # NoSettings /\ WellTyped(s)
           THEN /\ SettingsSave
                /\ override' = TRUE
                /\ StartInitialize
                /\ Goto("overlay", "uobj_bridges")
                /\ UNCHANGED retval
           ELSE /\ retval' = TRUE
                /\ Goto("overlay", "chdir")
                /\ UNCHANGED <<saved, override, initAt, initRet, complete>>
    /\ UNCHANGED <<bridge, cur, cwd, prev, images, linked, used>>

UobjBridges ==
    /\ Returned
    /\ Goto("uobj_bridges", "chdir")
    /\ retval' = (retval /\ initRet)
    /\ UNCHANGED <<bridgeVars, cur, override, cwd, prev, history>>

\* build_image is called only while retval holds; it may fail to change
\* directory.
ChangeToUobj ==
    /\ \/ /\ retval
          /\ Goto("chdir", "compile_c")
          /\ cwd' = cur
          /\ prev' = cwd
          /\ used' = [used EXCEPT ![cur] = config]
          /\ UNCHANGED retval
       \/ /\ Goto("chdir", "restore")
          /\ retval' = FALSE
          /\ UNCHANGED <<cwd, prev, used>>
    /\ UNCHANGED <<bridgeVars, cur, override, images, linked, own>>

\* A bridge command of build_image: if it fails the working directory stays.
Invoke(from, to) ==
    /\ \/ Goto(from, to) /\ UNCHANGED retval
       \/ Goto(from, "restore") /\ retval' = FALSE
    /\ UNCHANGED <<bridgeVars, cur, override, cwd, prev, history>>

CompileC == Invoke("compile_c", "compile_asm")
CompileAsm == Invoke("compile_asm", "link")

\* Mutant of LinkObjects: the working directory is not restored.
LinkObjectsStay ==
    /\ Goto("link", "restore")
    /\ images' = images \cup {cur}
    /\ UNCHANGED <<bridgeVars, locals, linked, own, used>>

LinkObjects ==
    /\ Goto("link", "restore")
    /\ \/ /\ images' = images \cup {cur}
          /\ cwd' = prev
          /\ UNCHANGED retval
       \/ /\ retval' = FALSE
          /\ UNCHANGED <<images, cwd>>
    /\ UNCHANGED <<bridgeVars, cur, override, prev, linked, own, used>>

\* Mutant of RestoreConfig: settings are restored even if none were saved.
RestoreConfigAlways ==
    /\ config' = saved
    /\ StartInitialize
    /\ Goto("restore", "coll_bridges")
    /\ UNCHANGED <<saved, bridge, locals, history>>

RestoreConfig ==
    /\ IF override
       THEN /\ SettingsRestore
            /\ StartInitialize
            /\ Goto("restore", "coll_bridges")
            /\ UNCHANGED <<saved, bridge, cur>>
       ELSE /\ Goto("restore", Iterate(cur + 1))
            /\ cur' = cur + 1
            /\ UNCHANGED bridgeVars
    /\ UNCHANGED <<retval, override, cwd, prev, history>>

\* Mutant of CollectionBridgesAgain: the retval of the iteration is forgotten.
CollectionBridgesAgainOnly ==
    /\ Returned
    /\ Goto("coll_bridges", Iterate(cur + 1))
    /\ retval' = initRet
    /\ cur' = cur + 1
    /\ UNCHANGED <<bridgeVars, override, cwd, prev, history>>

CollectionBridgesAgain ==
    /\ Returned
    /\ Goto("coll_bridges", Iterate(cur + 1))
    /\ retval' = (retval /\ initRet)
    /\ cur' = cur + 1
    /\ UNCHANGED <<bridgeVars, override, cwd, prev, history>>

---------------------------------------------------------------------------
(* the collection image *)

CheckUobjs ==
    /\ IF retval THEN Goto("check", "section_map") ELSE End("check", "false")
    /\ UNCHANGED <<bridgeVars, locals, history>>

\* Section mapping source and linker script, written where the process is.
GenerateMapAndScript ==
    /\ Goto("section_map", "asm")
    /\ retval' = TRUE
    /\ UNCHANGED <<bridgeVars, cur, override, cwd, prev, history>>

\* The sentinel source was generated in the build directory before the loop.
\* A failure returns retval, which is TRUE here.
CompileCollAsm ==
    /\ \/ cwd = Build /\ Goto("asm", "link_coll")
       \/ End("asm", IF retval THEN "true" ELSE "false")
    /\ UNCHANGED <<bridgeVars, locals, history>>

LinkCollection ==
    /\ \/ /\ End("link_coll", "true")
          /\ linked' = TRUE
          /\ cwd' = Source
       \/ /\ End("link_coll", IF retval THEN "true" ELSE "false")
          /\ UNCHANGED <<linked, cwd>>
    /\ UNCHANGED <<bridgeVars, cur, retval, override, prev, images, own,
                   used>>

BridgeStep ==
    /\ InitializeFromConfig
    /\ UNCHANGED <<pc, locals, result, history>>

Finished == pc = "done" /\ UNCHANGED vars

Next ==
    \/ Enter \/ ParseManifest \/ CreateSentinelsTable \/ CollectionBridges
    \/ InitializeBaseinfo \/ PrepareNamespace \/ InitializeUobjs \/ LayOut
    \/ PrepareUobj \/ OverlayConfig \/ UobjBridges \/ ChangeToUobj
    \/ CompileC \/ CompileAsm \/ LinkObjects \/ RestoreConfig
    \/ CollectionBridgesAgain \/ CheckUobjs \/ GenerateMapAndScript
    \/ CompileCollAsm \/ LinkCollection \/ BridgeStep \/ Raise \/ Finished

Spec == Init /\ [][Next]_vars

---------------------------------------------------------------------------
(* Properties *)

TypeOK ==
    /\ BridgesTypeOK
    /\ pc \in Location
    /\ cur \in Nat
    /\ retval \in BOOLEAN /\ override \in BOOLEAN
    /\ cwd \in {Origin, Source, Build} \cup Uobj
    /\ prev \in {Origin, Source, Build} \cup Uobj
    /\ result \in {"none", "true", "false", "abort"}
    /\ images \in SUBSET Uobj
    /\ linked \in BOOLEAN
    /\ own \in [Uobj -> Settings \cup {NoSettings}]
    /\ used \in [Uobj -> Config \cup {NoSettings}]

Overrides(u) == own[u] # NoSettings /\ WellTyped(own[u])

\* If every uobj has well-typed settings, so that no iteration forgets an
\* earlier failure, the collection is linked only from images of all uobjs.
LinkedFromAllImages == linked /\ (\A u \in Uobj : Overrides(u)) => images = Uobj

\* Whenever a tool is run after an initialization that got through, it is the
\* tool the configuration names at that moment -- as long as no manifest had an
\* ill-typed setting, which changes the configuration and reloads no bridge.
BridgesMatchConfig ==
    /\ pc \in {"compile_c", "compile_asm", "link", "asm", "link_coll"}
    /\ complete
    /\ \A u \in Uobj : own[u] = NoSettings \/ WellTyped(own[u])
    => bridge = config

\* The collection's files are generated in its build directory if every uobj
\* image was built, however the builds changed the working directory.
GeneratedInBuildDir ==
    pc \in {"section_map", "asm", "link_coll"} /\ images = Uobj => cwd = Build

\* A collection whose uobjs have no settings of their own is built under the
\* configuration the build started with.
DefaultsStayDefaults ==
    (\A u \in Uobj : own[u] = NoSettings) => config = CollConfig

(* What the source says, and the code does not do *)

\* cmd_uobjcoll.ml: "uobj collection build success!" means that the collection
\* was linked, from the images of all its uobjs.
SuccessMeansBuilt == result = "true" => linked /\ images = Uobj

\* uberspark_uobjcoll.ml: "uobj manifest did not have any config-settings
\* specified, so use the collection default"
NoSettingsMeansDefault ==
    \A u \in Uobj :
        own[u] = NoSettings /\ used[u] # NoSettings => used[u] = CollConfig

=============================================================================
