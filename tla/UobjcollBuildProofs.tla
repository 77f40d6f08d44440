------------------------ MODULE UobjcollBuildProofs ------------------------
(***************************************************************************)
(* Proofs about UobjcollBuild for any number of uobjs, any bridges, any    *)
(* settings in the manifests and any answers of the tools: type            *)
(* correctness, and the four properties of the build that the runs check.  *)
(***************************************************************************)
EXTENDS UobjcollBuild, TLAPS

(* Where build is: before its loop over uobjs, in an iteration before and
   after the settings of the uobj are overlaid, after the build of the uobj,
   after the loop. *)
Preparing == {"enter", "parse", "sentinels", "bridges", "baseinfo", "namespace", "init_uobjs", "layout"}
Entering == {"sources", "overlay"}
Compiling == {"compile_c", "compile_asm", "link"}
Building == {"uobj_bridges", "chdir"} \cup Compiling
Leaving == {"restore", "coll_bridges"}
Looping == Entering \cup Building \cup Leaving
Closing == {"section_map", "asm", "link_coll"}

Before(u) == u < cur
UpTo(u) == u <= cur

(* The loop is about a uobj of the collection, the first one before it. *)
CurInv ==
  /\ pc \in Preparing => cur = 1
  /\ pc \in Looping => cur \in Uobj
  /\ pc = "check" => \A u \in Uobj : Before(u)

(* Only uobjs whose turn has come have settings, or an image; an iteration
   that saved the configuration is one of a uobj with settings. *)
OwnInv ==
  /\ pc \in Preparing => \A u \in Uobj : own[u] = NoSettings
  /\ pc \in Entering => \A u \in Uobj : ~Before(u) => own[u] = NoSettings
  /\ pc \in Looping => \A u \in Uobj : ~UpTo(u) => own[u] = NoSettings
  /\ pc = "overlay" => ~override
  /\ pc \in Building \cup {"restore"} /\ override => own[cur] # NoSettings
  /\ DefaultsStayDefaults

(* retval still holds only if the images of all uobjs so far were linked, as
   long as each of them has settings. *)
ImagesInv ==
  /\ pc \in Preparing => images = {}
  /\ pc \in Entering \cup Building => \A u \in images : Before(u)
  /\ pc \in Leaving => \A u \in images : UpTo(u)
  /\ pc \in Entering /\ retval /\ (\A u \in Uobj : Before(u) => Overrides(u)) =>
       \A u \in Uobj : Before(u) => u \in images
  /\ pc \in Building /\ retval /\ (\A u \in Uobj : UpTo(u) => Overrides(u)) =>
       \A u \in Uobj : Before(u) => u \in images
  /\ pc \in Leaving /\ retval /\ (\A u \in Uobj : UpTo(u) => Overrides(u)) =>
       \A u \in Uobj : UpTo(u) => u \in images
  /\ pc = "check" /\ retval /\ (\A u \in Uobj : Overrides(u)) => images = Uobj
  /\ pc \in Closing /\ (\A u \in Uobj : Overrides(u)) => images = Uobj
  /\ linked => pc = "done"
  /\ LinkedFromAllImages

(* The process is in _build between two builds that linked an image, and in
   the directory of the uobj, with _build to go back to, during one. *)
DirInv ==
  /\ pc \in Preparing \ {"enter"} => cwd = Build
  /\ pc \in Entering \cup {"uobj_bridges", "chdir"} /\ (\A u \in Uobj : Before(u) => u \in images) =>
       cwd = Build
  /\ pc \in Compiling /\ (\A u \in Uobj : Before(u) => u \in images) => prev = Build
  /\ pc \in Leaving /\ (\A u \in Uobj : UpTo(u) => u \in images) => cwd = Build
  /\ pc \in {"check"} \cup Closing /\ images = Uobj => cwd = Build

(* The bridges loaded so far are those of the configuration, as long as no
   manifest had an ill-typed setting. *)
AllWellTyped == \A u \in Uobj : own[u] = NoSettings \/ WellTyped(own[u])
BridgeInv ==
  /\ ~Returned => ~complete
  /\ AllWellTyped =>
       /\ complete => \A k \in Kind : bridge[k] = config[k]
       /\ \A k \in Kind : initAt = <<k, "load">> =>
            \A j \in Kind : Position[j] < Position[k] => bridge[j] = config[j]
       /\ \A k \in Kind : initAt = <<k, "build">> =>
            \A j \in Kind : Position[j] <= Position[k] => bridge[j] = config[j]

IInv == TypeOK /\ CurInv /\ OwnInv /\ ImagesInv /\ DirInv /\ BridgeInv

-----------------------------------------------------------------------------
(* The calls of build that change nothing but where it is. *)
Passing ==
  \/ ParseManifest \/ CollectionBridges \/ InitializeBaseinfo \/ PrepareNamespace \/ InitializeUobjs
  \/ CheckUobjs \/ CompileCollAsm \/ Raise \/ Finished

(* Settings of a manifest, overlaid on a configuration, give a configuration:
   what is taken is of the right type. *)
LEMMA OverlaidTyped ==
  ASSUME NEW c \in Config, NEW s \in Settings
  PROVE  Overlaid(c, s) \in Config
<1>1. ASSUME NEW k \in Kind, s[k] # Keep, \A j \in Kind : Position[j] <= Position[k] => s[j] # Illtyped
      PROVE  s[k] \in Bridge \cup {Unspecified}
  <2>1. Position[k] <= Position[k]
    BY DEF Position, Kind
  <2> QED
    BY <1>1, <2>1 DEF Settings
<1> QED
  BY <1>1 DEF Overlaid, Config

(* A step of initialize_from_config leaves the types as they are. *)
LEMMA BridgeStepTyped ==
  ASSUME BridgesTypeOK, InitializeFromConfig
  PROVE  BridgesTypeOK'
<1>1. PICK k \in Kind : LoadBridge(k) \/ BuildBridge(k)
  BY DEF InitializeFromConfig
<1>2. CASE LoadBridge(k)
  <2>1. config[k] # Unspecified => config[k] \in Bridge
    BY DEF BridgesTypeOK, Config
  <2>2. UNCHANGED <<config, saved>>
    BY <1>2 DEF LoadBridge
  <2>3. bridge' \in [Kind -> Bridge \cup {NoBridge, Mixed}]
    BY <1>2, <2>1 DEF LoadBridge, BridgesTypeOK
  <2>4. initAt' \in InitLocation
    BY <1>2 DEF LoadBridge, InitLocation, Return
  <2>5. initRet' \in BOOLEAN /\ complete' \in BOOLEAN
    BY <1>2, Zenon DEF LoadBridge, BridgesTypeOK, Return
  <2> QED
    BY <2>2, <2>3, <2>4, <2>5 DEF BridgesTypeOK
<1>3. CASE BuildBridge(k)
  <2>1. k # "ld" => Following(k) \in Kind
    <3>1. k = "cc" => Position["as"] = Position[k] + 1
      BY DEF Position
    <3>2. k = "as" => Position["ld"] = Position[k] + 1
      BY DEF Position
    <3>3. k # "ld" => \E j \in Kind : Position[j] = Position[k] + 1
      BY <3>1, <3>2 DEF Kind
    <3> QED
      BY <3>3 DEF Following
  <2>2. UNCHANGED <<config, saved, bridge>>
    BY <1>3 DEF BuildBridge
  <2>3. initAt' \in InitLocation
    BY <1>3, <2>1 DEF BuildBridge, InitLocation, Return
  <2>4. initRet' \in BOOLEAN /\ complete' \in BOOLEAN
    BY <1>3, Zenon DEF BuildBridge, BridgesTypeOK, Return
  <2> QED
    BY <2>2, <2>3, <2>4 DEF BridgesTypeOK
<1> QED
  BY <1>1, <1>2, <1>3

(* Nor does its start. *)
LEMMA StartTyped ==
  ASSUME BridgesTypeOK, StartInitialize, UNCHANGED bridge, config' \in Config, saved' \in Config
  PROVE  BridgesTypeOK'
<1>1. initAt' \in InitLocation
  BY DEF StartInitialize, InitLocation, Kind
<1>2. initRet' \in BOOLEAN /\ complete' \in BOOLEAN
  BY Zenon DEF StartInitialize
<1> QED
  BY <1>1, <1>2 DEF BridgesTypeOK

(* The inductive invariant holds at first. *)
LEMMA Initially == Init => IInv
<1> SUFFICES ASSUME Init PROVE IInv
  OBVIOUS
<1>1. TypeOK
  BY BridgesAssumption, UobjcollAssumption
     DEF Init, BridgesInit, TypeOK, BridgesTypeOK, Location, Config, InitLocation, Uobj
<1>2. CurInv
  BY DEF Init, CurInv, Looping, Entering, Building, Compiling, Leaving
<1>3. OwnInv
  BY DEF Init, BridgesInit, OwnInv, Looping, Entering, Building, Compiling, Leaving, DefaultsStayDefaults
<1>4. ImagesInv
  BY DEF Init, ImagesInv, Entering, Building, Compiling, Leaving, Closing, LinkedFromAllImages
<1>5. DirInv
  BY DEF Init, DirInv, Entering, Compiling, Leaving, Closing
<1>6. BridgeInv
  BY DEF Init, BridgesInit, BridgeInv, Returned
<1> QED
  BY <1>1, <1>2, <1>3, <1>4, <1>5, <1>6 DEF IInv

-----------------------------------------------------------------------------
(* A call that changes nothing but where build is goes from a location to
   one of the same part of build, or into the next part, or ends it. *)
LEMMA PassingSteps ==
  ASSUME TypeOK, Passing
  PROVE  /\ UNCHANGED <<bridgeVars, locals, history>>
         /\ pc' \in Location /\ result' \in {"none", "true", "false", "abort"}
         /\ \/ pc' = "done"
            \/ pc \in Preparing \ {"enter"} /\ pc' \in Preparing \ {"enter"}
            \/ pc = "check" /\ retval /\ pc' = "section_map"
            \/ pc \in Closing /\ pc' \in Closing
<1> USE DEF Preparing, Closing, Location, Call, Goto, End
<1>1. CASE ParseManifest \/ InitializeBaseinfo
  BY <1>1 DEF ParseManifest, InitializeBaseinfo, TypeOK
<1>2. CASE CollectionBridges
  BY <1>2 DEF CollectionBridges, TypeOK
<1>3. CASE PrepareNamespace \/ InitializeUobjs
  BY <1>3 DEF PrepareNamespace, InitializeUobjs, TypeOK
<1>4. CASE CheckUobjs
  BY <1>4 DEF CheckUobjs, TypeOK
<1>5. CASE CompileCollAsm
  BY <1>5 DEF CompileCollAsm, TypeOK
<1>6. CASE Raise
  BY <1>6 DEF Raise, TypeOK
<1>7. CASE Finished
  BY <1>7 DEF Finished, vars, locals, history, TypeOK
<1> QED
  BY <1>1, <1>2, <1>3, <1>4, <1>5, <1>6, <1>7 DEF Passing
-----------------------------------------------------------------------------
(* Type correctness is preserved: an iteration is about a uobj. *)
LEMMA TypePreserved ==
  ASSUME IInv, [Next]_vars
  PROVE  TypeOK'
<1> USE DEF Goto, End, Location, locals, history, bridgeVars
<1>0. TypeOK /\ (pc \in Looping => cur \in Uobj) /\ Uobj \subseteq Nat
  BY UobjcollAssumption DEF IInv, CurInv, Uobj
<1> DEFINE Dirs == {Origin, Source, Build} \cup Uobj
<1>1. CASE Passing
  BY <1>0, <1>1, PassingSteps DEF TypeOK, BridgesTypeOK
<1>2. CASE Enter
  BY <1>0, <1>2 DEF Enter, TypeOK, BridgesTypeOK
<1>3. CASE CreateSentinelsTable
  <2>1. CASE pc' = "bridges"
    <3>1. BridgesTypeOK'
      BY <1>0, <1>3, <2>1, StartTyped DEF CreateSentinelsTable, TypeOK, BridgesTypeOK
    <3> QED
      BY <1>0, <1>3, <3>1 DEF CreateSentinelsTable, TypeOK
  <2>2. CASE pc' = "done"
    BY <1>0, <1>3, <2>2 DEF CreateSentinelsTable, TypeOK, BridgesTypeOK
  <2> QED
    BY <1>3, <2>1, <2>2 DEF CreateSentinelsTable
<1>4. CASE LayOut \/ PrepareUobj \/ GenerateMapAndScript
  BY <1>0, <1>4 DEF LayOut, PrepareUobj, GenerateMapAndScript, Iterate, TypeOK, BridgesTypeOK
<1>5. CASE OverlayConfig
  <2>1. PICK s \in Manifest :
          /\ own' = [own EXCEPT ![cur] = s]
          /\ config' = IF s = NoSettings THEN config ELSE Overlaid(config, s)
          /\ IF s # NoSettings /\ WellTyped(s)
             THEN /\ SettingsSave
                  /\ override' = TRUE
                  /\ StartInitialize
                  /\ Goto("overlay", "uobj_bridges")
                  /\ UNCHANGED retval
             ELSE /\ retval' = TRUE
                  /\ Goto("overlay", "chdir")
                  /\ UNCHANGED <<saved, override, initAt, initRet, complete>>
    BY <1>5 DEF OverlayConfig
  <2>2. UNCHANGED <<bridge, cur, cwd, prev, images, linked, used>>
    BY <1>5 DEF OverlayConfig
  <2>3. s \in Settings \cup {NoSettings}
    BY UobjcollAssumption
  <2>4. config' \in Config
    BY <1>0, <2>1, <2>3, OverlaidTyped DEF TypeOK, BridgesTypeOK
  <2>5. saved' \in Config
    BY <1>0, <2>1, <2>4 DEF SettingsSave, TypeOK, BridgesTypeOK
  <2>6. BridgesTypeOK'
    <3>1. CASE StartInitialize
      BY <1>0, <2>2, <2>4, <2>5, <3>1, StartTyped DEF TypeOK
    <3>2. CASE UNCHANGED <<initAt, initRet, complete>>
      BY <1>0, <2>2, <2>4, <2>5, <3>2 DEF TypeOK, BridgesTypeOK
    <3> QED
      BY <2>1, <3>1, <3>2
  <2>7. pc' \in Location /\ result' \in {"none", "true", "false", "abort"}
        /\ retval' \in BOOLEAN /\ override' \in BOOLEAN
    BY <1>0, <2>1 DEF TypeOK
  <2>8. own' \in [Uobj -> Settings \cup {NoSettings}]
    BY <1>0, <2>1, <2>3 DEF TypeOK
  <2> QED
    BY <1>0, <2>2, <2>6, <2>7, <2>8 DEF TypeOK
<1>6. CASE UobjBridges \/ CollectionBridgesAgain
  <2>1. retval' \in BOOLEAN
    BY <1>6, Zenon DEF UobjBridges, CollectionBridgesAgain
  <2>2. /\ UNCHANGED <<config, saved, bridge, initAt, initRet, complete, override, cwd, prev, images,
                        linked, own, used, result>>
        /\ pc' \in Location /\ cur' \in {cur, cur + 1}
    BY <1>6 DEF UobjBridges, CollectionBridgesAgain, Iterate
  <2> QED
    BY <1>0, <2>1, <2>2 DEF TypeOK, BridgesTypeOK
<1>7. CASE ChangeToUobj
  <2>1. cur \in Uobj /\ config \in Config
    BY <1>0, <1>7 DEF ChangeToUobj, Looping, Building, TypeOK, BridgesTypeOK
  <2>2. used' \in [Uobj -> Config \cup {NoSettings}] /\ cwd' \in Dirs /\ prev' \in Dirs
    BY <1>0, <1>7, <2>1 DEF ChangeToUobj, TypeOK
  <2> QED
    BY <1>0, <1>7, <2>2 DEF ChangeToUobj, TypeOK, BridgesTypeOK
<1>8. CASE CompileC \/ CompileAsm
  BY <1>0, <1>8 DEF CompileC, CompileAsm, Invoke, TypeOK, BridgesTypeOK
<1>9. CASE LinkObjects
  <2>1. cur \in Uobj
    BY <1>0, <1>9 DEF LinkObjects, Looping, Building, Compiling
  <2> QED
    BY <1>0, <1>9, <2>1 DEF LinkObjects, TypeOK, BridgesTypeOK
<1>10. CASE RestoreConfig
  <2>1. CASE override
    <3>1. StartInitialize /\ UNCHANGED <<saved, bridge>> /\ config' = saved
      BY <1>10, <2>1 DEF RestoreConfig, SettingsRestore
    <3>2. BridgesTypeOK'
      BY <1>0, <3>1, StartTyped DEF TypeOK, BridgesTypeOK
    <3> QED
      BY <1>0, <1>10, <2>1, <3>2 DEF RestoreConfig, TypeOK
  <2>2. CASE ~override
    BY <1>0, <1>10, <2>2 DEF RestoreConfig, Iterate, TypeOK, BridgesTypeOK
  <2> QED
    BY <2>1, <2>2
<1>11. CASE LinkCollection
  BY <1>0, <1>11 DEF LinkCollection, TypeOK, BridgesTypeOK
<1>12. CASE BridgeStep
  BY <1>0, <1>12, BridgeStepTyped DEF BridgeStep, TypeOK
<1>13. CASE UNCHANGED vars
  BY <1>0, <1>13 DEF vars, TypeOK, BridgesTypeOK
<1> QED
  BY <1>1, <1>2, <1>3, <1>4, <1>5, <1>6, <1>7, <1>8, <1>9, <1>10, <1>11, <1>12, <1>13 DEF Next, Passing

-----------------------------------------------------------------------------
(* The turn of a uobj, and what has been read and built by then. *)
LEMMA CurPreserved ==
  ASSUME IInv, [Next]_vars
  PROVE  CurInv'
<1> USE DEF Goto, End, Preparing, Looping, Entering, Building, Compiling, Leaving, Closing, locals
<1>0. CurInv /\ TypeOK /\ Uobj = 1..NUobjs /\ NUobjs \in Nat
  BY UobjcollAssumption DEF IInv, Uobj
<1>1. CASE Passing
  BY <1>0, <1>1, PassingSteps DEF CurInv, Before
<1>2. CASE Enter \/ CreateSentinelsTable
  BY <1>0, <1>2 DEF Enter, CreateSentinelsTable, CurInv, Before
<1>3. CASE LayOut
  BY <1>0, <1>3 DEF LayOut, Iterate, CurInv, Before
<1>4. CASE PrepareUobj \/ UobjBridges \/ ChangeToUobj \/ CompileC \/ CompileAsm \/ LinkObjects
  BY <1>0, <1>4 DEF PrepareUobj, UobjBridges, ChangeToUobj, CompileC, CompileAsm, Invoke, LinkObjects,
                    CurInv, Before
<1>5. CASE OverlayConfig
  <2>1. pc = "overlay" /\ pc' \in Building /\ cur' = cur
    BY <1>5 DEF OverlayConfig
  <2> QED
    BY <1>0, <2>1 DEF CurInv
<1>6. CASE RestoreConfig \/ CollectionBridgesAgain
  <2>1. \/ pc' = "coll_bridges" /\ cur' = cur
        \/ pc' = Iterate(cur + 1) /\ cur' = cur + 1
    BY <1>6 DEF RestoreConfig, CollectionBridgesAgain
  <2>2. cur \in Uobj
    BY <1>0, <1>6 DEF RestoreConfig, CollectionBridgesAgain, CurInv
  <2> QED
    BY <1>0, <2>1, <2>2 DEF Iterate, CurInv, Before
<1>7. CASE GenerateMapAndScript \/ LinkCollection
  BY <1>0, <1>7 DEF GenerateMapAndScript, LinkCollection, CurInv
<1>8. CASE BridgeStep \/ UNCHANGED vars
  BY <1>0, <1>8 DEF BridgeStep, vars, CurInv, Before
<1> QED
  BY <1>1, <1>2, <1>3, <1>4, <1>5, <1>6, <1>7, <1>8 DEF Next, Passing

(* The settings of a uobj are read once: until then there are none. *)
LEMMA OwnRead ==
  ASSUME IInv, OverlayConfig
  PROVE  \E s \in Manifest :
           /\ cur \in Uobj /\ cur' = cur /\ own[cur] = NoSettings
           /\ own' = [own EXCEPT ![cur] = s] /\ own'[cur] = s
           /\ \A u \in Uobj : u # cur => own'[u] = own[u]
           /\ pc = "overlay" /\ pc' \in {"uobj_bridges", "chdir"} /\ UNCHANGED <<images, linked, cwd, prev, bridge>>
           /\ s = NoSettings => config' = config
           /\ \/ s # NoSettings /\ WellTyped(s) /\ override' = TRUE /\ StartInitialize
                 /\ UNCHANGED retval
              \/ ~(s # NoSettings /\ WellTyped(s)) /\ override' = override
                 /\ UNCHANGED <<initAt, initRet, complete>>
<1>1. pc = "overlay" /\ cur' = cur /\ UNCHANGED <<images, linked, cwd, prev, bridge>>
  BY DEF OverlayConfig, Goto
<1>2. cur \in Uobj /\ own[cur] = NoSettings /\ own \in [Uobj -> Settings \cup {NoSettings}]
  <2>1. cur \in Uobj /\ cur \in Nat
    BY <1>1, UobjcollAssumption DEF IInv, CurInv, Looping, Entering, Uobj
  <2>2. ~Before(cur)
    BY <2>1 DEF Before
  <2> QED
    BY <1>1, <2>1, <2>2 DEF IInv, OwnInv, Entering, TypeOK
<1>3. PICK s \in Manifest :
        /\ own' = [own EXCEPT ![cur] = s]
        /\ config' = IF s = NoSettings THEN config ELSE Overlaid(config, s)
        /\ IF s # NoSettings /\ WellTyped(s)
           THEN /\ override' = TRUE
                /\ StartInitialize
                /\ Goto("overlay", "uobj_bridges")
                /\ UNCHANGED retval
           ELSE /\ Goto("overlay", "chdir")
                /\ UNCHANGED <<override, initAt, initRet, complete>>
  BY DEF OverlayConfig
<1>4. own'[cur] = s /\ \A u \in Uobj : u # cur => own'[u] = own[u]
  BY <1>2, <1>3
<1>5. pc' \in {"uobj_bridges", "chdir"}
  BY <1>3 DEF Goto
<1> QED
  BY <1>1, <1>2, <1>3, <1>4, <1>5

(* They are kept until the next uobj has its turn. *)
LEMMA OwnPreserved ==
  ASSUME IInv, CurInv', [Next]_vars
  PROVE  OwnInv'
<1> USE DEF Goto, End, Preparing, Looping, Entering, Building, Compiling, Leaving, Closing, locals, history,
            bridgeVars
<1>0. OwnInv /\ CurInv /\ TypeOK /\ Uobj = 1..NUobjs /\ NUobjs \in Nat
  BY UobjcollAssumption DEF IInv, Uobj
<1> USE DEF Before, UpTo, DefaultsStayDefaults
<1>1. CASE Passing
  BY <1>0, <1>1, PassingSteps DEF OwnInv
<1>2. CASE Enter \/ CreateSentinelsTable
  BY <1>0, <1>2 DEF Enter, CreateSentinelsTable, OwnInv
<1>3. CASE LayOut
  BY <1>0, <1>3 DEF LayOut, Iterate, OwnInv
<1>4. CASE PrepareUobj
  BY <1>0, <1>4 DEF PrepareUobj, OwnInv, CurInv
<1>5. CASE UobjBridges \/ ChangeToUobj \/ CompileC \/ CompileAsm \/ LinkObjects
  BY <1>0, <1>5 DEF UobjBridges, ChangeToUobj, CompileC, CompileAsm, Invoke, LinkObjects, OwnInv
<1>6. CASE OverlayConfig
  <2>1. PICK s \in Manifest :
           /\ cur \in Uobj /\ cur' = cur /\ own[cur] = NoSettings /\ own'[cur] = s
           /\ \A u \in Uobj : u # cur => own'[u] = own[u]
           /\ pc = "overlay" /\ pc' \in {"uobj_bridges", "chdir"}
           /\ s = NoSettings => config' = config
           /\ s = NoSettings => override' = override
    BY <1>6, OwnRead
  <2>2. ~override
    BY <1>0, <2>1 DEF OwnInv
  <2>3. override' => own'[cur'] # NoSettings
    BY <2>1, <2>2
  <2>4. \A u \in Uobj : ~UpTo(u)' => own'[u] = NoSettings
    BY <1>0, <2>1 DEF OwnInv
  <2>5. DefaultsStayDefaults'
    BY <1>0, <2>1 DEF OwnInv
  <2> QED
    BY <2>1, <2>3, <2>4, <2>5 DEF OwnInv
<1>7. CASE RestoreConfig
  <2>1. cur \in Uobj /\ pc = "restore" /\ UNCHANGED own
    BY <1>0, <1>7 DEF RestoreConfig, CurInv
  <2>2. CASE override
    <3>1. pc' = "coll_bridges" /\ cur' = cur /\ own[cur] # NoSettings
      BY <1>0, <1>7, <2>1, <2>2 DEF RestoreConfig, OwnInv
    <3> QED
      BY <1>0, <2>1, <3>1 DEF OwnInv
  <2>3. CASE ~override
    BY <1>0, <1>7, <2>1, <2>3 DEF RestoreConfig, Iterate, OwnInv
  <2> QED
    BY <2>2, <2>3
<1>8. CASE CollectionBridgesAgain
  BY <1>0, <1>8 DEF CollectionBridgesAgain, Iterate, OwnInv, CurInv
<1>9. CASE GenerateMapAndScript \/ LinkCollection
  BY <1>0, <1>9 DEF GenerateMapAndScript, LinkCollection, OwnInv
<1>10. CASE BridgeStep
  <2>1. UNCHANGED config
    BY <1>10 DEF BridgeStep, InitializeFromConfig, LoadBridge, BuildBridge
  <2> QED
    BY <1>0, <1>10, <2>1 DEF BridgeStep, OwnInv
<1>11. CASE UNCHANGED vars
  BY <1>0, <1>11 DEF vars, OwnInv
<1> QED
  BY <1>1, <1>2, <1>3, <1>4, <1>5, <1>6, <1>7, <1>8, <1>9, <1>10, <1>11 DEF Next, Passing

-----------------------------------------------------------------------------
(* The images that were linked by then. *)
LEMMA ImagesPreserved ==
  ASSUME IInv, CurInv', [Next]_vars
  PROVE  ImagesInv'
<1> USE DEF Goto, End, Preparing, Looping, Entering, Building, Compiling, Leaving, Closing, locals, history,
            bridgeVars, Before, UpTo, LinkedFromAllImages
<1>0. ImagesInv /\ OwnInv /\ CurInv /\ TypeOK /\ Uobj = 1..NUobjs /\ NUobjs \in Nat
  BY UobjcollAssumption DEF IInv, Uobj
<1>1. CASE Passing
  <2>1. UNCHANGED <<cur, retval, images, linked, own>>
    BY <1>0, <1>1, PassingSteps
  <2>2. \A u : Overrides(u)' <=> Overrides(u)
    BY <2>1 DEF Overrides
  <2>3. CASE pc' = "done"
    BY <1>0, <2>1, <2>2, <2>3 DEF ImagesInv
  <2>4. CASE pc' # "done"
    <3>1. \/ pc \in Preparing /\ pc' \in Preparing
          \/ pc = "check" /\ retval /\ pc' = "section_map"
          \/ pc \in Closing /\ pc' \in Closing
      BY <1>0, <1>1, <2>4, PassingSteps
    <3>2. ~linked
      BY <1>0, <3>1 DEF ImagesInv
    <3> QED
      BY <1>0, <2>1, <2>2, <3>1, <3>2 DEF ImagesInv
  <2> QED
    BY <2>3, <2>4
<1>2. CASE Enter \/ CreateSentinelsTable
  BY <1>0, <1>2 DEF Enter, CreateSentinelsTable, ImagesInv
<1>3. CASE LayOut
  BY <1>0, <1>3 DEF LayOut, Iterate, ImagesInv, CurInv
<1>4. CASE PrepareUobj \/ UobjBridges \/ ChangeToUobj \/ CompileC \/ CompileAsm
  <2>1. retval' => retval
    <3>1. CASE UobjBridges
      BY <3>1, Zenon DEF UobjBridges
    <3>2. CASE PrepareUobj \/ ChangeToUobj \/ CompileC \/ CompileAsm
      BY <3>2 DEF PrepareUobj, ChangeToUobj, CompileC, CompileAsm, Invoke
    <3> QED
      BY <1>4, <3>1, <3>2
  <2>5. UNCHANGED <<cur, images, linked, own>> /\ ~linked
    BY <1>0, <1>4 DEF PrepareUobj, UobjBridges, ChangeToUobj, CompileC, CompileAsm, Invoke, ImagesInv
  <2>2. \A u : Overrides(u)' <=> Overrides(u)
    BY <2>5 DEF Overrides
  <2>3. \/ pc \in Entering /\ pc' \in Entering
        \/ pc \in Building /\ pc' \in Building
        \/ pc \in Building /\ pc' = "restore" /\ ~retval'
    BY <1>4 DEF PrepareUobj, UobjBridges, ChangeToUobj, CompileC, CompileAsm, Invoke
  <2>4. \A u \in images : u < cur => u <= cur
    BY <1>0 DEF TypeOK
  <2> QED
    BY <1>0, <2>1, <2>2, <2>3, <2>4, <2>5 DEF ImagesInv
<1>5. CASE OverlayConfig
  <2>1. PICK s \in Manifest :
           /\ cur \in Uobj /\ cur' = cur /\ own'[cur] = s
           /\ \A u \in Uobj : u # cur => own'[u] = own[u]
           /\ pc = "overlay" /\ pc' \in {"uobj_bridges", "chdir"} /\ UNCHANGED <<images, linked>>
           /\ (s # NoSettings /\ WellTyped(s) /\ UNCHANGED retval) \/ ~(s # NoSettings /\ WellTyped(s))
    BY <1>5, OwnRead
  <2>2. Overrides(cur)' => UNCHANGED retval
    BY <2>1 DEF Overrides
  <2>3. \A u \in Uobj : u < cur => (Overrides(u)' <=> Overrides(u))
    BY <1>0, <2>1 DEF Overrides
  <2>4. \A u \in Uobj : u < cur => u <= cur
    BY <1>0, <2>1
  <2>5. cur <= cur
    BY <1>0, <2>1
  <2> QED
    BY <1>0, <2>1, <2>2, <2>3, <2>4, <2>5 DEF ImagesInv
<1>6. CASE LinkObjects
  <2>1. /\ pc = "link" /\ pc' = "restore" /\ UNCHANGED <<cur, linked, own>> /\ cur \in Uobj
        /\ \/ images' = images \cup {cur} /\ UNCHANGED retval
           \/ images' = images /\ ~retval'
    BY <1>0, <1>6 DEF LinkObjects, CurInv
  <2>2. \A u : Overrides(u)' <=> Overrides(u)
    BY <2>1 DEF Overrides
  <2>3. \A u \in Uobj : u <= cur <=> (u < cur \/ u = cur)
    BY <1>0, <2>1
  <2>4. (\A u \in images : u < cur) /\ images \subseteq Uobj /\ ~linked
    BY <1>0, <2>1 DEF ImagesInv, TypeOK
  <2>5. \A u \in images' : u <= cur
    BY <2>1, <2>3, <2>4
  <2>6. ASSUME retval', \A u \in Uobj : UpTo(u) => Overrides(u)
        PROVE  \A u \in Uobj : u <= cur => u \in images'
    <3>1. \A u \in Uobj : u < cur => u \in images
      BY <1>0, <2>1, <2>6 DEF ImagesInv
    <3> QED
      BY <2>1, <2>3, <2>6, <3>1
  <2> QED
    BY <2>1, <2>2, <2>4, <2>5, <2>6 DEF ImagesInv
<1>7. CASE RestoreConfig \/ CollectionBridgesAgain
  <2>1. /\ pc \in Leaving /\ cur \in Uobj /\ UNCHANGED <<images, linked, own>>
        /\ \/ pc' = "coll_bridges" /\ cur' = cur
           \/ pc' = Iterate(cur + 1) /\ cur' = cur + 1
    BY <1>0, <1>7 DEF RestoreConfig, CollectionBridgesAgain, CurInv
  <2>8. retval' => retval
    BY <1>7, Zenon DEF RestoreConfig, CollectionBridgesAgain
  <2>2. \A u : Overrides(u)' <=> Overrides(u)
    BY <2>1 DEF Overrides
  <2>3. images \subseteq Uobj /\ \A u \in Uobj : u <= cur <=> u < cur + 1
    BY <1>0, <2>1 DEF TypeOK
  <2>4. cur + 1 \notin Uobj => \A u \in Uobj : u <= cur
    BY <1>0, <2>1
  <2>5. CASE pc' = "coll_bridges" /\ cur' = cur
    BY <1>0, <2>1, <2>2, <2>5, <2>8 DEF ImagesInv
  <2>6. CASE pc' = "sources" /\ cur' = cur + 1
    BY <1>0, <2>1, <2>2, <2>3, <2>6, <2>8 DEF ImagesInv
  <2>7. CASE pc' = "check" /\ cur' = cur + 1 /\ cur + 1 \notin Uobj
    BY <1>0, <2>1, <2>2, <2>3, <2>4, <2>7, <2>8 DEF ImagesInv
  <2> QED
    BY <2>1, <2>5, <2>6, <2>7 DEF Iterate
<1>8. CASE GenerateMapAndScript
  <2>1. /\ pc = "section_map" /\ pc' = "asm" /\ UNCHANGED <<images, linked, own>>
    BY <1>8 DEF GenerateMapAndScript
  <2>2. \A u : Overrides(u)' <=> Overrides(u)
    BY <2>1 DEF Overrides
  <2> QED
    BY <1>0, <2>1, <2>2 DEF ImagesInv
<1>9. CASE LinkCollection
  <2>1. pc = "link_coll" /\ pc' = "done" /\ UNCHANGED <<images, own>>
    BY <1>9 DEF LinkCollection
  <2>2. \A u : Overrides(u)' <=> Overrides(u)
    BY <2>1 DEF Overrides
  <2> QED
    BY <1>0, <2>1, <2>2 DEF ImagesInv
<1>10. CASE BridgeStep \/ UNCHANGED vars
  <2>1. UNCHANGED <<pc, cur, retval, images, linked, own>>
    BY <1>10 DEF BridgeStep, vars
  <2>2. \A u : Overrides(u)' <=> Overrides(u)
    BY <2>1 DEF Overrides
  <2> QED
    BY <1>0, <2>1, <2>2 DEF ImagesInv
<1> QED
  BY <1>1, <1>2, <1>3, <1>4, <1>5, <1>6, <1>7, <1>8, <1>9, <1>10 DEF Next, Passing

-----------------------------------------------------------------------------
(* The working directory: r_prevpath is _build whenever it is gone back to
   with all images linked so far. *)
LEMMA DirPreserved ==
  ASSUME IInv, CurInv', [Next]_vars
  PROVE  DirInv'
<1> USE DEF Goto, End, Preparing, Looping, Entering, Building, Compiling, Leaving, Closing, locals, history,
            bridgeVars, Before, UpTo
<1>0. DirInv /\ ImagesInv /\ CurInv /\ TypeOK /\ Uobj = 1..NUobjs /\ NUobjs \in Nat
  BY UobjcollAssumption DEF IInv, Uobj
<1>1. CASE Passing
  BY <1>0, <1>1, PassingSteps DEF DirInv
<1>2. CASE Enter \/ CreateSentinelsTable
  BY <1>0, <1>2 DEF Enter, CreateSentinelsTable, DirInv
<1>3. CASE LayOut
  BY <1>0, <1>3 DEF LayOut, Iterate, DirInv
<1>4. CASE PrepareUobj \/ UobjBridges
  BY <1>0, <1>4 DEF PrepareUobj, UobjBridges, DirInv
<1>5. CASE OverlayConfig
  <2>1. pc = "overlay" /\ pc' \in {"uobj_bridges", "chdir"} /\ UNCHANGED <<cur, images, cwd, prev>>
    BY <1>5, OwnRead DEF OverlayConfig
  <2> QED
    BY <1>0, <2>1 DEF DirInv
<1>6. CASE ChangeToUobj \/ CompileC \/ CompileAsm
  <2>1. UNCHANGED <<cur, images>> /\ cur \in Uobj /\ \A u \in images : u < cur
    BY <1>0, <1>6 DEF ChangeToUobj, CompileC, CompileAsm, Invoke, CurInv, ImagesInv
  <2>2. CASE pc' = "restore"
    <3>1. cur <= cur /\ ~(cur < cur)
      BY <1>0, <2>1
    <3> QED
      BY <2>1, <2>2, <3>1 DEF DirInv
  <2>3. CASE pc = "chdir" /\ pc' = "compile_c" /\ prev' = cwd
    BY <1>0, <2>1, <2>3 DEF DirInv
  <2>4. CASE pc \in Compiling /\ pc' \in Compiling /\ UNCHANGED prev
    BY <1>0, <2>1, <2>4 DEF DirInv
  <2> QED
    BY <1>6, <2>2, <2>3, <2>4 DEF ChangeToUobj, CompileC, CompileAsm, Invoke
<1>7. CASE LinkObjects
  <2>1. /\ pc = "link" /\ pc' = "restore" /\ UNCHANGED cur /\ cur \in Uobj
        /\ \/ images' = images \cup {cur} /\ cwd' = prev
           \/ images' = images
    BY <1>0, <1>7 DEF LinkObjects, CurInv
  <2>2. (\A u \in images : u < cur) /\ cur <= cur /\ ~(cur < cur) /\ \A u \in Uobj : u < cur => u <= cur
    BY <1>0, <2>1 DEF ImagesInv
  <2>3. ASSUME \A u \in Uobj : u <= cur => u \in images'
        PROVE  cwd' = Build
    <3>1. images' = images \cup {cur} /\ cwd' = prev
      BY <2>1, <2>2, <2>3
    <3>2. \A u \in Uobj : u < cur => u \in images
      BY <2>2, <2>3, <3>1
    <3> QED
      BY <1>0, <2>1, <3>1, <3>2 DEF DirInv
  <2> QED
    BY <2>1, <2>3 DEF DirInv
<1>8. CASE RestoreConfig \/ CollectionBridgesAgain
  <2>1. /\ pc \in Leaving /\ cur \in Uobj /\ UNCHANGED <<images, cwd>>
        /\ \/ pc' = "coll_bridges" /\ cur' = cur
           \/ pc' = Iterate(cur + 1) /\ cur' = cur + 1
    BY <1>0, <1>8 DEF RestoreConfig, CollectionBridgesAgain, CurInv
  <2>2. (\A u \in Uobj : u <= cur => u \in images) => cwd = Build
    BY <1>0, <2>1 DEF DirInv
  <2>3. \A u \in Uobj : u <= cur <=> u < cur + 1
    BY <1>0, <2>1
  <2>4. CASE pc' = "coll_bridges" /\ cur' = cur
    BY <2>1, <2>2, <2>4 DEF DirInv
  <2>5. CASE pc' \in {"sources", "check"} /\ cur' = cur + 1
    BY <2>1, <2>2, <2>3, <2>5 DEF DirInv
  <2> QED
    BY <2>1, <2>4, <2>5 DEF Iterate
<1>9. CASE GenerateMapAndScript \/ LinkCollection
  BY <1>0, <1>9 DEF GenerateMapAndScript, LinkCollection, DirInv
<1>10. CASE BridgeStep \/ UNCHANGED vars
  BY <1>0, <1>10 DEF BridgeStep, vars, DirInv
<1> QED
  BY <1>1, <1>2, <1>3, <1>4, <1>5, <1>6, <1>7, <1>8, <1>9, <1>10 DEF Next, Passing

-----------------------------------------------------------------------------
(* The bridges are loaded in the order cc, as, ld. *)
LEMMA KindPositions ==
  /\ \A k \in Kind : Position[k] \in 1..3
  /\ \A j, k \in Kind : Position[j] = Position[k] => j = k
  /\ Position["cc"] = 1 /\ Position["ld"] = 3
  BY DEF Kind, Position
(* The next bridge is the one whose position follows. *)
LEMMA FollowingPosition ==
  ASSUME NEW k \in Kind, k # "ld"
  PROVE  Following(k) \in Kind /\ Position[Following(k)] = Position[k] + 1
<1>1. \E j \in Kind : Position[j] = Position[k] + 1
  <2>1. "as" \in Kind /\ "ld" \in Kind /\ Position["cc"] = 1 /\ Position["as"] = 2 /\ Position["ld"] = 3
    BY DEF Kind, Position
  <2> QED
    BY <2>1 DEF Kind
<1> QED
  BY <1>1 DEF Following

(* The start of initialize_from_config: nothing is said of any bridge yet. *)
LEMMA StartLoads ==
  ASSUME StartInitialize
  PROVE  BridgeInv'
<1>1. \A j, k \in Kind : initAt' = <<k, "load">> => ~(Position[j] < Position[k])
  BY KindPositions DEF StartInitialize
<1>2. ~complete' /\ \A k \in Kind : initAt' # <<k, "build">>
  BY DEF StartInitialize
<1> QED
  BY <1>1, <1>2 DEF BridgeInv

(* A bridge is loaded from the setting of its kind. *)
LEMMA LoadPreserves ==
  ASSUME BridgesTypeOK, BridgeInv, NEW k \in Kind, LoadBridge(k), UNCHANGED own
  PROVE  BridgeInv'
<1>1. initAt = <<k, "load">> /\ ~complete /\ UNCHANGED config
  BY DEF LoadBridge, BridgeInv, Returned
<1>2. AllWellTyped' <=> AllWellTyped
  BY DEF AllWellTyped
<1>3. CASE /\ bridge' = [bridge EXCEPT ![k] = config[k]]
           /\ initAt' = <<k, "build">>
           /\ UNCHANGED complete
  <2>1. \A j \in Kind : bridge'[j] = IF j = k THEN config[k] ELSE bridge[j]
    BY <1>3 DEF BridgesTypeOK
  <2>2. \A j \in Kind : Position[j] <= Position[k] => j = k \/ Position[j] < Position[k]
    BY KindPositions
  <2>3. AllWellTyped => \A j \in Kind : Position[j] <= Position[k] => bridge'[j] = config[j]
    BY <1>1, <2>1, <2>2 DEF BridgeInv
  <2>4. ~complete' /\ (\A j \in Kind : initAt' # <<j, "load">>)
        /\ \A j \in Kind : initAt' = <<j, "build">> => j = k
    BY <1>1, <1>3
  <2> QED
    BY <1>1, <1>2, <2>3, <2>4 DEF BridgeInv
<1>4. CASE Return(FALSE)
  BY <1>1, <1>4 DEF Return, BridgeInv, Returned
<1> QED
  BY <1>3, <1>4 DEF LoadBridge

(* A bridge that builds is followed by the next one; after the last one all
   three have been loaded. *)
LEMMA BuildPreserves ==
  ASSUME BridgeInv, NEW k \in Kind, BuildBridge(k), UNCHANGED own
  PROVE  BridgeInv'
<1>1. initAt = <<k, "build">> /\ ~complete /\ UNCHANGED <<config, bridge>>
  BY DEF BuildBridge, BridgeInv, Returned
<1>2. AllWellTyped' <=> AllWellTyped
  BY DEF AllWellTyped
<1>3. AllWellTyped => \A j \in Kind : Position[j] <= Position[k] => bridge[j] = config[j]
  BY <1>1 DEF BridgeInv
<1>4. CASE k = "ld" /\ Return(TRUE)
  <2>1. \A j \in Kind : Position[j] <= Position[k]
    BY <1>4, KindPositions
  <2>2. Returned' /\ \A j \in Kind : initAt' # <<j, "load">> /\ initAt' # <<j, "build">>
    BY <1>4 DEF Return, Returned
  <2> QED
    BY <1>1, <1>2, <1>3, <2>1, <2>2 DEF BridgeInv
<1>5. CASE k # "ld" /\ initAt' = <<Following(k), "load">> /\ UNCHANGED complete
  <2>1. \A j \in Kind : Position[j] < Position[Following(k)] => Position[j] <= Position[k]
    BY <1>5, KindPositions, FollowingPosition
  <2>2. ~complete' /\ (\A j \in Kind : initAt' # <<j, "build">>)
        /\ \A j \in Kind : initAt' = <<j, "load">> => j = Following(k)
    BY <1>1, <1>5
  <2> QED
    BY <1>1, <1>2, <1>3, <2>1, <2>2 DEF BridgeInv
<1>6. CASE Return(FALSE)
  BY <1>1, <1>6 DEF Return, BridgeInv, Returned
<1> QED
  BY <1>4, <1>5, <1>6 DEF BuildBridge

(* The bridges that initialize_from_config has loaded by then. *)
LEMMA BridgePreserved ==
  ASSUME IInv, [Next]_vars
  PROVE  BridgeInv'
<1> USE DEF Goto, End, locals, history, bridgeVars
<1>0. BridgeInv /\ TypeOK
  BY DEF IInv
<1>1. ASSUME UNCHANGED <<config, bridge, initAt, complete, own>>
      PROVE  BridgeInv'
  <2>1. AllWellTyped' <=> AllWellTyped
    BY <1>1 DEF AllWellTyped
  <2> QED
    BY <1>0, <1>1, <2>1 DEF BridgeInv, Returned
<1>2. CASE Passing
  BY <1>0, <1>1, <1>2, PassingSteps
<1>3. CASE CreateSentinelsTable
  <2>1. StartInitialize \/ UNCHANGED <<config, bridge, initAt, complete, own>>
    BY <1>3 DEF CreateSentinelsTable
  <2> QED
    BY <1>1, <2>1, StartLoads
<1>4. CASE OverlayConfig
  <2>1. PICK s \in Manifest :
           /\ cur \in Uobj /\ own[cur] = NoSettings /\ own'[cur] = s
           /\ \A u \in Uobj : u # cur => own'[u] = own[u]
           /\ UNCHANGED bridge
           /\ s = NoSettings => config' = config
           /\ \/ StartInitialize
              \/ ~(s # NoSettings /\ WellTyped(s)) /\ UNCHANGED <<initAt, initRet, complete>>
    BY <1>4, OwnRead
  <2>2. CASE StartInitialize
    BY <2>2, StartLoads
  <2>3. CASE s = NoSettings /\ UNCHANGED <<initAt, initRet, complete>>
    <3>1. AllWellTyped' => AllWellTyped
      BY <2>1 DEF AllWellTyped
    <3> QED
      BY <1>0, <2>1, <2>3, <3>1 DEF BridgeInv, Returned
  <2>4. CASE s # NoSettings /\ ~WellTyped(s) /\ UNCHANGED <<initAt, initRet, complete>>
    <3>1. ~AllWellTyped'
      BY <2>1, <2>4 DEF AllWellTyped
    <3> QED
      BY <1>0, <2>4, <3>1 DEF BridgeInv, Returned
  <2> QED
    BY <2>1, <2>2, <2>3, <2>4
<1>5. CASE RestoreConfig
  <2>1. StartInitialize \/ UNCHANGED <<config, bridge, initAt, complete, own>>
    BY <1>5 DEF RestoreConfig
  <2> QED
    BY <1>1, <2>1, StartLoads
<1>6. CASE BridgeStep
  <2>1. UNCHANGED own /\ \E k \in Kind : LoadBridge(k) \/ BuildBridge(k)
    BY <1>6 DEF BridgeStep, InitializeFromConfig
  <2> QED
    BY <1>0, <2>1, LoadPreserves, BuildPreserves DEF TypeOK
<1>7. CASE Enter \/ LayOut \/ PrepareUobj \/ UobjBridges \/ ChangeToUobj \/ CompileC \/ CompileAsm
           \/ LinkObjects \/ CollectionBridgesAgain \/ GenerateMapAndScript \/ LinkCollection
  BY <1>1, <1>7 DEF Enter, LayOut, PrepareUobj, UobjBridges, ChangeToUobj, CompileC, CompileAsm, Invoke,
                    LinkObjects, CollectionBridgesAgain, GenerateMapAndScript, LinkCollection
<1>8. CASE UNCHANGED vars
  BY <1>1, <1>8 DEF vars
<1> QED
  BY <1>2, <1>3, <1>4, <1>5, <1>6, <1>7, <1>8 DEF Next, Passing

-----------------------------------------------------------------------------
(* The inductive invariant holds in every state of a build. *)
THEOREM Invariance == Spec => []IInv
<1>1. IInv /\ [Next]_vars => IInv'
  BY TypePreserved, CurPreserved, OwnPreserved, ImagesPreserved, DirPreserved, BridgePreserved DEF IInv
<1> QED
  BY <1>1, Initially, PTL DEF Spec

(* Whatever the tools answer and whatever settings the manifests have, build
   and build_image keep every variable in its type. *)
THEOREM TypeCorrect == Spec => []TypeOK
<1>1. IInv => TypeOK
  BY DEF IInv
<1> QED
  BY <1>1, Invariance, PTL

(* If every uobj has well-typed settings, the collection is linked only from
   the images of all of them, however many there are. *)
THEOREM AllImages == Spec => []LinkedFromAllImages
<1>1. IInv => LinkedFromAllImages
  BY DEF IInv, ImagesInv
<1> QED
  BY <1>1, Invariance, PTL

(* A tool that is run after an initialization that got through is the one
   that the configuration names, unless a manifest has an ill-typed setting. *)
THEOREM BridgesNamed == Spec => []BridgesMatchConfig
<1>1. IInv => BridgesMatchConfig
  <2> SUFFICES ASSUME IInv, complete, AllWellTyped PROVE bridge = config
    BY DEF BridgesMatchConfig, AllWellTyped
  <2>1. \A k \in Kind : bridge[k] = config[k]
    BY DEF IInv, BridgeInv
  <2>2. bridge \in [Kind -> Bridge \cup {NoBridge, Mixed}] /\ config \in [Kind -> Bridge \cup {Unspecified}]
    BY DEF IInv, TypeOK, BridgesTypeOK, Config
  <2> QED
    BY <2>1, <2>2
<1> QED
  BY <1>1, Invariance, PTL

(* The files of the collection are generated in its build directory if the
   images of all uobjs were linked. *)
THEOREM BuildDirectory == Spec => []GeneratedInBuildDir
<1>1. IInv => GeneratedInBuildDir
  BY DEF IInv, DirInv, GeneratedInBuildDir, Closing
<1> QED
  BY <1>1, Invariance, PTL

(* A collection whose uobjs have no settings is built under the configuration
   with which the build started. *)
THEOREM Defaults == Spec => []DefaultsStayDefaults
<1>1. IInv => DefaultsStayDefaults
  BY DEF IInv, OwnInv
<1> QED
  BY <1>1, Invariance, PTL

=============================================================================
