--------------------------- MODULE StagingProofs ---------------------------
(***************************************************************************)
(* Proofs about Staging for any number of processes, names and settings,   *)
(* with or without crashes and failing copies: type correctness, the       *)
(* exclusive owner of staging/current, and that a staging tree whose       *)
(* current configuration cannot be loaded is never repaired by a command.  *)
(* With one user, whose commands are not cut short: the current staging is *)
(* usable between commands, and config-set changes one setting.            *)
(***************************************************************************)
EXTENDS Staging, TLAPS

CreateOp == {"create", "create_from"}

\* Which commands reach which location.
OpAt(p) ==
    /\ pc[p] # "idle" => req[p] \in Request
    /\ pc[p] = "check_src" => req[p].op = "create_from"
    /\ pc[p] \in {"mkdir", "copy", "copying"} => req[p].op \in CreateOp
    /\ pc[p] \in {"check_link", "unlink", "symlink"}
           => req[p].op \in CreateOp \cup {"switch"}
    /\ pc[p] = "resolve" => req[p].op \in {"remove", "config_set"}
    /\ pc[p] \in {"rm_check", "rm_files", "rm_dir"} => req[p].op = "remove"
    /\ pc[p] \in {"dump_open", "dump_write"} => req[p].op = "config_set"

RequestsFit == \A p \in Proc : OpAt(p)

IInv == TypeOK /\ RequestsFit /\ LinkHasOneOwner

\* What a request contains, by operation.
LEMMA RequestFields ==
    ASSUME NEW r \in Request
    PROVE  /\ r.op \in CreateOp \cup {"switch", "remove", "config_set"}
           /\ r.op # "config_set" => r.name \in Name
           /\ r.op = "create_from" => r.from \in Name
           /\ r.op = "config_set" => r.setting \in Setting
                                     /\ r.value \in Value \cup {Invalid}
BY DEF Request, CreateOp

\* The golden configuration is one.
LEMMA GoldenConfig == Golden \in Config
BY StagingAssumption DEF Golden, Config

\* The initial state satisfies the inductive invariant.
LEMMA InitIInv == Init => IInv
<1> SUFFICES ASSUME Init PROVE IInv  OBVIOUS
<1>1. TypeOK
  BY StagingAssumption, GoldenConfig DEF Init, TypeOK, DirState, Location
<1>2. RequestsFit /\ LinkHasOneOwner
  BY DEF Init, RequestsFit, OpAt, LinkHasOneOwner, At
<1>3. QED  BY <1>1, <1>2 DEF IInv

\* A process that exits, or a step to a location that is not the symlink call
\* and fits its request, keeps all that is said of processes.
LEMMA ExitKeeps ==
    ASSUME IInv, NEW p \in Proc, Exit(p)
    PROVE  /\ pc' \in [Proc -> Location]
           /\ req' \in [Proc -> Request \cup {NoRequest}]
           /\ seen' \in [Proc -> Name \cup {NoLink}]
           /\ mem' \in [Proc -> Config]
           /\ RequestsFit'
           /\ link' = link => LinkHasOneOwner'
<1> USE GoldenConfig DEF IInv, TypeOK, Exit
<1>1. pc' \in [Proc -> Location]  BY DEF Location
<1>2. /\ req' \in [Proc -> Request \cup {NoRequest}]
      /\ seen' \in [Proc -> Name \cup {NoLink}]
      /\ mem' \in [Proc -> Config]
  OBVIOUS
<1>3. RequestsFit'  BY DEF RequestsFit, OpAt
<1>4. link' = link => LinkHasOneOwner'  BY DEF LinkHasOneOwner, At
<1>5. QED  BY <1>1, <1>2, <1>3, <1>4

LEMMA JumpKeeps ==
    ASSUME IInv, NEW p \in Proc, NEW l \in Location \ {"symlink"},
           Jump(p, l), UNCHANGED <<req, link>>, OpAt(p)'
    PROVE  pc' \in [Proc -> Location] /\ RequestsFit' /\ LinkHasOneOwner'
<1> USE DEF IInv, TypeOK, Jump
<1>1. pc' \in [Proc -> Location]  OBVIOUS
<1>2. RequestsFit'  BY DEF RequestsFit, OpAt
<1>3. LinkHasOneOwner'  BY DEF LinkHasOneOwner, At
<1>4. QED  BY <1>1, <1>2, <1>3

\* The file tree stays well formed under writes of well-formed texts.
LEMMA WriteKeeps ==
    ASSUME TypeOK, NEW n, NEW text \in Config, WriteFile(n, text)
    PROVE  dir' \in [Name -> DirState] /\ cfg' \in [Name -> Config]
BY DEF TypeOK, WriteFile, DirState

\* Every step of every process preserves the invariant.
LEMMA StepIInv == IInv /\ [Next]_vars => IInv'
<1> SUFFICES ASSUME IInv, [Next]_vars PROVE IInv'  OBVIOUS
<1> USE StagingAssumption, GoldenConfig DEF fs
<1>1. ASSUME NEW p \in Proc, Start(p), UNCHANGED killed PROVE IInv'
  <2>1. TypeOK'
    BY <1>1 DEF IInv, Start, Jump, TypeOK, Location
  <2>2. RequestsFit'
    BY <1>1 DEF IInv, Start, Jump, TypeOK, RequestsFit, OpAt
  <2>3. LinkHasOneOwner'
    BY <1>1 DEF IInv, Start, Jump, TypeOK, LinkHasOneOwner, At
  <2>4. QED  BY <2>1, <2>2, <2>3 DEF IInv
<1>2. ASSUME NEW p \in Proc, InitLink(p), UNCHANGED killed PROVE IInv'
  <2>1. OpAt(p)'
    BY <1>2 DEF InitLink, ReadLink, Jump, At, IInv, TypeOK, RequestsFit, OpAt
  <2>2. seen' \in [Proc -> Name \cup {NoLink}]
    BY <1>2 DEF InitLink, ReadLink, IInv, TypeOK
  <2>3. QED
    BY <1>2, <2>1, <2>2, JumpKeeps DEF InitLink, ReadLink, Location, IInv, TypeOK
<1>3. ASSUME NEW p \in Proc, InitLoad(p), UNCHANGED killed PROVE IInv'
  <2>1. CASE Exit(p)
    BY <1>3, <2>1, ExitKeeps DEF InitLoad, Exit, IInv, TypeOK
  <2>2. CASE /\ Whole(seen[p])
             /\ mem' = [mem EXCEPT ![p] = cfg[seen[p]]]
             /\ Jump(p, FirstStep(req[p].op))
             /\ UNCHANGED <<req, seen, fs>>
    <3>1. req[p] \in Request
      BY <1>3 DEF InitLoad, At, IInv, RequestsFit, OpAt
    <3>2. req[p].op \in CreateOp \cup {"switch", "remove", "config_set"}
      BY <3>1, RequestFields
    <3>3. FirstStep(req[p].op) \in Location \ {"symlink"}
      BY <3>2 DEF FirstStep, CreateOp, Location
    <3>4. OpAt(p)'
      BY <2>2, <3>1, <3>2 DEF OpAt, Jump, IInv, TypeOK, FirstStep, CreateOp
    <3>5. mem' \in [Proc -> Config]
      BY <2>2 DEF IInv, TypeOK, Whole
    <3>6. QED  BY <1>3, <2>2, <3>3, <3>4, <3>5, JumpKeeps DEF IInv, TypeOK
  <2>3. QED  BY <1>3, <2>1, <2>2 DEF InitLoad
<1>4. ASSUME NEW p \in Proc, CheckSource(p), UNCHANGED killed PROVE IInv'
  <2>1. CASE Exit(p)
    BY <1>4, <2>1, ExitKeeps DEF CheckSource, IInv, TypeOK
  <2>2. CASE Goto(p, "mkdir")
    <3>1. OpAt(p)'
      BY <1>4, <2>2
      DEF CheckSource, Goto, Jump, At, IInv, TypeOK, RequestsFit, OpAt, CreateOp
    <3>2. QED
      BY <1>4, <2>2, <3>1, JumpKeeps DEF CheckSource, Goto, Location, IInv, TypeOK
  <2>3. QED  BY <1>4, <2>1, <2>2 DEF CheckSource
<1>5. ASSUME NEW p \in Proc, Mkdir(p), UNCHANGED killed PROVE IInv'
  <2>1. OpAt(p)'
    BY <1>5 DEF Mkdir, Goto, Jump, At, IInv, TypeOK, RequestsFit, OpAt
  <2>2. dir' \in [Name -> DirState]
    BY <1>5 DEF Mkdir, IInv, TypeOK, DirState
  <2>3. QED
    BY <1>5, <2>1, <2>2, JumpKeeps DEF Mkdir, Goto, Location, IInv, TypeOK
<1>6. ASSUME NEW p \in Proc, CopyBegin(p), UNCHANGED killed PROVE IInv'
  <2>1. dir' \in [Name -> DirState]
    BY <1>6 DEF CopyBegin, IInv, TypeOK, DirState
  <2>2. PICK l \in {"copying", "unlink"} : Goto(p, l)
    BY <1>6 DEF CopyBegin
  <2>3. OpAt(p)'
    BY <1>6, <2>2
    DEF CopyBegin, Goto, Jump, At, IInv, TypeOK, RequestsFit, OpAt
  <2>4. QED
    BY <1>6, <2>1, <2>2, <2>3, JumpKeeps
    DEF CopyBegin, Goto, Location, IInv, TypeOK
<1>7. ASSUME NEW p \in Proc, CopyEnd(p), UNCHANGED killed PROVE IInv'
  <2>1. req[p] \in Request /\ req[p].op \in CreateOp
    BY <1>7 DEF CopyEnd, At, IInv, RequestsFit, OpAt
  <2>2. SourceConfig(p) \in Config
    BY <2>1, RequestFields DEF SourceConfig, FromGolden, CreateOp, IInv, TypeOK
  <2>3. dir' \in [Name -> DirState] /\ cfg' \in [Name -> Config]
    BY <1>7, <2>2, WriteKeeps DEF CopyEnd, IInv, TypeOK
  <2>4. OpAt(p)'
    BY <1>7 DEF CopyEnd, Goto, Jump, At, IInv, TypeOK, RequestsFit, OpAt
  <2>5. QED
    BY <1>7, <2>3, <2>4, JumpKeeps DEF CopyEnd, Goto, Location, IInv, TypeOK
<1>8. ASSUME NEW p \in Proc, CheckLink(p), UNCHANGED killed PROVE IInv'
  <2>1. CASE Exit(p)
    BY <1>8, <2>1, ExitKeeps DEF CheckLink, IInv, TypeOK
  <2>2. CASE Goto(p, "unlink")
    <3>1. OpAt(p)'
      BY <1>8, <2>2
      DEF CheckLink, Goto, Jump, At, IInv, TypeOK, RequestsFit, OpAt
    <3>2. QED
      BY <1>8, <2>2, <3>1, JumpKeeps DEF CheckLink, Goto, Location, IInv, TypeOK
  <2>3. QED  BY <1>8, <2>1, <2>2 DEF CheckLink
<1>9. ASSUME NEW p \in Proc, Unlink(p), UNCHANGED killed PROVE IInv'
  <2>1. CASE Exit(p) /\ link = NoLink
    <3>1. link' = link
      BY <1>9, <2>1 DEF Unlink
    <3>2. QED
      BY <1>9, <2>1, <3>1, ExitKeeps DEF Unlink, IInv, TypeOK
  <2>2. CASE link # NoLink /\ link' = NoLink /\ Goto(p, "symlink")
    <3>1. \A q \in Proc : ~At(q, "symlink")
      BY <2>2 DEF IInv, LinkHasOneOwner
    <3>2. LinkHasOneOwner'
      BY <2>2, <3>1 DEF LinkHasOneOwner, At, Goto, Jump, IInv, TypeOK
    <3>3. RequestsFit'
      BY <1>9, <2>2 DEF Unlink, At, Goto, Jump, IInv, TypeOK, RequestsFit, OpAt
    <3>4. TypeOK'
      BY <1>9, <2>2 DEF Unlink, Goto, Jump, IInv, TypeOK, Location
    <3>5. QED  BY <3>2, <3>3, <3>4 DEF IInv
  <2>3. QED  BY <1>9, <2>1, <2>2 DEF Unlink
<1>10. ASSUME NEW p \in Proc, Symlink(p), UNCHANGED killed PROVE IInv'
  <2>1. req[p] \in Request /\ req[p].op # "config_set"
    BY <1>10 DEF Symlink, At, IInv, RequestsFit, OpAt, CreateOp
  <2>2. link' \in Name
    BY <1>10, <2>1, RequestFields DEF Symlink
  <2>3. LinkHasOneOwner'
    <3>1. \A q \in Proc : At(q, "symlink") => q = p
      BY <1>10 DEF Symlink, IInv, LinkHasOneOwner
    <3>2. \A q \in Proc : ~At(q, "symlink")'
      BY <1>10, <3>1 DEF Symlink, Exit, At, IInv, TypeOK
    <3>3. QED  BY <3>2 DEF LinkHasOneOwner
  <2>4. strayed' \in BOOLEAN
    BY <1>10 DEF Symlink
  <2>5. QED
    BY <1>10, <2>2, <2>3, <2>4, ExitKeeps DEF Symlink, IInv, TypeOK
<1>11. ASSUME NEW p \in Proc, Resolve(p), UNCHANGED killed PROVE IInv'
  <2>1. PICK l \in {"rm_check", "dump_open"} :
          /\ Jump(p, l)
          /\ l = IF req[p].op = "remove" THEN "rm_check" ELSE "dump_open"
    BY <1>11 DEF Resolve
  <2>2. OpAt(p)'
    BY <1>11, <2>1
    DEF Resolve, ReadLink, Jump, At, IInv, TypeOK, RequestsFit, OpAt
  <2>3. seen' \in [Proc -> Name \cup {NoLink}]
    BY <1>11 DEF Resolve, ReadLink, IInv, TypeOK
  <2>4. QED
    BY <1>11, <2>1, <2>2, <2>3, JumpKeeps
    DEF Resolve, ReadLink, Location, IInv, TypeOK
<1>12. ASSUME NEW p \in Proc, RemoveCheck(p), UNCHANGED killed PROVE IInv'
  <2>1. CASE Exit(p)
    BY <1>12, <2>1, ExitKeeps DEF RemoveCheck, IInv, TypeOK
  <2>2. CASE Goto(p, "rm_files")
    <3>1. OpAt(p)'
      BY <1>12, <2>2
      DEF RemoveCheck, Goto, Jump, At, IInv, TypeOK, RequestsFit, OpAt
    <3>2. QED
      BY <1>12, <2>2, <3>1, JumpKeeps
      DEF RemoveCheck, Goto, Location, IInv, TypeOK
  <2>3. QED  BY <1>12, <2>1, <2>2 DEF RemoveCheck
<1>13. ASSUME NEW p \in Proc, RemoveFiles(p), UNCHANGED killed PROVE IInv'
  <2>1. dir' \in [Name -> DirState]
    BY <1>13 DEF RemoveFiles, IInv, TypeOK, DirState
  <2>2. CASE Exit(p)
    BY <1>13, <2>1, <2>2, ExitKeeps DEF RemoveFiles, IInv, TypeOK
  <2>3. CASE Goto(p, "rm_dir")
    <3>1. OpAt(p)'
      BY <1>13, <2>3
      DEF RemoveFiles, Goto, Jump, At, IInv, TypeOK, RequestsFit, OpAt
    <3>2. QED
      BY <1>13, <2>1, <2>3, <3>1, JumpKeeps
      DEF RemoveFiles, Goto, Location, IInv, TypeOK
  <2>4. QED  BY <1>13, <2>2, <2>3 DEF RemoveFiles
<1>14. ASSUME NEW p \in Proc, RemoveDir(p), UNCHANGED killed PROVE IInv'
  <2>1. dir' \in [Name -> DirState]
    BY <1>14 DEF RemoveDir, IInv, TypeOK, DirState
  <2>2. QED
    BY <1>14, <2>1, ExitKeeps DEF RemoveDir, IInv, TypeOK
<1>15. ASSUME NEW p \in Proc, SettingRefused(p), UNCHANGED killed PROVE IInv'
  BY <1>15, ExitKeeps DEF SettingRefused, IInv, TypeOK
<1>16. ASSUME NEW p \in Proc, DumpOpen(p), UNCHANGED killed PROVE IInv'
  <2>1. CASE Exit(p) /\ UNCHANGED dir
    BY <1>16, <2>1, ExitKeeps DEF DumpOpen, IInv, TypeOK
  <2>2. CASE /\ mem' = [mem EXCEPT ![p][req[p].setting] = req[p].value]
             /\ dir' = [dir EXCEPT ![seen[p]] = "torn"]
             /\ Jump(p, "dump_write")
             /\ UNCHANGED <<req, seen>>
    <3>1. req[p] \in Request /\ req[p].op = "config_set"
      BY <1>16 DEF DumpOpen, At, IInv, RequestsFit, OpAt
    <3>2. req[p].value \in Value
      BY <1>16, <3>1, RequestFields DEF DumpOpen
    <3>3. mem' \in [Proc -> Config]
      BY <2>2, <3>2 DEF IInv, TypeOK, Config
    <3>4. dir' \in [Name -> DirState]
      BY <2>2 DEF IInv, TypeOK, DirState
    <3>5. OpAt(p)'
      BY <2>2, <3>1 DEF Jump, IInv, TypeOK, OpAt
    <3>6. QED
      BY <1>16, <2>2, <3>3, <3>4, <3>5, JumpKeeps
      DEF DumpOpen, Location, IInv, TypeOK
  <2>3. QED  BY <1>16, <2>1, <2>2 DEF DumpOpen
<1>17. ASSUME NEW p \in Proc, DumpWrite(p), UNCHANGED killed PROVE IInv'
  <2>1. dir' \in [Name -> DirState] /\ cfg' \in [Name -> Config]
    BY <1>17, WriteKeeps DEF DumpWrite, IInv, TypeOK
  <2>2. QED
    BY <1>17, <2>1, ExitKeeps DEF DumpWrite, IInv, TypeOK
<1>18. ASSUME NEW p \in Proc, Crash(p) PROVE IInv'
  BY <1>18, ExitKeeps DEF Crash, IInv, TypeOK
<1>19. CASE UNCHANGED vars
  BY <1>19
  DEF vars, IInv, TypeOK, RequestsFit, OpAt, LinkHasOneOwner, At
<1>20. QED
  BY <1>1, <1>2, <1>3, <1>4, <1>5, <1>6, <1>7, <1>8, <1>9, <1>10, <1>11, <1>12,
     <1>13, <1>14, <1>15, <1>16, <1>17, <1>18, <1>19
  DEF Next, Command

\* The inductive invariant holds in every reachable state.
THEOREM InductiveInvariant == Spec => []IInv
<1>1. QED  BY InitIInv, StepIInv, PTL DEF Spec

\* Every variable keeps its type: no command stores a refused value, copies a
\* staging that is not one, or acts on a field its request does not have.
THEOREM TypeCorrect == Spec => []TypeOK
<1>1. IInv => TypeOK  BY DEF IInv
<1>2. QED  BY <1>1, InductiveInvariant, PTL

\* create, create --from-existing and switch own the link from unlink to
\* symlink, whatever other commands and crashes do in between.
THEOREM LinkOwner == Spec => []LinkHasOneOwner
<1>1. IInv => LinkHasOneOwner  BY DEF IInv
<1>2. QED  BY <1>1, InductiveInvariant, PTL

\* A step of a command other than unlink and symlink leaves the link alone,
\* and takes no process into or out of the symlink call.
LEMMA LinkUntouched ==
    ASSUME TypeOK, RequestsFit, NEW p \in Proc, Start(p) \/ Command(p),
           ~Unlink(p), ~Symlink(p)
    PROVE  /\ link' = link
           /\ \A q \in Proc : At(q, "symlink") => At(q, "symlink")'
<1> USE DEF At, Jump, Goto, Exit, TypeOK, fs
<1>1. ~At(p, "symlink") /\ link' = link
  BY DEF Start, Command, InitLink, ReadLink, InitLoad, CheckSource, Mkdir,
         CopyBegin, CopyEnd, CheckLink, Resolve, RemoveCheck, RemoveFiles,
         RemoveDir, SettingRefused, DumpOpen, DumpWrite
<1>2. \A q \in Proc : q # p => pc'[q] = pc[q]
  BY DEF Start, Command, InitLink, ReadLink, InitLoad, CheckSource, Mkdir,
         CopyBegin, CopyEnd, CheckLink, Resolve, RemoveCheck, RemoveFiles,
         RemoveDir, SettingRefused, DumpOpen, DumpWrite
<1>3. QED  BY <1>1, <1>2

LEMMA LostStep == IInv /\ LinkNeverLost /\ [Next]_vars => LinkNeverLost'
<1> SUFFICES ASSUME IInv, LinkNeverLost, [Next]_vars PROVE LinkNeverLost'
  OBVIOUS
<1> USE DEF LinkNeverLost
<1>1. ASSUME NEW p \in Proc, Start(p) \/ Command(p), UNCHANGED killed
      PROVE  LinkNeverLost'
  <2>1. CASE Unlink(p)
    BY <1>1, <2>1 DEF Unlink, Goto, Jump, Exit, At, IInv, TypeOK
  <2>2. CASE Symlink(p)
    <3>1. req[p] \in Request /\ req[p].op # "config_set"
      BY <2>2 DEF Symlink, At, IInv, RequestsFit, OpAt, CreateOp
    <3>2. link' \in Name
      BY <2>2, <3>1, RequestFields DEF Symlink
    <3>3. QED  BY <3>2, StagingAssumption
  <2>3. CASE ~Unlink(p) /\ ~Symlink(p)
    BY <1>1, <2>3, LinkUntouched DEF IInv
  <2>4. QED  BY <2>1, <2>2, <2>3
<1>2. ASSUME NEW p \in Proc, Crash(p) PROVE LinkNeverLost'
  BY <1>2 DEF Crash
<1>3. CASE UNCHANGED vars
  BY <1>3 DEF vars, At
<1>4. QED  BY <1>1, <1>2, <1>3 DEF Next

\* Whatever commands race and whatever copies fail, the link is lost only if
\* a process is killed.
THEOREM NeverLost == Spec => []LinkNeverLost
<1>1. Init => LinkNeverLost
  BY StagingAssumption DEF Init, LinkNeverLost
<1>2. QED  BY <1>1, LostStep, InductiveInvariant, PTL DEF Spec

\* One step from a stuck tree: only starting, loading and dying remain.
LEMMA StuckStep ==
    TypeOK /\ Stuck /\ [Next]_vars => Stuck' /\ UNCHANGED <<dir, cfg, link>>
<1> SUFFICES ASSUME TypeOK, Stuck, [Next]_vars
             PROVE  Stuck' /\ UNCHANGED <<dir, cfg, link>>
  OBVIOUS
<1> USE DEF TypeOK, Stuck, At, fs
<1>1. ASSUME NEW p \in Proc, Start(p)
      PROVE  Stuck' /\ UNCHANGED <<dir, cfg, link>>
  BY <1>1 DEF Start, Jump, Whole
<1>2. ASSUME NEW p \in Proc, InitLink(p)
      PROVE  Stuck' /\ UNCHANGED <<dir, cfg, link>>
  BY <1>2 DEF InitLink, ReadLink, Jump, Whole
<1>3. ASSUME NEW p \in Proc, InitLoad(p) \/ Crash(p)
      PROVE  Stuck' /\ UNCHANGED <<dir, cfg, link>>
  <2>1. Exit(p) /\ UNCHANGED fs
    BY <1>3 DEF InitLoad, Crash
  <2>2. QED  BY <2>1 DEF Exit, Whole
<1>4. ASSUME NEW p \in Proc, Command(p) PROVE InitLink(p) \/ InitLoad(p)
  BY <1>4
  DEF Command, CheckSource, Mkdir, CopyBegin, CopyEnd, CheckLink, Unlink,
      Symlink, Resolve, RemoveCheck, RemoveFiles, RemoveDir, SettingRefused,
      DumpOpen, DumpWrite
<1>5. CASE UNCHANGED vars
  BY <1>5 DEF vars, Whole
<1>6. QED  BY <1>1, <1>2, <1>3, <1>4, <1>5 DEF Next

\* No command repairs a tree whose current staging cannot be loaded: the user
\* has to install again or mend it by hand.
THEOREM NoRepair == Spec => StuckForever
<1>1. TypeOK /\ TypeOK' /\ [Next]_vars
        => [Stuck => Stuck' /\ UNCHANGED <<dir, cfg, link>>]_vars
  BY StuckStep
<1>2. QED  BY <1>1, TypeCorrect, PTL DEF Spec, StuckForever

---------------------------------------------------------------------------
(* One user, whose commands are neither killed nor run out of space *)

OneUser == (\E p : Proc = {p}) /\ ~MayCrash /\ ~CopyMayFail

\* No staging is half made, except the one that the command works on.
Clean(n) == dir[n] \in {"absent", "whole"}
OthersClean(n) == \A m \in Name : m # n => Clean(m)
SourceReady(p) == req[p].op = "create_from" => Whole(req[p].from)
TreeAt(p) ==
    /\ pc[p] \notin {"copy", "copying", "rm_dir", "dump_write"} => \A n \in Name : Clean(n)
    /\ pc[p] \in {"copy", "copying", "rm_dir"} => OthersClean(req[p].name)
    /\ pc[p] = "check_link" => req[p].op = "switch"
    /\ pc[p] = "mkdir" => SourceReady(p)
    /\ pc[p] = "copy" => dir[req[p].name] \in {"empty", "whole"} /\ SourceReady(p)
    /\ pc[p] = "copying" =>
           /\ dir[req[p].name] = "torn" /\ SourceReady(p)
           /\ req[p].op = "create_from" => req[p].from # req[p].name
    /\ pc[p] \in {"unlink", "symlink"} /\ req[p].op \in CreateOp => Whole(req[p].name)
    /\ pc[p] = "rm_dir" => dir[req[p].name] = "empty"
    /\ pc[p] = "dump_write" => OthersClean(seen[p]) /\ dir[seen[p]] = "torn"

\* The link names a staging that is whole, or is being written to.
LinkAt(p) ==
    ~strayed /\ pc[p] # "symlink" =>
        /\ link # NoLink
        /\ \/ Whole(link)
           \/ pc[p] \in {"copy", "copying"} /\ link = req[p].name
           \/ pc[p] = "dump_write" /\ link = seen[p]

\* What a process read from the link, and from the configuration file, is
\* still there when it is used.
Resolving == {"init_load", "resolve", "rm_check", "rm_files", "rm_dir", "dump_open", "dump_write"}
MemAt(p) ==
    /\ pc[p] \in Resolving => seen[p] = link
    /\ pc[p] \in {"resolve", "dump_open", "dump_write"} => seen[p] # NoLink
    /\ pc[p] \in {"rm_files", "rm_dir"} => seen[p] # req[p].name
    /\ pc[p] \in {"resolve", "dump_open"} => mem[p] = cfg[seen[p]]
    /\ pc[p] = "dump_write" => mem[p] = [cfg[seen[p]] EXCEPT ![req[p].setting] = req[p].value]

UserInv == \A p \in Proc : TreeAt(p) /\ LinkAt(p) /\ MemAt(p)

-----------------------------------------------------------------------------
LEMMA UserInitially == Init => UserInv
<1> SUFFICES ASSUME Init, NEW p \in Proc PROVE TreeAt(p) /\ LinkAt(p) /\ MemAt(p)
  BY DEF UserInv
<1>1. pc[p] = "idle" /\ link = Default /\ \A n \in Name : Clean(n)
  BY DEF Init, Clean
<1>2. Whole(link) /\ link # NoLink
  BY StagingAssumption DEF Init, Whole
<1>3. QED  BY <1>1, <1>2 DEF TreeAt, LinkAt, MemAt, Resolving

\* The step of one user's command.
LEMMA UserStep ==
    ASSUME OneUser, IInv, UserInv, NEW p \in Proc, Start(p) \/ Command(p), UNCHANGED killed
    PROVE  TreeAt(p)' /\ LinkAt(p)' /\ MemAt(p)'
<1> USE DEF At, Jump, Goto, fs
<1>0. /\ TreeAt(p) /\ LinkAt(p) /\ MemAt(p) /\ OpAt(p)
      /\ pc \in [Proc -> Location] /\ dir \in [Name -> DirState] /\ cfg \in [Name -> Config]
      /\ link \in Name \cup {NoLink} /\ req \in [Proc -> Request \cup {NoRequest}]
      /\ seen \in [Proc -> Name \cup {NoLink}] /\ mem \in [Proc -> Config] /\ strayed \in BOOLEAN
  BY DEF UserInv, IInv, RequestsFit, TypeOK
<1>1. pc[p] \notin {"idle"} => req[p] \in Request
  BY <1>0 DEF OpAt
\* An exit with a clean tree leaves the link to be looked at.
<1>2. ASSUME Exit(p), \A n \in Name : Clean(n)', ~strayed' => Whole(link)' /\ link' # NoLink
      PROVE  TreeAt(p)' /\ LinkAt(p)' /\ MemAt(p)'
  <2>1. pc'[p] = "idle"
    BY <1>0, <1>2 DEF Exit
  <2>2. QED  BY <1>2, <2>1 DEF TreeAt, LinkAt, MemAt, Resolving
\* A step that leaves the tree alone and comes from a clean one.
<1>3. ASSUME UNCHANGED <<dir, cfg, link, strayed>>,
             pc[p] \notin {"copy", "copying", "rm_dir", "dump_write", "symlink"}
      PROVE  /\ \A n \in Name : Clean(n)' /\ Clean(n)
             /\ (~strayed' => Whole(link)' /\ link' # NoLink)
             /\ (~strayed => Whole(link) /\ link # NoLink)
  BY <1>0, <1>3 DEF TreeAt, LinkAt, Clean, Whole
<1>4. CASE Start(p)
  <2>1. pc[p] = "idle" /\ pc'[p] = "init_link" /\ UNCHANGED <<dir, cfg, link, strayed>>
    BY <1>0, <1>4 DEF Start
  <2>2. QED  BY <1>3, <2>1 DEF TreeAt, LinkAt, MemAt, Resolving
<1>5. CASE InitLink(p)
  <2>1. pc[p] = "init_link" /\ pc'[p] = "init_load" /\ UNCHANGED <<dir, cfg, link, strayed>> /\ seen'[p] = link
    BY <1>0, <1>5 DEF InitLink, ReadLink
  <2>2. QED  BY <1>3, <2>1 DEF TreeAt, LinkAt, MemAt, Resolving
<1>6. CASE InitLoad(p)
  <2>1. pc[p] = "init_load" /\ UNCHANGED <<dir, cfg, link, strayed>>
    BY <1>6 DEF InitLoad
  <2>2. CASE Exit(p)
    BY <1>2, <1>3, <2>1, <2>2
  <2>3. CASE /\ Whole(seen[p])
             /\ mem' = [mem EXCEPT ![p] = cfg[seen[p]]]
             /\ pc' = [pc EXCEPT ![p] = FirstStep(req[p].op)]
             /\ UNCHANGED <<req, seen>>
    <3>1. /\ pc'[p] \in {"mkdir", "check_src", "check_link", "resolve"}
          /\ pc'[p] = "mkdir" => req[p].op = "create"
          /\ pc'[p] = "check_link" => req[p].op = "switch"
      <4>1. req[p].op \in CreateOp \cup {"switch", "remove", "config_set"}
        BY <1>1, <2>1, RequestFields
      <4>2. QED  BY <1>0, <2>3, <4>1 DEF FirstStep, CreateOp
    <3>2. seen[p] = link /\ seen[p] # NoLink /\ mem'[p] = cfg[seen[p]]
      BY <1>0, <2>1, <2>3 DEF MemAt, Resolving, Whole
    <3>3. QED
      BY <1>3, <2>1, <2>3, <3>1, <3>2 DEF TreeAt, LinkAt, MemAt, Resolving, SourceReady
  <2>4. QED  BY <1>6, <2>2, <2>3 DEF InitLoad
<1>7. CASE CheckSource(p)
  <2>1. pc[p] = "check_src" /\ UNCHANGED <<dir, cfg, link, strayed>> /\ req[p].op = "create_from"
    BY <1>0, <1>7 DEF CheckSource, OpAt
  <2>2. CASE Exit(p)
    BY <1>2, <1>3, <2>1, <2>2
  <2>3. CASE Exists(req[p].from) /\ pc' = [pc EXCEPT ![p] = "mkdir"] /\ UNCHANGED <<req, seen, mem>>
    <3>1. Whole(req[p].from)
      <4>1. req[p].from \in Name
        BY <1>1, <2>1, RequestFields
      <4>2. QED  BY <1>3, <2>1, <2>3, <4>1 DEF Clean, Exists, Whole
    <3>2. SourceReady(p)' /\ pc'[p] = "mkdir"
      BY <1>0, <2>1, <2>3, <3>1 DEF SourceReady, Whole
    <3>3. QED  BY <1>3, <2>1, <3>2 DEF TreeAt, LinkAt, MemAt, Resolving
  <2>4. QED  BY <1>7, <2>2, <2>3 DEF CheckSource
<1>8. CASE CheckLink(p)
  <2>1. pc[p] = "check_link" /\ UNCHANGED <<dir, cfg, link, strayed>> /\ req[p].op = "switch"
    BY <1>0, <1>8 DEF CheckLink, TreeAt
  <2>2. CASE Exit(p)
    BY <1>2, <1>3, <2>1, <2>2
  <2>3. CASE pc' = [pc EXCEPT ![p] = "unlink"] /\ UNCHANGED <<req, seen, mem>>
    <3>1. pc'[p] = "unlink" /\ req'[p].op \notin CreateOp
      BY <1>0, <2>1, <2>3 DEF CreateOp
    <3>2. QED  BY <1>3, <2>1, <3>1 DEF TreeAt, LinkAt, MemAt, Resolving
  <2>4. QED  BY <1>8, <2>2, <2>3 DEF CheckLink
<1>9. CASE Mkdir(p)
  <2> DEFINE n == req[p].name
  <2>1. /\ pc[p] = "mkdir" /\ pc'[p] = "copy" /\ UNCHANGED <<cfg, link, strayed, req, seen, mem>>
        /\ dir' = [dir EXCEPT ![n] = IF @ = "absent" THEN "empty" ELSE @]
        /\ n \in Name
    BY <1>0, <1>1, <1>9, RequestFields DEF Mkdir, OpAt, CreateOp
  <2>2. /\ \A m \in Name : Clean(m)
        /\ SourceReady(p)
        /\ ~strayed => link # NoLink /\ Whole(link)
    BY <1>0, <2>1 DEF TreeAt, LinkAt
  <2>3. dir'[n] \in {"empty", "whole"} /\ \A m \in Name : m # n => dir'[m] = dir[m]
    BY <1>0, <2>1, <2>2 DEF Clean
  <2>4. \A m \in Name : dir[m] = "whole" => dir'[m] = "whole"
    BY <1>0, <2>1
  <2>5. SourceReady(p)'
    <3>1. req[p].op = "create_from" => req[p].from \in Name
      BY <1>1, <2>1, RequestFields
    <3>2. QED  BY <2>1, <2>2, <2>4, <3>1 DEF SourceReady, Whole
  <2>6. OthersClean(n)'
    BY <2>1, <2>2, <2>3 DEF OthersClean, Clean
  <2>7. ~strayed' => link' # NoLink /\ Whole(link)'
    BY <1>0, <2>1, <2>2, <2>4 DEF Whole
  <2>8. QED
    BY <2>1, <2>3, <2>5, <2>6, <2>7 DEF TreeAt, LinkAt, MemAt, Resolving
<1>10. CASE CopyBegin(p)
  <2> DEFINE n == req[p].name
  <2>1. /\ pc[p] = "copy" /\ UNCHANGED <<cfg, link, strayed, req, seen, mem>>
        /\ n \in Name /\ req[p].op \in CreateOp
    BY <1>0, <1>1, <1>10, RequestFields DEF CopyBegin, OpAt, CreateOp
  <2>2. /\ OthersClean(n) /\ dir[n] \in {"empty", "whole"} /\ SourceReady(p)
        /\ ~strayed => link # NoLink /\ (Whole(link) \/ link = n)
    BY <1>0, <2>1 DEF TreeAt, LinkAt
  <2>3. CASE /\ Copyable(p)
             /\ dir' = [dir EXCEPT ![n] = "torn"]
             /\ pc' = [pc EXCEPT ![p] = "copying"]
    <3>1. /\ pc'[p] = "copying" /\ dir'[n] = "torn"
          /\ \A m \in Name : m # n => dir'[m] = dir[m]
      BY <1>0, <2>1, <2>3
    <3>2. req[p].op = "create_from" => req[p].from # n /\ req[p].from \in Name
      BY <1>1, <2>1, <2>3, RequestFields DEF Copyable, FromGolden, CreateOp
    <3>3. SourceReady(p)'
      BY <2>1, <2>2, <3>1, <3>2 DEF SourceReady, Whole
    <3>4. OthersClean(n)'
      BY <2>1, <2>2, <3>1 DEF OthersClean, Clean
    <3>5. ~strayed' => link' # NoLink /\ (Whole(link)' \/ link' = n)
      BY <1>0, <2>1, <2>2, <3>1 DEF Whole
    <3>6. QED
      BY <2>1, <3>1, <3>2, <3>3, <3>4, <3>5 DEF TreeAt, LinkAt, MemAt, Resolving
  <2>4. CASE ~Copyable(p) /\ pc' = [pc EXCEPT ![p] = "unlink"] /\ UNCHANGED dir
    <3>1. pc'[p] = "unlink"
      BY <1>0, <2>4
    <3>2. Whole(n)
      <4>1. n # NoLink /\ Exists(n)
        BY <2>1, <2>2, StagingAssumption DEF Exists
      <4>2. req[p].op # "create" /\ ~(HasFile(req[p].from) /\ req[p].from # n)
        BY <2>4, <4>1 DEF Copyable, FromGolden
      <4>3. Whole(req[p].from)
        BY <2>1, <2>2, <4>2 DEF SourceReady, CreateOp
      <4>4. QED  BY <4>2, <4>3 DEF Whole, HasFile
    <3>3. \A m \in Name : Clean(m)'
      BY <2>2, <2>4, <3>2 DEF OthersClean, Clean, Whole
    <3>4. ~strayed' => link' # NoLink /\ Whole(link)'
      BY <2>1, <2>2, <2>4, <3>2 DEF Whole
    <3>5. Whole(req[p].name)'
      BY <2>1, <2>4, <3>2 DEF Whole
    <3>6. QED
      BY <2>1, <3>1, <3>3, <3>4, <3>5 DEF TreeAt, LinkAt, MemAt, Resolving
  <2>5. QED  BY <1>10, <2>1, <2>3, <2>4 DEF CopyBegin
<1>11. CASE CopyEnd(p)
  <2> DEFINE n == req[p].name
  <2>1. /\ pc[p] = "copying" /\ pc'[p] = "unlink" /\ UNCHANGED <<link, strayed, req, seen, mem>>
        /\ n \in Name /\ req[p].op \in CreateOp
    BY <1>0, <1>1, <1>11, RequestFields DEF CopyEnd, OpAt, CreateOp
  <2>2. /\ OthersClean(n) /\ dir[n] = "torn" /\ SourceReady(p)
        /\ ~strayed => link # NoLink /\ (Whole(link) \/ link = n)
    BY <1>0, <2>1 DEF TreeAt, LinkAt
  <2>3. SourceWhole(p)
    BY <2>1, <2>2 DEF SourceWhole, SourceReady, FromGolden, CreateOp
  <2>4. WriteFile(n, SourceConfig(p))
    BY <1>11, <2>3 DEF CopyEnd, OneUser
  <2>5. dir' = [dir EXCEPT ![n] = "whole"]
    BY <2>1, <2>2, <2>4, StagingAssumption DEF WriteFile, HasFile, Whole
  <2>6. dir'[n] = "whole" /\ \A m \in Name : m # n => dir'[m] = dir[m]
    BY <1>0, <2>1, <2>5
  <2>7. Whole(req[p].name)' /\ \A m \in Name : Clean(m)'
    BY <2>1, <2>2, <2>6, StagingAssumption DEF Whole, Clean, OthersClean
  <2>8. ~strayed' => link' # NoLink /\ Whole(link)'
    BY <1>0, <2>1, <2>2, <2>6 DEF Whole
  <2>9. QED
    BY <2>1, <2>7, <2>8 DEF TreeAt, LinkAt, MemAt, Resolving
<1>12. CASE Unlink(p)
  <2>1. pc[p] = "unlink" /\ UNCHANGED <<dir, cfg, strayed>>
    BY <1>12 DEF Unlink
  <2>2. /\ \A n \in Name : Clean(n)' /\ Clean(n)
        /\ ~strayed => link # NoLink
        /\ req[p].op \in CreateOp => Whole(req[p].name)
    BY <1>0, <2>1 DEF TreeAt, LinkAt, Clean
  <2>3. CASE link = NoLink /\ Exit(p) /\ UNCHANGED link
    BY <1>2, <2>1, <2>2, <2>3
  <2>4. CASE pc' = [pc EXCEPT ![p] = "symlink"] /\ UNCHANGED <<req, seen, mem>>
    <3>1. pc'[p] = "symlink"
      BY <1>0, <2>4
    <3>2. req'[p].op \in CreateOp => Whole(req[p].name)'
      BY <2>1, <2>2, <2>4 DEF Whole
    <3>3. QED
      BY <2>2, <2>4, <3>1, <3>2 DEF TreeAt, LinkAt, MemAt, Resolving
  <2>5. QED  BY <1>12, <2>3, <2>4 DEF Unlink
<1>13. CASE Symlink(p)
  <2>1. /\ pc[p] = "symlink" /\ UNCHANGED <<dir, cfg>> /\ Exit(p) /\ link' = req[p].name
        /\ strayed' = (strayed \/ (req[p].op = "switch" /\ ~Whole(req[p].name)))
        /\ req[p].op \in CreateOp \cup {"switch"} /\ req[p].name \in Name
    BY <1>0, <1>1, <1>13, RequestFields DEF Symlink, OpAt, CreateOp
  <2>2. /\ \A n \in Name : Clean(n)'
        /\ req[p].op \in CreateOp => Whole(req[p].name)
    BY <1>0, <2>1 DEF TreeAt, Clean
  <2>3. ~strayed' => Whole(req[p].name)
    BY <2>1, <2>2, Zenon
  <2>4. ~strayed' => Whole(link)' /\ link' # NoLink
    BY <2>1, <2>3 DEF Whole
  <2>5. QED  BY <1>2, <2>1, <2>2, <2>4
<1>14. CASE Resolve(p)
  <2>1. /\ pc[p] = "resolve" /\ UNCHANGED <<dir, cfg, link, strayed, req, mem>> /\ seen'[p] = link
        /\ pc'[p] \in {"rm_check", "dump_open"}
    BY <1>0, <1>14 DEF Resolve, ReadLink
  <2>2. seen'[p] = seen[p] /\ seen[p] # NoLink /\ mem[p] = cfg[seen[p]]
    BY <1>0, <2>1 DEF MemAt, Resolving
  <2>3. mem'[p] = cfg'[seen'[p]]
    BY <2>1, <2>2
  <2>4. QED  BY <1>3, <2>1, <2>2, <2>3 DEF TreeAt, LinkAt, MemAt, Resolving
<1>15. CASE RemoveCheck(p)
  <2>1. pc[p] = "rm_check" /\ UNCHANGED <<dir, cfg, link, strayed>>
    BY <1>15 DEF RemoveCheck
  <2>2. CASE Exit(p)
    BY <1>2, <1>3, <2>1, <2>2
  <2>3. CASE seen[p] # req[p].name /\ pc' = [pc EXCEPT ![p] = "rm_files"] /\ UNCHANGED <<req, seen, mem>>
    <3>1. pc'[p] = "rm_files" /\ seen'[p] = link' /\ seen'[p] # req'[p].name
      BY <1>0, <2>1, <2>3 DEF MemAt, Resolving
    <3>2. QED  BY <1>3, <2>1, <3>1 DEF TreeAt, LinkAt, MemAt, Resolving
  <2>4. QED  BY <1>15, <2>2, <2>3 DEF RemoveCheck
<1>16. CASE RemoveFiles(p)
  <2> DEFINE n == req[p].name
  <2>1. /\ pc[p] = "rm_files" /\ UNCHANGED <<cfg, link, strayed>>
        /\ n \in Name
    BY <1>0, <1>1, <1>16, RequestFields DEF RemoveFiles, OpAt
  <2>2. /\ \A m \in Name : Clean(m)
        /\ ~strayed => link # NoLink /\ Whole(link)
        /\ seen[p] = link /\ link # n
    BY <1>0, <2>1 DEF TreeAt, LinkAt, MemAt, Resolving
  <2>3. CASE Exit(p) /\ UNCHANGED dir
    BY <1>2, <1>3, <2>1, <2>3
  <2>4. CASE /\ dir' = [dir EXCEPT ![n] = "empty"]
             /\ pc' = [pc EXCEPT ![p] = "rm_dir"] /\ UNCHANGED <<req, seen, mem>>
    <3>1. /\ pc'[p] = "rm_dir" /\ dir'[n] = "empty"
          /\ \A m \in Name : m # n => dir'[m] = dir[m]
      BY <1>0, <2>1, <2>4
    <3>2. OthersClean(n)'
      BY <2>1, <2>2, <2>4, <3>1 DEF OthersClean, Clean
    <3>3. ~strayed' => link' # NoLink /\ Whole(link)'
      BY <1>0, <2>1, <2>2, <3>1 DEF Whole
    <3>4. QED
      BY <2>1, <2>2, <2>4, <3>1, <3>2, <3>3 DEF TreeAt, LinkAt, MemAt, Resolving
  <2>5. QED  BY <1>16, <2>3, <2>4 DEF RemoveFiles
<1>17. CASE RemoveDir(p)
  <2> DEFINE n == req[p].name
  <2>1. /\ pc[p] = "rm_dir" /\ UNCHANGED <<cfg, link, strayed>> /\ Exit(p)
        /\ n \in Name
    BY <1>0, <1>1, <1>17, RequestFields DEF RemoveDir, OpAt
  <2>2. /\ OthersClean(n) /\ dir[n] = "empty"
        /\ ~strayed => link # NoLink /\ Whole(link)
        /\ seen[p] = link /\ link # n
    BY <1>0, <2>1 DEF TreeAt, LinkAt, MemAt, Resolving
  <2>3. dir' = [dir EXCEPT ![n] = "absent"]
    BY <1>17, <2>2 DEF RemoveDir
  <2>4. dir'[n] = "absent" /\ \A m \in Name : m # n => dir'[m] = dir[m]
    BY <1>0, <2>1, <2>3
  <2>5. \A m \in Name : Clean(m)'
    BY <2>2, <2>4 DEF OthersClean, Clean
  <2>6. ~strayed' => Whole(link)' /\ link' # NoLink
    BY <1>0, <2>1, <2>2, <2>4 DEF Whole
  <2>7. QED  BY <1>2, <2>1, <2>5, <2>6
<1>18. CASE SettingRefused(p)
  <2>1. pc[p] = "dump_open" /\ Exit(p) /\ UNCHANGED <<dir, cfg, link, strayed>>
    BY <1>18 DEF SettingRefused
  <2>2. QED  BY <1>2, <1>3, <2>1
<1>19. CASE DumpOpen(p)
  <2>1. pc[p] = "dump_open" /\ UNCHANGED <<cfg, link, strayed>>
    BY <1>19 DEF DumpOpen
  <2>2. /\ seen[p] = link /\ seen[p] # NoLink /\ seen[p] \in Name /\ mem[p] = cfg[seen[p]]
        /\ \A m \in Name : Clean(m)
        /\ ~strayed => Whole(link)
    BY <1>0, <2>1 DEF TreeAt, LinkAt, MemAt, Resolving
  <2>3. CASE Exit(p) /\ UNCHANGED dir
    BY <1>2, <1>3, <2>1, <2>3
  <2>4. CASE /\ mem' = [mem EXCEPT ![p][req[p].setting] = req[p].value]
             /\ dir' = [dir EXCEPT ![seen[p]] = "torn"]
             /\ pc' = [pc EXCEPT ![p] = "dump_write"] /\ UNCHANGED <<req, seen>>
    <3>1. /\ pc'[p] = "dump_write" /\ dir'[seen[p]] = "torn"
          /\ \A m \in Name : m # seen[p] => dir'[m] = dir[m]
      BY <1>0, <2>2, <2>4
    <3>2. mem'[p] = [cfg[seen[p]] EXCEPT ![req[p].setting] = req[p].value]
      BY <1>0, <2>2, <2>4
    <3>3. mem'[p] = [cfg'[seen'[p]] EXCEPT ![req'[p].setting] = req'[p].value]
      BY <2>1, <2>4, <3>2
    <3>4. OthersClean(seen[p])'
      BY <2>2, <2>4, <3>1 DEF OthersClean, Clean
    <3>5. QED
      BY <2>1, <2>2, <2>4, <3>1, <3>3, <3>4 DEF TreeAt, LinkAt, MemAt, Resolving
  <2>5. QED  BY <1>19, <2>3, <2>4 DEF DumpOpen
<1>20. CASE DumpWrite(p)
  <2>1. pc[p] = "dump_write" /\ Exit(p) /\ UNCHANGED <<link, strayed>> /\ WriteFile(seen[p], mem[p])
    BY <1>20 DEF DumpWrite
  <2>2. /\ OthersClean(seen[p]) /\ dir[seen[p]] = "torn"
        /\ seen[p] = link /\ seen[p] # NoLink /\ seen[p] \in Name
    BY <1>0, <2>1 DEF TreeAt, MemAt, Resolving
  <2>3. dir' = [dir EXCEPT ![seen[p]] = "whole"]
    BY <2>1, <2>2 DEF WriteFile, HasFile, Whole
  <2>4. dir'[seen[p]] = "whole" /\ \A m \in Name : m # seen[p] => dir'[m] = dir[m]
    BY <1>0, <2>2, <2>3
  <2>5. \A m \in Name : Clean(m)'
    BY <2>2, <2>4 DEF OthersClean, Clean
  <2>6. Whole(link)' /\ link' # NoLink
    BY <2>1, <2>2, <2>4 DEF Whole
  <2>7. QED  BY <1>2, <2>1, <2>5, <2>6
<1>21. QED
  BY <1>4, <1>5, <1>6, <1>7, <1>8, <1>9, <1>10, <1>11, <1>12, <1>13, <1>14,
     <1>15, <1>16, <1>17, <1>18, <1>19, <1>20 DEF Command

\* Every step preserves the invariant: nobody else takes one, and nothing is
\* killed.
LEMMA UserStepInv ==
    ASSUME OneUser PROVE IInv /\ UserInv /\ [Next]_vars => UserInv'
<1> SUFFICES ASSUME IInv, UserInv, [Next]_vars PROVE UserInv'  OBVIOUS
<1>1. CASE UNCHANGED vars
  BY <1>1 DEF vars, UserInv, TreeAt, LinkAt, MemAt, Resolving, Clean, OthersClean, SourceReady, Whole
<1>2. CASE Next
  <2>1. PICK p \in Proc : (Start(p) \/ Command(p)) /\ UNCHANGED killed
    BY <1>2 DEF Next, Crash, OneUser
  <2>2. TreeAt(p)' /\ LinkAt(p)' /\ MemAt(p)'
    BY <2>1, UserStep
  <2>3. \A q \in Proc : q = p
    BY DEF OneUser
  <2>4. QED  BY <2>2, <2>3 DEF UserInv
<1>3. QED  BY <1>1, <1>2

\* The invariant holds in every state.
LEMMA UserInvariance == ASSUME OneUser PROVE Spec => []UserInv
<1>1. Init => UserInv  BY UserInitially
<1>2. IInv /\ UserInv /\ [Next]_vars => UserInv'  BY UserStepInv
<1>3. Spec => []IInv  BY InductiveInvariant
<1>4. QED  BY <1>1, <1>2, <1>3, PTL DEF Spec

\* One user whose commands run to their end: between them staging/current has
\* a complete configuration file, unless a switch named a staging without one.
THEOREM UsableAtRest == ASSUME OneUser PROVE Spec => []CurrentUsableAtRest
<1>1. UserInv => CurrentUsableAtRest
  <2> SUFFICES ASSUME UserInv, AtRest, ~strayed PROVE Whole(link)
    BY DEF CurrentUsableAtRest
  <2>1. PICK p : Proc = {p}  BY DEF OneUser
  <2>2. LinkAt(p) /\ pc[p] = "idle"  BY <2>1 DEF UserInv, AtRest, At
  <2>3. QED  BY <2>2 DEF LinkAt
<1>2. QED  BY <1>1, UserInvariance, PTL

\* What config-set writes is what it read, but for the setting it was given.
LEMMA WriteStep ==
    ASSUME OneUser, IInv, UserInv, [Next]_vars, NEW p \in Proc, At(p, "dump_write"), cfg' # cfg
    PROVE  cfg' = [cfg EXCEPT ![seen[p]][req[p].setting] = req[p].value]
<1>1. PICK q \in Proc : (Start(q) \/ Command(q)) /\ UNCHANGED killed
  BY DEF Next, Crash, OneUser, vars
<1>2. q = p
  BY DEF OneUser
<1>3. DumpWrite(p)
  BY <1>1, <1>2 DEF At, Start, Command, InitLink, InitLoad, CheckSource, Mkdir, CopyBegin,
     CopyEnd, CheckLink, Unlink, Symlink, Resolve, RemoveCheck, RemoveFiles, RemoveDir,
     SettingRefused, DumpOpen
<1>4. cfg' = [cfg EXCEPT ![seen[p]] = mem[p]]
  BY <1>3 DEF DumpWrite, WriteFile
<1>5. mem[p] = [cfg[seen[p]] EXCEPT ![req[p].setting] = req[p].value]
  BY DEF UserInv, MemAt, At
<1>6. QED  BY <1>4, <1>5

\* config-set changes the setting it was given, and nothing else.
THEOREM OneSettingChanged == ASSUME OneUser PROVE Spec => ConfigSetChangesOneSetting
<1>1. IInv /\ UserInv /\ [Next]_vars =>
        [\A p \in Proc : At(p, "dump_write") /\ cfg' # cfg
            => cfg' = [cfg EXCEPT ![seen[p]][req[p].setting] = req[p].value]]_vars
  BY WriteStep
<1>2. QED
  BY <1>1, InductiveInvariant, UserInvariance, PTL DEF Spec, ConfigSetChangesOneSetting

=============================================================================
