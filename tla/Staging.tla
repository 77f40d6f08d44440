------------------------------ MODULE Staging ------------------------------
(***************************************************************************)
(* The staging commands of the front end (cmd_staging.ml over              *)
(* uberspark_staging.ml and uberspark_config.ml): create, create           *)
(* --from-existing, switch, remove and config-set.                         *)
(*                                                                         *)
(* A staging is a directory below <root>/uberspark/staging that holds the  *)
(* configuration file; the symbolic link staging/current selects one.      *)
(* Nothing locks the tree and no command is a transaction, so a command is *)
(* a sequence of system calls, one action each, that other front-end       *)
(* processes interleave with and that a crash cuts short.                  *)
(***************************************************************************)
EXTENDS Naturals

CONSTANTS
    Proc,           \* front-end processes
    Name,           \* names a user gives to stagings
    Default,        \* the staging `make install' creates and selects
    NoLink,         \* staging/current does not exist; also the path readlink
                    \* then answers, that of the link, at which there is nothing
    Setting, Value, \* configuration settings and their values
    Invalid,        \* a setting or value that settings_set does not accept
    GoldenValue,    \* value of every setting in staging_golden
    MayCrash,       \* a process may be killed between two system calls
    CopyMayFail     \* cp may stop half way; its exit status is ignored

ASSUME StagingAssumption ==
    /\ Default \in Name
    /\ NoLink \notin Name
    /\ Invalid \notin Value
    /\ GoldenValue \in Value
    /\ MayCrash \in BOOLEAN /\ CopyMayFail \in BOOLEAN

VARIABLES
    dir,        \* state of each staging directory and its configuration file
    cfg,        \* the settings last written completely to that file
    link,       \* the staging that staging/current points to
    pc, req,    \* where each process is in which command
    seen,       \* the staging a process read from the link
    mem,        \* json_node_uberspark_config_var of each process
    strayed,    \* some switch selected a staging it could not use (history)
    killed      \* some process was killed (history)

vars == <<dir, cfg, link, pc, req, seen, mem, strayed, killed>>
fs == <<dir, cfg, link, strayed>>

Config == [Setting -> Value]
Golden == [s \in Setting |-> GoldenValue]
\* absent: no directory; empty: no configuration file in it;
\* torn: the file is truncated; whole: the file is complete.
DirState == {"absent", "empty", "torn", "whole"}
Location ==
    {"idle", "init_link", "init_load", "check_src", "mkdir", "copy", "copying",
     "check_link", "unlink", "symlink", "resolve", "rm_check", "rm_files",
     "rm_dir", "dump_open", "dump_write"}
Request ==
    [op : {"create", "switch", "remove"}, name : Name]
        \cup [op : {"create_from"}, name : Name, from : Name]
        \cup [op : {"config_set"}, setting : Setting, value : Value \cup {Invalid}]
NoRequest == [op |-> "none"]

Init ==
    /\ dir = [n \in Name |-> IF n = Default THEN "whole" ELSE "absent"]
    /\ cfg = [n \in Name |-> Golden]
    /\ link = Default
    /\ pc = [p \in Proc |-> "idle"]
    /\ req = [p \in Proc |-> NoRequest]
    /\ seen = [p \in Proc |-> NoLink]
    /\ mem = [p \in Proc |-> Golden]
    /\ strayed = FALSE
    /\ killed = FALSE

At(p, l) == pc[p] = l
Jump(p, l) == pc' = [pc EXCEPT ![p] = l]
Goto(p, l) == Jump(p, l) /\ UNCHANGED <<req, seen, mem>>
\* The process exits, with success or failure, and its memory is gone.
Exit(p) ==
    /\ pc' = [pc EXCEPT ![p] = "idle"]
    /\ req' = [req EXCEPT ![p] = NoRequest]
    /\ seen' = [seen EXCEPT ![p] = NoLink]
    /\ mem' = [mem EXCEPT ![p] = Golden]
Whole(n) == n # NoLink /\ dir[n] = "whole"
Exists(n) == n # NoLink /\ dir[n] # "absent"
HasFile(n) == n # NoLink /\ dir[n] \in {"torn", "whole"}

---------------------------------------------------------------------------
(* Commoninit.initialize: resolve the link, load the configuration *)

Start(p) ==
    /\ At(p, "idle")
    /\ \E r \in Request : req' = [req EXCEPT ![p] = r]
    /\ Jump(p, "init_link")
    /\ UNCHANGED <<fs, seen, mem>>

\* get_namespace_staging_dir_prefix; the readlink of FileUtil answers for a
\* missing link with the path it was given, where nothing can be loaded.
ReadLink(p) ==
    /\ seen' = [seen EXCEPT ![p] = link]
    /\ UNCHANGED <<fs, req, mem>>

InitLink(p) == At(p, "init_link") /\ ReadLink(p) /\ Jump(p, "init_load")

FirstStep(op) ==
    CASE op = "create" -> "mkdir"
      [] op = "create_from" -> "check_src"
      [] op = "switch" -> "check_link"
      [] op \in {"remove", "config_set"} -> "resolve"

\* Mutant of InitLoad: the configuration file is not read.
InitLoadSkipped(p) ==
    /\ At(p, "init_load")
    /\ IF Whole(seen[p]) THEN Goto(p, FirstStep(req[p].op)) ELSE Exit(p)
    /\ UNCHANGED fs

\* Mutant of InitLoad: a configuration that cannot be loaded is tolerated.
InitLoadTolerant(p) ==
    /\ At(p, "init_load")
    /\ mem' = [mem EXCEPT ![p] = IF Whole(seen[p]) THEN cfg[seen[p]] ELSE @]
    /\ Jump(p, FirstStep(req[p].op))
    /\ UNCHANGED <<fs, req, seen>>

InitLoad(p) ==
    /\ At(p, "init_load")
    /\ \/ /\ Whole(seen[p])
          /\ mem' = [mem EXCEPT ![p] = cfg[seen[p]]]
          /\ Jump(p, FirstStep(req[p].op))
          /\ UNCHANGED <<req, seen>>
       \/ ~Whole(seen[p]) /\ Exit(p)
    /\ UNCHANGED fs

---------------------------------------------------------------------------
(* create_as_new, create_from_existing, switch *)

CheckSource(p) ==
    /\ At(p, "check_src")
    /\ \/ Exists(req[p].from) /\ Goto(p, "mkdir")
       \/ ~Exists(req[p].from) /\ Exit(p)
    /\ UNCHANGED fs

Mkdir(p) ==
    /\ At(p, "mkdir")
    /\ dir' = [dir EXCEPT ![req[p].name] = IF @ = "absent" THEN "empty" ELSE @]
    /\ Goto(p, "copy")
    /\ UNCHANGED <<cfg, link, strayed>>

\* cp -r -f <source>/* <staging>/.  opens and truncates the file ...
FromGolden(p) == req[p].op = "create"
SourceWhole(p) == IF FromGolden(p) THEN TRUE ELSE Whole(req[p].from)
SourceConfig(p) == IF FromGolden(p) THEN Golden ELSE cfg[req[p].from]
Copyable(p) ==
    /\ Exists(req[p].name)
    /\ IF FromGolden(p) THEN TRUE
       ELSE HasFile(req[p].from) /\ req[p].from # req[p].name

CopyBegin(p) ==
    /\ At(p, "copy")
    /\ \/ /\ Copyable(p)
          /\ dir' = [dir EXCEPT ![req[p].name] = "torn"]
          /\ Goto(p, "copying")
       \/ /\ ~Copyable(p)           \* cp fails, its status is ignored
          /\ Goto(p, "unlink")
          /\ UNCHANGED dir
    /\ UNCHANGED <<cfg, link, strayed>>

\* A writer that opened the file fills it, unless it was removed; over another
\* writer's longer text the end of that text stays behind.
WriteFile(n, text) ==
    \/ /\ HasFile(n)
       /\ dir' = [dir EXCEPT ![n] = "whole"]
       /\ cfg' = [cfg EXCEPT ![n] = text]
    \/ /\ Whole(n)
       /\ dir' = [dir EXCEPT ![n] = "torn"]
       /\ UNCHANGED cfg
    \/ /\ ~HasFile(n)
       /\ UNCHANGED <<dir, cfg>>

\* ... and then writes it, as far as the source still exists.
CopyEnd(p) ==
    /\ At(p, "copying")
    /\ \/ SourceWhole(p) /\ WriteFile(req[p].name, SourceConfig(p))
       \/ (CopyMayFail \/ ~SourceWhole(p)) /\ UNCHANGED <<dir, cfg>>
    /\ Goto(p, "unlink")
    /\ UNCHANGED <<link, strayed>>

\* switch tests the link it is about to replace, not the staging it is given.
CheckLink(p) ==
    /\ At(p, "check_link")
    /\ \/ Exists(link) /\ Goto(p, "unlink")
       \/ ~Exists(link) /\ Exit(p)
    /\ UNCHANGED fs

\* Mutant of Unlink: a missing link is not an error (rm -f).
UnlinkForce(p) ==
    /\ At(p, "unlink")
    /\ link' = NoLink
    /\ Goto(p, "symlink")
    /\ UNCHANGED <<dir, cfg, strayed>>

\* Mutant of Unlink: the named staging is looked at after the link is removed.
UnlinkThenCheck(p) ==
    /\ At(p, "unlink")
    /\ link # NoLink
    /\ link' = NoLink
    /\ IF Exists(req[p].name) THEN Goto(p, "symlink") ELSE Exit(p)
    /\ UNCHANGED <<dir, cfg, strayed>>

\* file_remove: Sys.remove raises when the link is already gone.
Unlink(p) ==
    /\ At(p, "unlink")
    /\ \/ /\ link # NoLink
          /\ link' = NoLink
          /\ Goto(p, "symlink")
       \/ /\ link = NoLink
          /\ Exit(p)
          /\ UNCHANGED link
    /\ UNCHANGED <<dir, cfg, strayed>>

\* symlink would raise EEXIST if the link were there: see LinkHasOneOwner.
Symlink(p) ==
    /\ At(p, "symlink")
    /\ link = NoLink
    /\ link' = req[p].name
    /\ strayed' = (strayed \/ (req[p].op = "switch" /\ ~Whole(req[p].name)))
    /\ Exit(p)
    /\ UNCHANGED <<dir, cfg>>

---------------------------------------------------------------------------
(* remove and config-set both resolve the link again *)

Resolve(p) ==
    /\ At(p, "resolve")
    /\ ReadLink(p)
    /\ Jump(p, IF req[p].op = "remove" THEN "rm_check" ELSE "dump_open")

\* Mutant of RemoveCheck: the current staging is not spared.
RemoveCheckAny(p) ==
    /\ At(p, "rm_check")
    /\ Goto(p, "rm_files")
    /\ UNCHANGED fs

\* remove tests that the current staging exists, not the one it is given.
RemoveCheck(p) ==
    LET removable == Exists(seen[p]) /\ seen[p] # req[p].name
    IN  /\ At(p, "rm_check")
        /\ \/ removable /\ Goto(p, "rm_files")
           \/ ~removable /\ Exit(p)
        /\ UNCHANGED fs

\* rmdir_recurse: the files, then the directory; a missing path is no error.
RemoveFiles(p) ==
    /\ At(p, "rm_files")
    /\ \/ /\ Exists(req[p].name)
          /\ dir' = [dir EXCEPT ![req[p].name] = "empty"]
          /\ Goto(p, "rm_dir")
       \/ /\ ~Exists(req[p].name)
          /\ Exit(p)
          /\ UNCHANGED dir
    /\ UNCHANGED <<cfg, link, strayed>>

RemoveDir(p) ==
    /\ At(p, "rm_dir")
    /\ \/ /\ dir[req[p].name] = "empty"
          /\ dir' = [dir EXCEPT ![req[p].name] = "absent"]
          /\ Exit(p)
       \/ /\ dir[req[p].name] # "empty"   \* gone already, or filled again
          /\ Exit(p)
          /\ UNCHANGED dir
    /\ UNCHANGED <<cfg, link, strayed>>

\* settings_set refuses an unknown name and raises on an unreadable value.
SettingRefused(p) ==
    /\ At(p, "dump_open")
    /\ req[p].value = Invalid
    /\ Exit(p)
    /\ UNCHANGED fs

\* Mutant of DumpOpen: any value is taken.
DumpOpenAny(p) ==
    /\ At(p, "dump_open")
    /\ Exists(seen[p])
    /\ mem' = [mem EXCEPT ![p][req[p].setting] = req[p].value]
    /\ dir' = [dir EXCEPT ![seen[p]] = "torn"]
    /\ Jump(p, "dump_write")
    /\ UNCHANGED <<cfg, link, strayed, req, seen>>

\* Otherwise dump_to_file: open_out truncates or creates the file ...
DumpOpen(p) ==
    /\ At(p, "dump_open")
    /\ req[p].value # Invalid
    /\ \/ /\ Exists(seen[p])
          /\ mem' = [mem EXCEPT ![p][req[p].setting] = req[p].value]
          /\ dir' = [dir EXCEPT ![seen[p]] = "torn"]
          /\ Jump(p, "dump_write")
          /\ UNCHANGED <<req, seen>>
       \/ /\ ~HasFile(seen[p])   \* open_out raises: its directory is gone
          /\ Exit(p)
          /\ UNCHANGED dir
    /\ UNCHANGED <<cfg, link, strayed>>

\* ... and close_out writes every setting of the process, not only the new one.
DumpWrite(p) ==
    /\ At(p, "dump_write")
    /\ WriteFile(seen[p], mem[p])
    /\ Exit(p)
    /\ UNCHANGED <<link, strayed>>

---------------------------------------------------------------------------

Crash(p) ==
    /\ MayCrash
    /\ ~At(p, "idle")
    /\ Exit(p)
    /\ killed' = TRUE
    /\ UNCHANGED fs

Command(p) ==
    \/ InitLink(p) \/ InitLoad(p)
    \/ CheckSource(p) \/ Mkdir(p) \/ CopyBegin(p) \/ CopyEnd(p)
    \/ CheckLink(p) \/ Unlink(p) \/ Symlink(p)
    \/ Resolve(p) \/ RemoveCheck(p) \/ RemoveFiles(p) \/ RemoveDir(p)
    \/ SettingRefused(p) \/ DumpOpen(p) \/ DumpWrite(p)

Next ==
    \E p \in Proc :
        \/ (Start(p) \/ Command(p)) /\ UNCHANGED killed
        \/ Crash(p)

Spec == Init /\ [][Next]_vars

---------------------------------------------------------------------------
(* Properties *)

TypeOK ==
    /\ dir \in [Name -> DirState]
    /\ cfg \in [Name -> Config]
    /\ link \in Name \cup {NoLink}
    /\ pc \in [Proc -> Location]
    /\ req \in [Proc -> Request \cup {NoRequest}]
    /\ seen \in [Proc -> Name \cup {NoLink}]
    /\ mem \in [Proc -> Config]
    /\ strayed \in BOOLEAN
    /\ killed \in BOOLEAN

AtRest == \A p \in Proc : At(p, "idle")

\* However many commands race for staging/current, at most one of them is
\* between removing the link and making the new one, the link is missing then,
\* and so its symlink call cannot collide with another one's.
LinkHasOneOwner ==
    /\ \A p \in Proc : At(p, "symlink") => link = NoLink
    /\ \A p, q \in Proc : At(p, "symlink") /\ At(q, "symlink") => p = q

\* Unless a process is killed, no race of commands and no failing copy loses
\* the link: it is missing only while its owner is about to make it.
LinkNeverLost ==
    ~killed /\ link = NoLink => \E p \in Proc : At(p, "symlink")

\* One user, no crash, no failing cp: between commands the current staging
\* exists and has a complete configuration file, unless a switch named a
\* staging that does not exist.
CurrentUsableAtRest == AtRest /\ ~strayed => Whole(link)

\* config-set changes the one setting it was given, and nothing else, of the
\* staging it writes (one user).
ConfigSetChangesOneSetting ==
    [][\A p \in Proc :
        At(p, "dump_write") /\ cfg' # cfg
            => cfg' = [cfg EXCEPT ![seen[p]][req[p].setting] = req[p].value]]_vars

\* Once the current staging cannot be loaded and no command is past loading it,
\* no command repairs it: each one loads the configuration first, and gives up.
Stuck ==
    /\ ~Whole(link)
    /\ \A p \in Proc :
        \/ pc[p] \in {"idle", "init_link"}
        \/ At(p, "init_load") /\ ~Whole(seen[p])
StuckForever == [][Stuck => Stuck' /\ UNCHANGED <<dir, cfg, link>>]_vars

(* What the source and its messages say, and the code does not do *)

\* "could not switch to specified staging: does not exist!" (cmd_staging.ml)
SwitchOnlyToExisting == ~strayed

\* "could not rempve specified staging: does not exist or is currently
\* active!" (cmd_staging.ml): remove never deletes the current staging.
CurrentNeverRemoved ==
    [][\A p \in Proc : At(p, "rm_files") /\ dir' # dir => link # req[p].name]_vars

=============================================================================
