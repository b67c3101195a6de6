------------------------------- MODULE Platform ------------------------------
(***************************************************************************)
(* The life of the menabrea process as its host sees it: start-up          *)
(* (startup/main.c), the loading of application libraries                  *)
(* (startup/load_applications.c), the borrowed network interface           *)
(* (messaging/network/setup.c and mac_spoofing.c), teardown, and what      *)
(* happens when it dies half-way: the recovery actions that start-up has   *)
(* registered (exception/recovery.c) are run by menabrea_cleanup.sh, and   *)
(* systemd may start the next process.                                     *)
(*                                                                         *)
(* world is what outlives a process.  pc is the place of the process; each *)
(* step is one system call that changes the world, so that the process can *)
(* die between any two of them.  The dispatchers between start-up and      *)
(* teardown are those of module Dispatcher; here they are one place, Run.  *)
(***************************************************************************)
EXTENDS Naturals, Sequences, FiniteSets, SequencesExt

CONSTANTS Harness,     (* libtestharness.so                                 *)
          Apps,        (* the application libraries, Harness among them     *)
          Deps,        (* libraries named as dependencies                   *)
          MaxLibs,     (* MAX_APP_LIB_NUM                                   *)
          MaxEntries,  (* bound: length of the list of applications         *)
          MaxDeps,     (* bound: dependencies of an application             *)
          MaxRuns      (* bound: processes started                          *)

ASSUME PlatformAssumption ==
    /\ Harness \in Apps /\ Apps \cap Deps = {}
    /\ {MaxLibs, MaxEntries, MaxDeps, MaxRuns} \subseteq Nat \ {0}

VARIABLES
    world,      (* interface, file with its address, socket, ODP's memory   *)
    script,     (* /tmp/.recovery_actions                                   *)
    pc,         (* place of the process, or of the service between two      *)
    saved,      (* s_originalMacAddr                                        *)
    listeners,  (* s_signalListeners, the last one pushed first             *)
    exitFlag,   (* DispatcherExitFlag                                       *)
    list,       (* MENABREA_APP_LIST                                        *)
    entry,      (* the next entry of it                                     *)
    libs,       (* SAppLibsSet: Libs and Count; whether a list of           *)
                (* dependencies was released a second time                  *)
    at,         (* the loop over the applications that is being run         *)
    refs,       (* references the dynamic linker counts for each library    *)
    why,        (* how the last process ended                               *)
    gap,        (* a process has died where the script takes the interface  *)
                (* down and does not bring it up                            *)
    runs        (* processes started                                        *)

process == <<saved, listeners, exitFlag, list, entry, libs, at, refs>>
history == <<why, gap, runs>>
platformVars == <<world, script, pc, process, history>>

Commands == {"rm shm", "ifconfig down", "hw ether", "ifconfig up", "rm mac", "rm sock"}
NoMac == "none"
Places ==
    {"Parse", "OdpRegister", "OdpInit", "EmInit", "Load", "Listen", "SaveMac", "WriteMac",
     "RegisterDown", "RegisterMac", "RegisterUp", "RegisterRm", "IfDown", "SetMac", "IfUp",
     "AppInit", "Bind", "Run", "AppExit", "RestoreDown", "RestoreMac", "RestoreUp",
     "UnlinkMac", "Unload", "EmTerm", "OdpTerm", "Declare"}
Alive == pc \in Places

(* A dependency list of a slot: not set, allocated, or freed but still      *)
(* pointed to.                                                              *)
NullList == [state |-> "null", deps |-> << >>]
NoLib == [app |-> "none", list |-> NullList]
NoLibs == [count |-> 0, twice |-> FALSE, lib |-> [i \in 1 .. MaxLibs |-> NoLib]]

(* "app" or "app(dep,dep)"; an empty pair of parentheses is possible.  No   *)
(* application is listed twice.                                             *)
Entries == [app : Apps, parens : BOOLEAN, deps : SeqOf(Deps, MaxDeps)]
AppLists ==
    {l \in SeqOf({e \in Entries : e.parens \/ e.deps = << >>}, MaxEntries) :
        IsInjective([i \in 1 .. Len(l) |-> l[i].app])}

NoRefs == [l \in Apps \cup Deps |-> 0]

PlatformInit ==
    /\ world = [mac |-> "original", up |-> TRUE, file |-> NoMac, sock |-> FALSE, shm |-> FALSE]
    /\ script = << >>
    /\ pc = "Parse"
    /\ saved = NoMac /\ listeners = << >> /\ exitFlag = FALSE
    /\ list = << >> /\ entry = 1 /\ libs = NoLibs /\ at = 0 /\ refs = NoRefs
    /\ why = "none" /\ gap = FALSE /\ runs = 1

-----------------------------------------------------------------------------
(* What the commands of the recovery script do.  The address is set only    *)
(* while the interface is down, and only if the file holds one.             *)
Exec(w, cmd) ==
    CASE cmd = "rm shm" -> [w EXCEPT !.shm = FALSE]
      [] cmd = "ifconfig down" -> [w EXCEPT !.up = FALSE]
      [] cmd = "hw ether" -> IF ~w.up /\ w.file \notin {NoMac, "empty"}
                             THEN [w EXCEPT !.mac = w.file] ELSE w
      [] cmd = "ifconfig up" -> [w EXCEPT !.up = TRUE]
      [] cmd = "rm mac" -> [w EXCEPT !.file = NoMac]
      [] cmd = "rm sock" -> [w EXCEPT !.sock = FALSE]

Executed(w, commands) ==
    LET after[n \in 0 .. Len(commands)] ==
            IF n = 0 THEN w ELSE Exec(after[n - 1], commands[n])
    IN  after[Len(commands)]

Ends(how) ==
    /\ pc' = "Dead"
    /\ why' = how
    /\ gap' = (gap \/ pc \in {"RegisterMac", "RegisterUp"})
    /\ UNCHANGED <<world, script, process, runs>>

Go(from, to) == pc = from /\ pc' = to /\ UNCHANGED history

(* A step with an assertion about the host; if it fails, the process dies. *)
Asserts(ok, from, to) ==
    /\ pc = from
    /\ pc' = IF ok THEN to ELSE "Dead"
    /\ why' = IF ok THEN why ELSE "assertion"
    /\ UNCHANGED <<gap, runs>>

(* A step that only changes the world. *)
Changes(from, to, ok, new) ==
    /\ Asserts(ok, from, to)
    /\ world' = IF ok THEN new ELSE world
    /\ UNCHANGED <<script, process>>

OnDisgracefulShutdown(cmd) == script' = Append(script, cmd)

Registers(from, to, cmd) ==
    /\ Go(from, to)
    /\ OnDisgracefulShutdown(cmd)
    /\ UNCHANGED <<world, process>>

-----------------------------------------------------------------------------
(* main: the handlers are installed and the command line is parsed.  A bad  *)
(* or a missing option is fatal (Dies).                                     *)
ParseCommandLine ==
    /\ Go("Parse", "OdpRegister")
    /\ listeners' = <<"any">>
    /\ UNCHANGED <<world, script, saved, exitFlag, list, entry, libs, at, refs>>

(* InitializeOpenDataPlane *)
RegisterShmRemoval == Registers("OdpRegister", "OdpInit", "rm shm")
OdpInit == Changes("OdpInit", "EmInit", TRUE, [world EXCEPT !.shm = TRUE])

(* InitializeEventMachine, and the list of applications is read. *)
EmInit ==
    /\ Go("EmInit", "Load")
    /\ list' \in AppLists
    /\ UNCHANGED <<world, script, saved, listeners, exitFlag, entry, libs, at, refs>>

(* dlopen and dlclose of a sequence of libraries: each call counts, and    *)
(* dlclose of a library that is not loaded does nothing.                   *)
Times(l, ls) == Cardinality({k \in DOMAIN ls : ls[k] = l})
Opened(r, ls) == [l \in DOMAIN r |-> r[l] + Times(l, ls)]
Closed(r, ls) == [l \in DOMAIN r |-> IF r[l] > Times(l, ls) THEN r[l] - Times(l, ls) ELSE 0]

(* A slip: the walk ends one entry early. *)
ShortUnloadDependencies(ds, r) ==
    IF ds.state = "held" THEN {Closed(r, SubSeq(ds.deps, 2, Len(ds.deps)))} ELSE {r}

(* UnloadDependencies: the references that may be left.  The list is freed, *)
(* but the caller keeps its pointer; walking a freed list closes the        *)
(* libraries once more, or closes nothing, or kills the process             *)
(* (StaleListKills).                                                        *)
UnloadDependencies(ds, r) ==
    CASE ds.state = "null" -> {r}
      [] ds.state = "held" -> {Closed(r, ds.deps)}
      [] ds.state = "freed" -> {r, Closed(r, ds.deps)}
Freed(ds) == IF ds.state = "held" THEN [ds EXCEPT !.state = "freed"] ELSE ds

(* LoadApplication for the next entry of the list and the first unused      *)
(* slot.  Without parentheses the slot's Dependencies are not touched.      *)
Entry == list[entry]
Slot == libs.count + 1
SlotList ==
    IF Entry.parens THEN [state |-> "held", deps |-> Entry.deps] ELSE libs.lib[Slot].list
WithDeps == IF Entry.parens THEN Opened(refs, Entry.deps) ELSE refs

Loads ==
    /\ Go("Load", "Load")
    /\ entry <= Len(list) /\ libs.count < MaxLibs
    /\ entry' = entry + 1
    /\ UNCHANGED <<world, script, saved, listeners, exitFlag, list, at>>

(* LoadDependencies fails after n dependencies have been loaded and         *)
(* unwinds: it unloads the stack of those.  An empty list of dependencies   *)
(* looks the same to the caller.                                            *)
DependencyMissing ==
    /\ Loads
    /\ Entry.parens
    /\ \E n \in 0 .. Len(Entry.deps) :
          LET loaded == SubSeq(Entry.deps, 1, n)
          IN  /\ n < Len(Entry.deps) \/ Entry.deps = << >>
              /\ refs' \in UnloadDependencies([state |-> "held", deps |-> loaded],
                                              Opened(refs, loaded))
    /\ libs' = [libs EXCEPT !.lib[Slot].list = NullList]

(* LoadLibrary fails: the library, or one of its four symbols, is missing.  *)
LibraryMissing ==
    /\ Loads
    /\ Entry.parens => Entry.deps # << >>
    /\ refs' \in UnloadDependencies(SlotList, WithDeps)
    /\ libs' = [libs EXCEPT !.lib[Slot].list = Freed(SlotList),
                            !.twice = @ \/ SlotList.state = "freed"]

ApplicationLoaded ==
    /\ Loads
    /\ Entry.parens => Entry.deps # << >>
    /\ refs' = Opened(WithDeps, <<Entry.app>>)
    /\ libs' = [libs EXCEPT !.lib[Slot] = [app |-> Entry.app, list |-> SlotList],
                            !.count = Slot]

(* The entries are used up, or the slots are. *)
AllLoaded ==
    /\ Go("Load", "Listen")
    /\ entry > Len(list) \/ libs.count = MaxLibs
    /\ UNCHANGED <<world, script, process>>

-----------------------------------------------------------------------------
(* RunEventDispatchers *)
ListenForSignals ==
    /\ Go("Listen", "SaveMac")
    /\ listeners' = <<"SIGINT", "SIGCHLD">> \o listeners
    /\ UNCHANGED <<world, script, saved, exitFlag, list, entry, libs, at, refs>>

(* MessagingNetworkInit: the address is read, and written to a file that    *)
(* is created or truncated first.                                           *)
GetMacAddress ==
    /\ Go("SaveMac", "WriteMac")
    /\ saved' = world.mac
    /\ world' = [world EXCEPT !.file = "empty"]
    /\ UNCHANGED <<script, listeners, exitFlag, list, entry, libs, at, refs>>
SaveMacInFile == Changes("WriteMac", "RegisterDown", TRUE, [world EXCEPT !.file = saved])

(* A slip: the file is removed before the address is read from it. *)
RmFirstRegisterRecovery ==
    \/ Registers("RegisterDown", "RegisterMac", "ifconfig down")
    \/ Registers("RegisterMac", "RegisterUp", "rm mac")
    \/ Registers("RegisterUp", "RegisterRm", "hw ether")
    \/ Registers("RegisterRm", "IfDown", "ifconfig up")

RegisterRecovery ==
    \/ Registers("RegisterDown", "RegisterMac", "ifconfig down")
    \/ Registers("RegisterMac", "RegisterUp", "hw ether")
    \/ Registers("RegisterUp", "RegisterRm", "ifconfig up")
    \/ Registers("RegisterRm", "IfDown", "rm mac")

(* SetMacAddress to the address of the node; pktio, the router, timing and  *)
(* memory then change nothing outside the process.                          *)
SetMacAddress ==
    \/ Changes("IfDown", "SetMac", TRUE, [world EXCEPT !.up = FALSE])
    \/ Changes("SetMac", "IfUp", ~world.up, [world EXCEPT !.mac = "node"])
    \/ Changes("IfUp", "AppInit", TRUE, [world EXCEPT !.up = TRUE])

-----------------------------------------------------------------------------
(* The loops over the applications: Each is the next one, Past ends it. *)
App == libs.lib[at + 1]
Each(from, to) == at < libs.count /\ Go(from, to)
Past(from, to) ==
    /\ at = libs.count
    /\ Go(from, to)
    /\ at' = 0
    /\ UNCHANGED <<world, script, saved, listeners, exitFlag, list, entry, libs, refs>>

(* A slip: the removal of the socket is not registered. *)
UnregisteredGlobalInit ==
    /\ Each("AppInit", IF App.app = Harness THEN "Bind" ELSE "AppInit")
    /\ at' = IF App.app = Harness THEN at ELSE at + 1
    /\ UNCHANGED <<world, script, saved, listeners, exitFlag, list, entry, libs, refs>>

(* RunApplicationsGlobalInits: IpcSocket::Init registers the removal of the *)
(* socket, then creates it.                                                 *)
GlobalInit ==
    /\ Each("AppInit", IF App.app = Harness THEN "Bind" ELSE "AppInit")
    /\ IF App.app = Harness THEN OnDisgracefulShutdown("rm sock") /\ UNCHANGED at
                            ELSE at' = at + 1 /\ UNCHANGED script
    /\ UNCHANGED <<world, saved, listeners, exitFlag, list, entry, libs, refs>>
Bind ==
    /\ Asserts(~world.sock, "Bind", "AppInit")
    /\ world' = [world EXCEPT !.sock = TRUE]
    /\ at' = at + 1
    /\ UNCHANGED <<script, saved, listeners, exitFlag, list, entry, libs, refs>>
GlobalInitsDone == Past("AppInit", "Run")

(* The dispatchers leave their loops when they see the flag. *)
LeaveLoop ==
    /\ exitFlag
    /\ Go("Run", "AppExit")
    /\ UNCHANGED <<world, script, process>>

(* RunApplicationsGlobalExits: IpcSocket::Teardown removes the socket. *)
GlobalExit ==
    /\ at < libs.count
    /\ Asserts(App.app = Harness => world.sock, "AppExit", "AppExit")
    /\ world' = IF App.app = Harness THEN [world EXCEPT !.sock = FALSE] ELSE world
    /\ at' = at + 1
    /\ UNCHANGED <<script, saved, listeners, exitFlag, list, entry, libs, refs>>
GlobalExitsDone == Past("AppExit", "RestoreDown")

(* MessagingNetworkTeardown *)
RestoreMac ==
    \/ Changes("RestoreDown", "RestoreMac", TRUE, [world EXCEPT !.up = FALSE])
    \/ Changes("RestoreMac", "RestoreUp", ~world.up, [world EXCEPT !.mac = saved])
    \/ Changes("RestoreUp", "UnlinkMac", TRUE, [world EXCEPT !.up = TRUE])
UnlinkMac == Changes("UnlinkMac", "Unload", world.file # NoMac, [world EXCEPT !.file = NoMac])

(* UnloadApplicationLibraries *)
UnloadApplication ==
    /\ Each("Unload", "Unload")
    /\ \E r \in UnloadDependencies(App.list, refs) : refs' = Closed(r, <<App.app>>)
    /\ libs' = [libs EXCEPT !.lib[at + 1].list = Freed(@), !.twice = @ \/ App.list.state = "freed"]
    /\ at' = at + 1
    /\ UNCHANGED <<world, script, saved, listeners, exitFlag, list, entry>>
AllUnloaded == Past("Unload", "EmTerm")

(* The other outcome of a list that is released again. *)
StaleListKills ==
    /\ \/ /\ pc = "Load" /\ entry <= Len(list) /\ libs.count < MaxLibs
          /\ ~Entry.parens /\ libs.lib[Slot].list.state = "freed"
       \/ /\ pc = "Unload" /\ at < libs.count
          /\ App.list.state = "freed"
    /\ Ends("stale list")

TearDownEventMachine == Changes("EmTerm", "OdpTerm", TRUE, world)
TearDownOpenDataPlane == Changes("OdpTerm", "Declare", TRUE, [world EXCEPT !.shm = FALSE])

(* The script is removed, and main returns. *)
DeclareShutdownGraceful ==
    /\ Asserts(script # << >>, "Declare", "Exited")
    /\ script' = << >>
    /\ UNCHANGED <<world, process>>

-----------------------------------------------------------------------------
(* CallListeners: the one that handles a signal, the last one added that    *)
(* wants it; before InstallSignalHandlers there is none.                    *)
Listener(sig) ==
    LET wanted == SelectSeq(listeners, LAMBDA l : l \in {sig, "any"})
    IN  IF wanted = << >> THEN "none" ELSE Head(wanted)

(* SigintListener, and RestoreDefaultHandlerAndRaise if it is not there. *)
Sigint ==
    \/ /\ Alive /\ Listener("SIGINT") = "SIGINT"
       /\ exitFlag' = TRUE
       /\ UNCHANGED <<world, script, pc, saved, listeners, list, entry, libs, at, refs, history>>
    \/ Alive /\ Listener("SIGINT") # "SIGINT" /\ Ends("signal")

(* SigchldListener, while there are child dispatchers: a child that ends    *)
(* before it has been asked to takes main with it.                          *)
Sigchld == pc = "Run" /\ Listener("SIGCHLD") = "SIGCHLD" /\ ~exitFlag /\ Ends("child")

(* A fatal exception, whose SIGABRT ends at the catch-all listener, or a    *)
(* signal that kills at once, at any place.                                 *)
Dies == Alive /\ Ends("fault")

-----------------------------------------------------------------------------
(* menabrea_cleanup.sh, which systemd runs after every end of the service.  *)
(* A command that fails does not stop the script.                           *)
Cleanup ==
    /\ pc \in {"Exited", "Dead"}
    /\ pc' = "Down"
    /\ world' = Executed(world, script)
    /\ script' = << >>
    /\ saved' = NoMac /\ listeners' = << >> /\ exitFlag' = FALSE
    /\ list' = << >> /\ entry' = 1 /\ libs' = NoLibs /\ at' = 0 /\ refs' = NoRefs
    /\ why' = "none"
    /\ UNCHANGED <<gap, runs>>

(* systemd starts the service again after a failure, or somebody does. *)
Start ==
    /\ pc = "Down" /\ runs < MaxRuns
    /\ pc' = "Parse"
    /\ runs' = runs + 1
    /\ UNCHANGED <<world, script, process, why, gap>>

PlatformNext ==
    \/ ParseCommandLine \/ RegisterShmRemoval \/ OdpInit \/ EmInit
    \/ DependencyMissing \/ LibraryMissing \/ ApplicationLoaded \/ AllLoaded
    \/ ListenForSignals \/ GetMacAddress \/ SaveMacInFile \/ RegisterRecovery \/ SetMacAddress
    \/ GlobalInit \/ Bind \/ GlobalInitsDone \/ LeaveLoop
    \/ GlobalExit \/ GlobalExitsDone \/ RestoreMac \/ UnlinkMac
    \/ UnloadApplication \/ AllUnloaded \/ StaleListKills
    \/ TearDownEventMachine \/ TearDownOpenDataPlane \/ DeclareShutdownGraceful
    \/ Sigint \/ Sigchld \/ Dies \/ Cleanup \/ Start

PlatformSpec == PlatformInit /\ [][PlatformNext]_platformVars

-----------------------------------------------------------------------------
PlatformTypeOK ==
    /\ world \in [mac : {"original", "node"}, up : BOOLEAN, sock : BOOLEAN, shm : BOOLEAN,
                  file : {NoMac, "empty", "original", "node"}]
    /\ IsInjective(script) /\ Range(script) \subseteq Commands
    /\ pc \in Places \cup {"Exited", "Dead", "Down"}
    /\ saved \in {NoMac, "original", "node"}
    /\ refs \in [Apps \cup Deps -> Nat]
    /\ libs.count \in 0 .. MaxLibs /\ at \in 0 .. libs.count

(* However a process ends, at any place of its start-up or teardown, and    *)
(* however the ones before it ended, the cleanup leaves the interface with  *)
(* its own address, no socket, no shared memory and no script, and no file  *)
(* with the address of the node.  The interface is up, except for the two   *)
(* places in MessagingNetworkInit where the script takes it down but does   *)
(* not yet bring it up.  After exit(0) nothing was left to clean up.        *)
CrashRecovered ==
    /\ PlatformTypeOK
    /\ pc = "Down" =>
          /\ world.mac = "original" /\ ~world.sock /\ ~world.shm
          /\ world.file # "node"
          /\ world.up \/ gap
    /\ pc = "Exited" =>
          /\ script = << >>
          /\ world = [mac |-> "original", up |-> TRUE, file |-> NoMac, sock |-> FALSE, shm |-> FALSE]

(* No assertion about the host fails (bind, the three calls of unlink, an   *)
(* address set on a running interface), whatever earlier processes left     *)
(* behind.  And a list of dependencies is released a second time only if an *)
(* application without dependencies is listed after one that has some (and  *)
(* whose library did not load): other lists of applications are safe.       *)
DiesOnlyOfStaleList ==
    /\ why # "assertion"
    /\ why = "stale list" \/ libs.twice =>
          \E i, j \in DOMAIN list : i < j /\ list[i].deps # << >> /\ ~list[j].parens

(* The references that loaded applications hold: of each slot the           *)
(* application itself (0), and the entries of its list of dependencies.     *)
Refers(i, k, l) ==
    LET slot == libs.lib[i]
    IN  IF k = 0 THEN slot.app = l
        ELSE slot.list.state = "held" /\ k \in DOMAIN slot.list.deps /\ slot.list.deps[k] = l
UsedSlots == (IF pc = "Unload" THEN at + 1 ELSE 1) .. libs.count
References(l) == {x \in UsedSlots \X (0 .. MaxDeps) : Refers(x[1], x[2], l)}

(* The linker's counts are exactly what the loaded applications hold, also  *)
(* after failed loads, where applications share dependencies: no library is *)
(* unloaded under an application that uses it, and none stays loaded in the *)
(* end, as long as no list has been released twice.                         *)
LibrariesExact ==
    Alive /\ ~libs.twice =>
        \A l \in Apps \cup Deps :
            refs[l] = IF pc \in {"EmTerm", "OdpTerm", "Declare"} THEN 0
                      ELSE Cardinality(References(l))
=============================================================================
