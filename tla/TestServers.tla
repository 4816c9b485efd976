------------------------------ MODULE TestServers ------------------------------
(***************************************************************************)
(* How the orchestrator obtains, installs, runs and stops Test Servers      *)
(* (environment/aws/topology_setup): run_test_servers and                    *)
(* stop_test_servers of TopologyConfig, the TestServer classes that build or *)
(* download a server and the bridges that put it on a machine or a device.  *)
(* Scripts run one after the other; each may fail at any step and leave its *)
(* files and processes to the next one.  Another machine builds and uploads *)
(* the packages that download() fetches (build_test_server.py).             *)
(* A CBL version is the build it stands for; 0 is a release, which has none.*)
(***************************************************************************)
EXTENDS Naturals, Sequences, FiniteSets

CONSTANTS Topologies,  \* the test_servers lists that scripts are run with
          Platforms,   \* the platforms that occur in them
          Builds,      \* builds of CBL
          Latest,      \* a version without a build
          None,        \* no build, no file, no process
          OldDevices,  \* iOS devices that devicectl does not find
          MaxScripts   \* bound: scripts run

VARIABLES
    latest,    \* the build the version service answers
    resolved,  \* __build_no_cache of the running script: by product
    published, \* the packages on latestbuilds
    upload,    \* the package being built and uploaded, and how far
    fetched,   \* DOWNLOADED_TEST_SERVER_DIR: what is unpacked there
    marked,    \* the directories in it that hold .downloaded
    library,   \* the CBL library a server is built with, and its .version
    artifact,  \* the CBL build in the build output
    app,       \* the app installed on each device
    procs,     \* the Test Servers that run
    pidfile,   \* server.pid, ios_pid_<location>.txt
    script,    \* the script running, the server it is at, the step
    outcome,   \* how the last script ended
    asked,     \* history: what the last start has run
    quiet,     \* history: nothing ran when it began
    scripts    \* how many scripts have run

files   == <<fetched, marked, library, artifact>>
machine == <<app, procs, pidfile>>
history == <<asked, quiet>>
vars == <<latest, resolved, published, upload, files, machine, script, outcome, history, scripts>>

Exe     == {"c_windows", "c_macos", "c_linux_x86_64", "dotnet_windows"}
Android == {"c_android", "dotnet_android", "jak_android"}
Ios     == {"c_ios", "dotnet_ios", "swift_ios"}
Dotnet  == {"dotnet_windows", "dotnet_macos", "dotnet_ios", "dotnet_android"}

\* create_bridge: the bridge is chosen by the platform, and for the web service
\* by whether the server was downloaded.
Bridge(p, downloaded) ==
    CASE p \in Exe          -> "exe"
      [] p \in Android      -> "android"
      [] p \in Ios          -> "ios"
      [] p = "dotnet_macos" -> "mac"
      [] p = "js"           -> "js"
      [] p = "jak_desktop"  -> "jar"
      [] p = "jak_webservice" -> IF downloaded THEN "jar" ELSE "jetty"

Product(p) ==
    CASE p \in {"c_windows", "c_macos", "c_linux_x86_64", "c_ios", "c_android"} -> "c"
      [] p \in Dotnet -> "net"
      [] p = "swift_ios" -> "ios"
      [] p = "jak_android" -> "android"
      [] p = "js" -> "js"
      [] OTHER -> "java"

\* uncompress_package of an apk or a jar does nothing.
Archived(p) == p \notin Android \cup {"jak_desktop", "jak_webservice"}

\* Where .version of the library is: in the directory that is deleted before a
\* new library is unpacked, or beside it.
HasLibrary(p)  == p \in {"c_windows", "c_macos", "c_linux_x86_64", "c_android", "c_ios", "swift_ios"}
MarkerStays(p) == p \in {"c_ios", "swift_ios"}

\* The build systems that take the part of the version after "-" for granted.
NeedsBuildNumber(p, download) == download \/ p \in Dotnet

Port(p) == IF p \in Dotnet THEN 5555 ELSE IF p = "js" THEN 5173 ELSE 8080

\* The name a process of this machine is found by.  Three platforms share one.
ExeName(p) ==
    CASE p \in {"c_macos", "c_linux_x86_64", "dotnet_macos"} -> "testserver"
      [] p = "c_windows"      -> "testserver.exe"
      [] p = "dotnet_windows" -> "testserver.cli.exe"
      [] p = "js"             -> "bun"
      [] OTHER                -> p

Products == {Product(p) : p \in Platforms}
Servers  == UNION {{t[i] : i \in DOMAIN t} : t \in Topologies}
Packages == UNION {{s.platform} \X ((IF s.version = Latest THEN Builds ELSE {s.version}) \ {0}) :
                    s \in {x \in Servers : x.download}}

\* A script is run with a list of servers; with an empty one it does nothing.
ASSUME TopologiesAreLists ==
    /\ Topologies \subseteq Seq(Servers) \ {<<>>}
    /\ \A s \in Servers : /\ s.platform \in Platforms /\ s.download \in BOOLEAN
                        /\ s.version \in Builds \cup {0, Latest}

ASSUME NoneIsNoBuild == None \notin Builds \cup {0}
ASSUME NoneIsNoProcess == None \notin Nat \X Nat

\* TestServer.create and create_bridge raise for any other platform.
ASSUME PlatformsAreRegistered ==
    Platforms \subseteq Exe \cup Android \cup Ios
                        \cup {"dotnet_macos", "js", "jak_desktop", "jak_webservice"}

\* The bridges of jars, of Jetty and of macOS apps raise unless their server is for
\* this machine; those of executables and of bun run it here whatever they are told.
ASSUME HostServersAreLocal ==
    /\ "jar" \notin OldDevices
    /\ \A s, t \in Servers :
          /\ Bridge(s.platform, s.download) \notin {"android", "ios"}
          /\ Bridge(t.platform, t.download) \notin {"android", "ios"}
          => s.location = t.location

\* The servers of one list have an address each.
ASSUME OneServerPerAddress ==
    \A t \in Topologies : \A i, j \in DOMAIN t :
        t[i].location = t[j].location /\ Port(t[i].platform) = Port(t[j].platform) => i = j

Idle     == [kind |-> "idle", servers |-> <<>>, i |-> 0, at |-> "end", build |-> 0]

Init ==
    /\ latest \in Builds
    /\ resolved = [q \in Products |-> None]
    /\ published \in [Packages -> {"none", "whole"}]
    /\ upload = None
    /\ fetched = [x \in Packages |-> "none"]
    /\ marked = {}
    /\ library = [p \in Platforms |-> [holds |-> None, marker |-> None]]
    /\ artifact = [p \in Platforms |-> None]
    /\ app = [p \in Platforms |-> None]
    /\ procs = {}
    /\ pidfile = [l \in {"jar"} \cup OldDevices |-> None]
    /\ script = Idle
    /\ outcome = "none"
    /\ asked = {}
    /\ quiet = TRUE
    /\ scripts = 0

----------------------------------------------------------------------------
\* The script.

Current  == script.servers[script.i]
Platform == Current.platform
At(kind, at) == script.kind = kind /\ script.at = at
Goto(at) == script' = [script EXCEPT !.at = at] /\ UNCHANGED outcome
End(how) == script' = Idle /\ outcome' = how
Fail     == End("failed")

\* The next server of the list.
Advance(at) ==
    IF script.i < Len(script.servers)
    THEN script' = [script EXCEPT !.i = @ + 1, !.at = at] /\ UNCHANGED outcome
    ELSE End("ok")

\* A start or a stop begins in a process of its own, whose cache is empty.
Begin(kind, servers) ==
    /\ script = Idle /\ scripts < MaxScripts
    /\ scripts' = scripts + 1
    /\ script' = [kind |-> kind, servers |-> servers, i |-> 1, build |-> 0,
                  at |-> IF kind = "start" THEN "resolve" ELSE "create"]
    /\ resolved' = [q \in Products |-> None]
    /\ asked' = {}
    /\ quiet' = (procs = {})
    /\ outcome' = "none"
    /\ UNCHANGED <<latest, published, upload, files, machine>>

\* __normalize_version: a version without a build is looked up once per product.
Normalized(s) ==
    IF s.version # Latest THEN s.version
    ELSE IF resolved[Product(s.platform)] # None THEN resolved[Product(s.platform)]
    ELSE latest

\* Bug: the build that was looked up is not kept.
Cache_Nothing(ss) == resolved

Cache(ss) ==
    [q \in Products |->
        IF resolved[q] = None /\ \E s \in ss : Product(s.platform) = q /\ s.version = Latest
        THEN latest ELSE resolved[q]]

\* resolve_test_servers: every server is created and its device looked for
\* before anything is provisioned.
Resolve ==
    /\ At("start", "resolve")
    /\ \/ Goto("create") /\ resolved' = Cache({script.servers[j] : j \in DOMAIN script.servers})
       \/ Fail /\ UNCHANGED resolved
    /\ UNCHANGED <<latest, published, upload, files, machine, history, scripts>>

\* TestServer.create(platform, version).
Create ==
    /\ script.at = "create"
    /\ resolved' = Cache({Current})
    /\ script' = [script EXCEPT !.build = Normalized(Current),
                                !.at = IF script.kind = "stop" THEN "stop"
                                       ELSE IF Current.download THEN "download" ELSE "library"]
    /\ UNCHANGED <<latest, published, upload, files, machine, outcome, history, scripts>>

Package == <<Platform, script.build>>

\* Bug: the directory is marked before the package is in it.
Download_MarksFirst ==
    /\ At("start", "download") /\ script.build # 0
    /\ marked' = marked \cup {Package}
    /\ \/ Package \in marked /\ Goto("deploy") /\ UNCHANGED fetched
       \/ \E got \in {"partial", "whole"} :
              /\ fetched' = [fetched EXCEPT ![Package] = got]
              /\ IF got = "whole" THEN Goto("deploy") ELSE Fail
    /\ UNCHANGED <<latest, resolved, published, upload, library, artifact, machine, history, scripts>>

\* download(): nothing to do if it is marked; else HEAD, GET, unpack, mark.
\* The status of the GET is not looked at, so an error page may be what is saved.
Download ==
    /\ At("start", "download")
    /\ \/ NeedsBuildNumber(Platform, TRUE) /\ script.build = 0 /\ Fail /\ UNCHANGED <<fetched, marked>>
       \/ /\ script.build # 0 /\ Package \in marked
          /\ Goto("deploy") /\ UNCHANGED <<fetched, marked>>
       \/ /\ script.build # 0 /\ Package \notin marked
          /\ \/ Fail /\ UNCHANGED <<fetched, marked>>
             \/ /\ published[Package] # "none"
                /\ Fail
                /\ fetched' = [fetched EXCEPT ![Package] = "partial"] /\ UNCHANGED marked
             \/ /\ published[Package] = "whole" \/ ~Archived(Platform)
                /\ published[Package] # "none"
                /\ \E got \in {published[Package]} \cup (IF Archived(Platform) THEN {} ELSE {"junk"}) :
                       fetched' = [fetched EXCEPT ![Package] = got]
                /\ marked' = marked \cup {Package}
                /\ Goto("deploy")
    /\ UNCHANGED <<latest, resolved, published, upload, library, artifact, machine, history, scripts>>

\* Bug: a library is kept whatever its .version says.
Library_AnyMarker ==
    LET p == Platform IN
    /\ At("start", "library") /\ Goto("compile")
    /\ library' = IF ~HasLibrary(p) \/ (p \notin Exe /\ library[p].marker # None) THEN library
                  ELSE [library EXCEPT ![p] = [holds |-> script.build, marker |-> script.build]]
    /\ UNCHANGED <<latest, resolved, published, upload, fetched, marked, artifact, machine,
                   history, scripts>>

\* _download_cbl.  What is left of a library when it is deleted.
Left(p, holds) == [holds |-> holds, marker |-> IF MarkerStays(p) THEN library[p].marker ELSE None]

\* A desktop build deletes the library first.
LibraryDesktop(p) ==
    /\ HasLibrary(p) /\ p \in Exe
    /\ \/ Fail /\ \E holds \in {None, script.build} : library' = [library EXCEPT ![p] = Left(p, holds)]
       \/ /\ Goto("compile")
          /\ library' = [library EXCEPT ![p] = [holds |-> script.build, marker |-> script.build]]

\* A mobile build keeps one whose .version is right, and else deletes it after
\* the download.
KeptOrReplaced(p) ==
    \/ library[p].marker = script.build /\ Goto("compile") /\ UNCHANGED library
    \/ /\ library[p].marker # script.build
       /\ \/ Fail /\ UNCHANGED library
          \/ Fail /\ \E holds \in {None, script.build} : library' = [library EXCEPT ![p] = Left(p, holds)]
          \/ /\ Goto("compile")
             /\ library' = [library EXCEPT ![p] = [holds |-> script.build, marker |-> script.build]]

LibraryAndroid(p) == p = "c_android" /\ KeptOrReplaced(p)
LibraryIos(p)     == p \in {"c_ios", "swift_ios"} /\ KeptOrReplaced(p)

Library ==
    /\ At("start", "library")
    /\ \/ ~HasLibrary(Platform) /\ Goto("compile") /\ UNCHANGED library
       \/ LibraryDesktop(Platform) \/ LibraryAndroid(Platform) \/ LibraryIos(Platform)
    /\ UNCHANGED <<latest, resolved, published, upload, fetched, marked, artifact, machine,
                   history, scripts>>

\* The rest of build().
Built(p, cbl) == Goto("deploy") /\ artifact' = [artifact EXCEPT ![p] = cbl]

\* The output of a C desktop build is deleted before it begins.
CompileDesktop(p) ==
    /\ p \in Exe \ Dotnet
    /\ \/ library[p].holds # None /\ Built(p, library[p].holds)
       \/ Fail /\ artifact' = [artifact EXCEPT ![p] = None]

\* What the other builds leave when they fail is what there was.
BuiltWith(p, cbl) ==
    \/ cbl # None /\ Built(p, cbl)
    \/ Fail /\ UNCHANGED artifact

CompileAndroid(p) == p = "c_android" /\ BuiltWith(p, library[p].holds)
CompileIos(p)     == p \in {"c_ios", "swift_ios"} /\ BuiltWith(p, library[p].holds)

\* Of a release there is no package with a build number.
CompileDotnet(p) == p \in Dotnet /\ BuiltWith(p, IF script.build = 0 THEN None ELSE script.build)
CompileJak(p)    == p \in {"jak_android", "jak_desktop", "jak_webservice"} /\ BuiltWith(p, script.build)
CompileJs(p)     == p = "js" /\ BuiltWith(p, script.build)

Compile ==
    /\ At("start", "compile")
    /\ \/ CompileDesktop(Platform) \/ CompileAndroid(Platform) \/ CompileIos(Platform)
       \/ CompileDotnet(Platform) \/ CompileJak(Platform) \/ CompileJs(Platform)
    /\ UNCHANGED <<latest, resolved, published, upload, fetched, marked, library, machine,
                   history, scripts>>

Here(s)  == {q \in procs : q.platform = s.platform /\ q.location = s.location}
\* Of these, the ones that the same bridge has started.
Own(s)   == {q \in Here(s) : q.bridge = Bridge(s.platform, s.download)}
Namesakes(s) == {q \in procs : ExeName(q.platform) = ExeName(s.platform)}
Listening(s, ps) == {q \in ps : q.location = s.location /\ Port(q.platform) = Port(s.platform)}
Kind     == Bridge(Platform, Current.download)
OnDevice == Kind \in {"android", "ios"}
Xharness == Kind = "ios" /\ Current.location \in OldDevices

\* What the path that create_bridge gives to the bridge holds.
Output ==
    IF ~Current.download THEN artifact[Platform]
    ELSE IF fetched[Package] = "whole" THEN script.build ELSE None

\* validate and install.  A device replaces the app and ends it.
Installed == app' = [app EXCEPT ![Platform] = Output] /\ procs' = procs \ Here(Current)

\* adb installs the new app before it grants the permissions.
InstallAndroid ==
    /\ Kind = "android" /\ Output # None
    /\ Installed
    /\ Goto("run") \/ Fail

InstallIos == Kind = "ios" /\ Output # None /\ Installed /\ Goto("run")

Deploy ==
    /\ At("start", "deploy")
    /\ \/ Fail /\ UNCHANGED <<app, procs>>
       \/ ~OnDevice /\ Goto("run") /\ UNCHANGED <<app, procs>>
       \/ InstallAndroid
       \/ InstallIos
    /\ UNCHANGED <<latest, resolved, published, upload, files, pidfile, history, scripts>>

Started(b) == [id |-> <<scripts, script.i>>, platform |-> Platform,
               location |-> Current.location, bridge |-> Kind, build |-> b]
\* A process that cannot listen on its port, or has nothing to execute, exits.
Launch(ps, b) == IF b = None \/ Listening(Current, ps) # {} THEN ps ELSE ps \cup {Started(b)}

\* run of each bridge.
RunExe == Kind = "exe" /\ Goto("check") /\ procs' = Launch(procs, Output) /\ UNCHANGED pidfile
RunMac == Kind = "mac" /\ Goto("check") /\ procs' = Launch(procs, Output) /\ UNCHANGED pidfile

RunJar ==
    /\ Kind = "jar" /\ Goto("check")
    /\ procs' = Launch(procs, Output)
    /\ pidfile' = [pidfile EXCEPT !["jar"] = <<scripts, script.i>>]

\* Only Jetty stops what may still run (gradlew appStop), which it has started.
RunJetty ==
    /\ Kind = "jetty" /\ Goto("check")
    /\ \E ended \in {{}, Own(Current)} : procs' = Launch(procs \ ended, Output)
    /\ UNCHANGED pidfile

\* bun takes another port if its own is not free.
RunJs == Kind = "js" /\ Goto("check") /\ procs' = procs \cup {Started(Output)} /\ UNCHANGED pidfile

RunAndroid ==
    /\ Kind = "android" /\ Goto("check")
    /\ procs' = Launch(procs, app[Platform]) /\ UNCHANGED pidfile

RunDevicectl ==
    /\ Kind = "ios" /\ ~Xharness /\ Goto("check")
    /\ procs' = Launch(procs, app[Platform]) /\ UNCHANGED pidfile

\* xharness has started the app also when the pid is not seen in its output.
RunXharness ==
    /\ Xharness
    /\ procs' = Launch(procs, app[Platform])
    /\ \/ Goto("check") /\ pidfile' = [pidfile EXCEPT ![Current.location] = <<scripts, script.i>>]
       \/ Fail /\ pidfile' = [pidfile EXCEPT ![Current.location] = None]

Run ==
    /\ At("start", "run")
    /\ asked' = asked \cup {[server |-> Current, build |-> script.build]}
    /\ \/ RunExe \/ RunMac \/ RunJar \/ RunJetty \/ RunJs
       \/ RunAndroid \/ RunDevicectl \/ RunXharness
       \/ Fail /\ UNCHANGED <<procs, pidfile>>
    /\ UNCHANGED <<latest, resolved, published, upload, files, app, quiet, scripts>>

\* get_ip: the address of a device may not be found, that of an iOS device never
\* is; without an ip_hint that is an error.
AddressUnknown == OnDevice

\* The connection check, which any server that listens there passes.  For js,
\* run_test_servers returns.
Check ==
    /\ At("start", "check")
    /\ \/ Kind = "js" /\ End("ok")
       \/ Kind # "js" /\ Listening(Current, procs) # {} /\ Advance("create")
       \/ Kind # "js" /\ (AddressUnknown \/ Listening(Current, procs) = {}) /\ Fail
    /\ UNCHANGED <<latest, resolved, published, upload, files, machine, history, scripts>>

\* The process that a pid file names, if it still runs.
Killed(key) == {q \in procs : q.id = pidfile[key]}

\* Bug: the results of the commands that stop a server are not checked.
Stop_Unchecked ==
    /\ At("stop", "stop") /\ Advance("create")
    /\ \E ended \in {{}, Here(Current)} : procs' = procs \ ended
    /\ UNCHANGED <<latest, resolved, published, upload, files, app, pidfile, history, scripts>>

\* stop of each bridge: which processes it ends, and when it raises.
StopAll(ended) == Advance("create") /\ procs' = procs \ ended
Raise          == Fail /\ UNCHANGED procs

\* The first process of that name, which may be that of another server.
StopFirst ==
    /\ Advance("create")
    /\ \/ Namesakes(Current) = {} /\ UNCHANGED procs
       \/ \E q \in Namesakes(Current) : procs' = procs \ {q}

StopExe == Kind = "exe" /\ StopFirst
StopJs  == Kind = "js" /\ StopFirst

\* killall
StopMac == Kind = "mac" /\ StopAll(Namesakes(Current))

\* By the pid that the last start has left.
StopJar ==
    /\ Kind = "jar"
    /\ \/ Killed("jar") # {} /\ Advance("create") /\ procs' = procs \ Killed("jar")
       \/ Killed("jar") = {} /\ Raise

\* gradlew appStop
StopJetty   == Kind = "jetty" /\ (StopAll(Own(Current)) \/ Raise)
StopAndroid == Kind = "android" /\ (StopAll(Here(Current)) \/ Raise)

\* devicectl: it goes on if the list of processes does not come, or has not the app.
StopDevicectl ==
    /\ Kind = "ios" /\ ~Xharness
    /\ StopAll(Here(Current)) \/ Raise \/ (Advance("create") /\ UNCHANGED procs)

StopXharness ==
    /\ Xharness
    /\ \/ /\ Killed(Current.location) # {}
          /\ Advance("create") /\ procs' = procs \ Killed(Current.location)
       \/ Raise

Stop ==
    /\ At("stop", "stop")
    /\ \/ StopExe \/ StopJs \/ StopMac \/ StopJar \/ StopJetty
       \/ StopAndroid \/ StopDevicectl \/ StopXharness
    /\ UNCHANGED <<latest, resolved, published, upload, files, app, pidfile, history, scripts>>

----------------------------------------------------------------------------
\* The surroundings: a newer build or the release, a server that exits, the
\* machine that builds and uploads packages, unless in CI mode there is one.

NewBuild ==
    /\ latest # 0 /\ latest' \in {0} \cup {b \in Builds : b > latest}
    /\ UNCHANGED <<resolved, published, upload, files, machine, script, outcome, history, scripts>>

Exit ==
    /\ \E q \in procs : procs' = procs \ {q}
    /\ UNCHANGED <<latest, resolved, published, upload, files, app, pidfile, script, outcome,
                   history, scripts>>

Upload(package, ci) ==
    /\ upload = None /\ (ci => published[package] = "none")
    /\ published' = [published EXCEPT ![package] = "partial"]
    /\ upload' = package
    /\ UNCHANGED <<latest, resolved, files, machine, script, outcome, history, scripts>>

UploadEnds ==
    /\ upload # None /\ upload' = None
    /\ \E end \in {"partial", "whole"} : published' = [published EXCEPT ![upload] = end]
    /\ UNCHANGED <<latest, resolved, files, machine, script, outcome, history, scripts>>

Next ==
    \/ \E kind \in {"start", "stop"}, servers \in Topologies : Begin(kind, servers)
    \/ Resolve \/ Create \/ Download \/ Library \/ Compile \/ Deploy \/ Run \/ Check \/ Stop
    \/ NewBuild \/ Exit \/ UploadEnds
    \/ \E package \in Packages, ci \in BOOLEAN : Upload(package, ci)

Spec == Init /\ [][Next]_vars

----------------------------------------------------------------------------
\* A start, or a stop, has ended without an exception.
Done(kind) == script = Idle /\ outcome = "ok" /\ (kind = "start") = (asked # {})

\* run_test_servers: what listens where a server was asked for is that server,
\* at that version of CBL, whatever earlier scripts left half done on the disk
\* and whatever is being uploaded.  A bridge that starts a process of this
\* machine does not stop those of others, and one that installs an app on a
\* device ends the former one of the same platform only, so of what ran before
\* there the promise is to the platform.  The iOS builds, whose .version survives
\* the library that it is about, may have another version.
ServesWhatWasAsked ==
    Done("start") =>
        \A a \in asked : \A q \in Listening(a.server, procs) :
            \/ /\ q.platform = a.server.platform
               /\ q.build = a.build \/ (MarkerStays(a.server.platform) /\ ~a.server.download)
            \/ /\ ~quiet
               /\ q.platform = a.server.platform =>
                      Bridge(a.server.platform, a.server.download) \notin {"android", "ios"}

\* TestServer: all servers of one script that are asked for by the same version
\* without a build get the same build, though a newer one may appear meanwhile.
OneBuildPerScript ==
    \A a, b \in asked :
        /\ a.server.version = Latest /\ b.server.version = Latest
        /\ Product(a.server.platform) = Product(b.server.platform)
        => a.build = b.build

\* download: a directory with .downloaded holds a whole package, though the
\* download, or the upload it fetches from, may have been interrupted.  (Nothing
\* looks at an apk or a jar, which may be an error page.)
MarkedPackageIsWhole ==
    \A x \in marked : Archived(x[1]) => fetched[x] = "whole"

\* stop_test_servers: after a stop that raised nothing, none of the servers it
\* was run for remains, of those that its bridge has started (a web service that
\* was downloaded is not stopped by a stop of one that was built).  The bridges of
\* executables and of bun end one process of a name that several starts, or C and
\* .NET servers together, may have left; of iOS devices only those are covered that
\* devicectl does not find, since the bridge goes on when devicectl fails.
StopStops ==
    [][\A s \in Servers :
         /\ At("stop", "stop") /\ Current = s /\ script' # script /\ outcome' # "failed"
         /\ Bridge(s.platform, s.download) \in {"exe", "js"} => Cardinality(Namesakes(s)) < 2
         /\ Bridge(s.platform, s.download) = "ios" => s.location \in OldDevices
         => (Own(s))' = {}]_vars
=============================================================================
