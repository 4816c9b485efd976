--------------------------- MODULE TestServers_proofs ---------------------------
(***************************************************************************)
(* For any lists of servers, builds of CBL and number of scripts: which      *)
(* builds a script asks for, what is left of its downloads, and what listens *)
(* where it asked for a server.                                              *)
(***************************************************************************)
EXTENDS TestServers, FiniteSetTheorems, TLAPS

Serving == {"download", "library", "compile", "deploy", "run", "check", "stop"}

\* The script is at one of its servers.
ScriptInv ==
    /\ script = [kind |-> script.kind, servers |-> script.servers, i |-> script.i,
                 at |-> script.at, build |-> script.build]
    /\ script.at # "end" => /\ script.servers \in Topologies
                            /\ script.i \in 1..Len(script.servers)

VersionType ==
    /\ latest \in Builds \cup {0}
    /\ resolved \in [Products -> Builds \cup {0, None}]

\* It has resolved the version of the server: the first time it came across one of
\* the same product.
BuildInv ==
    script.at \in Serving =>
        /\ script.build = IF Current.version = Latest THEN resolved[Product(Platform)] ELSE Current.version
        /\ Current.version = Latest => script.build # None
        /\ script.at = "download" => Current.download

\* So were those of all the servers that it has run.
AskedInv ==
    \A a \in asked : /\ a.server \in Servers
                     /\ a.server.version = Latest => /\ resolved[Product(a.server.platform)] = a.build
                                                     /\ a.build # None

FetchedInv ==
    /\ DOMAIN fetched = Packages
    /\ MarkedPackageIsWhole

\* What a library is and what its .version says, where the two go together.
DiskInv ==
    /\ DOMAIN library = Platforms /\ DOMAIN artifact = Platforms /\ DOMAIN app = Platforms
    /\ \A p \in Platforms :
          HasLibrary(p) /\ ~MarkerStays(p) /\ library[p].marker # None
          => library[p].holds = library[p].marker

\* What the steps already taken for a server have brought about.
StepInv ==
    /\ script.at \in {"library", "compile"} => ~Current.download
    /\ script.at = "compile" /\ HasLibrary(Platform) /\ ~MarkerStays(Platform)
       => library[Platform].holds = script.build
    /\ script.at \in {"deploy", "run"} =>
          IF Current.download THEN Package \in marked
          ELSE artifact[Platform] = script.build \/ MarkerStays(Platform)
    /\ script.at = "run" /\ OnDevice
       => Output # None /\ app[Platform] = Output /\ Here(Current) = {}

\* The servers that a script has run are of its list, and so have an address each.
ListInv ==
    /\ script.at # "end" =>
          \A a \in asked : \E j \in DOMAIN script.servers : a.server = script.servers[j]
    /\ \A a, b \in asked :
          /\ a.server.location = b.server.location
          /\ Port(a.server.platform) = Port(b.server.platform)
          => a.server = b.server
    /\ \A a \in asked : a.server.version # Latest => a.build = a.server.version

Right(server, build, b) == b = build \/ (MarkerStays(server.platform) /\ ~server.download)
OfDevice(server)        == Bridge(server.platform, server.download) \in {"android", "ios"}

\* Nothing but what was asked for runs where nothing ran before; and on a device
\* that was asked for a server no former one of its platform is left.
ProcsInv ==
    /\ quiet => \A q \in procs : \E a \in asked :
          /\ q.platform = a.server.platform /\ q.location = a.server.location
          /\ Right(a.server, a.build, q.build)
    /\ \A a \in asked : \A q \in procs :
          OfDevice(a.server) /\ q \in Here(a.server) => Right(a.server, a.build, q.build)

USE TopologiesAreLists, NoneIsNoBuild

LEMMA CurrentIsServer ==
    ASSUME ScriptInv, script.at # "end"
    PROVE  Current \in Servers /\ Platform \in Platforms /\ Product(Platform) \in Products
<1>1. script.servers \in Topologies /\ script.servers \in Seq(Servers)
    BY DEF ScriptInv
<1>2. script.i \in DOMAIN script.servers
    BY <1>1 DEF ScriptInv
<1>3. Current \in Servers
    BY <1>1, <1>2 DEF Current, Servers
<1> QED BY <1>3 DEF Platform, Products

LEMMA InvInit == Init => ScriptInv /\ VersionType /\ BuildInv /\ AskedInv /\ FetchedInv
<1> SUFFICES ASSUME Init PROVE ScriptInv /\ VersionType /\ BuildInv /\ AskedInv /\ FetchedInv
    OBVIOUS
<1>1. script = Idle /\ script.at = "end"
    BY DEF Init, Idle
<1>2. ScriptInv
    BY <1>1 DEF ScriptInv, Idle
<1>3. VersionType
    BY DEF Init, VersionType
<1> QED BY <1>1, <1>2, <1>3 DEF Init, BuildInv, Serving, AskedInv, FetchedInv, MarkedPackageIsWhole

\* What a step does to the script: it ends, it goes on at the same server, or it
\* comes to the next one.
Ends        == script' = Idle
GoesOn(at)  == script' = [script EXCEPT !.at = at]
Advances    == script' = [script EXCEPT !.i = script.i + 1, !.at = "create"]
               /\ script.i < Len(script.servers)

LEMMA ScriptMoves ==
    ASSUME Resolve \/ Download \/ Library \/ Compile \/ Deploy \/ Run \/ Check \/ Stop
    PROVE  /\ script.at # "end" /\ script.at # "create"
           /\ \/ Ends
              \/ script.at = "resolve" /\ GoesOn("create")
              \/ script.at \in Serving /\ (Advances \/ \E at \in Serving \ {"download"} : GoesOn(at))
           /\ Resolve \/ UNCHANGED resolved
<1> USE DEF At, Goto, Fail, End, Advance, Ends, GoesOn, Advances, Serving
<1>1. CASE Resolve
    BY <1>1 DEF Resolve
<1>2. CASE Download
    BY <1>2 DEF Download
<1>3. CASE Library
    BY <1>3 DEF Library, LibraryDesktop, LibraryAndroid, LibraryIos, KeptOrReplaced
<1>4. CASE Compile
    BY <1>4 DEF Compile, CompileDesktop, CompileAndroid, CompileIos, CompileDotnet, CompileJak,
                CompileJs, Built, BuiltWith
<1>5. CASE Deploy
    BY <1>5 DEF Deploy, InstallAndroid, InstallIos
<1>6. CASE Run
    BY <1>6 DEF Run, RunExe, RunMac, RunJar, RunJetty, RunJs, RunAndroid, RunDevicectl, RunXharness
<1>7. CASE Check
    BY <1>7 DEF Check
<1>8. CASE Stop
    BY <1>8 DEF Stop, StopAll, Raise, StopFirst, StopExe, StopJs, StopMac, StopJar, StopJetty,
                StopAndroid, StopDevicectl, StopXharness
<1> QED BY <1>1, <1>2, <1>3, <1>4, <1>5, <1>6, <1>7, <1>8

\* The rest of the steps leave the script and its versions alone.
LEMMA Surroundings ==
    ASSUME \/ NewBuild \/ Exit \/ UploadEnds
           \/ \E package \in Packages, ci \in BOOLEAN : Upload(package, ci)
    PROVE  /\ UNCHANGED <<script, resolved, asked, fetched, marked>>
           /\ latest' = latest \/ latest' \in Builds \cup {0}
BY DEF NewBuild, Exit, UploadEnds, Upload, files, history

LEMMA CacheTyped ==
    ASSUME VersionType, NEW ss
    PROVE  /\ Cache(ss) \in [Products -> Builds \cup {0, None}]
           /\ \A q \in Products : resolved[q] # None => Cache(ss)[q] = resolved[q]
BY DEF VersionType, Cache

LEMMA ScriptNext ==
    ASSUME ScriptInv, VersionType, [Next]_vars
    PROVE  ScriptInv' /\ VersionType'
<1>1. ASSUME NEW kind, NEW servers \in Topologies, Begin(kind, servers)
      PROVE  ScriptInv' /\ VersionType'
    <2>1. Len(servers) \in Nat /\ servers # <<>> /\ servers \in Seq(Servers)
        OBVIOUS
    <2>2. 1 \in 1..Len(servers)
        BY <2>1
    <2>3. ScriptInv'
        BY <1>1, <2>2 DEF Begin, ScriptInv
    <2> QED BY <1>1, <2>3 DEF Begin, VersionType
<1>2. CASE Create
    <2>1. ScriptInv'
        BY <1>2 DEF Create, ScriptInv
    <2>2. resolved' = Cache({Current}) /\ latest' = latest
        BY <1>2 DEF Create
    <2> QED BY <2>1, <2>2, CacheTyped DEF VersionType
<1>3. CASE Resolve \/ Download \/ Library \/ Compile \/ Deploy \/ Run \/ Check \/ Stop
    <2>1. ScriptInv'
        <3>1. CASE Ends
            BY <3>1 DEF Ends, Idle, ScriptInv
        <3>2. ASSUME NEW at, at # "end", GoesOn(at) PROVE ScriptInv'
            BY <1>3, <3>2, ScriptMoves DEF GoesOn, ScriptInv
        <3>3. CASE Advances
            <4>1. script.servers \in Topologies /\ script.servers \in Seq(Servers)
                  /\ script.i \in 1..Len(script.servers)
                BY <1>3, ScriptMoves DEF ScriptInv
            <4>2. script.i + 1 \in 1..Len(script.servers)
                BY <3>3, <4>1 DEF Advances
            <4>3. script' = [script EXCEPT !.i = script.i + 1, !.at = "create"]
                BY <3>3 DEF Advances
            <4> QED BY <4>1, <4>2, <4>3 DEF ScriptInv
        <3> QED BY <1>3, <3>1, <3>2, <3>3, ScriptMoves DEF Serving
    <2>2. latest' = latest
        BY <1>3 DEF Resolve, Download, Library, Compile, Deploy, Run, Check, Stop
    <2>3. resolved' = resolved \/ \E ss : resolved' = Cache(ss)
        BY <1>3, ScriptMoves DEF Resolve
    <2> QED BY <2>1, <2>2, <2>3, CacheTyped DEF VersionType
<1>4. CASE \/ NewBuild \/ Exit \/ UploadEnds
           \/ \E package \in Packages, ci \in BOOLEAN : Upload(package, ci)
    BY <1>4, Surroundings DEF ScriptInv, VersionType
<1>5. CASE UNCHANGED vars
    BY <1>5 DEF vars, ScriptInv, VersionType
<1> QED BY <1>1, <1>2, <1>3, <1>4, <1>5 DEF Next

LEMMA BuildNext ==
    ASSUME ScriptInv, VersionType, BuildInv, [Next]_vars
    PROVE  BuildInv'
<1>1. ASSUME NEW kind, NEW servers, Begin(kind, servers) PROVE BuildInv'
    BY <1>1 DEF Begin, BuildInv, Serving
<1>2. CASE Create
    <2>1. script.at = "create" /\ resolved' = Cache({Current})
        BY <1>2 DEF Create
    <2>2. Product(Platform) \in Products
        BY <2>1, CurrentIsServer
    <2>3. /\ script'.build = Normalized(Current) /\ Current' = Current /\ Platform' = Platform
          /\ script'.at = "download" => Current.download
        BY <1>2 DEF Create, ScriptInv, Current, Platform
    <2>4. CASE Current.version = Latest
        <3>1. resolved'[Product(Platform)] = IF resolved[Product(Platform)] = None THEN latest
                                             ELSE resolved[Product(Platform)]
            BY <2>1, <2>2, <2>4 DEF Cache, Platform
        <3>2. Normalized(Current) = resolved'[Product(Platform)] /\ latest # None
            BY <2>4, <3>1 DEF Normalized, Platform, VersionType
        <3> QED BY <2>3, <2>4, <3>1, <3>2 DEF BuildInv
    <2>5. CASE Current.version # Latest
        BY <2>3, <2>5 DEF BuildInv, Normalized
    <2> QED BY <2>4, <2>5
<1>3. CASE Resolve \/ Download \/ Library \/ Compile \/ Deploy \/ Run \/ Check \/ Stop
    <2>1. CASE script'.at \notin Serving
        BY <2>1 DEF BuildInv
    <2>2. CASE script'.at \in Serving
        <3>1. PICK at \in Serving \ {"download"} : script.at \in Serving /\ GoesOn(at)
            <4>1. Ends => script'.at = "end"
                BY DEF Ends, Idle
            <4>2. Advances => script'.at = "create"
                BY DEF Advances, ScriptInv
            <4>3. GoesOn("create") => script'.at = "create"
                BY DEF GoesOn, ScriptInv
            <4>4. script'.at \notin {"end", "create"}
                BY <2>2 DEF Serving
            <4> QED BY <1>3, <4>1, <4>2, <4>3, <4>4, ScriptMoves
        <3>2. Current' = Current /\ Platform' = Platform /\ script'.build = script.build /\ script'.at = at
            BY <3>1 DEF GoesOn, ScriptInv, Current, Platform
        <3>3. UNCHANGED resolved
            BY <1>3, <3>1, ScriptMoves DEF Resolve, At, Serving
        <3> QED BY <3>1, <3>2, <3>3 DEF BuildInv
    <2> QED BY <2>1, <2>2
<1>4. CASE \/ NewBuild \/ Exit \/ UploadEnds
           \/ \E package \in Packages, ci \in BOOLEAN : Upload(package, ci)
    BY <1>4, Surroundings DEF BuildInv, Current, Platform
<1>5. CASE UNCHANGED vars
    BY <1>5 DEF vars, BuildInv, Current, Platform
<1> QED BY <1>1, <1>2, <1>3, <1>4, <1>5 DEF Next

LEMMA AskedNext ==
    ASSUME ScriptInv, VersionType, BuildInv, AskedInv, [Next]_vars
    PROVE  AskedInv'
<1>1. ASSUME NEW kind, NEW servers, Begin(kind, servers) PROVE AskedInv'
    BY <1>1 DEF Begin, AskedInv
<1>2. CASE Run
    <2>1. asked' = asked \cup {[server |-> Current, build |-> script.build]} /\ script.at = "run"
          /\ UNCHANGED resolved
        BY <1>2 DEF Run, At
    <2>2. Current \in Servers
        BY <2>1, CurrentIsServer
    <2>3. Current.version = Latest => resolved[Product(Current.platform)] = script.build /\ script.build # None
        BY <2>1 DEF BuildInv, Serving, Platform
    <2> QED BY <2>1, <2>2, <2>3 DEF AskedInv
<1>3. CASE Resolve \/ Create
    <2>1. UNCHANGED asked /\ (resolved' = resolved \/ \E ss : resolved' = Cache(ss))
        BY <1>3 DEF Resolve, Create, history
    <2>2. \A a \in asked : Product(a.server.platform) \in Products
        BY DEF AskedInv, Products
    <2> QED BY <2>1, <2>2, CacheTyped DEF AskedInv
<1>4. CASE Download \/ Library \/ Compile \/ Deploy \/ Check \/ Stop
    BY <1>4 DEF Download, Library, Compile, Deploy, Check, Stop, history, AskedInv
<1>5. CASE \/ NewBuild \/ Exit \/ UploadEnds
           \/ \E package \in Packages, ci \in BOOLEAN : Upload(package, ci)
    BY <1>5, Surroundings DEF AskedInv
<1>6. CASE UNCHANGED vars
    BY <1>6 DEF vars, history, AskedInv
<1> QED BY <1>1, <1>2, <1>3, <1>4, <1>5, <1>6 DEF Next

\* A directory is marked only with a whole package in it, and what is marked is
\* not fetched again.
LEMMA FetchedNext ==
    ASSUME ScriptInv, VersionType, BuildInv, FetchedInv, [Next]_vars
    PROVE  FetchedInv'
<1>1. CASE Download
    <2>1. script.at = "download"
        BY <1>1 DEF Download, At
    <2>2. Current \in Servers /\ Current.download
        BY <2>1, CurrentIsServer DEF BuildInv, Serving
    <2>3. script.build # 0 => Package \in Packages
        <3>1. Product(Platform) \in Products
            BY <2>1, CurrentIsServer
        <3>2. script.build # 0 => script.build \in (IF Current.version = Latest THEN Builds
                                                    ELSE {Current.version}) \ {0}
            BY <2>1, <3>1 DEF BuildInv, VersionType, Serving
        <3> QED BY <2>2, <3>2 DEF Package, Packages, Platform
    <2>4. CASE UNCHANGED <<fetched, marked>>
        BY <2>4 DEF FetchedInv, MarkedPackageIsWhole
    <2>5. CASE /\ script.build # 0 /\ Package \notin marked
               /\ fetched' = [fetched EXCEPT ![Package] = "partial"] /\ UNCHANGED marked
        BY <2>5 DEF FetchedInv, MarkedPackageIsWhole
    <2>6. ASSUME script.build # 0, Package \notin marked, NEW got,
                 Archived(Platform) => got = "whole",
                 fetched' = [fetched EXCEPT ![Package] = got], marked' = marked \cup {Package}
          PROVE  FetchedInv'
        <3>1. DOMAIN fetched' = Packages /\ fetched'[Package] = got
              /\ \A x \in Packages \ {Package} : fetched'[x] = fetched[x]
            BY <2>3, <2>6 DEF FetchedInv
        <3>2. Package[1] = Platform
            BY DEF Package
        <3>3. ASSUME NEW x \in marked', Archived(x[1]) PROVE fetched'[x] = "whole"
            <4>1. CASE x = Package
                BY <2>6, <3>1, <3>2, <3>3, <4>1
            <4>2. CASE x # Package
                BY <2>6, <3>3, <4>2 DEF FetchedInv, MarkedPackageIsWhole
            <4> QED BY <4>1, <4>2
        <3> QED BY <3>1, <3>3 DEF FetchedInv, MarkedPackageIsWhole
    <2>7. \/ UNCHANGED <<fetched, marked>>
          \/ /\ script.build # 0 /\ Package \notin marked
             /\ fetched' = [fetched EXCEPT ![Package] = "partial"] /\ UNCHANGED marked
          \/ /\ script.build # 0 /\ Package \notin marked
             /\ published[Package] = "whole" \/ ~Archived(Platform)
             /\ \E got \in {published[Package]} \cup (IF Archived(Platform) THEN {} ELSE {"junk"}) :
                   fetched' = [fetched EXCEPT ![Package] = got]
             /\ marked' = marked \cup {Package}
        BY <1>1 DEF Download
    <2> QED BY <2>4, <2>5, <2>6, <2>7
<1>2. CASE UNCHANGED <<fetched, marked>>
    BY <1>2 DEF FetchedInv, MarkedPackageIsWhole
<1>3. ASSUME NEW kind, NEW servers, Begin(kind, servers) PROVE UNCHANGED <<fetched, marked>>
    BY <1>3 DEF Begin, files
<1>4. CASE Resolve \/ Create \/ Library \/ Compile \/ Deploy \/ Run \/ Check \/ Stop
    BY <1>2, <1>4 DEF Resolve, Create, Library, Compile, Deploy, Run, Check, Stop, files
<1>5. CASE UNCHANGED vars
    BY <1>2, <1>5 DEF vars, files
<1> QED BY <1>1, <1>2, <1>3, <1>4, <1>5, Surroundings DEF Next

\* One script gives all servers of a product that are asked for without a build the
\* same build, whichever appear while it runs.
THEOREM OneBuildPerScriptCorrect == Spec => []OneBuildPerScript
<1>1. AskedInv => OneBuildPerScript
    BY DEF AskedInv, OneBuildPerScript
<1> QED BY InvInit, ScriptNext, BuildNext, AskedNext, <1>1, PTL DEF Spec

\* A directory with .downloaded holds a whole package, wherever a download or an
\* upload was interrupted.
THEOREM MarkedPackageIsWholeCorrect == Spec => []MarkedPackageIsWhole
<1>1. FetchedInv => MarkedPackageIsWhole
    BY DEF FetchedInv
<1> QED BY InvInit, ScriptNext, BuildNext, FetchedNext, <1>1, PTL DEF Spec
----------------------------------------------------------------------------
\* What a server that is asked for serves: each step that provisions it, then the
\* invariants that they preserve.

LEMMA ServingInit == Init => DiskInv /\ StepInv /\ ListInv /\ ProcsInv
<1> SUFFICES ASSUME Init PROVE DiskInv /\ StepInv /\ ListInv /\ ProcsInv
    OBVIOUS
<1>1. script = Idle /\ script.at = "end" /\ asked = {} /\ procs = {}
    BY DEF Init, Idle
<1>2. DiskInv
    BY DEF Init, DiskInv
<1>3. StepInv
    BY <1>1 DEF StepInv
<1> QED BY <1>1, <1>2, <1>3 DEF ListInv, ProcsInv

\* A server that goes on to another step is still the same, of the same build.
LEMMA SameServer ==
    ASSUME ScriptInv, NEW at, GoesOn(at)
    PROVE  /\ Current' = Current /\ Platform' = Platform /\ Package' = Package
           /\ script'.build = script.build /\ script'.at = at /\ script'.servers = script.servers
BY DEF GoesOn, ScriptInv, Current, Platform, Package

LEMMA Moved ==
    ASSUME ScriptInv
    PROVE  /\ Ends => script'.at = "end"
           /\ Advances => script'.at = "create" /\ script'.servers = script.servers
           /\ \A at : GoesOn(at) => script'.at = at /\ script'.servers = script.servers
<1>1. Ends => script'.at = "end"
    BY DEF Ends, Idle
<1>2. Advances => script'.at = "create" /\ script'.servers = script.servers
    BY DEF Advances, ScriptInv
<1> QED BY <1>1, <1>2 DEF GoesOn, ScriptInv

LEMMA LibraryStep ==
    ASSUME ScriptInv, VersionType, BuildInv, DiskInv, Library
    PROVE  /\ DiskInv'
           /\ script'.at = "compile" /\ HasLibrary(Platform) /\ ~MarkerStays(Platform)
              => library'[Platform].holds = script.build
           /\ Ends \/ GoesOn("compile")
<1> DEFINE p == Platform
<1>1. script.at = "library" /\ p \in Platforms
    BY CurrentIsServer DEF Library, At
<1>2. UNCHANGED <<artifact, app>>
    BY DEF Library, machine
<1>3. script.build # None
    BY <1>1, CurrentIsServer DEF BuildInv, Serving
<1> HIDE DEF p
<1>4. ASSUME GoesOn("compile"), library' = [library EXCEPT ![p] = [holds |-> script.build, marker |-> script.build]]
      PROVE  DiskInv' /\ library'[p].holds = script.build
    BY <1>1, <1>2, <1>4 DEF DiskInv
<1>5. ASSUME NEW holds, library' = [library EXCEPT ![p] = Left(p, holds)]
      PROVE  DiskInv'
    BY <1>1, <1>2, <1>5 DEF DiskInv, Left
<1>6. ASSUME UNCHANGED library PROVE DiskInv'
    BY <1>2, <1>6 DEF DiskInv
<1>7. ASSUME library[p].marker = script.build, UNCHANGED library
      PROVE  HasLibrary(p) /\ ~MarkerStays(p) => library'[p].holds = script.build
    BY <1>1, <1>3, <1>7 DEF DiskInv
<1>8. Fail => Ends /\ script'.at = "end"
    BY DEF Fail, End, Ends, Idle
<1>9. Goto("compile") => GoesOn("compile")
    BY DEF Goto, GoesOn
<1>10. \/ ~HasLibrary(p) /\ Goto("compile") /\ UNCHANGED library
       \/ Fail /\ UNCHANGED library
       \/ Fail /\ \E holds : library' = [library EXCEPT ![p] = Left(p, holds)]
       \/ library[p].marker = script.build /\ Goto("compile") /\ UNCHANGED library
       \/ /\ Goto("compile")
          /\ library' = [library EXCEPT ![p] = [holds |-> script.build, marker |-> script.build]]
    BY DEF p, Library, LibraryDesktop, LibraryAndroid, LibraryIos, KeptOrReplaced
<1> QED BY <1>4, <1>5, <1>6, <1>7, <1>8, <1>9, <1>10 DEF p

\* The version that is built is the one asked for, but for the iOS builds.
LEMMA CompileStep ==
    ASSUME ScriptInv, DiskInv, StepInv, Compile
    PROVE  /\ DiskInv'
           /\ \/ Ends
              \/ GoesOn("deploy") /\ (artifact'[Platform] = script.build \/ MarkerStays(Platform))
<1> DEFINE p == Platform
<1>1. script.at = "compile" /\ p \in Platforms
    BY CurrentIsServer DEF Compile, At
<1>2. UNCHANGED <<library, app>>
    BY DEF Compile, machine
<1>3. HasLibrary(p) /\ ~MarkerStays(p) => library[p].holds = script.build
    BY <1>1 DEF StepInv
<1> HIDE DEF p
<1>4. ASSUME NEW cbl, artifact' = [artifact EXCEPT ![p] = cbl]
      PROVE  DiskInv' /\ artifact'[p] = cbl
    BY <1>1, <1>2, <1>4 DEF DiskInv
<1>5. ASSUME UNCHANGED artifact PROVE DiskInv'
    BY <1>2, <1>5 DEF DiskInv
<1>6. Fail => Ends
    BY DEF Fail, End, Ends
<1>7. \/ Fail /\ (UNCHANGED artifact \/ artifact' = [artifact EXCEPT ![p] = None])
      \/ \E cbl : Built(p, cbl) /\ (cbl = script.build \/ MarkerStays(p))
    <2>1. CASE CompileDesktop(p)
        BY <1>3, <2>1 DEF CompileDesktop, Exe, Dotnet, HasLibrary, MarkerStays
    <2>2. CASE CompileAndroid(p)
        BY <1>3, <2>2 DEF CompileAndroid, BuiltWith, HasLibrary, MarkerStays
    <2>3. CASE CompileIos(p)
        BY <2>3 DEF CompileIos, BuiltWith, MarkerStays
    <2>4. CASE CompileDotnet(p) \/ CompileJak(p) \/ CompileJs(p)
        BY <2>4 DEF CompileDotnet, CompileJak, CompileJs, BuiltWith
    <2> QED BY <2>1, <2>2, <2>3, <2>4 DEF p, Compile
<1>8. ASSUME NEW cbl, Built(p, cbl) PROVE GoesOn("deploy") /\ artifact' = [artifact EXCEPT ![p] = cbl]
    BY <1>8 DEF Built, Goto, GoesOn
<1> QED BY <1>4, <1>5, <1>6, <1>7, <1>8 DEF p

LEMMA BridgeOf ==
    ASSUME ScriptInv, script.at # "end"
    PROVE  /\ Kind = "js" => Platform = "js"
           /\ Kind = "android" \/ Kind = "ios" <=> OnDevice
           /\ OnDevice <=> OfDevice(Current)
<1>1. Platform \in Platforms
    BY CurrentIsServer
<1>2. Kind = "js" => Platform = "js"
    BY <1>1, PlatformsAreRegistered DEF Kind, Bridge, Exe, Android, Ios
<1> QED BY <1>2 DEF Kind, OnDevice, OfDevice, Platform

\* So is the version that a bridge is given.
LEMMA OutputRight ==
    ASSUME ScriptInv, FetchedInv, StepInv, script.at \in {"deploy", "run"}
    PROVE  /\ Output # None => Right(Current, script.build, Output)
           /\ Kind = "js" => Output = script.build
<1>1. CASE Current.download
    <2>1. Package \in marked /\ Package[1] = Platform
        BY <1>1 DEF StepInv, Package
    <2>2. Archived("js")
        BY DEF Archived, Android
    <2>3. Kind = "js" => fetched[Package] = "whole"
        BY <2>1, <2>2, BridgeOf DEF FetchedInv, MarkedPackageIsWhole
    <2>4. Output = IF fetched[Package] = "whole" THEN script.build ELSE None
        BY <1>1 DEF Output
    <2> QED BY <2>3, <2>4 DEF Right
<1>2. CASE ~Current.download
    <2>1. Output = artifact[Platform]
        BY <1>2 DEF Output
    <2>2. artifact[Platform] = script.build \/ MarkerStays(Platform)
        BY <1>2 DEF StepInv
    <2>3. ~MarkerStays("js")
        BY DEF MarkerStays
    <2> QED BY <1>2, <2>1, <2>2, <2>3, BridgeOf DEF Right, Platform
<1> QED BY <1>1, <1>2

\* A device has the new app, and no longer runs the former one.
LEMMA DeployStep ==
    ASSUME ScriptInv, DiskInv, Deploy
    PROVE  /\ DiskInv' /\ procs' \subseteq procs
           /\ \/ Ends
              \/ /\ GoesOn("run")
                 /\ OnDevice => /\ Output # None /\ app'[Platform] = Output
                                /\ procs' \cap Here(Current) = {}
<1>1. script.at = "deploy" /\ Platform \in Platforms
    BY CurrentIsServer DEF Deploy, At
<1>2. UNCHANGED <<library, artifact>>
    BY DEF Deploy, files
<1>3. ASSUME UNCHANGED <<app, procs>> PROVE DiskInv' /\ procs' \subseteq procs
    BY <1>2, <1>3 DEF DiskInv
<1>4. ASSUME Installed PROVE /\ DiskInv' /\ procs' \subseteq procs
                             /\ app'[Platform] = Output /\ procs' \cap Here(Current) = {}
    <2>1. app' = [app EXCEPT ![Platform] = Output] /\ procs' = procs \ Here(Current)
        BY <1>4 DEF Installed
    <2>2. DOMAIN app' = Platforms /\ app'[Platform] = Output
        BY <1>1, <2>1 DEF DiskInv
    <2> QED BY <1>2, <2>1, <2>2 DEF DiskInv
<1>5. \/ Fail /\ UNCHANGED <<app, procs>>
      \/ ~OnDevice /\ Goto("run") /\ UNCHANGED <<app, procs>>
      \/ Output # None /\ Installed /\ (Goto("run") \/ Fail)
    BY DEF Deploy, InstallAndroid, InstallIos
<1>6. (Fail => Ends) /\ (Goto("run") => GoesOn("run"))
    BY DEF Fail, End, Ends, Goto, GoesOn
<1> QED BY <1>3, <1>4, <1>5, <1>6

\* What a bridge starts is the server asked for, at the version asked for.
LEMMA RunStep ==
    ASSUME ScriptInv, FetchedInv, StepInv, Run
    PROVE  \A q \in procs' :
              \/ q \in procs
              \/ /\ q.platform = Current.platform /\ q.location = Current.location
                 /\ Right(Current, script.build, q.build)
<1>1. script.at = "run"
    BY DEF Run, At
<1>2. ASSUME NEW ps, ps \subseteq procs, NEW b, b # None => Right(Current, script.build, b),
             NEW q \in Launch(ps, b)
      PROVE  \/ q \in procs
             \/ /\ q.platform = Current.platform /\ q.location = Current.location
                /\ Right(Current, script.build, q.build)
    BY <1>2 DEF Launch, Started, Platform
<1>3. Output # None => Right(Current, script.build, Output)
    BY <1>1, OutputRight
<1>4. OnDevice => Right(Current, script.build, app[Platform])
    BY <1>1, <1>3 DEF StepInv
<1>5. \/ procs' = procs
      \/ \E ps : ps \subseteq procs /\ procs' = Launch(ps, Output)
      \/ OnDevice /\ procs' = Launch(procs, app[Platform])
      \/ Kind = "js" /\ procs' = procs \cup {Started(Output)}
    BY DEF Run, RunExe, RunMac, RunJar, RunJetty, RunJs, RunAndroid, RunDevicectl, RunXharness,
           OnDevice, Xharness
<1>6. CASE \E ps : ps \subseteq procs /\ procs' = Launch(ps, Output)
    BY <1>2, <1>3, <1>6
<1>7. CASE OnDevice /\ procs' = Launch(procs, app[Platform])
    BY <1>2, <1>4, <1>7
<1>8. CASE Kind = "js" /\ procs' = procs \cup {Started(Output)}
    <2>1. Output = script.build
        BY <1>1, <1>8, OutputRight
    <2> QED BY <1>8, <2>1 DEF Started, Right, Platform
<1> QED BY <1>5, <1>6, <1>7, <1>8

LEMMA DownloadStep ==
    ASSUME ScriptInv, BuildInv, Download
    PROVE  /\ Current.download
           /\ Ends \/ (GoesOn("deploy") /\ Package \in marked')
<1>1. Current.download
    BY DEF Download, At, BuildInv, Serving
<1>2. (Fail => Ends) /\ (Goto("deploy") => GoesOn("deploy"))
    BY DEF Fail, End, Ends, Goto, GoesOn
<1>3. Fail \/ (Goto("deploy") /\ Package \in marked')
    BY DEF Download
<1> QED BY <1>1, <1>2, <1>3

LEMMA StepNext ==
    ASSUME ScriptInv, VersionType, BuildInv, FetchedInv, DiskInv, StepInv, [Next]_vars
    PROVE  DiskInv' /\ StepInv'
<1>1. ASSUME script'.at \notin {"library", "compile", "deploy", "run"} PROVE StepInv'
    BY <1>1 DEF StepInv
<1>2. Ends => script'.at = "end"
    BY DEF Ends, Idle
<1>3. ASSUME UNCHANGED <<library, artifact, app>> PROVE DiskInv'
    BY <1>3 DEF DiskInv
<1>4. ASSUME NEW kind, NEW servers, Begin(kind, servers) PROVE DiskInv' /\ StepInv'
    <2>1. script'.at \in {"resolve", "create"}
        BY <1>4 DEF Begin
    <2> QED BY <1>1, <1>3, <1>4, <2>1 DEF Begin, files, machine
<1>5. CASE Resolve
    <2>1. script'.at \in {"end", "create"}
        BY <1>5 DEF Resolve, Fail, End, Goto, Idle, ScriptInv
    <2> QED BY <1>1, <1>3, <1>5, <2>1 DEF Resolve, files, machine
<1>6. CASE Create
    <2>1. /\ script'.at \in {"stop", "download", "library"}
          /\ script'.at = "library" => ~Current'.download
        BY <1>6 DEF Create, ScriptInv, Current
    <2> QED BY <1>3, <1>6, <2>1 DEF Create, StepInv, files, machine
<1>7. CASE Download
    <2>1. UNCHANGED <<library, artifact, app>>
        BY <1>7 DEF Download, machine
    <2>2. CASE Ends
        BY <1>1, <1>2, <1>3, <2>1, <2>2
    <2>3. CASE GoesOn("deploy")
        BY <1>3, <1>7, <2>1, <2>3, <1>2, DownloadStep, SameServer DEF StepInv, GoesOn, Ends
    <2> QED BY <1>7, <2>2, <2>3, DownloadStep
<1>8. CASE Library
    <2>1. CASE Ends
        BY <1>1, <1>2, <1>8, <2>1, LibraryStep
    <2>2. CASE GoesOn("compile")
        <3>1. ~Current.download
            BY <1>8 DEF Library, At, StepInv
        <3> QED BY <1>8, <2>2, <3>1, LibraryStep, SameServer DEF StepInv
    <2> QED BY <1>8, <2>1, <2>2, LibraryStep
<1>9. CASE Compile
    <2>1. CASE Ends
        BY <1>1, <1>2, <1>9, <2>1, CompileStep
    <2>2. CASE GoesOn("deploy") /\ (artifact'[Platform] = script.build \/ MarkerStays(Platform))
        <3>1. ~Current.download
            BY <1>9 DEF Compile, At, StepInv
        <3> QED BY <1>9, <2>2, <3>1, CompileStep, SameServer DEF StepInv
    <2> QED BY <1>9, <2>1, <2>2, CompileStep
<1>10. CASE Deploy
    <2>1. CASE Ends
        BY <1>1, <1>2, <1>10, <2>1, DeployStep
    <2>2. CASE /\ GoesOn("run")
               /\ OnDevice => /\ Output # None /\ app'[Platform] = Output
                              /\ procs' \cap Here(Current) = {}
        <3>1. script.at = "deploy" /\ UNCHANGED <<fetched, marked, artifact>>
            BY <1>10 DEF Deploy, At, files
        <3>2. /\ Current' = Current /\ Platform' = Platform /\ Package' = Package
              /\ script'.build = script.build /\ script'.at = "run"
            BY <2>2, SameServer
        <3>3. Output' = Output /\ OnDevice' = OnDevice
            BY <3>1, <3>2 DEF Output, OnDevice, Kind
        <3>4. OnDevice => Here(Current)' = {}
            BY <1>10, <2>2, <3>2, DeployStep DEF Here
        <3> QED BY <1>10, <2>2, <3>1, <3>2, <3>3, <3>4, DeployStep DEF StepInv
    <2> QED BY <1>10, <2>1, <2>2, DeployStep
<1>11. CASE Run
    <2>1. script'.at \in {"end", "check"}
        BY <1>11 DEF Run, RunExe, RunMac, RunJar, RunJetty, RunJs, RunAndroid, RunDevicectl,
                     RunXharness, Goto, Fail, End, Idle, ScriptInv
    <2> QED BY <1>1, <1>3, <1>11, <2>1 DEF Run, files
<1>12. CASE Check
    <2>1. script'.at \in {"end", "create"}
        <3>1. Ends \/ Advances
            BY <1>12 DEF Check, Advance, Fail, End, Ends, Advances
        <3> QED BY <3>1, Moved
    <2> QED BY <1>1, <1>3, <1>12, <2>1 DEF Check, files, machine
<1>13. CASE Stop
    <2>1. script'.at \in {"end", "create"}
        <3>1. Ends \/ Advances
            BY <1>13 DEF Stop, StopAll, Raise, StopFirst, StopExe, StopJs, StopMac, StopJar, StopJetty,
                         StopAndroid, StopDevicectl, StopXharness, Advance, Fail, End, Ends, Advances
        <3> QED BY <3>1, Moved
    <2> QED BY <1>1, <1>3, <1>13, <2>1 DEF Stop, files
<1>14. CASE \/ NewBuild \/ Exit \/ UploadEnds \/ UNCHANGED vars
            \/ \E package \in Packages, ci \in BOOLEAN : Upload(package, ci)
    <2>1. UNCHANGED <<script, fetched, marked, library, artifact, app>> /\ procs' \subseteq procs
        BY <1>14 DEF NewBuild, Exit, UploadEnds, Upload, vars, files, machine
    <2>2. UNCHANGED <<Current, Platform, Package, Output, OnDevice>>
        BY <2>1 DEF Current, Platform, Package, Output, OnDevice, Kind
    <2>3. Here(Current)' \subseteq Here(Current)
        BY <2>1, <2>2 DEF Here
    <2> QED BY <1>3, <2>1, <2>2, <2>3 DEF StepInv
<1> QED BY <1>4, <1>5, <1>6, <1>7, <1>8, <1>9, <1>10, <1>11, <1>12, <1>13, <1>14 DEF Next

LEMMA ListNext ==
    ASSUME ScriptInv, VersionType, BuildInv, ListInv, [Next]_vars
    PROVE  ListInv'
<1>1. ASSUME NEW kind, NEW servers, Begin(kind, servers) PROVE ListInv'
    BY <1>1 DEF Begin, ListInv
<1>2. CASE Run
    <2>1. /\ asked' = asked \cup {[server |-> Current, build |-> script.build]}
          /\ script.at = "run"
          /\ script'.at = "end" \/ script'.servers = script.servers
        BY <1>2, ScriptMoves, Moved DEF Run, At
    <2>2. script.servers \in Topologies /\ script.i \in DOMAIN script.servers
        BY <2>1 DEF ScriptInv
    <2>3. Current.version # Latest => script.build = Current.version
        BY <2>1 DEF BuildInv, Serving
    <2>4. \A a \in asked' : \E j \in DOMAIN script.servers : a.server = script.servers[j]
        BY <2>1, <2>2 DEF ListInv, Current
    <2>5. ASSUME NEW a \in asked', NEW b \in asked', a.server.location = b.server.location,
                 Port(a.server.platform) = Port(b.server.platform)
          PROVE  a.server = b.server
        BY <2>2, <2>4, <2>5, OneServerPerAddress
    <2>6. \A a \in asked' : a.server.version # Latest => a.build = a.server.version
        BY <2>1, <2>3 DEF ListInv
    <2> QED BY <2>1, <2>4, <2>5, <2>6 DEF ListInv
<1>3. CASE Resolve \/ Download \/ Library \/ Compile \/ Deploy \/ Check \/ Stop
    <2>1. UNCHANGED asked
        BY <1>3 DEF Resolve, Download, Library, Compile, Deploy, Check, Stop, history
    <2>2. script'.at = "end" \/ script'.servers = script.servers
        BY <1>3, ScriptMoves, Moved
    <2>3. script.at # "end"
        BY <1>3, ScriptMoves
    <2> QED BY <2>1, <2>2, <2>3 DEF ListInv
<1>4. CASE Create
    BY <1>4 DEF Create, history, ScriptInv, ListInv
<1>5. CASE \/ NewBuild \/ Exit \/ UploadEnds
           \/ \E package \in Packages, ci \in BOOLEAN : Upload(package, ci)
    BY <1>5, Surroundings DEF ListInv
<1>6. CASE UNCHANGED vars
    BY <1>6 DEF vars, history, ListInv
<1> QED BY <1>1, <1>2, <1>3, <1>4, <1>5, <1>6 DEF Next

\* One server is asked for one build.
LEMMA SameAddressSameBuild ==
    ASSUME AskedInv, ListInv, NEW a \in asked, NEW b \in asked,
           a.server.location = b.server.location, Port(a.server.platform) = Port(b.server.platform)
    PROVE  a.server = b.server /\ a.build = b.build
BY DEF AskedInv, ListInv

LEMMA ProcsNext ==
    ASSUME ScriptInv, VersionType, BuildInv, AskedInv, AskedInv', ListInv', FetchedInv, DiskInv,
           StepInv, ProcsInv, [Next]_vars
    PROVE  ProcsInv'
<1>1. ASSUME NEW kind, NEW servers, Begin(kind, servers) PROVE ProcsInv'
    BY <1>1 DEF Begin, machine, ProcsInv
<1>2. ASSUME procs' \subseteq procs, UNCHANGED <<asked, quiet>> PROVE ProcsInv'
    BY <1>2 DEF ProcsInv, Here
<1>3. CASE Run
    <2> DEFINE new == [server |-> Current, build |-> script.build]
    <2>1. /\ asked' = asked \cup {new} /\ new.server = Current /\ new.build = script.build
          /\ script.at = "run" /\ UNCHANGED quiet
        BY <1>3 DEF Run, At
    <2> HIDE DEF new
    <2>2. new \in asked'
        BY <2>1
    <2>3. \A q \in procs' :
              \/ q \in procs
              \/ /\ q.platform = Current.platform /\ q.location = Current.location
                 /\ Right(Current, script.build, q.build)
        BY <1>3, RunStep
    <2>4. ASSUME quiet, NEW q \in procs'
          PROVE  \E a \in asked' : /\ q.platform = a.server.platform /\ q.location = a.server.location
                                   /\ Right(a.server, a.build, q.build)
        BY <2>1, <2>2, <2>3, <2>4 DEF ProcsInv
    <2>5. ASSUME NEW a \in asked', NEW q \in procs', OfDevice(a.server),
                 q.platform = a.server.platform, q.location = a.server.location
          PROVE  Right(a.server, a.build, q.build)
        <3>1. CASE q \in procs /\ a \in asked
            BY <2>5, <3>1 DEF ProcsInv, Here
        <3>2. CASE q \in procs /\ a = new
            <4>1. OnDevice
                BY <2>1, <2>5, <3>2, BridgeOf
            <4>2. q \in Here(Current)
                BY <2>1, <2>5, <3>2 DEF Here
            <4> QED BY <2>1, <4>1, <4>2 DEF StepInv
        <3>3. CASE q \notin procs
            <4>1. /\ q.platform = new.server.platform /\ q.location = new.server.location
                  /\ Right(new.server, new.build, q.build)
                BY <2>1, <2>3, <3>3
            <4>2. a.server = new.server /\ a.build = new.build
                BY <2>2, <2>5, <4>1 DEF AskedInv, ListInv
            <4> QED BY <4>1, <4>2
        <3> QED BY <2>1, <3>1, <3>2, <3>3
    <2> QED BY <2>1, <2>4, <2>5 DEF ProcsInv, Here
<1>4. CASE Resolve \/ Create \/ Download \/ Library \/ Compile \/ Check
    BY <1>2, <1>4 DEF Resolve, Create, Download, Library, Compile, Check, history, machine
<1>5. CASE Deploy
    BY <1>2, <1>5, DeployStep DEF Deploy, history
<1>6. CASE Stop
    <2>1. procs' \subseteq procs
        BY <1>6 DEF Stop, StopAll, Raise, StopFirst, StopExe, StopJs, StopMac, StopJar, StopJetty,
                    StopAndroid, StopDevicectl, StopXharness
    <2> QED BY <1>2, <1>6, <2>1 DEF Stop, history
<1>7. CASE \/ NewBuild \/ Exit \/ UploadEnds \/ UNCHANGED vars
           \/ \E package \in Packages, ci \in BOOLEAN : Upload(package, ci)
    BY <1>2, <1>7 DEF NewBuild, Exit, UploadEnds, Upload, vars, history, machine
<1> QED BY <1>1, <1>3, <1>4, <1>5, <1>6, <1>7 DEF Next

\* What listens where a server was asked for is that server at that version, or ran
\* there before and the bridge does not stop it, whatever was left half done on the
\* disk and whatever was being uploaded.
THEOREM ServesWhatWasAskedCorrect == Spec => []ServesWhatWasAsked
<1>1. AskedInv /\ ListInv /\ ProcsInv => ServesWhatWasAsked
    <2> SUFFICES ASSUME AskedInv, ListInv, ProcsInv, NEW a \in asked,
                        NEW q \in Listening(a.server, procs)
                 PROVE  \/ /\ q.platform = a.server.platform
                           /\ Right(a.server, a.build, q.build)
                        \/ /\ ~quiet
                           /\ q.platform = a.server.platform => ~OfDevice(a.server)
        BY DEF ServesWhatWasAsked, Right, OfDevice
    <2>1. q \in procs /\ q.location = a.server.location /\ Port(q.platform) = Port(a.server.platform)
        BY DEF Listening
    <2>2. CASE quiet
        <3>1. PICK b \in asked : /\ q.platform = b.server.platform /\ q.location = b.server.location
                                 /\ Right(b.server, b.build, q.build)
            BY <2>1, <2>2 DEF ProcsInv
        <3>2. a.server = b.server /\ a.build = b.build
            BY <2>1, <3>1, SameAddressSameBuild
        <3> QED BY <3>1, <3>2
    <2>3. CASE ~quiet /\ q.platform = a.server.platform /\ OfDevice(a.server)
        BY <2>1, <2>3 DEF ProcsInv, Here
    <2> QED BY <2>2, <2>3
<1> QED BY InvInit, ServingInit, ScriptNext, BuildNext, AskedNext, FetchedNext, StepNext, ListNext,
           ProcsNext, <1>1, PTL DEF Spec
----------------------------------------------------------------------------
\* What a stop finds.

\* A process has been given its id, and the step that runs a server gives a new one.
Given(id) ==
    /\ id \in Nat \X Nat /\ id[1] <= scripts
    /\ script.at # "end" /\ id[1] = scripts
       => id[2] < script.i \/ (id[2] = script.i /\ script.at = "check")

IdInv ==
    /\ scripts \in Nat
    /\ \A q \in procs : Given(q.id)
    /\ \A k \in DOMAIN pidfile : pidfile[k] # None => Given(pidfile[k])

\* Two processes do not listen on one port, except those of bun, which looks for another.
PortInv ==
    /\ IsFiniteSet(procs)
    /\ \A q, r \in procs :
          q.location = r.location /\ Port(q.platform) = Port(r.platform) /\ q.platform # "js" => q = r

IsOf(q, s) == q.platform = s.platform /\ q.location = s.location

\* The process in a pid file is one of a server that writes that file.
PidInv ==
    /\ DOMAIN pidfile = {"jar"} \cup OldDevices
    /\ \A q \in procs :
          /\ q.id = pidfile["jar"]
             => \E s \in Servers : IsOf(q, s) /\ Bridge(s.platform, s.download) = "jar"
          /\ \A l \in OldDevices : q.id = pidfile[l]
             => \E s \in Servers : IsOf(q, s) /\ Bridge(s.platform, s.download) = "ios" /\ s.location = l

\* The lists in which the servers at one old iOS device use the same port, so that
\* one of them runs there at a time; it has one pid file for all.
OnePortPerOldDevice ==
    \A s, t \in Servers :
        /\ Bridge(s.platform, s.download) = "ios" /\ Bridge(t.platform, t.download) = "ios"
        /\ s.location = t.location /\ s.location \in OldDevices
        => Port(s.platform) = Port(t.platform)

LEMMA StopInit == Init => IdInv /\ PortInv /\ PidInv
<1> SUFFICES ASSUME Init PROVE IdInv /\ PortInv /\ PidInv
    OBVIOUS
<1>1. procs = {} /\ scripts = 0 /\ pidfile = [l \in {"jar"} \cup OldDevices |-> None]
    BY DEF Init
<1>2. IsFiniteSet(procs)
    BY <1>1, FS_EmptySet
<1> QED BY <1>1, <1>2 DEF IdInv, PortInv, PidInv

\* What a script does to the processes and the pid files.
New == <<scripts, script.i>>

LEMMA RunProcs ==
    ASSUME Run
    PROVE  \E ps \in SUBSET procs :
              \/ procs' = ps
              \/ \E b : /\ procs' = ps \cup {Started(b)}
                        /\ Kind = "js" \/ Listening(Current, ps) = {}
<1>1. ASSUME NEW ps \in SUBSET procs, NEW b, procs' = Launch(ps, b)
      PROVE  \/ procs' = ps
             \/ procs' = ps \cup {Started(b)} /\ Listening(Current, ps) = {}
    BY <1>1 DEF Launch
<1>2. \/ procs' = procs
      \/ \E ps \in SUBSET procs : \E b : procs' = Launch(ps, b)
      \/ Kind = "js" /\ \E b : procs' = procs \cup {Started(b)}
    <2>1. procs \in SUBSET procs /\ \A ended : procs \ ended \in SUBSET procs
        OBVIOUS
    <2>2. CASE RunJetty
        BY <2>1, <2>2 DEF RunJetty
    <2>3. CASE RunJs
        BY <2>3 DEF RunJs
    <2>4. CASE RunExe \/ RunMac \/ RunJar \/ RunAndroid \/ RunDevicectl \/ RunXharness
        BY <2>1, <2>4 DEF RunExe, RunMac, RunJar, RunAndroid, RunDevicectl, RunXharness
    <2> QED BY <2>2, <2>3, <2>4 DEF Run
<1>3. CASE procs' = procs
    BY <1>3
<1>4. CASE \E ps \in SUBSET procs : \E b : procs' = Launch(ps, b)
    BY <1>1, <1>4
<1>5. CASE Kind = "js" /\ \E b : procs' = procs \cup {Started(b)}
    BY <1>5
<1> QED BY <1>2, <1>3, <1>4, <1>5

LEMMA RunPids ==
    ASSUME Run
    PROVE  \/ UNCHANGED pidfile
           \/ Kind = "jar" /\ pidfile' = [pidfile EXCEPT !["jar"] = New]
           \/ Xharness /\ \E pid \in {New, None} : pidfile' = [pidfile EXCEPT ![Current.location] = pid]
BY DEF Run, RunExe, RunMac, RunJar, RunJetty, RunJs, RunAndroid, RunDevicectl, RunXharness, New

LEMMA NewIsOf == ASSUME NEW b PROVE Started(b).id = New /\ IsOf(Started(b), Current)
BY DEF Started, New, IsOf, Platform

\* Only a start that runs a server starts processes, or writes a pid file.
LEMMA OnlyRunStarts ==
    ASSUME ScriptInv, [Next]_vars, ~Run
    PROVE  procs' \subseteq procs /\ UNCHANGED pidfile
<1>1. ASSUME NEW kind, NEW servers, Begin(kind, servers) PROVE procs' \subseteq procs /\ UNCHANGED pidfile
    BY <1>1 DEF Begin, machine
<1>2. CASE Resolve \/ Create \/ Download \/ Library \/ Compile \/ Check
    BY <1>2 DEF Resolve, Create, Download, Library, Compile, Check, machine
<1>3. CASE Deploy
    BY <1>3 DEF Deploy, InstallAndroid, InstallIos, Installed
<1>4. CASE Stop
    BY <1>4 DEF Stop, StopAll, Raise, StopFirst, StopExe, StopJs, StopMac, StopJar, StopJetty,
                StopAndroid, StopDevicectl, StopXharness
<1>5. CASE \/ NewBuild \/ Exit \/ UploadEnds \/ UNCHANGED vars
           \/ \E package \in Packages, ci \in BOOLEAN : Upload(package, ci)
    BY <1>5 DEF NewBuild, Exit, UploadEnds, Upload, vars, machine
<1> QED BY <1>1, <1>2, <1>3, <1>4, <1>5 DEF Next

LEMMA GivenStays ==
    ASSUME ScriptInv, scripts \in Nat, [Next]_vars, NEW id, Given(id)
    PROVE  Given(id)' /\ scripts' \in Nat
<1>1. id[1] \in Nat /\ id[2] \in Nat
    BY DEF Given
<1>2. script.at # "end" => script.i \in Nat
    <2>1. script.at # "end" => script.servers \in Seq(Servers) /\ script.i \in 1..Len(script.servers)
        BY DEF ScriptInv
    <2> QED BY <2>1
<1>3. ASSUME UNCHANGED scripts, script'.at = "end" PROVE Given(id)' /\ scripts' \in Nat
    BY <1>3 DEF Given
<1>4. ASSUME UNCHANGED scripts, script.at \notin {"end", "check"}, script'.i = script.i
      PROVE  Given(id)' /\ scripts' \in Nat
    BY <1>4 DEF Given
<1>5. ASSUME UNCHANGED scripts, script.at # "end", Advances
      PROVE  Given(id)' /\ scripts' \in Nat
    <2>1. script'.i = script.i + 1
        BY <1>5 DEF Advances, ScriptInv
    <2> QED BY <1>1, <1>2, <1>5, <2>1 DEF Given
<1>6. ASSUME NEW kind, NEW servers, Begin(kind, servers) PROVE Given(id)' /\ scripts' \in Nat
    <2>1. scripts' = scripts + 1
        BY <1>6 DEF Begin
    <2> QED BY <1>1, <2>1 DEF Given
<1>7. CASE Create
    BY <1>4, <1>7 DEF Create, ScriptInv
<1>8. CASE Check
    <2>1. Ends \/ Advances
        BY <1>8 DEF Check, Advance, Fail, End, Ends, Advances
    <2>2. UNCHANGED scripts /\ script.at # "end"
        BY <1>8 DEF Check, At
    <2> QED BY <1>3, <1>5, <2>1, <2>2, Moved
<1>9. CASE Resolve \/ Download \/ Library \/ Compile \/ Deploy \/ Run \/ Stop
    <2>1. UNCHANGED scripts
        BY <1>9 DEF Resolve, Download, Library, Compile, Deploy, Run, Stop
    <2>2. script.at \notin {"end", "check"}
        BY <1>9 DEF Resolve, Download, Library, Compile, Deploy, Run, Stop, At
    <2>3. Ends \/ Advances \/ \E at : GoesOn(at)
        BY <1>9, ScriptMoves
    <2>4. \A at : GoesOn(at) => script'.i = script.i
        BY DEF GoesOn, ScriptInv
    <2> QED BY <1>3, <1>4, <1>5, <2>1, <2>2, <2>3, <2>4, Moved
<1>10. CASE \/ NewBuild \/ Exit \/ UploadEnds \/ UNCHANGED vars
            \/ \E package \in Packages, ci \in BOOLEAN : Upload(package, ci)
    <2>1. UNCHANGED <<script, scripts>>
        BY <1>10 DEF NewBuild, Exit, UploadEnds, Upload, vars
    <2> QED BY <2>1 DEF Given
<1> QED BY <1>6, <1>7, <1>8, <1>9, <1>10 DEF Next

LEMMA NewIsNew ==
    ASSUME ScriptInv, scripts \in Nat, Run
    PROVE  ~Given(New) /\ \A id : id = New => Given(id)'
<1>1. script.at = "run" /\ UNCHANGED scripts
    BY DEF Run, At
<1>2. script.servers \in Seq(Servers) /\ script.i \in 1..Len(script.servers)
    BY <1>1 DEF ScriptInv
<1>3. script.i \in Nat
    BY <1>2
<1>4. script'.at = "end" \/ (script'.at = "check" /\ script'.i = script.i)
    BY DEF Run, RunExe, RunMac, RunJar, RunJetty, RunJs, RunAndroid, RunDevicectl,
           RunXharness, Goto, Fail, End, Idle, ScriptInv
<1>5. New \in Nat \X Nat /\ New[1] = scripts /\ New[2] = script.i
    BY <1>3 DEF New
<1>6. ~Given(New)
    BY <1>1, <1>3, <1>5 DEF Given
<1>7. ASSUME NEW id, id = New PROVE Given(id)'
    <2>1. id \in Nat \X Nat /\ id[1] = scripts /\ id[2] = script.i
        BY <1>5, <1>7
    <2> QED BY <1>1, <1>4, <2>1 DEF Given
<1> QED BY <1>6, <1>7

LEMMA IdNext ==
    ASSUME ScriptInv, IdInv, PidInv, [Next]_vars
    PROVE  IdInv'
<1>1. scripts' \in Nat
    <2>1. CASE UNCHANGED scripts
        BY <2>1 DEF IdInv
    <2>2. CASE \E kind, servers : Begin(kind, servers)
        BY <2>2 DEF Begin, IdInv
    <2> QED BY <2>1, <2>2 DEF Next, Resolve, Create, Download, Library, Compile, Deploy, Run, Check, Stop,
                             NewBuild, Exit, UploadEnds, Upload, vars
<1>2. \A id : Given(id) => Given(id)'
    BY GivenStays DEF IdInv
<1>3. CASE Run
    <2>1. \A q \in procs' : q \in procs \/ q.id = New
        BY <1>3, RunProcs, NewIsOf
    <2>2. \A id : id = New => Given(id)'
        BY <1>3, NewIsNew DEF IdInv
    <2>3. \A k \in DOMAIN pidfile' : \/ k \in DOMAIN pidfile /\ pidfile'[k] = pidfile[k]
                                     \/ pidfile'[k] \in {New, None}
        BY <1>3, RunPids
    <2>4. \A q \in procs' : Given(q.id)'
        BY <1>2, <2>1, <2>2 DEF IdInv
    <2>5. (\A k \in DOMAIN pidfile : pidfile[k] # None => Given(pidfile[k]))'
        <3>1. \A k \in DOMAIN pidfile' : \A id : id = pidfile'[k] /\ id # None => Given(id)'
            BY <1>2, <2>2, <2>3 DEF IdInv
        <3> QED BY <3>1 DEF Given
    <2> QED BY <1>1, <2>4, <2>5 DEF IdInv
<1>4. CASE ~Run
    BY <1>1, <1>2, <1>4, OnlyRunStarts DEF IdInv
<1> QED BY <1>3, <1>4

LEMMA PortNext ==
    ASSUME ScriptInv, PortInv, [Next]_vars
    PROVE  PortInv'
<1>1. ASSUME NEW ps \in SUBSET procs PROVE IsFiniteSet(ps)
    BY FS_Subset DEF PortInv
<1>2. CASE procs' \subseteq procs
    BY <1>1, <1>2 DEF PortInv
<1>3. ASSUME NEW ps \in SUBSET procs, NEW b, procs' = ps \cup {Started(b)}, Run,
             Kind = "js" \/ Listening(Current, ps) = {}
      PROVE  PortInv'
    <2> DEFINE new == Started(b)
    <2>1. IsFiniteSet(procs')
        BY <1>1, <1>3, FS_AddElement
    <2>2. new.location = Current.location /\ new.platform = Platform
        BY DEF Started
    <2> HIDE DEF new
    <2>3. ASSUME NEW q \in ps, q.location = new.location, Port(q.platform) = Port(new.platform)
          PROVE  q.platform = "js" /\ new.platform = "js"
        <3>1. q \in Listening(Current, ps)
            BY <2>2, <2>3 DEF Listening, Platform
        <3>2. Platform = "js"
            BY <1>3, <3>1, BridgeOf DEF Run, At
        <3> QED BY <2>2, <2>3, <3>2 DEF Port, Dotnet
    <2> QED BY <1>3, <2>1, <2>3 DEF PortInv, new
<1> QED BY <1>2, <1>3, OnlyRunStarts, RunProcs

LEMMA PidNext ==
    ASSUME ScriptInv, IdInv, PidInv, [Next]_vars
    PROVE  PidInv'
<1> DEFINE Writer(q, k) ==
        \E s \in Servers :
            /\ IsOf(q, s)
            /\ IF k = "jar" THEN Bridge(s.platform, s.download) = "jar"
               ELSE Bridge(s.platform, s.download) = "ios" /\ s.location = k
<1>1. PidInv <=> /\ DOMAIN pidfile = {"jar"} \cup OldDevices
                 /\ \A q \in procs, k \in {"jar"} \cup OldDevices : q.id = pidfile[k] => Writer(q, k)
    BY HostServersAreLocal DEF PidInv
<1>2. ASSUME DOMAIN pidfile' = {"jar"} \cup OldDevices,
             \A q \in procs', k \in {"jar"} \cup OldDevices : q.id = pidfile'[k] => Writer(q, k)
      PROVE  PidInv'
    <2>1. \A q \in procs' : q.id = pidfile'["jar"]
             => \E s \in Servers : IsOf(q, s) /\ Bridge(s.platform, s.download) = "jar"
        BY <1>2
    <2>2. ASSUME NEW q \in procs', NEW l \in OldDevices, q.id = pidfile'[l]
          PROVE  \E s \in Servers : IsOf(q, s) /\ Bridge(s.platform, s.download) = "ios" /\ s.location = l
        <3>1. Writer(q, l)
            BY <1>2, <2>2
        <3>2. l # "jar"
            BY HostServersAreLocal
        <3> QED BY <3>1, <3>2
    <2> QED BY <1>2, <2>1, <2>2 DEF PidInv, IsOf
<1> HIDE DEF Writer
<1>3. CASE ~Run
    BY <1>1, <1>2, <1>3, OnlyRunStarts
<1>4. CASE Run
    <2>1. script.at = "run" /\ Current \in Servers
        BY <1>4, CurrentIsServer DEF Run, At
    <2>2. ~Given(New) /\ New # None
        <3>1. New \in Nat \X Nat
            <4>1. script.servers \in Seq(Servers) /\ script.i \in 1..Len(script.servers)
                BY <2>1 DEF ScriptInv
            <4>2. script.i \in Nat
                BY <4>1
            <4> QED BY <4>2 DEF New, IdInv
        <3> QED BY <1>4, <3>1, NewIsNew, NoneIsNoProcess DEF IdInv
    <2>3. \A q \in procs : q.id # New /\ q.id # None
        BY <2>2, NoneIsNoProcess DEF IdInv, Given
    <2>4. \A k \in {"jar"} \cup OldDevices : pidfile[k] # New
        BY <1>1, <2>2 DEF IdInv
    <2>5. \A q \in procs' : q \in procs \/ (q.id = New /\ IsOf(q, Current))
        BY <1>4, RunProcs, NewIsOf
    <2>6. ASSUME UNCHANGED pidfile PROVE PidInv'
        BY <1>1, <1>2, <2>4, <2>5, <2>6
    <2>7. ASSUME NEW j \in {"jar"} \cup OldDevices, NEW pid \in {New, None},
                 \A q : IsOf(q, Current) => Writer(q, j),
                 pidfile' = [pidfile EXCEPT ![j] = pid]
          PROVE  PidInv'
        <3>1. DOMAIN pidfile' = {"jar"} \cup OldDevices /\ pidfile'[j] = pid
              /\ \A k \in {"jar"} \cup OldDevices : k # j => pidfile'[k] = pidfile[k]
            BY <1>1, <2>7
        <3>2. ASSUME NEW q \in procs', NEW k \in {"jar"} \cup OldDevices, q.id = pidfile'[k]
              PROVE  Writer(q, k)
            <4>1. CASE k = j
                BY <2>2, <2>3, <2>5, <2>7, <3>1, <3>2, <4>1
            <4>2. CASE k # j
                BY <1>1, <2>4, <2>5, <3>1, <3>2, <4>2
            <4> QED BY <4>1, <4>2
        <3> QED BY <1>2, <3>1, <3>2
    <2>8. Kind = "jar" => \A q : IsOf(q, Current) => Writer(q, "jar")
        BY <2>1 DEF Kind, Platform, Writer
    <2>9. Xharness => /\ Current.location \in OldDevices
                      /\ \A q : IsOf(q, Current) => Writer(q, Current.location)
        BY <2>1, HostServersAreLocal DEF Xharness, Kind, Platform, Writer
    <2>10. CASE Kind = "jar" /\ pidfile' = [pidfile EXCEPT !["jar"] = New]
        BY <2>7, <2>8, <2>10
    <2>11. CASE Xharness /\ \E pid \in {New, None} : pidfile' = [pidfile EXCEPT ![Current.location] = pid]
        BY <2>7, <2>9, <2>11
    <2> QED BY <1>4, <2>6, <2>10, <2>11, RunPids
<1> QED BY <1>3, <1>4

\* A process that holds the port of a server is the only one there.
LEMMA OneHere ==
    ASSUME PortInv, NEW s \in Servers, s.platform # "js", NEW k \in procs,
           k.location = s.location, Port(k.platform) = Port(s.platform)
    PROVE  Here(s) \subseteq {k}
BY DEF PortInv, Here

\* What a stop that raises nothing leaves of its server.
LEMMA StopEnds ==
    ASSUME ScriptInv, PortInv, PidInv, OnePortPerOldDevice, Stop, outcome' # "failed",
           Kind \in {"exe", "js"} => Cardinality(Namesakes(Current)) < 2,
           Kind = "ios" => Current.location \in OldDevices
    PROVE  procs' \cap Own(Current) = {}
<1>1. script.at = "stop" /\ Current \in Servers /\ Platform \in Platforms
    BY CurrentIsServer DEF Stop, At
<1>2. ~Raise
    BY DEF Raise, Fail, End
<1>3. Here(Current) \subseteq procs /\ Own(Current) \subseteq Here(Current)
    BY DEF Here, Own
<1>4. Here(Current) \subseteq Namesakes(Current) /\ Namesakes(Current) \subseteq procs
    BY DEF Here, Namesakes
<1>5. CASE StopMac \/ StopJetty \/ StopAndroid
    BY <1>2, <1>3, <1>4, <1>5 DEF StopMac, StopJetty, StopAndroid, StopAll
<1>6. CASE StopExe \/ StopJs
    <2>1. Cardinality(Namesakes(Current)) < 2 /\ StopFirst
        BY <1>6 DEF StopExe, StopJs
    <2>2. CASE Namesakes(Current) = {}
        BY <1>3, <1>4, <2>2
    <2>3. ASSUME NEW q \in Namesakes(Current), procs' = procs \ {q}
          PROVE  procs' \cap Own(Current) = {}
        <3>1. IsFiniteSet(Namesakes(Current))
            BY <1>4, FS_Subset DEF PortInv
        <3>2. IsFiniteSet(Namesakes(Current) \ {q})
              /\ Cardinality(Namesakes(Current) \ {q}) = Cardinality(Namesakes(Current)) - 1
            BY <2>3, <3>1, FS_RemoveElement
        <3>3. Cardinality(Namesakes(Current) \ {q}) = 0
            BY <2>1, <3>1, <3>2, FS_CardinalityType
        <3>4. Namesakes(Current) \ {q} = {}
            BY <3>2, <3>3, FS_EmptySet
        <3> QED BY <1>3, <1>4, <2>3, <3>4
    <2> QED BY <2>1, <2>2, <2>3 DEF StopFirst
<1>7. ~StopDevicectl
    BY DEF StopDevicectl, Xharness
<1>8. CASE StopJar
    <2>1. Kind = "jar" /\ Killed("jar") # {} /\ procs' = procs \ Killed("jar")
        BY <1>2, <1>8 DEF StopJar
    <2>2. PICK k \in procs : k.id = pidfile["jar"]
        BY <2>1 DEF Killed
    <2>3. PICK s \in Servers : IsOf(k, s) /\ Bridge(s.platform, s.download) = "jar"
        BY <2>2 DEF PidInv
    <2>4. s.platform \in Platforms
        BY <2>3
    <2>5. /\ s.platform \in {"jak_desktop", "jak_webservice"}
          /\ Platform \in {"jak_desktop", "jak_webservice"}
        BY <1>1, <2>1, <2>3, <2>4, PlatformsAreRegistered DEF Kind, Bridge, Exe, Android, Ios
    <2>6. k.location = Current.location
        <3>1. /\ Bridge(s.platform, s.download) \notin {"android", "ios"}
              /\ Bridge(Current.platform, Current.download) \notin {"android", "ios"}
            BY <2>1, <2>3 DEF Kind, Platform
        <3> QED BY <1>1, <2>3, <3>1, HostServersAreLocal DEF IsOf
    <2>7. Here(Current) \subseteq {k}
        BY <1>1, <2>2, <2>3, <2>5, <2>6, OneHere DEF IsOf, Port, Dotnet, Platform
    <2> QED BY <1>3, <2>1, <2>2, <2>7 DEF Killed
<1>9. CASE StopXharness
    <2> DEFINE l == Current.location
    <2>1. Kind = "ios" /\ l \in OldDevices /\ Killed(l) # {} /\ procs' = procs \ Killed(l)
        BY <1>2, <1>9 DEF StopXharness, Xharness
    <2> HIDE DEF l
    <2>2. PICK k \in procs : k.id = pidfile[l]
        BY <2>1 DEF Killed
    <2>3. PICK s \in Servers : IsOf(k, s) /\ Bridge(s.platform, s.download) = "ios" /\ s.location = l
        BY <2>1, <2>2 DEF PidInv
    <2>4. Port(s.platform) = Port(Platform)
        BY <1>1, <2>1, <2>3 DEF OnePortPerOldDevice, Kind, Platform, l
    <2>5. Platform # "js"
        BY <2>1 DEF Kind, Bridge, Exe, Android, Ios
    <2>6. Here(Current) \subseteq {k}
        BY <1>1, <2>2, <2>3, <2>4, <2>5, OneHere DEF IsOf, Platform, l
    <2> QED BY <1>3, <2>1, <2>2, <2>6 DEF Killed
<1> QED BY <1>5, <1>6, <1>7, <1>8, <1>9 DEF Stop

\* A stop that raised nothing has ended what its bridge had started of the servers it
\* was run for, unless several processes have the name it looks for, if the servers
\* at one old iOS device have one port: they have one pid file, and the stop of one
\* would end another.
THEOREM StopStopsCorrect == ASSUME OnePortPerOldDevice PROVE Spec => StopStops
<1>1. ASSUME ScriptInv, PortInv, PidInv, [Next]_vars, NEW s \in Servers,
             At("stop", "stop"), Current = s, script' # script, outcome' # "failed",
             Bridge(s.platform, s.download) \in {"exe", "js"} => Cardinality(Namesakes(s)) < 2,
             Bridge(s.platform, s.download) = "ios" => s.location \in OldDevices
      PROVE  (Own(s))' = {}
    <2>1. Stop
        <3>1. script.at = "stop" /\ script.kind = "stop" /\ script # Idle
            BY <1>1 DEF At, Idle
        <3>2. ~UNCHANGED script
            BY <1>1
        <3> QED BY <1>1, <3>1, <3>2 DEF Next, Begin, Resolve, Create, Download, Library, Compile, Deploy,
                                      Run, Check, At, NewBuild, Exit, UploadEnds, Upload, vars
    <2>2. Kind = Bridge(s.platform, s.download)
        BY <1>1 DEF Kind, Platform
    <2>3. procs' \cap Own(s) = {}
        BY <1>1, <2>1, <2>2, StopEnds
    <2>4. procs' \subseteq procs
        BY <1>1, <2>1, OnlyRunStarts DEF Stop, Run, At
    <2> QED BY <2>3, <2>4 DEF Here, Own
<1>2. ScriptInv /\ PortInv /\ PidInv /\ [Next]_vars =>
         [\A s \in Servers :
             /\ At("stop", "stop") /\ Current = s /\ script' # script /\ outcome' # "failed"
             /\ Bridge(s.platform, s.download) \in {"exe", "js"} => Cardinality(Namesakes(s)) < 2
             /\ Bridge(s.platform, s.download) = "ios" => s.location \in OldDevices
             => (Own(s))' = {}]_vars
    BY <1>1
<1> QED BY InvInit, StopInit, ScriptNext, IdNext, PortNext, PidNext, <1>2, PTL DEF Spec, StopStops
=================================================================================
