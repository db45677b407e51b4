---------------------------- MODULE CatalogProofs ----------------------------
(***************************************************************************)
(* Theorems about the Manager's catalogue of runtimes, Nodes and data      *)
(* directories (RuntimeCatalog), for any number of runtimes, contexts,     *)
(* operations, crashes and updates of the system runtime.                  *)
(***************************************************************************)
EXTENDS MCServices, TLAPS
-----------------------------------------------------------------------------
(* The inductive invariant                                                 *)

SomeContext == Contexts \cup {Catalog!NoContext}
Versions == {f \in [Catalog!Runtimes -> Nat] : f[System] # 0}
Catalogs == [rt : Versions, nodes : SUBSET Nodes, dirs : SUBSET Directories,
             rel : SUBSET Managed, conf : Contexts, known : SomeContext]

GateKinds == {"idle", "releases", "register", "adddir", "deldir", "delrt", "delnode",
              "install", "node", "configure"}
OfRuntime == {"toolchain", "package", "aside", "commit", "candidate", "finalize"}
GatePcs == {"idle", "read", "save", "publish", "files", "fetch", "nodecheck"} \cup OfRuntime
GateIds == {0, System} \cup Managed \cup Nodes \cup Directories
GateOps == [kind : GateKinds, pc : GatePcs, id : GateIds, node : Nodes \cup {0},
            rel : SUBSET Managed, snap : Catalogs, before : Nat, local : BOOLEAN,
            known : BOOLEAN]
LaunchPcs == {"idle", "resolve", "verify", "read", "save", "publish", "resolved", "failed"}
CatalogLaunches == [pc : LaunchPcs, target : SomeContext, seen : Nat, snap : Catalogs]
HostOps == [kind : {"idle", "start", "switch"}, pc : {"idle", "drain", "launch", "run"},
            target : SomeContext]

CatalogTyped ==
    /\ mem \in Catalogs /\ saved \in Catalogs /\ current \in SomeContext
    /\ gop \in GateOps /\ launches \in [Catalog!Launchers -> CatalogLaunches]
    /\ hostOp \in HostOps
    /\ rtFiles \in [Managed -> Nat] /\ rtBackup \in [Managed -> Nat]
    /\ nodeFiles \subseteq Nodes /\ systemVersion \in Nat \ {0} /\ gens \in Nat
    /\ kept \subseteq Managed
    /\ switching \in BOOLEAN /\ overlapped \in BOOLEAN /\ unprotected \in BOOLEAN

\* What an operation works on, by its kind and its place.
OpShape(o) ==
    /\ o.pc = "idle" <=> o.kind = "idle"
    /\ o.kind \in {"delrt", "install"} => o.id \in Managed
    /\ o.kind = "register" => o.id = System
    /\ o.kind = "delnode" => o.id \in Nodes
    /\ o.kind \in {"adddir", "deldir"} => o.id \in Directories
    /\ o.kind \in {"delrt", "releases", "register", "adddir", "deldir", "delnode"} => o.node = 0
    /\ o.kind = "node" => o.node # 0
    /\ o.pc \in OfRuntime => o.kind = "install" /\ o.node = 0
    /\ o.pc \in {"fetch", "nodecheck"} => o.kind \in {"node", "install"} /\ o.node # 0
    /\ o.pc = "files" => o.kind \in {"delrt", "delnode"}
    /\ o.kind = "configure" => \E c \in Contexts : c.rt = o.id /\ c.node = o.node

\* The mutation guard is the switch's, and what the Host has under way has its launch.
HostShape ==
    /\ switching <=> hostOp.kind = "switch"
    /\ hostOp.kind = "idle" => hostOp.pc = "idle"
    /\ hostOp.kind = "start" =>
          hostOp.pc = "launch" /\ current = Catalog!NoContext /\ hostOp.target = mem.conf
    /\ hostOp.kind # "idle" => hostOp.target \in Contexts /\ hostOp.pc \in {"drain", "launch", "run"}
    /\ hostOp.kind = "switch" /\ hostOp.pc \in {"launch", "run"} => gop.kind \in {"idle", "releases"}
    /\ hostOp.pc \in {"launch", "run"} =>
          launches["host"].target = hostOp.target /\ launches["host"].pc # "idle"
    /\ hostOp.pc \in {"idle", "drain"} => launches["host"].pc = "idle"
    /\ hostOp.pc = "run" => launches["host"].pc = "resolved" /\ hostOp.kind = "switch"
    /\ gop.kind = "configure" => hostOp.kind = "idle"
    /\ launches["automation"].pc # "idle" => launches["automation"].target \in Contexts

\* The trees of the installation under way: where the old one is, and that a candidate
\* stands in its place once one was committed.
Trees ==
    /\ \A v \in Managed : (gop.kind = "install" => gop.id # v) => rtBackup[v] = 0
    /\ gop.kind = "install" =>
        LET f == rtFiles[gop.id]
            b == rtBackup[gop.id]
        IN
        /\ gop.node # 0 \/ gop.pc \in {"toolchain", "package", "aside"} =>
              f = gop.before /\ b = 0 /\ ~gop.local
        /\ gop.pc = "commit" => f = 0 /\ b = gop.before /\ ~gop.local
        /\ gop.node = 0 /\ gop.pc \in {"candidate", "read", "save", "publish"} =>
              f # 0 /\ IF gop.local THEN f = gop.before /\ b = 0 ELSE b = gop.before
        /\ gop.pc = "finalize" => f # 0

\* Node registrations change under the gate only.
NodesOf(s) ==
    IF Catalog!InstallsNode THEN s \cup {gop.node}
    ELSE IF gop.kind = "delnode" THEN s \ {gop.id} ELSE s
NodeSnaps ==
    /\ Catalog!GateHolding => gop.snap.nodes = NodesOf(mem.nodes)
    /\ gop.pc \in {"nodecheck", "read", "save", "publish"} /\ Catalog!InstallsNode =>
          (gop.known <=> gop.node \in mem.nodes)

\* The operation under way spares what is selected.
Spares(c) ==
    /\ gop.kind \in {"delrt", "install"} => c.rt # gop.id
    /\ gop.kind = "delnode" => c.node # gop.id
Guarded ==
    /\ Spares(current) /\ Spares(mem.known)
    /\ gop.kind = "delrt" => mem.conf.rt # gop.id
    /\ gop.kind = "delnode" => mem.conf.node # gop.id

\* A selected context has its files, and a known-good one its Node in every snapshot.
NodeKept(c) == c.node \in (nodeFiles \cap mem.nodes) \cup {0}
Standing(v) ==
    v \in Managed => IF Catalog!Installing(v) THEN gop.before # 0 ELSE rtFiles[v] # 0
HostResolved == launches["host"].pc \in {"verify", "read", "save", "publish", "resolved"}
KnownIn(s) == s.known.node \in s.nodes \cup {0}
Files ==
    ~unprotected =>
    /\ current # Catalog!NoContext => Standing(current.rt) /\ NodeKept(current)
    /\ mem.known # Catalog!NoContext => Standing(mem.known.rt) /\ NodeKept(mem.known)
    /\ HostResolved => Standing(hostOp.target.rt) /\ NodeKept(hostOp.target)
    /\ KnownIn(saved)
    /\ Catalog!GateHolding => KnownIn(gop.snap)
    /\ \A l \in Catalog!Launchers : Catalog!Holding(l) => KnownIn(launches[l].snap)

\* When no two savers overlapped: a snapshot differs from memory only in what its saver
\* changes, and state.json is the memory's or the one the publisher is about to publish.
GateSnap ==
    LET s == gop.snap IN
    /\ gop.kind # "releases" => s.rel = mem.rel
    /\ gop.kind \notin {"adddir", "deldir"} => s.dirs = mem.dirs
    /\ gop.kind \in {"register", "install"} /\ gop.node = 0 => s.rt[gop.id] # 0
    /\ \A v \in Catalog!Runtimes :
          s.rt[v] # mem.rt[v] =>
             gop.kind \in {"register", "install", "delrt"} /\ gop.node = 0 /\ v = gop.id
LaunchSnap(l) ==
    LET s == launches[l].snap IN
    /\ s.rel = mem.rel /\ s.dirs = mem.dirs /\ s.nodes = mem.nodes
    /\ \A v \in Catalog!Runtimes : s.rt[v] # mem.rt[v] => s.rt[v] # 0
OneSaver ==
    ~overlapped =>
    /\ Catalog!GateHolding => \A l \in Catalog!Launchers : ~Catalog!Holding(l)
    /\ \A k, l \in Catalog!Launchers : Catalog!Holding(k) /\ Catalog!Holding(l) => k = l
Saved ==
    ~overlapped =>
    /\ gop.pc # "publish" /\ (\A l \in Catalog!Launchers : launches[l].pc # "publish") =>
          Catalog!Catalog(mem) = Catalog!Catalog(saved)
    /\ Catalog!GateHolding => GateSnap
    /\ gop.pc = "publish" => Catalog!Catalog(saved) = Catalog!Catalog(gop.snap)
    /\ \A l \in Catalog!Launchers :
          /\ Catalog!Holding(l) => LaunchSnap(l)
          /\ launches[l].pc = "publish" =>
                Catalog!Catalog(saved) = Catalog!Catalog(launches[l].snap)
    /\ kept \subseteq Catalog!Registered(mem)

CatalogInv ==
    /\ CatalogTyped /\ OpShape(gop) /\ HostShape /\ Trees
    /\ NodeSnaps /\ Guarded /\ Files /\ OneSaver /\ Saved

-----------------------------------------------------------------------------
(* Fields of the records                                                   *)

\* A context names a runtime, a Node and a directory the catalogue can hold.
LEMMA ContextFields ==
    /\ Catalog!NoContext.rt = 0 /\ Catalog!NoContext.node = 0 /\ Catalog!NoContext.dir = 0
    /\ Catalog!NoContext \notin Contexts /\ Catalog!NoContext \in SomeContext
    /\ Contexts \subseteq SomeContext
    /\ \A c \in Contexts : /\ c.rt \in Catalog!Runtimes /\ c.node \in Nodes \cup {0}
                           /\ c.dir \in Directories \cup {0}
<1>1. Catalog!NoContext.rt = 0 /\ Catalog!NoContext.node = 0 /\ Catalog!NoContext.dir = 0
  BY DEF Catalog!NoContext
<1>2. \A c \in Contexts : /\ c.rt \in Catalog!Runtimes /\ c.node \in Nodes \cup {0}
                          /\ c.dir \in Directories \cup {0}
  BY CatalogAssumption DEF Catalog!Runtimes
<1>3. 0 \notin Catalog!Runtimes
  BY CatalogAssumption DEF Catalog!Runtimes
<1>4. QED
  BY <1>1, <1>2, <1>3 DEF SomeContext

\* The fields of a catalogue.
LEMMA CatalogFields ==
    ASSUME NEW s \in Catalogs
    PROVE  /\ s.rt \in Versions /\ s.nodes \in SUBSET Nodes /\ s.dirs \in SUBSET Directories
           /\ s.rel \in SUBSET Managed /\ s.conf \in Contexts /\ s.known \in SomeContext
BY DEF Catalogs

\* The fields of a version snapshot.
LEMMA VersionFields ==
    ASSUME NEW f \in Versions
    PROVE  /\ f \in [Catalog!Runtimes -> Nat] /\ f[System] # 0
           /\ \A v \in Catalog!Runtimes, n \in Nat :
                 v # System \/ n # 0 => [f EXCEPT ![v] = n] \in Versions
<1>1. f \in [Catalog!Runtimes -> Nat] /\ f[System] # 0 /\ System \in Catalog!Runtimes
  BY DEF Versions, Catalog!Runtimes
<1>2. ASSUME NEW v \in Catalog!Runtimes, NEW n \in Nat, v # System \/ n # 0
      PROVE  [f EXCEPT ![v] = n] \in Versions
  <2>1. [f EXCEPT ![v] = n] \in [Catalog!Runtimes -> Nat]
    BY <1>1
  <2>2. [f EXCEPT ![v] = n][System] # 0
    BY <1>1, <1>2
  <2>3. QED
    BY <2>1, <2>2 DEF Versions
<1>3. QED
  BY <1>1, <1>2

\* The fields of a gated operation.
LEMMA GateFields ==
    ASSUME NEW o \in GateOps
    PROVE  /\ o.kind \in GateKinds /\ o.pc \in GatePcs /\ o.id \in GateIds
           /\ o.node \in Nodes \cup {0} /\ o.rel \in SUBSET Managed /\ o.snap \in Catalogs
           /\ o.before \in Nat /\ o.local \in BOOLEAN /\ o.known \in BOOLEAN
BY DEF GateOps

\* The catalogue of a first start is a catalogue.
LEMMA BaseTyped ==
    /\ Catalog!BaseCatalog \in Catalogs
    /\ Catalog!BaseCatalog.nodes = {} /\ Catalog!BaseCatalog.known = Catalog!NoContext
<1>1. (CHOOSE c \in Contexts : c.rt = System) \in Contexts
  BY CatalogAssumption
<1> DEFINE C == CHOOSE c \in Contexts : c.rt = System
           F == [v \in Catalog!Runtimes |-> IF v = System THEN 1 ELSE 0]
<1>2. F \in Versions
  BY CatalogAssumption DEF Versions, Catalog!Runtimes
<1>3. Catalog!BaseCatalog = [rt |-> F, nodes |-> {}, dirs |-> {}, rel |-> {}, conf |-> C,
                             known |-> Catalog!NoContext]
  BY DEF Catalog!BaseCatalog
<1> HIDE DEF C, F
<1>4. QED
  BY <1>1, <1>2, <1>3, ContextFields DEF Catalogs, C

\* The gate without an operation.
LEMMA IdleTyped ==
    LET o == Catalog!IdleGop IN
    /\ o \in GateOps /\ o.kind = "idle" /\ o.pc = "idle" /\ o.id = 0 /\ o.node = 0 /\ o.rel = {}
    /\ o.snap = Catalog!BaseCatalog /\ o.before = 0 /\ o.local = FALSE /\ o.known = FALSE
    /\ OpShape(o)
<1>1. LET o == Catalog!IdleGop IN
      /\ o.kind = "idle" /\ o.pc = "idle" /\ o.id = 0 /\ o.node = 0 /\ o.rel = {}
      /\ o.snap = Catalog!BaseCatalog /\ o.before = 0 /\ o.local = FALSE /\ o.known = FALSE
  BY DEF Catalog!IdleGop
<1>2. Catalog!IdleGop \in GateOps
  BY BaseTyped DEF Catalog!IdleGop, GateOps, GateKinds, GatePcs, GateIds
<1>3. OpShape(Catalog!IdleGop)
  BY <1>1 DEF OpShape, OfRuntime
<1>4. QED
  BY <1>1, <1>2, <1>3

\* The fields of a launch.
LEMMA LaunchFields ==
    ASSUME NEW x \in CatalogLaunches
    PROVE  /\ x.pc \in LaunchPcs /\ x.target \in SomeContext /\ x.seen \in Nat
           /\ x.snap \in Catalogs
BY DEF CatalogLaunches

\* A launcher without a launch.
LEMMA IdleLaunchTyped ==
    LET x == Catalog!IdleLaunch IN
    /\ x \in CatalogLaunches /\ x.pc = "idle" /\ x.snap = Catalog!BaseCatalog
    /\ x.target = Catalog!NoContext
<1>1. LET x == Catalog!IdleLaunch IN
      x.pc = "idle" /\ x.snap = Catalog!BaseCatalog /\ x.target = Catalog!NoContext
  BY DEF Catalog!IdleLaunch
<1>2. Catalog!IdleLaunch \in CatalogLaunches
  BY BaseTyped, ContextFields DEF Catalog!IdleLaunch, CatalogLaunches, LaunchPcs
<1>3. QED
  BY <1>1, <1>2

\* The fields of the operation of the Host.
LEMMA HostFields ==
    /\ \A h \in HostOps : /\ h.kind \in {"idle", "start", "switch"} /\ h.target \in SomeContext
                          /\ h.pc \in {"idle", "drain", "launch", "run"}
    /\ Catalog!IdleHost \in HostOps /\ Catalog!IdleHost.kind = "idle"
    /\ Catalog!IdleHost.pc = "idle" /\ Catalog!IdleHost.target = Catalog!NoContext
BY ContextFields DEF HostOps, Catalog!IdleHost

-----------------------------------------------------------------------------
(* An operation takes the gate                                             *)

\* Whatever spares the selection and waits for no switch keeps the invariant.
LEMMA GateBegins ==
    ASSUME CatalogInv, gop' \in GateOps, OpShape(gop'), gop.pc = "idle",
           UNCHANGED <<mem, saved, current, switching, launches, hostOp, rtFiles, rtBackup,
                       nodeFiles, systemVersion, kept, overlapped, gens, unprotected>>,
           gop'.pc \in {"read", "files", "fetch", "toolchain"},
           gop'.pc = "read" => gop'.kind \notin {"node", "install"},
           gop'.kind = "install" => gop'.pc = "toolchain" /\ gop'.before = rtFiles[gop'.id] /\ ~gop'.local,
           gop'.kind # "releases" => ~switching,
           gop'.kind = "configure" => hostOp.kind = "idle",
           gop'.kind \in {"delrt", "install"} => current.rt # gop'.id /\ mem.known.rt # gop'.id,
           gop'.kind = "delnode" => current.node # gop'.id /\ mem.known.node # gop'.id,
           gop'.kind = "delrt" => mem.conf.rt # gop'.id,
           gop'.kind = "delnode" => mem.conf.node # gop'.id
    PROVE  CatalogInv'
<1> USE DEF CatalogInv
<1>k. gop.kind = "idle" /\ gop'.kind \in GateKinds
  BY GateFields DEF OpShape
<1>1. CatalogTyped'
  BY DEF CatalogTyped
<1>2. OpShape(gop)'
  <2>1. OpShape(gop')
    OBVIOUS
  <2>2. QED
    BY <2>1 DEF OpShape
<1>3. HostShape'
  BY <1>k DEF HostShape
<1>4. Trees'
  <2>1. \A v \in Managed : rtBackup[v] = 0
    BY <1>k DEF Trees
  <2>2. gop'.kind = "install" => gop'.id \in Managed /\ gop'.node = 0
    BY DEF OpShape, OfRuntime
  <2>3. QED
    BY <2>1, <2>2 DEF Trees
<1>5. NodeSnaps'
  BY DEF NodeSnaps, Catalog!GateHolding, Catalog!InstallsNode
<1>6. Guarded'
  BY DEF Guarded, Spares
<1>7. Files'
  <2>1. \A v : Standing(v) => Standing(v)'
    <3>1. ASSUME NEW v \in Managed, Standing(v) PROVE Standing(v)'
      <4>1. rtFiles[v] # 0
        BY <1>k, <3>1 DEF Standing, Catalog!Installing
      <4>2. QED
        BY <4>1 DEF Standing, Catalog!Installing
    <3>2. QED
      BY <3>1 DEF Standing
  <2>2. QED
    BY <2>1 DEF Files, NodeKept, KnownIn, HostResolved, Catalog!GateHolding, Catalog!Holding
<1>8. OneSaver'
  BY DEF OneSaver, Catalog!GateHolding, Catalog!Holding
<1>9. Saved'
  BY <1>k DEF Saved, LaunchSnap, Catalog!GateHolding, Catalog!Holding, Catalog!Catalog,
              Catalog!Registered
<1>10. QED
  BY <1>1, <1>2, <1>3, <1>4, <1>5, <1>6, <1>7, <1>8, <1>9

\* The gated operations begin.
LEMMA CatalogBegins ==
    ASSUME CatalogInv,
           \/ \E R \in SUBSET Managed : Catalog!RefreshDSHReleases(R)
           \/ Catalog!RegisterRuntime
           \/ \E d \in Directories : \/ Catalog!RegisterDataDirectory(d)
                                     \/ Catalog!RemoveDataDirectory(d)
           \/ \E v \in Managed : Catalog!RemoveRuntime(v) \/ Catalog!InstallRuntime(v)
           \/ \E n \in Nodes : Catalog!RemoveNode(n) \/ Catalog!InstallLatestNode(n)
           \/ \E c \in Contexts : Catalog!SetConfigured(c)
    PROVE  CatalogInv'
<1> USE DEF Catalog!UnchangedButGop, Catalog!Hold, Catalog!GateFree
<1>s. ASSUME NEW c \in {current, mem.conf, mem.known}
      PROVE  c = Catalog!NoContext \/ c \in Catalog!Selected
  BY DEF Catalog!Selected
<1>z. 0 \notin Managed /\ 0 \notin Nodes
  BY CatalogAssumption
<1>i. /\ Managed \subseteq GateIds /\ Nodes \subseteq GateIds /\ Directories \subseteq GateIds
      /\ System \in GateIds
  BY DEF GateIds
<1>p. {"read", "files", "fetch", "toolchain"} \subseteq GatePcs
  BY DEF GatePcs, OfRuntime
<1>k. {"releases", "register", "adddir", "deldir", "delrt", "delnode", "install", "node",
       "configure"} \subseteq GateKinds
  BY DEF GateKinds
<1>1. ASSUME NEW R \in SUBSET Managed, Catalog!RefreshDSHReleases(R) PROVE CatalogInv'
  <2>1. /\ gop' \in GateOps /\ gop'.kind = "releases" /\ gop'.pc = "read"
        /\ gop'.node = 0
    BY <1>i, <1>k, <1>p, <1>1, IdleTyped DEF Catalog!RefreshDSHReleases, GateOps
  <2>2. /\ gop.pc = "idle"
        /\ UNCHANGED <<mem, saved, current, switching, launches, hostOp, rtFiles, rtBackup,
                       nodeFiles, systemVersion, kept, overlapped, gens, unprotected>>
    BY <1>1 DEF Catalog!RefreshDSHReleases
  <2>3. OpShape(gop')
    BY <1>z, <2>1 DEF OpShape, OfRuntime
  <2>4. QED
    BY <2>1, <2>2, <2>3, GateBegins
<1>2. ASSUME Catalog!RegisterRuntime PROVE CatalogInv'
  <2>1. /\ gop' \in GateOps /\ gop'.kind = "register" /\ gop'.pc = "read"
        /\ gop'.node = 0 /\ gop'.id = System
    BY <1>i, <1>k, <1>p, <1>2, IdleTyped DEF Catalog!RegisterRuntime, GateOps
  <2>2. /\ gop.pc = "idle" /\ ~switching
        /\ UNCHANGED <<mem, saved, current, switching, launches, hostOp, rtFiles, rtBackup,
                       nodeFiles, systemVersion, kept, overlapped, gens, unprotected>>
    BY <1>2 DEF Catalog!RegisterRuntime
  <2>3. OpShape(gop')
    BY <1>z, <2>1 DEF OpShape, OfRuntime
  <2>4. QED
    BY <2>1, <2>2, <2>3, GateBegins
<1>3. ASSUME NEW d \in Directories, Catalog!RegisterDataDirectory(d) PROVE CatalogInv'
  <2>1. /\ gop' \in GateOps /\ gop'.kind = "adddir" /\ gop'.pc = "read"
        /\ gop'.node = 0 /\ gop'.id = d
    BY <1>i, <1>k, <1>p, <1>3, IdleTyped DEF Catalog!RegisterDataDirectory, GateOps
  <2>2. /\ gop.pc = "idle" /\ ~switching
        /\ UNCHANGED <<mem, saved, current, switching, launches, hostOp, rtFiles, rtBackup,
                       nodeFiles, systemVersion, kept, overlapped, gens, unprotected>>
    BY <1>3 DEF Catalog!RegisterDataDirectory
  <2>3. OpShape(gop')
    BY <1>z, <2>1 DEF OpShape, OfRuntime
  <2>4. QED
    BY <2>1, <2>2, <2>3, GateBegins
<1>4. ASSUME NEW d \in Directories, Catalog!RemoveDataDirectory(d) PROVE CatalogInv'
  <2>1. /\ gop' \in GateOps /\ gop'.kind = "deldir" /\ gop'.pc = "read"
        /\ gop'.node = 0 /\ gop'.id = d
    BY <1>i, <1>k, <1>p, <1>4, IdleTyped DEF Catalog!RemoveDataDirectory, GateOps
  <2>2. /\ gop.pc = "idle" /\ ~switching
        /\ UNCHANGED <<mem, saved, current, switching, launches, hostOp, rtFiles, rtBackup,
                       nodeFiles, systemVersion, kept, overlapped, gens, unprotected>>
    BY <1>4 DEF Catalog!RemoveDataDirectory
  <2>3. OpShape(gop')
    BY <1>z, <2>1 DEF OpShape, OfRuntime
  <2>4. QED
    BY <2>1, <2>2, <2>3, GateBegins
<1>5. ASSUME NEW v \in Managed, Catalog!RemoveRuntime(v) PROVE CatalogInv'
  <2>1. /\ gop' \in GateOps /\ gop'.kind = "delrt" /\ gop'.pc = "files"
        /\ gop'.node = 0 /\ gop'.id = v
    BY <1>i, <1>k, <1>p, <1>5, IdleTyped DEF Catalog!RemoveRuntime, GateOps
  <2>2. /\ gop.pc = "idle" /\ ~switching
        /\ UNCHANGED <<mem, saved, current, switching, launches, hostOp, rtFiles, rtBackup,
                       nodeFiles, systemVersion, kept, overlapped, gens, unprotected>>
    BY <1>5 DEF Catalog!RemoveRuntime
  <2>3. current.rt # v /\ mem.known.rt # v /\ mem.conf.rt # v
    BY <1>5, <1>s, <1>z, ContextFields DEF Catalog!RemoveRuntime
  <2>4. OpShape(gop')
    BY <1>z, <2>1 DEF OpShape, OfRuntime
  <2>5. QED
    BY <2>1, <2>2, <2>3, <2>4, GateBegins
<1>6. ASSUME NEW v \in Managed, Catalog!InstallRuntime(v) PROVE CatalogInv'
  <2>0. rtFiles[v] \in Nat
    BY DEF CatalogInv, CatalogTyped
  <2>1. /\ gop' \in GateOps /\ gop'.kind = "install" /\ gop'.pc = "toolchain"
        /\ gop'.node = 0 /\ gop'.id = v /\ gop'.before = rtFiles[v] /\ gop'.local = FALSE
    BY <1>i, <1>k, <1>p, <1>6, <2>0, IdleTyped DEF Catalog!InstallRuntime, GateOps
  <2>2. /\ gop.pc = "idle" /\ ~switching
        /\ UNCHANGED <<mem, saved, current, switching, launches, hostOp, rtFiles, rtBackup,
                       nodeFiles, systemVersion, kept, overlapped, gens, unprotected>>
    BY <1>6 DEF Catalog!InstallRuntime
  <2>3. current.rt # v /\ mem.known.rt # v
    BY <1>6 DEF Catalog!InstallRuntime, Catalog!RuntimeInUse
  <2>4. OpShape(gop')
    BY <1>z, <2>1 DEF OpShape, OfRuntime
  <2>5. QED
    BY <2>1, <2>2, <2>3, <2>4, GateBegins
<1>7. ASSUME NEW n \in Nodes, Catalog!RemoveNode(n) PROVE CatalogInv'
  <2>1. /\ gop' \in GateOps /\ gop'.kind = "delnode" /\ gop'.pc = "files"
        /\ gop'.node = 0 /\ gop'.id = n
    BY <1>i, <1>k, <1>p, <1>7, IdleTyped DEF Catalog!RemoveNode, GateOps
  <2>2. /\ gop.pc = "idle" /\ ~switching
        /\ UNCHANGED <<mem, saved, current, switching, launches, hostOp, rtFiles, rtBackup,
                       nodeFiles, systemVersion, kept, overlapped, gens, unprotected>>
    BY <1>7 DEF Catalog!RemoveNode
  <2>3. current.node # n /\ mem.known.node # n /\ mem.conf.node # n
    BY <1>7, <1>s, <1>z, ContextFields DEF Catalog!RemoveNode
  <2>4. OpShape(gop')
    BY <1>z, <2>1 DEF OpShape, OfRuntime
  <2>5. QED
    BY <2>1, <2>2, <2>3, <2>4, GateBegins
<1>8. ASSUME NEW n \in Nodes, Catalog!InstallLatestNode(n) PROVE CatalogInv'
  <2>1. /\ gop' \in GateOps /\ gop'.kind = "node" /\ gop'.pc = "fetch"
        /\ gop'.node = n
    BY <1>i, <1>k, <1>p, <1>8, IdleTyped DEF Catalog!InstallLatestNode, GateOps
  <2>2. /\ gop.pc = "idle" /\ ~switching
        /\ UNCHANGED <<mem, saved, current, switching, launches, hostOp, rtFiles, rtBackup,
                       nodeFiles, systemVersion, kept, overlapped, gens, unprotected>>
    BY <1>8 DEF Catalog!InstallLatestNode
  <2>3. OpShape(gop')
    BY <1>z, <2>1 DEF OpShape, OfRuntime
  <2>4. QED
    BY <2>1, <2>2, <2>3, GateBegins
<1>9. ASSUME NEW c \in Contexts, Catalog!SetConfigured(c) PROVE CatalogInv'
  <2>0. c.rt \in GateIds /\ c.node \in Nodes \cup {0}
    BY ContextFields DEF GateIds, Catalog!Runtimes
  <2>1. /\ gop' \in GateOps /\ gop'.kind = "configure" /\ gop'.pc = "read"
        /\ gop'.id = c.rt /\ gop'.node = c.node
    BY <1>i, <1>k, <1>p, <1>9, <2>0, IdleTyped DEF Catalog!SetConfigured, GateOps
  <2>2. /\ gop.pc = "idle" /\ ~switching /\ hostOp.kind = "idle"
        /\ UNCHANGED <<mem, saved, current, switching, launches, hostOp, rtFiles, rtBackup,
                       nodeFiles, systemVersion, kept, overlapped, gens, unprotected>>
    BY <1>9, HostFields DEF Catalog!SetConfigured
  <2>3. OpShape(gop')
    BY <1>z, <2>1 DEF OpShape, OfRuntime
  <2>4. QED
    BY <2>1, <2>2, <2>3, GateBegins
<1>10. QED
  BY <1>1, <1>2, <1>3, <1>4, <1>5, <1>6, <1>7, <1>8, <1>9

-----------------------------------------------------------------------------
(* The adapters                                                            *)

\* What the Host resolved is spared by the operation under way.
LEMMA HostTarget ==
    ASSUME CatalogInv, HostResolved
    PROVE  /\ hostOp.target \in Contexts /\ hostOp.kind \in {"start", "switch"}
           /\ gop.kind = "delrt" => hostOp.target.rt # gop.id
           /\ gop.kind = "delnode" => hostOp.target.node # gop.id
<1>1. hostOp.kind \in {"start", "switch"}
  BY HostFields DEF CatalogInv, CatalogTyped, HostShape, HostResolved
<1>2. hostOp.pc \in {"launch", "run"}
  BY HostFields DEF CatalogInv, CatalogTyped, HostShape, HostResolved
<1>3. QED
  BY <1>1, <1>2 DEF CatalogInv, HostShape, Guarded

\* The operation moves on or ends, its files with it.
LEMMA GateWorks ==
    ASSUME CatalogInv, gop.pc # "publish",
           UNCHANGED <<mem, saved, current, switching, launches, hostOp, systemVersion, kept,
                       overlapped, unprotected>>,
           gop' \in GateOps, OpShape(gop'), gop'.pc \notin {"save", "publish"},
           \/ gop'.kind = "idle"
           \/ gop'.kind = gop.kind /\ gop'.id = gop.id /\ gop'.before = gop.before
              /\ gop.pc # "finalize",
           gens' \in Nat, rtFiles' \in [Managed -> Nat], rtBackup' \in [Managed -> Nat],
           nodeFiles' \subseteq Nodes, Trees',
           \A v \in Managed :
              (gop.kind \in {"delrt", "install"} => v # gop.id) => rtFiles'[v] = rtFiles[v],
           \A n \in nodeFiles \cap mem.nodes :
              (gop.kind = "delnode" => n # gop.id) => n \in nodeFiles',
           gop.kind = "install" /\ ~Catalog!Installing(gop.id)' =>
              IF gop.pc = "finalize" THEN rtFiles'[gop.id] = rtFiles[gop.id]
              ELSE rtFiles'[gop.id] = gop.before \/ rtFiles'[gop.id] # 0,
           gop'.pc \in {"nodecheck", "read"} /\ gop'.kind \in {"node", "install"}
              /\ gop'.node # 0 => (gop'.known <=> gop'.node \in mem.nodes)
    PROVE  CatalogInv'
<1>1. CatalogTyped'
  BY DEF CatalogInv, CatalogTyped
<1>2. OpShape(gop)'
  <2>1. OpShape(gop')
    OBVIOUS
  <2>2. QED
    BY <2>1 DEF OpShape
<1>3. HostShape'
  BY DEF CatalogInv, HostShape
<1>5. NodeSnaps'
  BY DEF NodeSnaps, Catalog!GateHolding, Catalog!InstallsNode
<1>6. Guarded'
  BY DEF CatalogInv, Guarded, Spares
<1>7. Files'
  <2>1. ASSUME NEW v \in Managed, Standing(v), gop.kind = "delrt" => v # gop.id
        PROVE  Standing(v)'
    <3>1. CASE gop.kind = "install" /\ gop.id = v
      BY <2>1, <3>1 DEF Standing, Catalog!Installing
    <3>2. CASE ~(gop.kind = "install" /\ gop.id = v)
      <4>1. rtFiles[v] # 0 /\ rtFiles'[v] = rtFiles[v]
        BY <2>1, <3>2 DEF Standing, Catalog!Installing
      <4>2. ~Catalog!Installing(v)'
        BY <3>2 DEF Catalog!Installing
      <4>3. QED
        BY <4>1, <4>2 DEF Standing
    <3>3. QED
      BY <3>1, <3>2
  <2>2. ASSUME NEW v, Standing(v), gop.kind = "delrt" => v # gop.id PROVE Standing(v)'
    BY <2>1, <2>2 DEF Standing
  <2>3. ASSUME NEW c, NodeKept(c), gop.kind = "delnode" => c.node # gop.id PROVE NodeKept(c)'
    BY <2>3 DEF NodeKept
  <2>4. ASSUME ~unprotected, current # Catalog!NoContext
        PROVE  Standing(current.rt)' /\ NodeKept(current)'
    BY <2>2, <2>3, <2>4 DEF CatalogInv, Files, Guarded, Spares
  <2>5. ASSUME ~unprotected, mem.known # Catalog!NoContext
        PROVE  Standing(mem.known.rt)' /\ NodeKept(mem.known)'
    BY <2>2, <2>3, <2>5 DEF CatalogInv, Files, Guarded, Spares
  <2>6. ASSUME ~unprotected, HostResolved
        PROVE  Standing(hostOp.target.rt)' /\ NodeKept(hostOp.target)'
    BY <2>2, <2>3, <2>6, HostTarget DEF CatalogInv, Files
  <2>7. ~Catalog!GateHolding'
    BY DEF Catalog!GateHolding
  <2>8. ASSUME ~unprotected
        PROVE  KnownIn(saved) /\ \A l \in Catalog!Launchers : Catalog!Holding(l) => KnownIn(launches[l].snap)
    BY <2>8 DEF CatalogInv, Files
  <2>9. QED
    BY <2>4, <2>5, <2>6, <2>7, <2>8 DEF Files, HostResolved, Catalog!Holding, KnownIn
<1>8. OneSaver'
  BY DEF CatalogInv, OneSaver, Catalog!GateHolding, Catalog!Holding
<1>9. Saved'
  BY DEF CatalogInv, Saved, LaunchSnap, Catalog!GateHolding, Catalog!Holding, Catalog!Catalog,
              Catalog!Registered
<1>10. QED
  BY <1>1, <1>2, <1>3, <1>5, <1>6, <1>7, <1>8, <1>9 DEF CatalogInv

\* The operation ends, and what it leaves set aside is nothing.
LEMMA GateEnds ==
    ASSUME CatalogInv, gop.pc # "publish", gop' = Catalog!IdleGop,
           UNCHANGED <<mem, saved, current, switching, launches, hostOp, systemVersion, kept,
                       overlapped, unprotected>>,
           gens' \in Nat, rtFiles' \in [Managed -> Nat], rtBackup' \in [Managed -> Nat],
           nodeFiles' \subseteq Nodes, \A v \in Managed : rtBackup'[v] = 0,
           \A v \in Managed :
              (gop.kind \in {"delrt", "install"} => v # gop.id) => rtFiles'[v] = rtFiles[v],
           nodeFiles \cap mem.nodes \subseteq nodeFiles',
           gop.kind = "install" =>
              IF gop.pc = "finalize" THEN rtFiles'[gop.id] = rtFiles[gop.id]
              ELSE rtFiles'[gop.id] = gop.before
    PROVE  CatalogInv'
<1>1. gop' \in GateOps /\ OpShape(gop') /\ gop'.kind = "idle" /\ gop'.pc = "idle"
  BY IdleTyped
<1>2. Trees'
  BY <1>1 DEF Trees
<1>3. QED
  BY <1>1, <1>2, GateWorks

\* Before a tree goes aside the directory is as the installation found it.
LEMMA NothingAside ==
    ASSUME CatalogInv,
           gop.kind = "install" => gop.node # 0 \/ gop.pc \in {"toolchain", "package", "aside"}
    PROVE  /\ \A v \in Managed : rtBackup[v] = 0
           /\ gop.kind = "install" => rtFiles[gop.id] = gop.before
BY DEF CatalogInv, Trees

\* Discard: the candidate goes and the tree set aside returns.
LEMMA Discards ==
    ASSUME CatalogInv, gop.kind = "install", gop.node = 0,
           gop.pc \in {"candidate", "read", "save", "publish"}, Catalog!Discard(gop.id)
    PROVE  /\ rtFiles' \in [Managed -> Nat] /\ rtBackup' \in [Managed -> Nat]
           /\ \A v \in Managed : rtBackup'[v] = 0
           /\ \A v \in Managed : v # gop.id => rtFiles'[v] = rtFiles[v]
           /\ rtFiles'[gop.id] = gop.before
<1>1. gop.id \in Managed /\ rtFiles \in [Managed -> Nat] /\ rtBackup \in [Managed -> Nat]
  BY DEF CatalogInv, CatalogTyped, OpShape
<1>2. \A v \in Managed : v # gop.id => rtBackup[v] = 0
  BY DEF CatalogInv, Trees
<1>3. IF gop.local THEN rtFiles[gop.id] = gop.before /\ rtBackup[gop.id] = 0
      ELSE rtBackup[gop.id] = gop.before
  BY DEF CatalogInv, Trees
<1>4. CASE gop.local
  BY <1>1, <1>2, <1>3, <1>4 DEF Catalog!Discard
<1>5. CASE ~gop.local
  <2>1. /\ rtFiles' = [rtFiles EXCEPT ![gop.id] = rtBackup[gop.id]]
        /\ rtBackup' = [rtBackup EXCEPT ![gop.id] = 0]
    BY <1>5 DEF Catalog!Discard
  <2>2. QED
    BY <1>1, <1>2, <1>3, <1>5, <2>1
<1>6. QED
  BY <1>4, <1>5

\* The steps of the adapters keep the invariant.
LEMMA CatalogWorks ==
    ASSUME CatalogInv,
           \/ Catalog!Toolchain \/ Catalog!NodeInstalled \/ Catalog!NodeRefused
           \/ Catalog!NodeAccepted \/ Catalog!Package \/ Catalog!SetAside
           \/ Catalog!CommitFiles \/ Catalog!CandidateRefused \/ Catalog!CandidateVerified
           \/ Catalog!FinalizeFiles \/ Catalog!RemoveFiles
    PROVE  CatalogInv'
<1> USE DEF Catalog!UnchangedButFiles, Catalog!GopEnds
<1>t. /\ gop \in GateOps /\ OpShape(gop) /\ rtFiles \in [Managed -> Nat] /\ gens \in Nat
      /\ rtBackup \in [Managed -> Nat] /\ nodeFiles \subseteq Nodes
  BY DEF CatalogInv, CatalogTyped
<1>p. /\ {"read", "package", "fetch", "nodecheck", "candidate", "aside", "commit"} \subseteq GatePcs
      /\ 0 \notin Nodes
  BY CatalogAssumption DEF GatePcs, OfRuntime
\* The operation gives up before a tree went aside.
<1>e. ASSUME gop.kind = "install" => gop.node # 0 \/ gop.pc \in {"toolchain", "package", "aside"},
             gop' = Catalog!IdleGop, gop.pc # "publish", UNCHANGED <<rtFiles, rtBackup, gens>>,
             nodeFiles' \subseteq Nodes, nodeFiles \cap mem.nodes \subseteq nodeFiles',
             Catalog!UnchangedButFiles
      PROVE  CatalogInv'
  <2>1. /\ \A v \in Managed : rtBackup'[v] = 0
        /\ gop.kind = "install" => rtFiles'[gop.id] = gop.before
    BY <1>e, NothingAside
  <2>2. gop.kind = "install" /\ gop.pc = "finalize" => rtFiles'[gop.id] = rtFiles[gop.id]
    BY <1>e
  <2>3. QED
    BY <1>e, <1>t, <2>1, <2>2, GateEnds
<1>1. ASSUME Catalog!Toolchain PROVE CatalogInv'
  <2>1. /\ gop.kind = "install" /\ gop.pc = "toolchain" /\ gop.node = 0 /\ gop.id \in Managed
        /\ UNCHANGED <<rtFiles, rtBackup, nodeFiles, gens>> /\ Catalog!UnchangedButFiles
    BY <1>1, <1>t DEF Catalog!Toolchain, OpShape, OfRuntime
  <2>2. /\ \A v \in Managed : rtBackup[v] = 0
        /\ rtFiles[gop.id] = gop.before /\ ~gop.local
    BY <2>1 DEF CatalogInv, Trees
  <2>3. ASSUME gop' = [gop EXCEPT !.pc = "package"] PROVE CatalogInv'
    <3>1. /\ gop' \in GateOps /\ gop'.kind = "install" /\ gop'.pc = "package" /\ gop'.id = gop.id
          /\ gop'.node = 0 /\ gop'.before = gop.before /\ gop'.local = gop.local
      BY <1>p, <1>t, <2>1, <2>3 DEF GateOps
    <3>2. OpShape(gop')
      BY <2>1, <3>1 DEF OpShape, OfRuntime
    <3>3. Trees'
      BY <2>1, <2>2, <3>1 DEF Trees
    <3>4. Catalog!Installing(gop.id)'
      BY <2>1, <3>1 DEF Catalog!Installing
    <3>5. QED
      BY <1>t, <2>1, <3>1, <3>2, <3>3, <3>4, GateWorks
  <2>4. ASSUME NEW n \in Nodes, gop' = [gop EXCEPT !.pc = "fetch", !.node = n] PROVE CatalogInv'
    <3>1. /\ gop' \in GateOps /\ gop'.kind = "install" /\ gop'.pc = "fetch" /\ gop'.id = gop.id
          /\ gop'.node = n /\ gop'.before = gop.before /\ gop'.local = gop.local
      BY <1>p, <1>t, <2>1, <2>4 DEF GateOps
    <3>2. OpShape(gop')
      BY <1>p, <2>1, <3>1 DEF OpShape, OfRuntime
    <3>3. Trees'
      BY <2>1, <2>2, <3>1 DEF Trees
    <3>4. Catalog!Installing(gop.id)'
      BY <2>1, <3>1 DEF Catalog!Installing
    <3>5. QED
      BY <1>t, <2>1, <3>1, <3>2, <3>3, <3>4, GateWorks
  <2>5. ASSUME gop' = Catalog!IdleGop PROVE CatalogInv'
    BY <1>e, <1>t, <2>1, <2>5
  <2>6. QED
    BY <1>1, <2>3, <2>4, <2>5 DEF Catalog!Toolchain
<1>2. ASSUME Catalog!NodeInstalled PROVE CatalogInv'
  <2>1. /\ gop.pc = "fetch" /\ gop.kind \in {"node", "install"} /\ gop.node # 0
        /\ gop.node \in Nodes
        /\ UNCHANGED <<rtFiles, rtBackup, gens>> /\ Catalog!UnchangedButFiles
    BY <1>2, <1>t, GateFields DEF Catalog!NodeInstalled, OpShape
  <2>3. ASSUME nodeFiles' = nodeFiles \cup {gop.node},
               gop' = [gop EXCEPT !.pc = "nodecheck", !.known = gop.node \in mem.nodes]
        PROVE  CatalogInv'
    <3> DEFINE b == gop.node \in mem.nodes
    <3>0. b \in BOOLEAN
      OBVIOUS
    <3>b. gop' = [gop EXCEPT !.pc = "nodecheck", !.known = b]
      BY <2>3
    <3> HIDE DEF b
    <3>1. /\ gop' \in GateOps /\ gop'.kind = gop.kind /\ gop'.pc = "nodecheck" /\ gop'.id = gop.id
          /\ gop'.node = gop.node /\ gop'.before = gop.before /\ gop'.local = gop.local
          /\ gop'.known = b
      BY <1>p, <1>t, <3>0, <3>b DEF GateOps
    <3>2. OpShape(gop')
      BY <1>t, <2>1, <3>1 DEF OpShape, OfRuntime
    <3>3. Trees'
      BY <2>1, <3>1 DEF CatalogInv, Trees
    <3>4. gop.kind = "install" => Catalog!Installing(gop.id)'
      BY <2>1, <3>1 DEF Catalog!Installing
    <3>5. gop'.known <=> gop'.node \in mem.nodes
      BY <3>1 DEF b
    <3>6. nodeFiles' \subseteq Nodes /\ nodeFiles \subseteq nodeFiles'
      BY <1>t, <2>1, <2>3
    <3>7. QED
      BY <1>t, <2>1, <3>1, <3>2, <3>3, <3>4, <3>5, <3>6, GateWorks
  <2>4. ASSUME gop' = Catalog!IdleGop, UNCHANGED nodeFiles PROVE CatalogInv'
    BY <1>e, <1>t, <2>1, <2>4
  <2>5. QED
    BY <1>2, <2>3, <2>4 DEF Catalog!NodeInstalled
<1>3. ASSUME Catalog!NodeRefused PROVE CatalogInv'
  <2>1. /\ gop.pc = "nodecheck" /\ gop.kind \in {"node", "install"} /\ gop.node # 0
        /\ nodeFiles' = IF gop.known THEN nodeFiles ELSE nodeFiles \ {gop.node}
        /\ gop' = Catalog!IdleGop
        /\ UNCHANGED <<rtFiles, rtBackup, gens>> /\ Catalog!UnchangedButFiles
    BY <1>3, <1>t DEF Catalog!NodeRefused, OpShape
  <2>2. gop.known <=> gop.node \in mem.nodes
    BY <2>1 DEF CatalogInv, NodeSnaps, Catalog!InstallsNode
  <2>3. nodeFiles' \subseteq Nodes /\ nodeFiles \cap mem.nodes \subseteq nodeFiles'
    BY <1>t, <2>1, <2>2
  <2>4. QED
    BY <1>e, <2>1, <2>3
<1>4. ASSUME Catalog!NodeAccepted PROVE CatalogInv'
  <2>1. /\ gop.pc = "nodecheck" /\ gop.kind \in {"node", "install"} /\ gop.node # 0
        /\ gop' = [gop EXCEPT !.pc = "read"]
        /\ UNCHANGED <<rtFiles, rtBackup, nodeFiles, gens>> /\ Catalog!UnchangedButFiles
    BY <1>4, <1>t DEF Catalog!NodeAccepted, OpShape
  <2>2. /\ gop' \in GateOps /\ gop'.kind = gop.kind /\ gop'.pc = "read" /\ gop'.id = gop.id
        /\ gop'.node = gop.node /\ gop'.before = gop.before /\ gop'.local = gop.local
        /\ gop'.known = gop.known
    BY <1>p, <1>t, <2>1 DEF GateOps
  <2>3. OpShape(gop')
    BY <1>t, <2>1, <2>2 DEF OpShape, OfRuntime
  <2>4. Trees'
    BY <2>1, <2>2 DEF CatalogInv, Trees
  <2>5. gop.known <=> gop.node \in mem.nodes
    BY <2>1 DEF CatalogInv, NodeSnaps, Catalog!InstallsNode
  <2>6. gop.kind = "install" => Catalog!Installing(gop.id)'
    BY <2>1, <2>2 DEF Catalog!Installing
  <2>7. QED
    BY <1>t, <2>1, <2>2, <2>3, <2>4, <2>5, <2>6, GateWorks
<1>5. ASSUME Catalog!Package PROVE CatalogInv'
  <2>1. /\ gop.kind = "install" /\ gop.pc = "package" /\ gop.node = 0 /\ gop.id \in Managed
        /\ UNCHANGED <<rtFiles, rtBackup, nodeFiles, gens>> /\ Catalog!UnchangedButFiles
    BY <1>5, <1>t DEF Catalog!Package, OpShape, OfRuntime
  <2>2. /\ \A v \in Managed : rtBackup[v] = 0
        /\ rtFiles[gop.id] = gop.before /\ ~gop.local
    BY <2>1 DEF CatalogInv, Trees
  <2>3. ASSUME rtFiles[gop.id] # 0, gop' = [gop EXCEPT !.pc = "candidate", !.local = TRUE]
        PROVE  CatalogInv'
    <3>1. /\ gop' \in GateOps /\ gop'.kind = "install" /\ gop'.pc = "candidate"
          /\ gop'.id = gop.id /\ gop'.node = 0 /\ gop'.before = gop.before
      BY <1>p, <1>t, <2>1, <2>3 DEF GateOps
    <3>l. gop'.local
      BY <1>t, <2>3 DEF GateOps
    <3>2. OpShape(gop')
      BY <2>1, <3>1 DEF OpShape, OfRuntime
    <3>3. Trees'
      BY <2>1, <2>2, <2>3, <3>1, <3>l DEF Trees
    <3>4. Catalog!Installing(gop.id)'
      BY <2>1, <3>1 DEF Catalog!Installing
    <3>5. QED
      BY <1>t, <2>1, <3>1, <3>2, <3>3, <3>4, GateWorks
  <2>4. ASSUME gop' = [gop EXCEPT !.pc = "aside"] PROVE CatalogInv'
    <3>1. /\ gop' \in GateOps /\ gop'.kind = "install" /\ gop'.pc = "aside" /\ gop'.id = gop.id
          /\ gop'.node = 0 /\ gop'.before = gop.before /\ gop'.local = gop.local
      BY <1>p, <1>t, <2>1, <2>4 DEF GateOps
    <3>2. OpShape(gop')
      BY <2>1, <3>1 DEF OpShape, OfRuntime
    <3>3. Trees'
      BY <2>1, <2>2, <3>1 DEF Trees
    <3>4. Catalog!Installing(gop.id)'
      BY <2>1, <3>1 DEF Catalog!Installing
    <3>5. QED
      BY <1>t, <2>1, <3>1, <3>2, <3>3, <3>4, GateWorks
  <2>5. ASSUME gop' = Catalog!IdleGop PROVE CatalogInv'
    BY <1>e, <1>t, <2>1, <2>5
  <2>6. QED
    BY <1>5, <2>3, <2>4, <2>5 DEF Catalog!Package
<1>6. ASSUME Catalog!SetAside PROVE CatalogInv'
  <2>1. /\ gop.kind = "install" /\ gop.pc = "aside" /\ gop.node = 0 /\ gop.id \in Managed
        /\ UNCHANGED <<nodeFiles, gens>> /\ Catalog!UnchangedButFiles
    BY <1>6, <1>t DEF Catalog!SetAside, OpShape, OfRuntime
  <2>2. /\ \A v \in Managed : rtBackup[v] = 0
        /\ rtFiles[gop.id] = gop.before /\ ~gop.local
    BY <2>1 DEF CatalogInv, Trees
  <2>3. ASSUME gop' = [gop EXCEPT !.pc = "commit"],
               rtBackup' = [rtBackup EXCEPT ![gop.id] = rtFiles[gop.id]],
               rtFiles' = [rtFiles EXCEPT ![gop.id] = 0]
        PROVE  CatalogInv'
    <3>1. /\ gop' \in GateOps /\ gop'.kind = "install" /\ gop'.pc = "commit" /\ gop'.id = gop.id
          /\ gop'.node = 0 /\ gop'.before = gop.before /\ gop'.local = gop.local
      BY <1>p, <1>t, <2>1, <2>3 DEF GateOps
    <3>2. OpShape(gop')
      BY <2>1, <3>1 DEF OpShape, OfRuntime
    <3>3. /\ rtFiles' \in [Managed -> Nat] /\ rtBackup' \in [Managed -> Nat]
          /\ rtFiles'[gop.id] = 0 /\ rtBackup'[gop.id] = gop.before
          /\ \A v \in Managed : v # gop.id => rtFiles'[v] = rtFiles[v] /\ rtBackup'[v] = 0
      BY <1>t, <2>1, <2>2, <2>3
    <3>4. Trees'
      BY <2>1, <2>2, <3>1, <3>3 DEF Trees
    <3>5. Catalog!Installing(gop.id)'
      BY <2>1, <3>1 DEF Catalog!Installing
    <3>6. QED
      BY <1>t, <2>1, <3>1, <3>2, <3>3, <3>4, <3>5, GateWorks
  <2>4. ASSUME gop' = Catalog!IdleGop, UNCHANGED <<rtFiles, rtBackup>> PROVE CatalogInv'
    BY <1>e, <1>t, <2>1, <2>4
  <2>5. QED
    BY <1>6, <2>3, <2>4 DEF Catalog!SetAside
<1>7. ASSUME Catalog!CommitFiles PROVE CatalogInv'
  <2>1. /\ gop.kind = "install" /\ gop.pc = "commit" /\ gop.node = 0 /\ gop.id \in Managed
        /\ UNCHANGED nodeFiles /\ Catalog!UnchangedButFiles
    BY <1>7, <1>t DEF Catalog!CommitFiles, OpShape, OfRuntime
  <2>2. /\ \A v \in Managed : v # gop.id => rtBackup[v] = 0
        /\ rtBackup[gop.id] = gop.before /\ ~gop.local
    BY <2>1 DEF CatalogInv, Trees
  <2>3. ASSUME gens' = gens + 1, rtFiles' = [rtFiles EXCEPT ![gop.id] = gens + 1],
               gop' = [gop EXCEPT !.pc = "candidate"], UNCHANGED rtBackup
        PROVE  CatalogInv'
    <3>1. /\ gop' \in GateOps /\ gop'.kind = "install" /\ gop'.pc = "candidate" /\ gop'.id = gop.id
          /\ gop'.node = 0 /\ gop'.before = gop.before /\ gop'.local = gop.local
      BY <1>p, <1>t, <2>1, <2>3 DEF GateOps
    <3>2. OpShape(gop')
      BY <2>1, <3>1 DEF OpShape, OfRuntime
    <3>g. gens' \in Nat /\ gens + 1 # 0 /\ gens + 1 \in Nat
      BY <1>t, <2>3
    <3>3. /\ rtFiles' \in [Managed -> Nat] /\ rtFiles'[gop.id] # 0
          /\ \A v \in Managed : v # gop.id => rtFiles'[v] = rtFiles[v]
      BY <1>t, <2>1, <2>3, <3>g
    <3>4. Trees'
      BY <2>1, <2>2, <2>3, <3>1, <3>3 DEF Trees
    <3>5. Catalog!Installing(gop.id)'
      BY <2>1, <3>1 DEF Catalog!Installing
    <3>6. QED
      BY <1>t, <2>1, <2>3, <3>1, <3>2, <3>3, <3>4, <3>5, <3>g, GateWorks
  <2>4. ASSUME gop' = Catalog!IdleGop, rtFiles' = [rtFiles EXCEPT ![gop.id] = rtBackup[gop.id]],
               rtBackup' = [rtBackup EXCEPT ![gop.id] = 0], UNCHANGED gens
        PROVE  CatalogInv'
    <3>1. /\ rtFiles' \in [Managed -> Nat] /\ rtBackup' \in [Managed -> Nat]
          /\ rtFiles'[gop.id] = gop.before
          /\ \A v \in Managed : v # gop.id => rtFiles'[v] = rtFiles[v]
          /\ \A v \in Managed : rtBackup'[v] = 0
      BY <1>t, <2>1, <2>2, <2>4
    <3>2. QED
      BY <1>t, <2>1, <2>4, <3>1, GateEnds
  <2>5. QED
    BY <1>7, <2>3, <2>4 DEF Catalog!CommitFiles
<1>8. ASSUME Catalog!CandidateRefused PROVE CatalogInv'
  <2>1. /\ gop.kind = "install" /\ gop.pc = "candidate" /\ gop.node = 0 /\ gop.id \in Managed
        /\ UNCHANGED <<nodeFiles, gens>> /\ Catalog!UnchangedButFiles /\ gop' = Catalog!IdleGop
        /\ Catalog!Discard(gop.id)
    BY <1>8, <1>t DEF Catalog!CandidateRefused, OpShape, OfRuntime
  <2>2. /\ rtFiles' \in [Managed -> Nat] /\ rtBackup' \in [Managed -> Nat]
        /\ \A v \in Managed : rtBackup'[v] = 0
        /\ \A v \in Managed : v # gop.id => rtFiles'[v] = rtFiles[v]
        /\ rtFiles'[gop.id] = gop.before
    BY <2>1, Discards
  <2>3. QED
    BY <1>t, <2>1, <2>2, GateEnds
<1>9. ASSUME Catalog!CandidateVerified PROVE CatalogInv'
  <2>1. /\ gop.kind = "install" /\ gop.pc = "candidate" /\ gop.node = 0 /\ gop.id \in Managed
        /\ gop' = [gop EXCEPT !.pc = "read"]
        /\ UNCHANGED <<rtFiles, rtBackup, nodeFiles, gens>> /\ Catalog!UnchangedButFiles
    BY <1>9, <1>t DEF Catalog!CandidateVerified, OpShape, OfRuntime
  <2>2. /\ gop' \in GateOps /\ gop'.kind = "install" /\ gop'.pc = "read" /\ gop'.id = gop.id
        /\ gop'.node = 0 /\ gop'.before = gop.before /\ gop'.local = gop.local
    BY <1>p, <1>t, <2>1 DEF GateOps
  <2>3. OpShape(gop')
    BY <2>1, <2>2 DEF OpShape, OfRuntime
  <2>4. Trees'
    BY <2>1, <2>2 DEF CatalogInv, Trees
  <2>5. Catalog!Installing(gop.id)'
    BY <2>1, <2>2 DEF Catalog!Installing
  <2>6. QED
    BY <1>t, <2>1, <2>2, <2>3, <2>4, <2>5, GateWorks
<1>10. ASSUME Catalog!FinalizeFiles PROVE CatalogInv'
  <2>1. /\ gop.kind = "install" /\ gop.pc = "finalize" /\ gop.node = 0 /\ gop.id \in Managed
        /\ rtBackup' = [rtBackup EXCEPT ![gop.id] = 0] /\ gop' = Catalog!IdleGop
        /\ UNCHANGED <<rtFiles, nodeFiles, gens>> /\ Catalog!UnchangedButFiles
    BY <1>10, <1>t DEF Catalog!FinalizeFiles, OpShape, OfRuntime
  <2>2. \A v \in Managed : v # gop.id => rtBackup[v] = 0
    BY <2>1 DEF CatalogInv, Trees
  <2>3. rtBackup' \in [Managed -> Nat] /\ \A v \in Managed : rtBackup'[v] = 0
    BY <1>t, <2>1, <2>2
  <2>4. QED
    BY <1>t, <2>1, <2>3, GateEnds
<1>11. ASSUME Catalog!RemoveFiles PROVE CatalogInv'
  <2>1. /\ gop.kind \in {"delrt", "delnode"} /\ gop.pc = "files" /\ gop.node = 0
        /\ UNCHANGED <<rtBackup, gens>> /\ Catalog!UnchangedButFiles
    BY <1>11, <1>t DEF Catalog!RemoveFiles, OpShape
  <2>2. \A v \in Managed : rtBackup[v] = 0
    BY <2>1 DEF CatalogInv, Trees
  <2>3. ASSUME gop' = [gop EXCEPT !.pc = "read"]
        PROVE  /\ gop' \in GateOps /\ gop'.kind = gop.kind /\ gop'.pc = "read" /\ gop'.id = gop.id
               /\ gop'.node = 0 /\ gop'.before = gop.before /\ OpShape(gop')
    <3>1. /\ gop' \in GateOps /\ gop'.kind = gop.kind /\ gop'.pc = "read" /\ gop'.id = gop.id
          /\ gop'.node = 0 /\ gop'.before = gop.before
      BY <1>p, <1>t, <2>1, <2>3 DEF GateOps
    <3>2. OpShape(gop')
      BY <1>t, <2>1, <3>1 DEF OpShape, OfRuntime
    <3>3. QED
      BY <3>1, <3>2
  <2>4. ASSUME gop.kind = "delrt", gop' = [gop EXCEPT !.pc = "read"], UNCHANGED nodeFiles,
               rtFiles' = [v \in Managed |-> IF v = gop.id THEN 0 ELSE rtFiles[v]]
        PROVE  CatalogInv'
    <3>1. /\ rtFiles' \in [Managed -> Nat]
          /\ \A v \in Managed : v # gop.id => rtFiles'[v] = rtFiles[v]
      BY <1>t, <2>4
    <3>2. Trees'
      BY <2>1, <2>2, <2>3, <2>4 DEF Trees
    <3>3. QED
      BY <1>t, <2>1, <2>3, <2>4, <3>1, <3>2, GateWorks
  <2>5. ASSUME gop.kind = "delnode", gop' = [gop EXCEPT !.pc = "read"], UNCHANGED rtFiles,
               nodeFiles' = nodeFiles \ {gop.id}
        PROVE  CatalogInv'
    <3>1. /\ nodeFiles' \subseteq Nodes
          /\ \A n \in nodeFiles \cap mem.nodes : n # gop.id => n \in nodeFiles'
      BY <1>t, <2>5
    <3>2. Trees'
      BY <2>1, <2>2, <2>3, <2>5 DEF Trees
    <3>3. QED
      BY <1>t, <2>1, <2>3, <2>5, <3>1, <3>2, GateWorks
  <2>6. ASSUME gop' = Catalog!IdleGop, UNCHANGED <<rtFiles, nodeFiles>> PROVE CatalogInv'
    BY <1>e, <1>t, <2>1, <2>6
  <2>7. QED
    BY <1>11, <2>4, <2>5, <2>6 DEF Catalog!RemoveFiles
<1>12. QED
  BY <1>1, <1>2, <1>3, <1>4, <1>5, <1>6, <1>7, <1>8, <1>9, <1>10, <1>11

-----------------------------------------------------------------------------
(* Read, save, publish                                                     *)

\* The snapshot an operation is about to save.
LEMMA ChangedMemory ==
    ASSUME CatalogInv, gop.pc = "read"
    PROVE  LET X == Catalog!Changed(mem) IN
           /\ X \in Catalogs /\ X.nodes = NodesOf(mem.nodes) /\ X.known = mem.known
           /\ gop.kind # "releases" => X.rel = mem.rel
           /\ gop.kind \notin {"adddir", "deldir"} => X.dirs = mem.dirs
           /\ gop.kind \in {"register", "install"} /\ gop.node = 0 => X.rt[gop.id] # 0
           /\ \A v \in Catalog!Runtimes :
                 X.rt[v] # mem.rt[v] =>
                    gop.kind \in {"register", "install", "delrt"} /\ gop.node = 0 /\ v = gop.id
<1> DEFINE X == Catalog!Changed(mem)
<1>t. mem \in Catalogs /\ gop \in GateOps /\ OpShape(gop) /\ systemVersion \in Nat \ {0}
  BY DEF CatalogInv, CatalogTyped
<1>m. /\ mem.rt \in Versions /\ mem.nodes \in SUBSET Nodes /\ mem.dirs \in SUBSET Directories
      /\ mem.rel \in SUBSET Managed /\ mem.conf \in Contexts /\ mem.known \in SomeContext
  BY <1>t, CatalogFields
<1>g. /\ gop.kind \in GateKinds /\ gop.node \in Nodes \cup {0} /\ gop.rel \in SUBSET Managed
      /\ gop.kind # "idle"
  BY <1>t, GateFields DEF OpShape
<1>1. CASE gop.kind = "releases"
  <2>1. X = [mem EXCEPT !.rel = gop.rel]
    BY <1>1 DEF Catalog!Changed, Catalog!InstallsNode
  <2> HIDE DEF X
  <2>2. /\ X \in Catalogs /\ X.nodes = mem.nodes /\ X.dirs = mem.dirs
        /\ X.rt = mem.rt /\ X.known = mem.known
    BY <1>g, <1>t, <2>1 DEF Catalogs
  <2>3. QED
    BY <1>1, <2>2 DEF NodesOf, Catalog!InstallsNode, X
<1>2. CASE Catalog!InstallsNode
  <2>1. X = [mem EXCEPT !.nodes = mem.nodes \cup {gop.node}]
    BY <1>2 DEF Catalog!Changed, Catalog!InstallsNode
  <2>2. mem.nodes \cup {gop.node} \in SUBSET Nodes
    BY <1>2, <1>g, <1>m DEF Catalog!InstallsNode
  <2> DEFINE N == mem.nodes \cup {gop.node}
  <2> HIDE DEF X, N
  <2>3. /\ X \in Catalogs /\ X.nodes = N /\ X.dirs = mem.dirs /\ X.rel = mem.rel
        /\ X.rt = mem.rt /\ X.known = mem.known
    BY <1>t, <2>1, <2>2 DEF Catalogs, N
  <2>4. QED
    BY <1>2, <2>3 DEF NodesOf, N, Catalog!InstallsNode, X
<1>3. CASE gop.kind \in {"register", "install"} /\ gop.node = 0
  <2>1. X = [mem EXCEPT !.rt[gop.id] = Catalog!Version(gop.id)]
    BY <1>3 DEF Catalog!Changed, Catalog!InstallsNode
  <2>2. /\ Catalog!Version(gop.id) \in Nat \ {0} /\ gop.id \in Catalog!Runtimes
    BY <1>3, <1>t, CatalogAssumption DEF OpShape, Catalog!Version, Catalog!Runtimes
  <2> DEFINE n == Catalog!Version(gop.id)
             F == [mem.rt EXCEPT ![gop.id] = n]
  <2>3. F \in Versions /\ F[gop.id] # 0 /\ \A v \in Catalog!Runtimes : F[v] # mem.rt[v] => v = gop.id
    <3>1. mem.rt \in [Catalog!Runtimes -> Nat] /\ mem.rt[System] # 0
      BY <1>m, VersionFields
    <3>2. F \in [Catalog!Runtimes -> Nat]
      BY <2>2, <3>1
    <3>3. \A v \in Catalog!Runtimes : F[v] = IF v = gop.id THEN n ELSE mem.rt[v]
      BY <3>1
    <3>4. n # 0
      BY <2>2
    <3> HIDE DEF F, n
    <3>5. System \in Catalog!Runtimes
      BY DEF Catalog!Runtimes
    <3>6. F[System] # 0
      BY <3>1, <3>3, <3>4, <3>5
    <3>7. QED
      BY <2>2, <3>2, <3>3, <3>4, <3>6 DEF Versions
  <2>4. X = [mem EXCEPT !.rt = F]
    BY <2>1
  <2> HIDE DEF X, F
  <2>5. /\ X \in Catalogs /\ X.nodes = mem.nodes /\ X.dirs = mem.dirs /\ X.rel = mem.rel
        /\ X.rt = F /\ X.known = mem.known
    BY <1>t, <2>3, <2>4 DEF Catalogs
  <2>6. QED
    BY <1>3, <2>3, <2>5 DEF NodesOf, Catalog!InstallsNode, X
<1>4. CASE gop.kind \in {"adddir", "deldir"}
  <2> DEFINE D == IF gop.kind = "adddir" THEN mem.dirs \cup {gop.id} ELSE mem.dirs \ {gop.id}
  <2>1. X = [mem EXCEPT !.dirs = D]
    BY <1>4 DEF Catalog!Changed, Catalog!InstallsNode
  <2>2. D \in SUBSET Directories
    BY <1>4, <1>m, <1>t DEF OpShape
  <2> HIDE DEF X, D
  <2>3. /\ X \in Catalogs /\ X.nodes = mem.nodes /\ X.rel = mem.rel
        /\ X.rt = mem.rt /\ X.known = mem.known
    BY <1>t, <2>1, <2>2 DEF Catalogs
  <2>4. QED
    BY <1>4, <2>3 DEF NodesOf, Catalog!InstallsNode, X
<1>5. CASE gop.kind = "delrt"
  <2>1. X = [mem EXCEPT !.rt[gop.id] = 0]
    BY <1>5 DEF Catalog!Changed, Catalog!InstallsNode
  <2>2. gop.id \in Catalog!Runtimes /\ gop.id # System /\ gop.node = 0
    BY <1>5, <1>t, CatalogAssumption DEF OpShape, Catalog!Runtimes
  <2> DEFINE F == [mem.rt EXCEPT ![gop.id] = 0]
  <2>3. F \in Versions /\ \A v \in Catalog!Runtimes : F[v] # mem.rt[v] => v = gop.id
    <3>1. mem.rt \in [Catalog!Runtimes -> Nat] /\ mem.rt[System] # 0
      BY <1>m, VersionFields
    <3>2. F \in [Catalog!Runtimes -> Nat]
      BY <2>2, <3>1
    <3>3. \A v \in Catalog!Runtimes : F[v] = IF v = gop.id THEN 0 ELSE mem.rt[v]
      BY <3>1
    <3> HIDE DEF F
    <3>5. System \in Catalog!Runtimes
      BY DEF Catalog!Runtimes
    <3>6. QED
      BY <2>2, <3>1, <3>2, <3>3, <3>5 DEF Versions
  <2>4. X = [mem EXCEPT !.rt = F]
    BY <2>1
  <2> HIDE DEF X, F
  <2>5. /\ X \in Catalogs /\ X.nodes = mem.nodes /\ X.dirs = mem.dirs /\ X.rel = mem.rel
        /\ X.rt = F /\ X.known = mem.known
    BY <1>t, <2>3, <2>4 DEF Catalogs
  <2>6. QED
    BY <1>5, <2>2, <2>3, <2>5 DEF NodesOf, Catalog!InstallsNode, X
<1>6. CASE gop.kind = "delnode"
  <2>1. X = [mem EXCEPT !.nodes = mem.nodes \ {gop.id}]
    BY <1>6 DEF Catalog!Changed, Catalog!InstallsNode
  <2> DEFINE N == mem.nodes \ {gop.id}
  <2>2. N \in SUBSET Nodes
    BY <1>m
  <2> HIDE DEF X, N
  <2>3. /\ X \in Catalogs /\ X.nodes = N /\ X.dirs = mem.dirs /\ X.rel = mem.rel
        /\ X.rt = mem.rt /\ X.known = mem.known
    BY <1>t, <2>1, <2>2 DEF Catalogs, N
  <2>4. QED
    BY <1>6, <2>3 DEF NodesOf, N, Catalog!InstallsNode, X
<1>7. CASE gop.kind = "configure"
  <2> DEFINE C == CHOOSE c \in Contexts : c.rt = gop.id /\ c.node = gop.node
  <2>1. X = [mem EXCEPT !.conf = C]
    BY <1>7 DEF Catalog!Changed, Catalog!InstallsNode
  <2>2. C \in Contexts
    BY <1>7, <1>t DEF OpShape
  <2> HIDE DEF X, C
  <2>3. /\ X \in Catalogs /\ X.nodes = mem.nodes /\ X.dirs = mem.dirs /\ X.rel = mem.rel
        /\ X.rt = mem.rt /\ X.known = mem.known
    BY <1>t, <2>1, <2>2 DEF Catalogs
  <2>4. QED
    BY <1>7, <2>3 DEF NodesOf, Catalog!InstallsNode, X
<1>8. gop.kind = "node" => gop.node # 0
  BY <1>t DEF OpShape
<1>9. \/ gop.kind = "releases"
      \/ Catalog!InstallsNode
      \/ gop.kind \in {"register", "install"} /\ gop.node = 0
      \/ gop.kind \in {"adddir", "deldir"}
      \/ gop.kind = "delrt"
      \/ gop.kind = "delnode"
      \/ gop.kind = "configure"
  <2>1. gop.kind = "register" => gop.node = 0
    BY <1>t DEF OpShape
  <2>2. QED
    BY <1>8, <1>g, <2>1 DEF GateKinds, Catalog!InstallsNode
<1>10. QED
  BY <1>1, <1>2, <1>3, <1>4, <1>5, <1>6, <1>7, <1>9, Zenon

\* An operation reads the state with its change.
LEMMA OpReadsKeeps ==
    ASSUME CatalogInv, Catalog!OpReads
    PROVE  CatalogInv'
<1> DEFINE X == Catalog!Changed(mem)
<1>1. /\ gop.pc = "read" /\ gop' = [gop EXCEPT !.pc = "save", !.snap = X]
      /\ overlapped' = (overlapped \/ \E l \in Catalog!Launchers : Catalog!Holding(l))
      /\ UNCHANGED <<mem, saved, current, switching, launches, hostOp, rtFiles, rtBackup,
                     nodeFiles, systemVersion, kept, gens, unprotected>>
  BY DEF Catalog!OpReads
<1>2. /\ X \in Catalogs /\ X.nodes = NodesOf(mem.nodes) /\ X.known = mem.known
      /\ gop.kind # "releases" => X.rel = mem.rel
      /\ gop.kind \notin {"adddir", "deldir"} => X.dirs = mem.dirs
      /\ gop.kind \in {"register", "install"} /\ gop.node = 0 => X.rt[gop.id] # 0
      /\ \A v \in Catalog!Runtimes :
            X.rt[v] # mem.rt[v] =>
               gop.kind \in {"register", "install", "delrt"} /\ gop.node = 0 /\ v = gop.id
  BY <1>1, ChangedMemory
<1> HIDE DEF X
<1>t. gop \in GateOps /\ OpShape(gop)
  BY DEF CatalogInv, CatalogTyped
<1>3. /\ gop' \in GateOps /\ gop'.kind = gop.kind /\ gop'.pc = "save" /\ gop'.id = gop.id
      /\ gop'.node = gop.node /\ gop'.before = gop.before /\ gop'.local = gop.local
      /\ gop'.known = gop.known /\ gop'.snap = X
  BY <1>1, <1>2, <1>t, "save" \in GatePcs DEF GateOps, GatePcs
<1>4. CatalogTyped'
  <2>1. overlapped' \in BOOLEAN
    BY <1>1, Zenon
  <2>2. QED
    BY <1>1, <1>3, <2>1 DEF CatalogInv, CatalogTyped
<1>5. OpShape(gop)'
  <2>1. OpShape(gop')
    BY <1>1, <1>3, <1>t DEF OpShape, OfRuntime
  <2>2. QED
    BY <2>1 DEF OpShape
<1>6. HostShape'
  BY <1>1, <1>3 DEF CatalogInv, HostShape
<1>7. Trees'
  BY <1>1, <1>3 DEF CatalogInv, Trees
<1>8. NodeSnaps'
  <2>1. NodesOf(mem.nodes)' = NodesOf(mem.nodes)
    BY <1>1, <1>3 DEF NodesOf, Catalog!InstallsNode
  <2>2. Catalog!InstallsNode => (gop.known <=> gop.node \in mem.nodes)
    BY <1>1 DEF CatalogInv, NodeSnaps
  <2>3. QED
    BY <1>1, <1>2, <1>3, <2>1, <2>2 DEF NodeSnaps, Catalog!InstallsNode
<1>9. Guarded'
  BY <1>1, <1>3 DEF CatalogInv, Guarded, Spares
<1>10. Files'
  <2>1. \A v : Standing(v)' <=> Standing(v)
    BY <1>1, <1>3 DEF Standing, Catalog!Installing
  <2>2. \A c : NodeKept(c)' <=> NodeKept(c)
    BY <1>1 DEF NodeKept
  <2>3. ASSUME ~unprotected PROVE KnownIn(X)
    <3>1. mem.known.node \in mem.nodes \cup {0}
      BY <2>3, ContextFields DEF CatalogInv, Files, NodeKept
    <3>2. gop.kind = "delnode" => mem.known.node # gop.id
      BY DEF CatalogInv, Guarded, Spares
    <3>3. QED
      BY <1>2, <3>1, <3>2 DEF KnownIn, NodesOf
  <2>4. KnownIn(gop.snap)' <=> KnownIn(X)
    BY <1>3 DEF KnownIn
  <2>5. QED
    BY <1>1, <2>1, <2>2, <2>3, <2>4 DEF CatalogInv, Files, KnownIn, HostResolved, Catalog!Holding
<1>11. OneSaver'
  BY <1>1 DEF CatalogInv, OneSaver, Catalog!Holding
<1>12. Saved'
  <2>1. GateSnap'
    BY <1>1, <1>2, <1>3 DEF GateSnap
  <2>2. \A l \in Catalog!Launchers : LaunchSnap(l)' <=> LaunchSnap(l)
    BY <1>1 DEF LaunchSnap
  <2>3. QED
    BY <1>1, <1>3, <2>1, <2>2
    DEF CatalogInv, Saved, Catalog!Holding, Catalog!Catalog, Catalog!Registered
<1>13. QED
  BY <1>4, <1>5, <1>6, <1>7, <1>8, <1>9, <1>10, <1>11, <1>12 DEF CatalogInv

\* It saves it ...
LEMMA OpSavesKeeps ==
    ASSUME CatalogInv, Catalog!OpSaves
    PROVE  CatalogInv'
<1>1. /\ gop.pc = "save" /\ gop' = [gop EXCEPT !.pc = "publish"] /\ saved' = gop.snap
      /\ UNCHANGED <<mem, current, switching, launches, hostOp, rtFiles, rtBackup,
                     nodeFiles, systemVersion, kept, overlapped, gens, unprotected>>
  BY DEF Catalog!OpSaves
<1>t. gop \in GateOps /\ OpShape(gop) /\ gop.snap \in Catalogs
  BY GateFields DEF CatalogInv, CatalogTyped
<1>3. /\ gop' \in GateOps /\ gop'.kind = gop.kind /\ gop'.pc = "publish" /\ gop'.id = gop.id
      /\ gop'.node = gop.node /\ gop'.before = gop.before /\ gop'.local = gop.local
      /\ gop'.known = gop.known /\ gop'.snap = gop.snap
  BY <1>1, <1>t, "publish" \in GatePcs DEF GateOps, GatePcs
<1>4. CatalogTyped'
  BY <1>1, <1>3, <1>t DEF CatalogInv, CatalogTyped
<1>5. OpShape(gop)'
  <2>1. OpShape(gop')
    BY <1>1, <1>3, <1>t DEF OpShape, OfRuntime
  <2>2. QED
    BY <2>1 DEF OpShape
<1>6. HostShape'
  BY <1>1, <1>3 DEF CatalogInv, HostShape
<1>7. Trees'
  BY <1>1, <1>3 DEF CatalogInv, Trees
<1>8. NodeSnaps'
  BY <1>1, <1>3 DEF CatalogInv, NodeSnaps, NodesOf, Catalog!InstallsNode, Catalog!GateHolding
<1>9. Guarded'
  BY <1>1, <1>3 DEF CatalogInv, Guarded, Spares
<1>10. Files'
  <2>1. \A v : Standing(v)' <=> Standing(v)
    BY <1>1, <1>3 DEF Standing, Catalog!Installing
  <2>2. \A c : NodeKept(c)' <=> NodeKept(c)
    BY <1>1 DEF NodeKept
  <2>3. ~unprotected => KnownIn(gop.snap)
    BY <1>1 DEF CatalogInv, Files, Catalog!GateHolding
  <2>4. QED
    BY <1>1, <1>3, <2>1, <2>2, <2>3 DEF CatalogInv, Files, KnownIn, HostResolved, Catalog!Holding
<1>11. OneSaver'
  BY <1>1, <1>3 DEF CatalogInv, OneSaver, Catalog!Holding, Catalog!GateHolding
<1>12. Saved'
  <2>1. ASSUME ~overlapped PROVE GateSnap' /\ \A l \in Catalog!Launchers : ~Catalog!Holding(l)
    <3>1. GateSnap /\ \A l \in Catalog!Launchers : ~Catalog!Holding(l)
      BY <1>1, <2>1 DEF CatalogInv, OneSaver, Saved, Catalog!GateHolding
    <3>2. QED
      BY <1>1, <1>3, <3>1 DEF GateSnap
  <2>2. QED
    BY <1>1, <1>3, <2>1
    DEF CatalogInv, Saved, Catalog!Holding, Catalog!Catalog, Catalog!Registered
<1>13. QED
  BY <1>4, <1>5, <1>6, <1>7, <1>8, <1>9, <1>10, <1>11, <1>12 DEF CatalogInv

\* ... or fails to, and takes back what it did to the files.
LEMMA OpSaveFailsKeeps ==
    ASSUME CatalogInv, Catalog!OpSaveFails
    PROVE  CatalogInv'
<1> USE DEF Catalog!UnchangedButFiles, Catalog!GopEnds
<1>t. /\ gop \in GateOps /\ OpShape(gop) /\ rtFiles \in [Managed -> Nat] /\ gens \in Nat
      /\ rtBackup \in [Managed -> Nat] /\ nodeFiles \subseteq Nodes
  BY DEF CatalogInv, CatalogTyped
<1>1. gop.pc = "save" /\ gop' = Catalog!IdleGop /\ UNCHANGED gens /\ Catalog!UnchangedButFiles
  BY DEF Catalog!OpSaveFails
<1>2. CASE gop.kind = "install" /\ gop.node = 0
  <2>1. Catalog!Discard(gop.id) /\ UNCHANGED nodeFiles
    BY <1>2 DEF Catalog!OpSaveFails
  <2>2. /\ rtFiles' \in [Managed -> Nat] /\ rtBackup' \in [Managed -> Nat]
        /\ \A v \in Managed : rtBackup'[v] = 0
        /\ \A v \in Managed : v # gop.id => rtFiles'[v] = rtFiles[v]
        /\ rtFiles'[gop.id] = gop.before
    BY <1>1, <1>2, <2>1, Discards
  <2>3. QED
    BY <1>1, <1>2, <1>t, <2>1, <2>2, GateEnds
<1>3. CASE ~(gop.kind = "install" /\ gop.node = 0)
  <2>1. /\ nodeFiles' = IF Catalog!InstallsNode /\ ~gop.known THEN nodeFiles \ {gop.node} ELSE nodeFiles
        /\ UNCHANGED <<rtFiles, rtBackup>>
    BY <1>3 DEF Catalog!OpSaveFails
  <2>2. Catalog!InstallsNode => (gop.known <=> gop.node \in mem.nodes)
    BY <1>1 DEF CatalogInv, NodeSnaps
  <2>3. nodeFiles' \subseteq Nodes /\ nodeFiles \cap mem.nodes \subseteq nodeFiles'
    BY <1>t, <2>1, <2>2
  <2>4. /\ \A v \in Managed : rtBackup'[v] = 0
        /\ gop.kind = "install" => rtFiles'[gop.id] = gop.before
    BY <1>3, <2>1, NothingAside
  <2>5. QED
    BY <1>1, <1>t, <2>1, <2>3, <2>4, GateEnds
<1>4. QED
  BY <1>2, <1>3

\* What an operation publishes.
LEMMA PublishedMemory ==
    ASSUME CatalogInv, Catalog!OpPublishes
    PROVE  /\ mem' \in Catalogs /\ mem'.known = mem.known /\ mem'.nodes = NodesOf(mem.nodes)
           /\ gop.kind # "configure" => mem'.conf = mem.conf
           /\ ~overlapped => Catalog!Catalog(mem') = Catalog!Catalog(gop.snap)
<1>t. /\ mem \in Catalogs /\ gop.snap \in Catalogs /\ gop.pc = "publish" /\ OpShape(gop)
      /\ gop.kind \in GateKinds
  BY GateFields DEF CatalogInv, CatalogTyped, Catalog!OpPublishes
<1>s. /\ gop.snap.rt \in Versions /\ gop.snap.nodes \in SUBSET Nodes
      /\ gop.snap.dirs \in SUBSET Directories /\ gop.snap.rel \in SUBSET Managed
      /\ gop.snap.conf \in Contexts /\ mem.rt \in Versions
  BY <1>t, CatalogFields
<1>n. gop.snap.nodes = NodesOf(mem.nodes)
  BY <1>t DEF CatalogInv, NodeSnaps, Catalog!GateHolding
<1>g. ASSUME ~overlapped
      PROVE  /\ gop.kind # "releases" => gop.snap.rel = mem.rel
             /\ gop.kind \notin {"adddir", "deldir"} => gop.snap.dirs = mem.dirs
             /\ \A v \in Catalog!Runtimes :
                  gop.snap.rt[v] # mem.rt[v] =>
                     gop.kind \in {"register", "install", "delrt"} /\ gop.node = 0 /\ v = gop.id
  BY <1>g, <1>t DEF CatalogInv, Saved, GateSnap, Catalog!GateHolding
<1>r. ASSUME ~overlapped, ~(gop.kind \in {"register", "install", "delrt"} /\ gop.node = 0)
      PROVE  gop.snap.rt = mem.rt
  <2>1. /\ gop.snap.rt \in [Catalog!Runtimes -> Nat] /\ mem.rt \in [Catalog!Runtimes -> Nat]
    BY <1>s, VersionFields
  <2>2. \A v \in Catalog!Runtimes : gop.snap.rt[v] = mem.rt[v]
    BY <1>g, <1>r
  <2>3. QED
    BY <2>1, <2>2
<1>1. CASE gop.kind = "releases"
  <2>1. mem' = [mem EXCEPT !.rel = gop.snap.rel]
    BY <1>1 DEF Catalog!OpPublishes, Catalog!InstallsNode
  <2>2. /\ mem' \in Catalogs /\ mem'.nodes = mem.nodes /\ mem'.dirs = mem.dirs
        /\ mem'.rt = mem.rt /\ mem'.known = mem.known /\ mem'.conf = mem.conf
        /\ mem'.rel = gop.snap.rel
    BY <1>s, <1>t, <2>1 DEF Catalogs
  <2>3. NodesOf(mem.nodes) = mem.nodes
    BY <1>1 DEF NodesOf, Catalog!InstallsNode
  <2>4. QED
    BY <1>1, <1>g, <1>n, <1>r, <2>2, <2>3 DEF Catalog!Catalog
<1>2. CASE Catalog!InstallsNode \/ gop.kind = "delnode"
  <2>1. mem' = [mem EXCEPT !.nodes = gop.snap.nodes]
    BY <1>2 DEF Catalog!OpPublishes, Catalog!InstallsNode
  <2>2. /\ mem' \in Catalogs /\ mem'.nodes = gop.snap.nodes /\ mem'.dirs = mem.dirs
        /\ mem'.rt = mem.rt /\ mem'.known = mem.known /\ mem'.conf = mem.conf
        /\ mem'.rel = mem.rel
    BY <1>s, <1>t, <2>1 DEF Catalogs
  <2>3. /\ gop.kind \notin {"releases", "adddir", "deldir"}
        /\ ~(gop.kind \in {"register", "install", "delrt"} /\ gop.node = 0)
    BY <1>2 DEF Catalog!InstallsNode
  <2>4. QED
    BY <1>g, <1>n, <1>r, <2>2, <2>3 DEF Catalog!Catalog
<1>3. CASE gop.kind \in {"adddir", "deldir"}
  <2>1. mem' = [mem EXCEPT !.dirs = gop.snap.dirs]
    BY <1>3 DEF Catalog!OpPublishes, Catalog!InstallsNode
  <2>2. /\ mem' \in Catalogs /\ mem'.nodes = mem.nodes /\ mem'.dirs = gop.snap.dirs
        /\ mem'.rt = mem.rt /\ mem'.known = mem.known /\ mem'.conf = mem.conf
        /\ mem'.rel = mem.rel
    BY <1>s, <1>t, <2>1 DEF Catalogs
  <2>3. NodesOf(mem.nodes) = mem.nodes
    BY <1>3 DEF NodesOf, Catalog!InstallsNode
  <2>4. QED
    BY <1>3, <1>g, <1>n, <1>r, <2>2, <2>3 DEF Catalog!Catalog
<1>4. CASE gop.kind = "configure"
  <2>1. mem' = [mem EXCEPT !.conf = gop.snap.conf]
    BY <1>4 DEF Catalog!OpPublishes, Catalog!InstallsNode
  <2>2. /\ mem' \in Catalogs /\ mem'.nodes = mem.nodes /\ mem'.dirs = mem.dirs
        /\ mem'.rt = mem.rt /\ mem'.known = mem.known /\ mem'.rel = mem.rel
    BY <1>s, <1>t, <2>1 DEF Catalogs
  <2>3. NodesOf(mem.nodes) = mem.nodes
    BY <1>4 DEF NodesOf, Catalog!InstallsNode
  <2>4. QED
    BY <1>4, <1>g, <1>n, <1>r, <2>2, <2>3 DEF Catalog!Catalog
<1>5. CASE gop.kind \in {"register", "install", "delrt"} /\ gop.node = 0
  <2>1. mem' = [mem EXCEPT !.rt = gop.snap.rt]
    BY <1>5 DEF Catalog!OpPublishes, Catalog!InstallsNode
  <2>2. /\ mem' \in Catalogs /\ mem'.nodes = mem.nodes /\ mem'.dirs = mem.dirs
        /\ mem'.rt = gop.snap.rt /\ mem'.known = mem.known /\ mem'.conf = mem.conf
        /\ mem'.rel = mem.rel
    BY <1>s, <1>t, <2>1 DEF Catalogs
  <2>3. NodesOf(mem.nodes) = mem.nodes
    BY <1>5 DEF NodesOf, Catalog!InstallsNode
  <2>4. QED
    BY <1>5, <1>g, <1>n, <2>2, <2>3 DEF Catalog!Catalog
<1>6. \/ gop.kind = "releases"
      \/ Catalog!InstallsNode \/ gop.kind = "delnode"
      \/ gop.kind \in {"adddir", "deldir"}
      \/ gop.kind = "configure"
      \/ gop.kind \in {"register", "install", "delrt"} /\ gop.node = 0
  <2>1. /\ gop.kind \in {"register", "delrt"} => gop.node = 0
        /\ gop.kind = "node" => gop.node # 0
        /\ gop.kind # "idle"
    BY <1>t DEF OpShape
  <2>2. QED
    BY <1>t, <2>1 DEF GateKinds, Catalog!InstallsNode
<1>7. QED
  BY <1>1, <1>2, <1>3, <1>4, <1>5, <1>6, Zenon

\* An operation publishes its change and ends, or goes on with the installation.
LEMMA OpPublishesKeeps ==
    ASSUME CatalogInv, Catalog!OpPublishes
    PROVE  CatalogInv'
<1>m. /\ mem' \in Catalogs /\ mem'.known = mem.known /\ mem'.nodes = NodesOf(mem.nodes)
      /\ gop.kind # "configure" => mem'.conf = mem.conf
      /\ ~overlapped => Catalog!Catalog(mem') = Catalog!Catalog(gop.snap)
  BY PublishedMemory
<1>1. /\ gop.pc = "publish"
      /\ UNCHANGED <<saved, current, switching, launches, hostOp, rtFiles, rtBackup, nodeFiles,
                     systemVersion, overlapped, gens, unprotected>>
      /\ kept' = IF gop.kind = "install" /\ gop.node = 0 THEN kept \cup {gop.id}
                 ELSE IF gop.kind = "delrt" THEN kept \ {gop.id} ELSE kept
  BY DEF Catalog!OpPublishes
<1>t. gop \in GateOps /\ OpShape(gop) /\ kept \subseteq Managed
  BY DEF CatalogInv, CatalogTyped
<1>2. /\ gop' \in GateOps /\ gop'.pc \notin {"save", "publish", "nodecheck", "read"}
      /\ \/ gop'.kind = "idle" /\ gop'.pc = "idle" /\ gop.kind # "install"
         \/ /\ gop'.kind = "install" /\ gop.kind = "install" /\ gop'.id = gop.id
            /\ gop'.before = gop.before /\ gop'.local = gop.local /\ gop'.node = 0
            /\ gop'.pc = IF gop.node # 0 THEN "package" ELSE "finalize"
  <2>1. CASE gop.kind # "install"
    <3>1. gop' = Catalog!IdleGop
      BY <2>1 DEF Catalog!OpPublishes
    <3>2. QED
      BY <2>1, <3>1, IdleTyped
  <2>2. CASE gop.kind = "install" /\ gop.node # 0
    <3>1. gop' = [gop EXCEPT !.pc = "package", !.node = 0]
      BY <2>2 DEF Catalog!OpPublishes
    <3> DEFINE z == 0
    <3>2. z \in Nodes \cup {0} /\ gop' = [gop EXCEPT !.pc = "package", !.node = z]
      BY <3>1
    <3>3. "package" \in GatePcs
      BY DEF GatePcs, OfRuntime
    <3> HIDE DEF z
    <3>4. /\ gop' \in GateOps /\ gop'.pc = "package" /\ gop'.kind = gop.kind /\ gop'.id = gop.id
          /\ gop'.before = gop.before /\ gop'.local = gop.local /\ gop'.node = z
      BY <1>t, <3>2, <3>3 DEF GateOps
    <3>5. QED
      BY <2>2, <3>4 DEF z
  <2>3. CASE gop.kind = "install" /\ gop.node = 0
    <3>1. gop' = [gop EXCEPT !.pc = "finalize"]
      BY <2>3 DEF Catalog!OpPublishes
    <3>2. "finalize" \in GatePcs
      BY DEF GatePcs, OfRuntime
    <3>3. /\ gop' \in GateOps /\ gop'.pc = "finalize" /\ gop'.kind = gop.kind /\ gop'.id = gop.id
          /\ gop'.before = gop.before /\ gop'.local = gop.local /\ gop'.node = gop.node
      BY <1>t, <3>1, <3>2 DEF GateOps
    <3>4. QED
      BY <2>3, <3>3
  <2>4. QED
    BY <2>1, <2>2, <2>3
<1>i. gop.kind = "install" => gop.id \in Managed
  BY <1>t DEF OpShape
<1>4. CatalogTyped'
  <2>1. kept' \subseteq Managed
    BY <1>1, <1>i, <1>t
  <2>2. QED
    BY <1>1, <1>2, <1>m, <2>1 DEF CatalogInv, CatalogTyped
<1>5. OpShape(gop)'
  <2>1. OpShape(gop')
    BY <1>2, <1>i DEF OpShape, OfRuntime
  <2>2. QED
    BY <2>1 DEF OpShape
<1>6. HostShape'
  BY <1>1, <1>2, <1>m DEF CatalogInv, HostShape
<1>7. Trees'
  <2>1. CASE gop'.kind = "idle" /\ gop.kind # "install"
    BY <1>1, <2>1 DEF CatalogInv, Trees
  <2>2. CASE gop'.kind = "install" /\ gop.kind = "install"
    BY <1>1, <1>2, <2>2 DEF CatalogInv, Trees
  <2>3. QED
    BY <1>2, <2>1, <2>2
<1>8. NodeSnaps'
  BY <1>2 DEF NodeSnaps, Catalog!GateHolding
<1>9. Guarded'
  BY <1>1, <1>2, <1>m DEF CatalogInv, Guarded, Spares
<1>10. Files'
  <2>1. ASSUME NEW v, Standing(v) PROVE Standing(v)'
    <3>1. CASE gop.kind # "install"
      BY <1>1, <1>2, <2>1, <3>1 DEF Standing, Catalog!Installing
    <3>2. CASE gop.kind = "install" /\ gop.node # 0
      BY <1>1, <1>2, <2>1, <3>2 DEF Standing, Catalog!Installing
    <3>3. CASE gop.kind = "install" /\ gop.node = 0
      <4>1. rtFiles[gop.id] # 0
        BY <1>1, <3>3 DEF CatalogInv, Trees
      <4>2. QED
        BY <1>1, <1>2, <2>1, <3>3, <4>1 DEF Standing, Catalog!Installing
    <3>4. QED
      BY <3>1, <3>2, <3>3
  <2>2. ASSUME NEW c, NodeKept(c), gop.kind = "delnode" => c.node # gop.id PROVE NodeKept(c)'
    BY <1>1, <1>m, <2>2 DEF NodeKept, NodesOf
  <2>3. ASSUME ~unprotected, current # Catalog!NoContext
        PROVE  Standing(current.rt)' /\ NodeKept(current)'
    BY <1>1, <2>1, <2>2, <2>3 DEF CatalogInv, Files, Guarded, Spares
  <2>4. ASSUME ~unprotected, mem.known # Catalog!NoContext
        PROVE  Standing(mem.known.rt)' /\ NodeKept(mem.known)'
    <3>1. Standing(mem.known.rt) /\ NodeKept(mem.known) /\ (gop.kind = "delnode" => mem.known.node # gop.id)
      BY <2>4 DEF CatalogInv, Files, Guarded, Spares
    <3>2. QED
      BY <1>m, <2>1, <2>2, <3>1
  <2>5. ASSUME ~unprotected, HostResolved
        PROVE  Standing(hostOp.target.rt)' /\ NodeKept(hostOp.target)'
    BY <1>1, <2>1, <2>2, <2>5, HostTarget DEF CatalogInv, Files
  <2>6. ~Catalog!GateHolding'
    BY <1>2 DEF Catalog!GateHolding
  <2>7. QED
    BY <1>1, <1>m, <2>3, <2>4, <2>5, <2>6
    DEF CatalogInv, Files, KnownIn, HostResolved, Catalog!Holding
<1>11. OneSaver'
  BY <1>1, <1>2 DEF CatalogInv, OneSaver, Catalog!Holding, Catalog!GateHolding
<1>12. Saved'
  <2>1. ASSUME ~overlapped
        PROVE  /\ Catalog!Catalog(mem') = Catalog!Catalog(saved)
               /\ \A l \in Catalog!Launchers : ~Catalog!Holding(l)
    BY <1>1, <1>m, <2>1 DEF CatalogInv, OneSaver, Saved, Catalog!GateHolding
  <2>2. ASSUME ~overlapped, NEW v \in kept' PROVE v \in Catalog!Registered(mem')
    <3>1. mem'.rt = gop.snap.rt /\ v \in Managed /\ Managed \subseteq Catalog!Runtimes
      BY <1>1, <1>i, <1>m, <1>t, <2>2 DEF Catalog!Catalog, Catalog!Runtimes
    <3>2. GateSnap /\ kept \subseteq Catalog!Registered(mem)
      BY <1>1, <2>2 DEF CatalogInv, Saved, Catalog!GateHolding
    <3>3. gop.snap.rt[v] # 0
      <4>1. CASE gop.kind = "install" /\ gop.node = 0 /\ v = gop.id
        BY <3>2, <4>1 DEF GateSnap
      <4>2. CASE ~(gop.kind = "install" /\ gop.node = 0 /\ v = gop.id)
        <5>1. v \in kept /\ (gop.kind = "delrt" => v # gop.id)
          BY <1>1, <2>2, <4>2
        <5>2. mem.rt[v] # 0
          BY <3>2, <5>1 DEF Catalog!Registered
        <5>3. gop.kind = "register" => gop.id \notin Managed
          BY <1>t, CatalogAssumption DEF OpShape
        <5>4. QED
          BY <3>1, <3>2, <4>2, <5>1, <5>2, <5>3 DEF GateSnap
      <4>3. QED
        BY <4>1, <4>2
    <3>4. QED
      BY <3>1, <3>3 DEF Catalog!Registered
  <2>3. QED
    BY <1>1, <1>2, <2>1, <2>2
    DEF Saved, Catalog!GateHolding, Catalog!Holding, Catalog!Catalog
<1>13. QED
  BY <1>4, <1>5, <1>6, <1>7, <1>8, <1>9, <1>10, <1>11, <1>12 DEF CatalogInv

-----------------------------------------------------------------------------
(* The launches                                                            *)

\* A launch under way has a target of its own; the Host's is the one it is about.
LEMMA LaunchTarget ==
    ASSUME CatalogInv, NEW l \in Catalog!Launchers, launches[l].pc # "idle"
    PROVE  /\ launches[l].target \in Contexts
           /\ l = "host" => hostOp.target = launches[l].target
<1>1. CASE l = "automation"
  BY <1>1 DEF CatalogInv, HostShape
<1>2. CASE l = "host"
  <2>1. hostOp.pc \in {"launch", "run"} /\ hostOp.kind # "idle"
    BY <1>2, HostFields DEF CatalogInv, CatalogTyped, HostShape
  <2>2. QED
    BY <1>2, <2>1 DEF CatalogInv, HostShape
<1>3. QED
  BY <1>1, <1>2 DEF Catalog!Launchers

\* A launch goes on: nothing but the catalogue's versions, the saved state and its own
\* record change.
LEMMA LaunchMoves ==
    ASSUME CatalogInv, NEW l \in Catalog!Launchers, NEW X \in CatalogLaunches,
           launches' = [launches EXCEPT ![l] = X], X.target = launches[l].target, X.pc # "idle",
           launches[l].pc \notin {"idle", "resolved"},
           UNCHANGED <<hostOp, current, switching, gop, rtFiles, rtBackup, nodeFiles,
                       systemVersion, kept, gens>>,
           mem' \in Catalogs, mem'.conf = mem.conf, mem'.known = mem.known, mem'.nodes = mem.nodes,
           saved' \in Catalogs, overlapped' \in BOOLEAN, unprotected' \in BOOLEAN,
           ~unprotected' =>
              /\ ~unprotected /\ KnownIn(saved')
              /\ X.pc \in {"save", "publish"} => KnownIn(X.snap)
              /\ HostResolved \/ X.pc = "failed" \/ l = "automation"
                    \/ (Standing(X.target.rt) /\ NodeKept(X.target))
    PROVE  /\ CatalogTyped' /\ OpShape(gop)' /\ HostShape' /\ Trees' /\ NodeSnaps' /\ Guarded'
           /\ Files'
<1>t. launches \in [Catalog!Launchers -> CatalogLaunches] /\ {"host", "automation"} = Catalog!Launchers
  BY DEF CatalogInv, CatalogTyped, Catalog!Launchers
<1>1. /\ launches' \in [Catalog!Launchers -> CatalogLaunches] /\ launches'[l] = X
      /\ \A k \in Catalog!Launchers : k # l => launches'[k] = launches[k]
      /\ \A k \in Catalog!Launchers : launches'[k].target = launches[k].target
      /\ \A k \in Catalog!Launchers : launches'[k].pc = "idle" <=> launches[k].pc = "idle"
      /\ \A k \in Catalog!Launchers : launches[k].pc = "resolved" => launches'[k].pc = "resolved"
  BY <1>t
<1>2. CatalogTyped'
  BY <1>1 DEF CatalogInv, CatalogTyped
<1>3. OpShape(gop)'
  <2>1. OpShape(gop')
    BY DEF CatalogInv
  <2>2. QED
    BY <2>1 DEF OpShape
<1>4. HostShape'
  BY <1>1, <1>t DEF CatalogInv, HostShape
<1>5. Trees'
  BY DEF CatalogInv, Trees
<1>6. NodeSnaps'
  BY DEF CatalogInv, NodeSnaps, NodesOf, Catalog!GateHolding, Catalog!InstallsNode
<1>7. Guarded'
  BY DEF CatalogInv, Guarded, Spares
<1>8. Files'
  <2>1. \A v : Standing(v)' <=> Standing(v)
    BY DEF Standing, Catalog!Installing
  <2>2. \A c : NodeKept(c)' <=> NodeKept(c)
    BY DEF NodeKept
  <2>3. ASSUME ~unprotected', HostResolved'
        PROVE  Standing(hostOp.target.rt) /\ NodeKept(hostOp.target)
    <3>1. CASE HostResolved
      BY <2>3, <3>1 DEF CatalogInv, Files
    <3>2. CASE ~HostResolved
      <4>1. l = "host" /\ X.pc # "failed"
        BY <1>1, <1>t, <2>3, <3>2 DEF HostResolved
      <4>2. hostOp.target = X.target
        BY <4>1, LaunchTarget
      <4>3. QED
        BY <2>3, <3>2, <4>1, <4>2
    <3>3. QED
      BY <3>1, <3>2
  <2>4. ASSUME ~unprotected', NEW k \in Catalog!Launchers, Catalog!Holding(k)'
        PROVE  KnownIn(launches'[k].snap)
    <3>1. CASE k = l
      BY <1>1, <2>4, <3>1 DEF Catalog!Holding
    <3>2. CASE k # l
      BY <1>1, <2>4, <3>2 DEF CatalogInv, Files, Catalog!Holding
    <3>3. QED
      BY <3>1, <3>2
  <2>5. ASSUME ~unprotected', Catalog!GateHolding' PROVE KnownIn(gop'.snap)
    BY <2>5 DEF CatalogInv, Files, Catalog!GateHolding
  <2>6. ASSUME ~unprotected', current # Catalog!NoContext
        PROVE  Standing(current.rt)' /\ NodeKept(current)'
    BY <2>1, <2>2, <2>6 DEF CatalogInv, Files
  <2>7. ASSUME ~unprotected', mem.known # Catalog!NoContext
        PROVE  Standing(mem.known.rt)' /\ NodeKept(mem.known)'
    BY <2>1, <2>2, <2>7 DEF CatalogInv, Files
  <2>8. ASSUME ~unprotected', HostResolved'
        PROVE  Standing(hostOp.target.rt)' /\ NodeKept(hostOp.target)'
    BY <2>1, <2>2, <2>3, <2>8
  <2>9. QED
    BY <2>4, <2>5, <2>6, <2>7, <2>8 DEF Files, KnownIn
<1>9. QED
  BY <1>2, <1>3, <1>4, <1>5, <1>6, <1>7, <1>8

\* A launch that neither starts nor ends a save.
LEMMA LaunchRests ==
    ASSUME CatalogInv, NEW l \in Catalog!Launchers, NEW X \in CatalogLaunches,
           launches' = [launches EXCEPT ![l] = X], launches[l].pc # "publish",
           X.pc \notin {"save", "publish"},
           UNCHANGED <<mem, saved, gop, overlapped, kept>>
    PROVE  OneSaver' /\ Saved'
<1>t. launches \in [Catalog!Launchers -> CatalogLaunches]
  BY DEF CatalogInv, CatalogTyped
<1>1. /\ launches'[l] = X
      /\ \A k \in Catalog!Launchers : k # l => launches'[k] = launches[k]
  BY <1>t
<1>2. \A k \in Catalog!Launchers : Catalog!Holding(k)' => Catalog!Holding(k) /\ launches'[k] = launches[k]
  BY <1>1 DEF Catalog!Holding
<1>3. \A k \in Catalog!Launchers : launches'[k].pc = "publish" <=> launches[k].pc = "publish"
  BY <1>1
<1>4. OneSaver'
  BY <1>2 DEF CatalogInv, OneSaver, Catalog!GateHolding
<1>5. \A k \in Catalog!Launchers : Catalog!Holding(k)' /\ LaunchSnap(k) => LaunchSnap(k)'
  BY <1>2 DEF LaunchSnap
<1>6. GateSnap <=> GateSnap'
  BY DEF GateSnap
<1>7. \A k \in Catalog!Launchers : launches'[k].pc = "publish" => launches'[k] = launches[k]
  BY <1>1
<1>8. Saved'
  <2>1. SUFFICES ASSUME ~overlapped PROVE Saved'
    BY DEF Saved
  <2>2. /\ gop.pc # "publish" /\ (\A k \in Catalog!Launchers : launches[k].pc # "publish") =>
              Catalog!Catalog(mem) = Catalog!Catalog(saved)
        /\ Catalog!GateHolding => GateSnap
        /\ gop.pc = "publish" => Catalog!Catalog(saved) = Catalog!Catalog(gop.snap)
        /\ \A k \in Catalog!Launchers :
              /\ Catalog!Holding(k) => LaunchSnap(k)
              /\ launches[k].pc = "publish" =>
                    Catalog!Catalog(saved) = Catalog!Catalog(launches[k].snap)
        /\ kept \subseteq Catalog!Registered(mem)
    BY <2>1 DEF CatalogInv, Saved
  <2>3. QED
    BY <1>2, <1>3, <1>5, <1>6, <1>7, <2>2
    DEF Saved, Catalog!GateHolding, Catalog!Catalog, Catalog!Registered
<1>9. QED
  BY <1>4, <1>8

\* The steps of ResolveLaunch keep the invariant.
LEMMA CatalogLaunchStep ==
    ASSUME CatalogInv, NEW l \in Catalog!Launchers,
           \/ Catalog!ResolveLaunch(l) \/ Catalog!Observe(l) \/ Catalog!LaunchReads(l)
           \/ Catalog!LaunchSaves(l) \/ Catalog!LaunchPublishes(l)
    PROVE  CatalogInv'
<1> USE DEF Catalog!UnchangedButLaunch
<1>t. /\ launches \in [Catalog!Launchers -> CatalogLaunches] /\ launches[l] \in CatalogLaunches
      /\ mem \in Catalogs /\ saved \in Catalogs /\ overlapped \in BOOLEAN
      /\ unprotected \in BOOLEAN /\ gop \in GateOps /\ systemVersion \in Nat \ {0}
  BY DEF CatalogInv, CatalogTyped
<1>m. /\ mem.rt \in Versions /\ mem.nodes \in SUBSET Nodes /\ mem.known \in SomeContext
      /\ mem.rt \in [Catalog!Runtimes -> Nat] /\ mem.rt[System] # 0
  BY <1>t, CatalogFields, VersionFields
<1>p. LaunchPcs = {"idle", "resolve", "verify", "read", "save", "publish", "resolved", "failed"}
  BY DEF LaunchPcs
<1>k. ~unprotected => KnownIn(saved)
  BY DEF CatalogInv, Files
<1>c. ASSUME launches[l].pc # "idle"
      PROVE  launches[l].target \in Contexts /\ launches[l].target.rt \in Catalog!Runtimes
  BY <1>c, LaunchTarget, ContextFields
\* A launch that moves without touching the state.
<1>e. ASSUME NEW p \in {"resolved", "failed", "read"}, Catalog!LaunchTo(l, p),
             launches[l].pc \in {"resolve", "verify", "save"},
             UNCHANGED <<mem, saved, hostOp, overlapped, unprotected>>, Catalog!UnchangedButLaunch,
             p = "failed" \/ launches[l].pc = "verify"
      PROVE  CatalogInv'
  <2> DEFINE X == [launches[l] EXCEPT !.pc = p]
  <2>1. /\ launches' = [launches EXCEPT ![l] = X] /\ X \in CatalogLaunches
        /\ X.target = launches[l].target /\ X.pc = p
    BY <1>e, <1>p, <1>t DEF Catalog!LaunchTo, CatalogLaunches
  <2> HIDE DEF X
  <2>2. HostResolved \/ X.pc = "failed" \/ l = "automation"
    BY <1>e, <2>1 DEF HostResolved, Catalog!Launchers
  <2>3. X.pc \notin {"idle", "save", "publish"}
    BY <1>e, <2>1
  <2>4. /\ CatalogTyped' /\ OpShape(gop)' /\ HostShape' /\ Trees' /\ NodeSnaps' /\ Guarded'
        /\ Files'
    <3>1. UNCHANGED <<hostOp, current, switching, gop, rtFiles, rtBackup, nodeFiles,
                      systemVersion, kept, gens>>
      BY <1>e
    <3>2. mem' \in Catalogs /\ mem' = mem /\ saved' = saved /\ overlapped' = overlapped
          /\ unprotected' = unprotected
      BY <1>e, <1>t
    <3>3. ~unprotected' => ~unprotected /\ KnownIn(saved')
      BY <1>k, <3>2
    <3>4. QED
      BY <1>e, <1>t, <2>1, <2>2, <2>3, <3>1, <3>2, <3>3, LaunchMoves
  <2>5. OneSaver' /\ Saved'
    BY <1>e, <2>1, <2>3, LaunchRests
  <2>6. QED
    BY <2>4, <2>5 DEF CatalogInv
<1>1. ASSUME Catalog!ResolveLaunch(l) PROVE CatalogInv'
  <2> DEFINE c == launches[l].target
             found == /\ c.rt \in Catalog!Registered(mem) /\ Catalog!Present(c.rt)
                      /\ c.node \in (mem.nodes \cap nodeFiles) \cup {0}
                      /\ c.dir \in mem.dirs \cup {0}
  <2>1. /\ launches[l].pc = "resolve" /\ UNCHANGED <<mem, saved, hostOp, overlapped>>
        /\ Catalog!UnchangedButLaunch
    BY <1>1 DEF Catalog!ResolveLaunch
  <2>2. CASE ~found
    <3>1. Catalog!LaunchTo(l, "failed") /\ UNCHANGED unprotected
      BY <1>1, <2>2 DEF Catalog!ResolveLaunch
    <3>2. QED
      BY <1>e, <2>1, <3>1
  <2>3. CASE found
    <3> DEFINE n == mem.rt[c.rt]
               X == [launches[l] EXCEPT !.pc = "verify", !.seen = n]
    <3>1. /\ launches' = [launches EXCEPT ![l].pc = "verify", ![l].seen = n]
          /\ unprotected' = (unprotected \/ Catalog!Installing(c.rt))
      BY <1>1, <2>3 DEF Catalog!ResolveLaunch
    <3>2. n \in Nat
      BY <1>c, <1>m, <2>1
    <3>3. Standing(c.rt) \/ Catalog!Installing(c.rt)
      BY <2>3, CatalogAssumption DEF Standing, Catalog!Present, Catalog!Registered, Catalog!Runtimes
    <3>4. NodeKept(c)
      BY <2>3 DEF NodeKept
    <3>u. unprotected' \in BOOLEAN
      BY <3>1, Zenon
    <3> HIDE DEF n, found
    <3>5. /\ launches' = [launches EXCEPT ![l] = X] /\ X \in CatalogLaunches
          /\ X.target = launches[l].target /\ X.pc = "verify"
      BY <1>p, <1>t, <3>1, <3>2 DEF CatalogLaunches
    <3> HIDE DEF X
    <3>6. ~unprotected' => ~unprotected /\ Standing(X.target.rt) /\ NodeKept(X.target)
      BY <3>1, <3>3, <3>4, <3>5
    <3>7. /\ CatalogTyped' /\ OpShape(gop)' /\ HostShape' /\ Trees' /\ NodeSnaps' /\ Guarded'
          /\ Files'
      <4>1. mem' \in Catalogs /\ mem' = mem /\ saved' = saved /\ overlapped' = overlapped
        BY <1>t, <2>1
      <4>2. UNCHANGED <<hostOp, current, switching, gop, rtFiles, rtBackup, nodeFiles,
                        systemVersion, kept, gens>>
        BY <2>1
      <4>3. QED
        BY <1>k, <1>t, <2>1, <3>5, <3>6, <3>u, <4>1, <4>2, LaunchMoves
    <3>8. OneSaver' /\ Saved'
      BY <2>1, <3>5, LaunchRests
    <3>9. QED
      BY <3>7, <3>8 DEF CatalogInv
  <2>4. QED
    BY <2>2, <2>3
<1>2. ASSUME Catalog!Observe(l) PROVE CatalogInv'
  <2>1. /\ launches[l].pc = "verify" /\ UNCHANGED <<mem, saved, hostOp, overlapped, unprotected>>
        /\ Catalog!UnchangedButLaunch
        /\ \E p \in {"resolved", "failed", "read"} : Catalog!LaunchTo(l, p)
    BY <1>2 DEF Catalog!Observe
  <2>2. QED
    BY <1>e, <2>1
<1>3. ASSUME Catalog!LaunchReads(l) PROVE CatalogInv'
  <2> DEFINE v == launches[l].target.rt
             n == Catalog!Version(v)
             F == [mem.rt EXCEPT ![v] = n]
             S == [mem EXCEPT !.rt = F]
             X == [launches[l] EXCEPT !.pc = "save", !.snap = S]
  <2>1. /\ launches[l].pc = "read"
        /\ launches' = [launches EXCEPT ![l].pc = "save", ![l].snap = S]
        /\ overlapped' = (overlapped \/ Catalog!GateHolding \/ \E k \in Catalog!Launchers : Catalog!Holding(k))
        /\ UNCHANGED <<mem, saved, hostOp, unprotected>>
        /\ Catalog!UnchangedButLaunch
    BY <1>3 DEF Catalog!LaunchReads
  <2>2. v \in Catalog!Runtimes /\ n \in Nat /\ n # 0
    BY <1>c, <1>t, <2>1, CatalogAssumption DEF Catalog!Version, Catalog!Runtimes
  <2>3. F \in Versions /\ \A w \in Catalog!Runtimes : F[w] # mem.rt[w] => F[w] # 0
    <3> HIDE DEF n, v
    <3>1. F \in [Catalog!Runtimes -> Nat]
      BY <1>m, <2>2
    <3>2. \A w \in Catalog!Runtimes : F[w] = IF w = v THEN n ELSE mem.rt[w]
      BY <1>m
    <3> HIDE DEF F
    <3>3. System \in Catalog!Runtimes
      BY DEF Catalog!Runtimes
    <3>4. QED
      BY <1>m, <2>2, <3>1, <3>2, <3>3 DEF Versions
  <2> HIDE DEF F, n, v
  <2>4. /\ S \in Catalogs /\ S.rt = F /\ S.nodes = mem.nodes /\ S.dirs = mem.dirs
        /\ S.rel = mem.rel /\ S.known = mem.known
    BY <1>t, <2>3 DEF Catalogs
  <2> HIDE DEF S
  <2>5. /\ launches' = [launches EXCEPT ![l] = X] /\ X \in CatalogLaunches
        /\ X.target = launches[l].target /\ X.pc = "save" /\ X.snap = S
    BY <1>p, <1>t, <2>1, <2>4 DEF CatalogLaunches
  <2> HIDE DEF X
  <2>6. ~unprotected => KnownIn(S)
    <3>1. ~unprotected => mem.known.node \in mem.nodes \cup {0}
      BY ContextFields DEF CatalogInv, Files, NodeKept
    <3>2. QED
      BY <2>4, <3>1 DEF KnownIn
  <2>o. overlapped' \in BOOLEAN
    BY <2>1, Zenon
  <2>7. HostResolved \/ l = "automation"
    BY <2>1 DEF HostResolved, Catalog!Launchers
  <2>8. /\ CatalogTyped' /\ OpShape(gop)' /\ HostShape' /\ Trees' /\ NodeSnaps' /\ Guarded'
        /\ Files'
    <3>1. mem' \in Catalogs /\ mem' = mem /\ saved' = saved /\ unprotected' = unprotected
      BY <1>t, <2>1
    <3>2. UNCHANGED <<hostOp, current, switching, gop, rtFiles, rtBackup, nodeFiles,
                      systemVersion, kept, gens>>
      BY <2>1
    <3>3. ~unprotected' => ~unprotected /\ KnownIn(saved') /\ KnownIn(X.snap)
      BY <1>k, <2>5, <2>6, <3>1
    <3>4. QED
      BY <1>t, <2>1, <2>5, <2>7, <2>o, <3>1, <3>2, <3>3, LaunchMoves, ZenonT(60)
  <2>9. ASSUME ~overlapped'
        PROVE  /\ ~overlapped /\ ~Catalog!GateHolding
               /\ \A k \in Catalog!Launchers : ~Catalog!Holding(k)
    BY <2>1, <2>9
  <2>10. launches'[l] = X /\ \A k \in Catalog!Launchers : k # l => launches'[k] = launches[k]
    BY <1>t, <2>5
  <2>11. ~Catalog!GateHolding => ~Catalog!GateHolding'
    BY <2>1 DEF Catalog!GateHolding
  <2>12. \A k \in Catalog!Launchers : k # l => (Catalog!Holding(k)' <=> Catalog!Holding(k))
    BY <2>10 DEF Catalog!Holding
  <2>13. OneSaver'
    BY <2>9, <2>11, <2>12 DEF OneSaver
  <2>14. LaunchSnap(l)'
    BY <2>1, <2>3, <2>4, <2>5, <2>10 DEF LaunchSnap
  <2>15. ASSUME ~overlapped'
         PROVE  /\ Catalog!Catalog(mem) = Catalog!Catalog(saved)
                /\ kept \subseteq Catalog!Registered(mem)
    BY <2>9, <2>15 DEF CatalogInv, Saved, Catalog!GateHolding, Catalog!Holding
  <2>16. Saved'
    <3>1. \A k \in Catalog!Launchers : ~overlapped' => launches'[k].pc # "publish"
      BY <2>5, <2>9, <2>10 DEF Catalog!Holding
    <3>2. ~overlapped' => gop'.pc # "publish"
      BY <2>9, <2>11 DEF Catalog!GateHolding
    <3>3. QED
      BY <2>1, <2>9, <2>11, <2>12, <2>14, <2>15, <3>1, <3>2
      DEF Saved, Catalog!Catalog, Catalog!Registered
  <2>17. QED
    BY <2>8, <2>13, <2>16 DEF CatalogInv
<1>4. ASSUME Catalog!LaunchSaves(l) PROVE CatalogInv'
  <2>1. /\ launches[l].pc = "save" /\ UNCHANGED <<mem, hostOp, overlapped, unprotected>>
        /\ Catalog!UnchangedButLaunch
    BY <1>4 DEF Catalog!LaunchSaves
  <2>2. ASSUME Catalog!LaunchTo(l, "failed"), UNCHANGED saved PROVE CatalogInv'
    BY <1>e, <2>1, <2>2
  <2>3. ASSUME Catalog!LaunchTo(l, "publish"), saved' = launches[l].snap PROVE CatalogInv'
    <3> DEFINE X == [launches[l] EXCEPT !.pc = "publish"]
    <3>1. /\ launches' = [launches EXCEPT ![l] = X] /\ X \in CatalogLaunches
          /\ X.target = launches[l].target /\ X.pc = "publish" /\ X.snap = launches[l].snap
      BY <1>p, <1>t, <2>3 DEF Catalog!LaunchTo, CatalogLaunches
    <3> HIDE DEF X
    <3>2. ~unprotected => KnownIn(launches[l].snap)
      BY <2>1 DEF CatalogInv, Files, Catalog!Holding
    <3>3. HostResolved \/ l = "automation"
      BY <2>1 DEF HostResolved, Catalog!Launchers
    <3>4. /\ CatalogTyped' /\ OpShape(gop)' /\ HostShape' /\ Trees' /\ NodeSnaps' /\ Guarded'
          /\ Files'
      <4>1. mem' \in Catalogs /\ mem' = mem /\ unprotected' = unprotected /\ overlapped' = overlapped
            /\ saved' \in Catalogs
        BY <1>t, <2>1, <2>3, LaunchFields
      <4>2. UNCHANGED <<hostOp, current, switching, gop, rtFiles, rtBackup, nodeFiles,
                        systemVersion, kept, gens>>
        BY <2>1
      <4>3. ~unprotected' => ~unprotected /\ KnownIn(saved') /\ KnownIn(X.snap)
        BY <2>3, <3>1, <3>2, <4>1
      <4>4. QED
        BY <1>t, <2>1, <3>1, <3>3, <4>1, <4>2, <4>3, LaunchMoves
    <3>5. launches'[l] = X /\ \A k \in Catalog!Launchers : k # l => launches'[k] = launches[k]
      BY <1>t, <3>1
    <3>6. \A k \in Catalog!Launchers : Catalog!Holding(k)' <=> Catalog!Holding(k)
      BY <2>1, <3>1, <3>5 DEF Catalog!Holding
    <3>7. OneSaver'
      BY <2>1, <3>6 DEF CatalogInv, OneSaver, Catalog!GateHolding
    <3>8. ASSUME ~overlapped
          PROVE  /\ ~Catalog!GateHolding' /\ gop'.pc # "publish" /\ LaunchSnap(l)
                 /\ \A k \in Catalog!Launchers : k # l => ~Catalog!Holding(k)
                 /\ kept \subseteq Catalog!Registered(mem)
      BY <2>1, <3>8 DEF CatalogInv, OneSaver, Saved, Catalog!GateHolding, Catalog!Holding
    <3>9. LaunchSnap(l) => LaunchSnap(l)'
      BY <2>1, <3>1, <3>5 DEF LaunchSnap
    <3>10. Catalog!Catalog(saved)' = Catalog!Catalog(launches[l].snap)'
      BY <2>3, <3>1, <3>5 DEF Catalog!Catalog
    <3>11. \A k \in Catalog!Launchers : k # l /\ ~Catalog!Holding(k) => launches'[k].pc # "publish"
      BY <3>5 DEF Catalog!Holding
    <3>12. Saved'
      BY <2>1, <3>1, <3>5, <3>6, <3>8, <3>9, <3>10, <3>11 DEF Saved, Catalog!Registered
    <3>13. QED
      BY <3>4, <3>7, <3>12 DEF CatalogInv
  <2>4. QED
    BY <1>4, <2>2, <2>3 DEF Catalog!LaunchSaves
<1>5. ASSUME Catalog!LaunchPublishes(l) PROVE CatalogInv'
  <2> DEFINE X == [launches[l] EXCEPT !.pc = "resolved"]
             F == launches[l].snap.rt
  <2>1. /\ launches[l].pc = "publish" /\ UNCHANGED <<saved, hostOp, overlapped, unprotected>>
        /\ Catalog!UnchangedButLaunch /\ mem' = [mem EXCEPT !.rt = F]
    BY <1>5 DEF Catalog!LaunchPublishes
  <2>2. /\ launches' = [launches EXCEPT ![l] = X] /\ X \in CatalogLaunches
        /\ X.target = launches[l].target /\ X.pc = "resolved"
    BY <1>p, <1>t, <1>5 DEF Catalog!LaunchPublishes, Catalog!LaunchTo, CatalogLaunches
  <2>3. F \in Versions
    BY <1>t, LaunchFields, CatalogFields
  <2> HIDE DEF X, F
  <2>4. /\ mem' \in Catalogs /\ mem'.rt = F /\ mem'.nodes = mem.nodes /\ mem'.dirs = mem.dirs
        /\ mem'.rel = mem.rel /\ mem'.known = mem.known /\ mem'.conf = mem.conf
    BY <1>t, <2>1, <2>3 DEF Catalogs
  <2>5. HostResolved \/ l = "automation"
    BY <2>1 DEF HostResolved, Catalog!Launchers
  <2>6. /\ CatalogTyped' /\ OpShape(gop)' /\ HostShape' /\ Trees' /\ NodeSnaps' /\ Guarded'
        /\ Files'
    <3>1. UNCHANGED <<hostOp, current, switching, gop, rtFiles, rtBackup, nodeFiles,
                      systemVersion, kept, gens>>
      BY <2>1
    <3>2. saved' = saved /\ unprotected' = unprotected /\ overlapped' = overlapped
      BY <2>1
    <3>3. ~unprotected' => ~unprotected /\ KnownIn(saved')
      BY <1>k, <3>2
    <3>4. QED
      BY <1>t, <2>1, <2>2, <2>4, <2>5, <3>1, <3>2, <3>3, LaunchMoves
  <2>7. launches'[l] = X /\ \A k \in Catalog!Launchers : k # l => launches'[k] = launches[k]
    BY <1>t, <2>2
  <2>8. ~Catalog!Holding(l)' /\ \A k \in Catalog!Launchers : Catalog!Holding(k)' => Catalog!Holding(k)
    BY <2>2, <2>7 DEF Catalog!Holding
  <2>9. OneSaver'
    BY <2>1, <2>8 DEF CatalogInv, OneSaver, Catalog!GateHolding
  <2>10. ASSUME ~overlapped
         PROVE  /\ ~Catalog!GateHolding' /\ gop'.pc # "publish" /\ LaunchSnap(l)
                /\ \A k \in Catalog!Launchers : ~Catalog!Holding(k)'
                /\ \A k \in Catalog!Launchers : launches'[k].pc # "publish"
                /\ kept \subseteq Catalog!Registered(mem)
                /\ Catalog!Catalog(saved) = Catalog!Catalog(launches[l].snap)
    <3>1. /\ ~Catalog!GateHolding' /\ gop'.pc # "publish" /\ LaunchSnap(l)
          /\ kept \subseteq Catalog!Registered(mem)
          /\ Catalog!Catalog(saved) = Catalog!Catalog(launches[l].snap)
      BY <2>1, <2>10 DEF CatalogInv, OneSaver, Saved, Catalog!GateHolding, Catalog!Holding
    <3>2. \A k \in Catalog!Launchers : k # l => ~Catalog!Holding(k)
      BY <2>1, <2>10 DEF CatalogInv, OneSaver, Catalog!Holding
    <3>3. \A k \in Catalog!Launchers : ~Catalog!Holding(k)'
      BY <2>8, <3>2
    <3>4. QED
      BY <3>1, <3>3 DEF Catalog!Holding
  <2>11. ASSUME ~overlapped
         PROVE  /\ Catalog!Catalog(mem)' = Catalog!Catalog(saved)'
                /\ kept \subseteq Catalog!Registered(mem')
    <3>1. Catalog!Catalog(mem') = Catalog!Catalog(launches[l].snap)
      BY <2>4, <2>10, <2>11 DEF LaunchSnap, Catalog!Catalog, F
    <3>2. kept \subseteq Catalog!Registered(mem')
      BY <2>4, <2>10, <2>11 DEF LaunchSnap, Catalog!Registered, F
    <3>3. QED
      BY <2>1, <2>10, <2>11, <3>1, <3>2 DEF Catalog!Catalog
  <2>12. Saved'
    BY <2>1, <2>10, <2>11 DEF Saved, Catalog!Registered
  <2>13. QED
    BY <2>6, <2>9, <2>12 DEF CatalogInv
<1>6. QED
  BY <1>1, <1>2, <1>3, <1>4, <1>5

-----------------------------------------------------------------------------
(* The Host                                                                *)

\* A start, a switch or a stop goes on: it may clear the current context and take up or
\* drop a launch that holds no snapshot.
LEMMA HostMoves ==
    ASSUME CatalogInv,
           UNCHANGED <<mem, saved, gop, rtFiles, rtBackup, nodeFiles, kept, gens,
                       unprotected, overlapped>>,
           systemVersion' \in Nat \ {0}, current' \in {current, Catalog!NoContext}, hostOp' \in HostOps,
           switching' \in BOOLEAN, launches' \in [Catalog!Launchers -> CatalogLaunches],
           HostShape', HostResolved' => HostResolved /\ hostOp'.target = hostOp.target,
           \A l \in Catalog!Launchers :
              \/ launches'[l] = launches[l]
              \/ /\ launches[l].pc \notin {"save", "publish"}
                 /\ launches'[l].pc \notin {"save", "publish"}
    PROVE  CatalogInv'
<1>1. CatalogTyped'
  BY ContextFields DEF CatalogInv, CatalogTyped
<1>2. OpShape(gop)'
  <2>1. OpShape(gop')
    BY DEF CatalogInv
  <2>2. QED
    BY <2>1 DEF OpShape
<1>3. Trees'
  BY DEF CatalogInv, Trees
<1>4. NodeSnaps'
  BY DEF CatalogInv, NodeSnaps, NodesOf, Catalog!GateHolding, Catalog!InstallsNode
<1>5. Guarded'
  <2>1. Spares(Catalog!NoContext)
    BY ContextFields, CatalogAssumption DEF CatalogInv, OpShape, Spares
  <2>2. QED
    BY <2>1 DEF CatalogInv, Guarded, Spares
<1>6. /\ \A l \in Catalog!Launchers : Catalog!Holding(l)' <=> Catalog!Holding(l)
      /\ \A l \in Catalog!Launchers : launches'[l].pc = "publish" <=> launches[l].pc = "publish"
      /\ \A l \in Catalog!Launchers : Catalog!Holding(l) => launches'[l] = launches[l]
  BY DEF Catalog!Holding
<1>7. Files'
  <2>1. \A v : Standing(v)' <=> Standing(v)
    BY DEF Standing, Catalog!Installing
  <2>2. \A c : NodeKept(c)' <=> NodeKept(c)
    BY DEF NodeKept
  <2>3. ASSUME ~unprotected, current' # Catalog!NoContext
        PROVE  Standing(current.rt)' /\ NodeKept(current)'
    BY <2>1, <2>2, <2>3 DEF CatalogInv, Files
  <2>4. ASSUME ~unprotected, mem.known # Catalog!NoContext
        PROVE  Standing(mem.known.rt)' /\ NodeKept(mem.known)'
    BY <2>1, <2>2, <2>4 DEF CatalogInv, Files
  <2>5. ASSUME ~unprotected, HostResolved'
        PROVE  Standing(hostOp.target.rt)' /\ NodeKept(hostOp.target)'
    BY <2>1, <2>2, <2>5 DEF CatalogInv, Files
  <2>6. ASSUME ~unprotected
        PROVE  /\ KnownIn(saved) /\ (Catalog!GateHolding => KnownIn(gop.snap))
               /\ \A l \in Catalog!Launchers : Catalog!Holding(l) => KnownIn(launches[l].snap)
    BY <2>6 DEF CatalogInv, Files
  <2>7. QED
    BY <1>6, <2>3, <2>4, <2>5, <2>6 DEF Files, KnownIn, Catalog!GateHolding
<1>8. OneSaver'
  BY <1>6 DEF CatalogInv, OneSaver, Catalog!GateHolding
<1>9. Saved'
  <2>1. SUFFICES ASSUME ~overlapped PROVE Saved'
    BY DEF Saved
  <2>2. /\ gop.pc # "publish" /\ (\A k \in Catalog!Launchers : launches[k].pc # "publish") =>
              Catalog!Catalog(mem) = Catalog!Catalog(saved)
        /\ Catalog!GateHolding => GateSnap
        /\ gop.pc = "publish" => Catalog!Catalog(saved) = Catalog!Catalog(gop.snap)
        /\ \A k \in Catalog!Launchers :
              /\ Catalog!Holding(k) => LaunchSnap(k)
              /\ launches[k].pc = "publish" =>
                    Catalog!Catalog(saved) = Catalog!Catalog(launches[k].snap)
        /\ kept \subseteq Catalog!Registered(mem)
    BY <2>1 DEF CatalogInv, Saved
  <2>3. \A k \in Catalog!Launchers : Catalog!Holding(k) /\ LaunchSnap(k) => LaunchSnap(k)'
    BY <1>6 DEF LaunchSnap
  <2>4. GateSnap' <=> GateSnap
    BY DEF GateSnap
  <2>5. \A k \in Catalog!Launchers : launches'[k].pc = "publish" => launches'[k] = launches[k]
    BY <1>6 DEF Catalog!Holding
  <2>6. QED
    BY <1>6, <2>2, <2>3, <2>4, <2>5
    DEF Saved, Catalog!GateHolding, Catalog!Catalog, Catalog!Registered
<1>10. QED
  BY <1>1, <1>2, <1>3, <1>4, <1>5, <1>7, <1>8, <1>9 DEF CatalogInv

\* A start or a switch ends: the guard falls, the catalogue keeps its entries.
LEMMA HostEnds ==
    ASSUME CatalogInv,
           UNCHANGED <<gop, rtFiles, rtBackup, nodeFiles, systemVersion, kept, gens, unprotected>>,
           hostOp' = Catalog!IdleHost, switching' = FALSE,
           launches' = [launches EXCEPT !["host"] = Catalog!IdleLaunch],
           overlapped' = (overlapped \/ Catalog!GateHolding
                             \/ \E l \in Catalog!Launchers : Catalog!Holding(l)),
           mem' \in Catalogs, saved' \in Catalogs, current' \in SomeContext,
           mem'.rt = mem.rt, mem'.nodes = mem.nodes, mem'.dirs = mem.dirs, mem'.rel = mem.rel,
           saved' = saved \/ saved' = mem', Guarded',
           ~unprotected =>
              /\ current' # Catalog!NoContext => Standing(current'.rt) /\ NodeKept(current')
              /\ mem'.known # Catalog!NoContext => Standing(mem'.known.rt) /\ NodeKept(mem'.known)
              /\ KnownIn(saved')
    PROVE  CatalogInv'
<1>t. launches \in [Catalog!Launchers -> CatalogLaunches] /\ Catalog!Launchers = {"host", "automation"}
  BY DEF CatalogInv, CatalogTyped, Catalog!Launchers
<1>l. /\ launches' \in [Catalog!Launchers -> CatalogLaunches] /\ launches'["host"].pc = "idle"
      /\ launches'["automation"] = launches["automation"]
  BY <1>t, IdleLaunchTyped
<1>h. \A l \in Catalog!Launchers : Catalog!Holding(l)' => Catalog!Holding(l) /\ launches'[l] = launches[l]
  BY <1>l, <1>t DEF Catalog!Holding
<1>1. CatalogTyped'
  <2>1. overlapped' \in BOOLEAN
    BY Zenon
  <2>2. QED
    BY <1>l, <2>1, HostFields DEF CatalogInv, CatalogTyped
<1>2. OpShape(gop)'
  <2>1. OpShape(gop')
    BY DEF CatalogInv
  <2>2. QED
    BY <2>1 DEF OpShape
<1>3. HostShape'
  BY <1>l, HostFields DEF CatalogInv, HostShape
<1>4. Trees'
  BY DEF CatalogInv, Trees
<1>5. NodeSnaps'
  BY DEF CatalogInv, NodeSnaps, NodesOf, Catalog!GateHolding, Catalog!InstallsNode
<1>6. Files'
  <2>1. \A v : Standing(v)' <=> Standing(v)
    BY DEF Standing, Catalog!Installing
  <2>2. \A c : NodeKept(c)' <=> NodeKept(c)
    BY DEF NodeKept
  <2>3. ~HostResolved'
    BY <1>l DEF HostResolved
  <2>4. ASSUME ~unprotected
        PROVE  /\ Catalog!GateHolding' => KnownIn(gop.snap)'
               /\ \A l \in Catalog!Launchers : Catalog!Holding(l)' => KnownIn(launches[l].snap)'
    BY <1>h, <2>4 DEF CatalogInv, Files, KnownIn, Catalog!GateHolding
  <2>5. ASSUME ~unprotected, current' # Catalog!NoContext
        PROVE  Standing(current.rt)' /\ NodeKept(current)'
    BY <2>5 DEF Standing, NodeKept, Catalog!Installing
  <2>6. ASSUME ~unprotected, mem'.known # Catalog!NoContext
        PROVE  Standing(mem.known.rt)' /\ NodeKept(mem.known)'
    BY <2>6 DEF Standing, NodeKept, Catalog!Installing
  <2>7. QED
    BY <2>3, <2>4, <2>5, <2>6 DEF Files, KnownIn
<1>7. ASSUME ~overlapped'
      PROVE  /\ ~overlapped /\ ~Catalog!GateHolding' /\ gop'.pc # "publish"
             /\ \A l \in Catalog!Launchers : ~Catalog!Holding(l)
             /\ \A l \in Catalog!Launchers : ~Catalog!Holding(l)'
             /\ \A l \in Catalog!Launchers : launches'[l].pc # "publish"
             /\ \A l \in Catalog!Launchers : launches[l].pc # "publish"
  BY <1>7, <1>h DEF Catalog!GateHolding, Catalog!Holding
<1>8. OneSaver'
  BY <1>7 DEF OneSaver
<1>9. Saved'
  <2>1. ASSUME ~overlapped'
        PROVE  Catalog!Catalog(mem) = Catalog!Catalog(saved) /\ kept \subseteq Catalog!Registered(mem)
    BY <1>7, <2>1 DEF CatalogInv, Saved
  <2>2. Catalog!Catalog(mem') = Catalog!Catalog(mem) /\ Catalog!Registered(mem') = Catalog!Registered(mem)
    BY DEF Catalog!Catalog, Catalog!Registered
  <2>3. ASSUME ~overlapped'
        PROVE  Catalog!Catalog(mem') = Catalog!Catalog(saved') /\ kept \subseteq Catalog!Registered(mem')
    BY <2>1, <2>2, <2>3 DEF Catalog!Catalog
  <2>4. QED
    BY <1>7, <2>3 DEF Saved, Catalog!Catalog, Catalog!Registered
<1>10. QED
  BY <1>1, <1>2, <1>3, <1>4, <1>5, <1>6, <1>8, <1>9 DEF CatalogInv

\* A launch begins on a context.
LEMMA LaunchBegins ==
    ASSUME CatalogInv, NEW l \in Catalog!Launchers, NEW c \in Contexts,
           launches' = [launches EXCEPT ![l] = [Catalog!IdleLaunch EXCEPT !.pc = "resolve", !.target = c]]
    PROVE  /\ launches' \in [Catalog!Launchers -> CatalogLaunches]
           /\ launches'[l].pc = "resolve" /\ launches'[l].target = c
           /\ \A k \in Catalog!Launchers : k # l => launches'[k] = launches[k]
<1> DEFINE I == Catalog!IdleLaunch
           X == [I EXCEPT !.pc = "resolve", !.target = c]
<1>1. I \in CatalogLaunches /\ c \in SomeContext /\ "resolve" \in LaunchPcs
  BY IdleLaunchTyped, ContextFields DEF LaunchPcs
<1>2. launches \in [Catalog!Launchers -> CatalogLaunches] /\ launches' = [launches EXCEPT ![l] = X]
  BY DEF CatalogInv, CatalogTyped
<1> HIDE DEF I
<1>3. X \in CatalogLaunches /\ X.pc = "resolve" /\ X.target = c
  BY <1>1 DEF CatalogLaunches
<1> HIDE DEF X
<1>4. QED
  BY <1>2, <1>3

\* The Host's steps, the automation runtimes' launches, updates of the system runtime.
LEMMA CatalogHostStep ==
    ASSUME CatalogInv,
           \/ Catalog!AutomationResolves \/ Catalog!AutomationReturns \/ Catalog!HostStarts
           \/ \E c \in Contexts : Catalog!BeginRunContextSwitch(c)
           \/ Catalog!Drain \/ Catalog!ClearCurrent \/ Catalog!HostStops \/ Catalog!Drift
    PROVE  CatalogInv'
<1> USE DEF Catalog!UnchangedButHost, Catalog!UnchangedButLaunch
<1>t. /\ launches \in [Catalog!Launchers -> CatalogLaunches] /\ hostOp \in HostOps
      /\ Catalog!Launchers = {"host", "automation"} /\ systemVersion \in Nat \ {0}
      /\ switching \in BOOLEAN /\ mem.conf \in Contexts /\ current \in SomeContext
  BY CatalogFields DEF CatalogInv, CatalogTyped, Catalog!Launchers
<1>h. HostShape /\ hostOp.pc \in {"idle", "drain", "launch", "run"}
      /\ hostOp.kind \in {"idle", "start", "switch"}
  BY <1>t, HostFields DEF CatalogInv
<1>1. ASSUME Catalog!AutomationResolves PROVE CatalogInv'
  <2>1. /\ launches["automation"].pc = "idle" /\ current # Catalog!NoContext
        /\ launches' = [launches EXCEPT !["automation"] = [Catalog!IdleLaunch EXCEPT
                            !.pc = "resolve", !.target = current]]
        /\ UNCHANGED <<mem, saved, current, switching, gop, hostOp, rtFiles, rtBackup, nodeFiles,
                       systemVersion, kept, overlapped, gens, unprotected>>
    BY <1>1 DEF Catalog!AutomationResolves
  <2>2. current \in Contexts
    BY <1>t, <2>1 DEF SomeContext
  <2>3. /\ launches' \in [Catalog!Launchers -> CatalogLaunches]
        /\ launches'["automation"].pc = "resolve" /\ launches'["automation"].target = current
        /\ launches'["host"] = launches["host"]
    BY <1>t, <2>1, <2>2, LaunchBegins
  <2>4. HostShape'
    BY <1>h, <2>1, <2>2, <2>3 DEF HostShape
  <2>5. HostResolved' <=> HostResolved
    BY <2>3 DEF HostResolved
  <2>6. QED
    BY <1>t, <2>1, <2>3, <2>4, <2>5, HostMoves
<1>2. ASSUME Catalog!AutomationReturns PROVE CatalogInv'
  <2>1. /\ launches["automation"].pc \in {"resolved", "failed"}
        /\ launches' = [launches EXCEPT !["automation"] = Catalog!IdleLaunch]
        /\ UNCHANGED <<mem, saved, current, switching, gop, hostOp, rtFiles, rtBackup, nodeFiles,
                       systemVersion, kept, overlapped, gens, unprotected>>
    BY <1>2 DEF Catalog!AutomationReturns
  <2>3. /\ launches' \in [Catalog!Launchers -> CatalogLaunches]
        /\ launches'["automation"].pc = "idle" /\ launches'["host"] = launches["host"]
    BY <1>t, <2>1, IdleLaunchTyped
  <2>4. HostShape'
    BY <1>h, <2>1, <2>3 DEF HostShape
  <2>5. HostResolved' <=> HostResolved
    BY <2>3 DEF HostResolved
  <2>6. QED
    BY <1>t, <2>1, <2>3, <2>4, <2>5, HostMoves
<1>3. ASSUME Catalog!HostStarts PROVE CatalogInv'
  <2>1. /\ hostOp = Catalog!IdleHost /\ current = Catalog!NoContext /\ gop.kind # "configure"
        /\ hostOp' = [kind |-> "start", pc |-> "launch", target |-> mem.conf]
        /\ launches' = [launches EXCEPT !["host"] = [Catalog!IdleLaunch EXCEPT
                            !.pc = "resolve", !.target = mem.conf]]
        /\ UNCHANGED <<mem, saved, current, switching, gop, rtFiles, rtBackup, nodeFiles,
                       systemVersion, kept, overlapped, gens, unprotected>>
    BY <1>3 DEF Catalog!HostStarts, Catalog!HostLaunch, Catalog!NoCLI
  <2>2. /\ hostOp' \in HostOps /\ hostOp'.kind = "start" /\ hostOp'.pc = "launch"
        /\ hostOp'.target = mem.conf /\ hostOp.kind = "idle" /\ hostOp.pc = "idle"
    BY <1>t, <2>1, ContextFields, HostFields DEF HostOps
  <2>3. /\ launches' \in [Catalog!Launchers -> CatalogLaunches]
        /\ launches'["host"].pc = "resolve" /\ launches'["host"].target = mem.conf
        /\ launches'["automation"] = launches["automation"]
    BY <1>t, <2>1, LaunchBegins
  <2>4. HostShape'
    BY <1>h, <1>t, <2>1, <2>2, <2>3 DEF HostShape
  <2>5. ~HostResolved' /\ launches["host"].pc = "idle"
    BY <1>h, <2>2, <2>3 DEF HostResolved, HostShape
  <2>6. QED
    BY <1>t, <2>1, <2>2, <2>3, <2>4, <2>5, HostMoves
<1>4. ASSUME NEW c \in Contexts, Catalog!BeginRunContextSwitch(c) PROVE CatalogInv'
  <2>1. /\ hostOp = Catalog!IdleHost /\ ~switching /\ gop.kind # "configure" /\ switching' = TRUE
        /\ hostOp' = [kind |-> "switch", pc |-> "drain", target |-> c]
        /\ UNCHANGED <<mem, saved, current, launches, gop, rtFiles, rtBackup, nodeFiles,
                       systemVersion, kept, overlapped, gens, unprotected>>
    BY <1>4 DEF Catalog!BeginRunContextSwitch, Catalog!NoCLI
  <2>2. /\ hostOp' \in HostOps /\ hostOp'.kind = "switch" /\ hostOp'.pc = "drain"
        /\ hostOp'.target = c /\ hostOp.kind = "idle" /\ hostOp.pc = "idle"
    BY <2>1, ContextFields, HostFields DEF HostOps
  <2>3. HostShape'
    BY <1>h, <2>1, <2>2 DEF HostShape
  <2>4. ~HostResolved'
    BY <1>h, <2>1, <2>2 DEF HostShape, HostResolved
  <2>5. switching' \in BOOLEAN
    BY <2>1
  <2>6. QED
    BY <1>t, <2>1, <2>2, <2>3, <2>4, <2>5, HostMoves
<1>5. ASSUME Catalog!Drain PROVE CatalogInv'
  <2>1. /\ hostOp.pc = "drain"
        /\ UNCHANGED <<mem, saved, current, gop, rtFiles, rtBackup, nodeFiles,
                       systemVersion, kept, overlapped, gens, unprotected>>
    BY <1>5 DEF Catalog!Drain
  <2>2. hostOp.kind = "switch" /\ hostOp.target \in Contexts /\ launches["host"].pc = "idle"
    BY <1>h, <2>1 DEF HostShape
  <2>3. ASSUME gop.pc = "idle", hostOp' = [hostOp EXCEPT !.pc = "launch"],
               launches' = [launches EXCEPT !["host"] = [Catalog!IdleLaunch EXCEPT
                               !.pc = "resolve", !.target = hostOp.target]],
               UNCHANGED switching
        PROVE  CatalogInv'
    <3>1. /\ hostOp' \in HostOps /\ hostOp'.kind = "switch" /\ hostOp'.pc = "launch"
          /\ hostOp'.target = hostOp.target
      BY <1>t, <2>2, <2>3 DEF HostOps
    <3>2. /\ launches' \in [Catalog!Launchers -> CatalogLaunches]
          /\ launches'["host"].pc = "resolve" /\ launches'["host"].target = hostOp.target
          /\ launches'["automation"] = launches["automation"]
      BY <1>t, <2>2, <2>3, LaunchBegins
    <3>3. gop.kind = "idle"
      BY <2>3 DEF CatalogInv, OpShape
    <3>4. HostShape'
      BY <1>h, <2>1, <2>2, <2>3, <3>1, <3>2, <3>3 DEF HostShape
    <3>5. ~HostResolved'
      BY <3>2 DEF HostResolved
    <3>6. QED
      BY <1>t, <2>1, <2>2, <2>3, <3>1, <3>2, <3>4, <3>5, HostMoves
  <2>4. ASSUME switching' = FALSE, hostOp' = Catalog!IdleHost, UNCHANGED launches
        PROVE  CatalogInv'
    <3>1. hostOp' \in HostOps /\ hostOp'.kind = "idle" /\ hostOp'.pc = "idle"
      BY <2>4, HostFields
    <3>2. HostShape'
      BY <1>h, <2>1, <2>2, <2>4, <3>1 DEF HostShape
    <3>3. ~HostResolved' /\ switching' \in BOOLEAN
      BY <2>2, <2>4 DEF HostResolved
    <3>4. QED
      BY <1>t, <2>1, <2>4, <3>1, <3>2, <3>3, HostMoves
  <2>5. QED
    BY <1>5, <2>3, <2>4 DEF Catalog!Drain, Catalog!HostLaunch, Catalog!GateFree
<1>6. ASSUME Catalog!ClearCurrent PROVE CatalogInv'
  <2>1. /\ hostOp.kind = "switch" /\ hostOp.pc = "launch" /\ launches["host"].pc = "resolved"
        /\ hostOp' = [hostOp EXCEPT !.pc = "run"] /\ current' = Catalog!NoContext
        /\ UNCHANGED <<mem, saved, switching, launches, gop, rtFiles, rtBackup, nodeFiles,
                       systemVersion, kept, overlapped, gens, unprotected>>
    BY <1>6 DEF Catalog!ClearCurrent
  <2>2. /\ hostOp' \in HostOps /\ hostOp'.kind = "switch" /\ hostOp'.pc = "run"
        /\ hostOp'.target = hostOp.target
    BY <1>t, <2>1 DEF HostOps
  <2>3. HostShape'
    BY <1>h, <2>1, <2>2 DEF HostShape
  <2>4. HostResolved' <=> HostResolved
    BY <2>1 DEF HostResolved
  <2>5. QED
    BY <1>t, <2>1, <2>2, <2>3, <2>4, HostMoves
<1>7. ASSUME Catalog!HostStops PROVE CatalogInv'
  <2>1. /\ hostOp = Catalog!IdleHost /\ current' = Catalog!NoContext
        /\ UNCHANGED <<mem, saved, switching, launches, hostOp, gop, rtFiles, rtBackup, nodeFiles,
                       systemVersion, kept, overlapped, gens, unprotected>>
    BY <1>7 DEF Catalog!HostStops
  <2>2. HostShape'
    BY <1>h, <2>1 DEF HostShape
  <2>3. HostResolved' <=> HostResolved
    BY <2>1 DEF HostResolved
  <2>4. QED
    BY <1>t, <2>1, <2>2, <2>3, HostMoves
<1>8. ASSUME Catalog!Drift PROVE CatalogInv'
  <2>1. /\ systemVersion' = systemVersion + 1
        /\ UNCHANGED <<mem, saved, current, switching, launches, hostOp, gop, rtFiles, rtBackup,
                       nodeFiles, kept, overlapped, gens, unprotected>>
    BY <1>8 DEF Catalog!Drift
  <2>2. systemVersion' \in Nat \ {0}
    BY <1>t, <2>1
  <2>3. HostShape' /\ (HostResolved' <=> HostResolved)
    BY <1>h, <2>1 DEF HostShape, HostResolved
  <2>4. QED
    BY <1>t, <2>1, <2>2, <2>3, HostMoves
<1>9. QED
  BY <1>1, <1>2, <1>3, <1>4, <1>5, <1>6, <1>7, <1>8

\* A start or a switch that ends has resolved its target, or leaves it alone.
LEMMA CatalogHostEnd ==
    ASSUME CatalogInv,
           \/ \E ok, verified \in BOOLEAN : Catalog!CommitHealthy(ok, verified)
           \/ \E configure \in BOOLEAN : Catalog!LaunchFails(configure)
    PROVE  CatalogInv'
<1> USE DEF Catalog!UnchangedButHost
<1> DEFINE c == hostOp.target
<1>t. /\ mem \in Catalogs /\ saved \in Catalogs /\ current \in SomeContext /\ hostOp \in HostOps
      /\ launches \in [Catalog!Launchers -> CatalogLaunches] /\ OpShape(gop)
      /\ HostShape
  BY DEF CatalogInv, CatalogTyped
<1>h. /\ hostOp.kind \in {"idle", "start", "switch"} /\ hostOp.pc \in {"idle", "drain", "launch", "run"}
  BY <1>t, HostFields
<1>c. ASSUME Catalog!Committing \/ (hostOp.pc = "launch" /\ launches["host"].pc = "failed")
      PROVE  /\ hostOp.kind # "idle" /\ c \in Contexts /\ hostOp.pc \in {"launch", "run"}
             /\ Catalog!Committing => HostResolved
  BY <1>c, <1>h, <1>t DEF HostShape, Catalog!Committing, HostResolved
<1>k. ASSUME ~unprotected
      PROVE  /\ current # Catalog!NoContext => Standing(current.rt) /\ NodeKept(current)
             /\ mem.known # Catalog!NoContext => Standing(mem.known.rt) /\ NodeKept(mem.known)
             /\ HostResolved => Standing(c.rt) /\ NodeKept(c)
             /\ KnownIn(saved) /\ mem.known.node \in mem.nodes \cup {0}
  BY <1>k, ContextFields DEF CatalogInv, Files, NodeKept
<1>g. Guarded
  BY DEF CatalogInv
<1>1. ASSUME NEW ok \in BOOLEAN, NEW verified \in BOOLEAN, Catalog!CommitHealthy(ok, verified)
      PROVE  CatalogInv'
  <2> DEFINE k == IF verified THEN c ELSE mem.known
             s == [mem EXCEPT !.conf = c, !.known = k]
             f == [mem EXCEPT !.conf = c]
  <2>1. /\ Catalog!Committing /\ gop.pc = "idle"
        /\ saved' = (IF ok THEN s ELSE saved) /\ mem' = (IF ok THEN s ELSE f) /\ current' = c
        /\ overlapped' = (overlapped \/ \E l \in Catalog!Launchers : Catalog!Holding(l))
        /\ switching' = FALSE /\ hostOp' = Catalog!IdleHost
        /\ launches' = [launches EXCEPT !["host"] = Catalog!IdleLaunch]
        /\ UNCHANGED <<gop, rtFiles, rtBackup, nodeFiles, systemVersion, kept, gens, unprotected>>
    BY <1>1 DEF Catalog!CommitHealthy, Catalog!GateFree
  <2>2. c \in Contexts /\ HostResolved
    BY <1>c, <2>1
  <2>3. k \in SomeContext /\ c \in SomeContext
    BY <1>t, <2>2, CatalogFields, ContextFields
  <2>4. k = c \/ k = mem.known
    OBVIOUS
  <2> HIDE DEF k, c
  <2>5. /\ s \in Catalogs /\ s.rt = mem.rt /\ s.nodes = mem.nodes /\ s.dirs = mem.dirs
        /\ s.rel = mem.rel /\ s.known = k
    BY <1>t, <2>2, <2>3 DEF Catalogs
  <2>6. /\ f \in Catalogs /\ f.rt = mem.rt /\ f.nodes = mem.nodes /\ f.dirs = mem.dirs
        /\ f.rel = mem.rel /\ f.known = mem.known
    BY <1>t, <2>2 DEF Catalogs
  <2> HIDE DEF s, f
  <2>7. /\ mem' \in Catalogs /\ mem'.rt = mem.rt /\ mem'.nodes = mem.nodes /\ mem'.dirs = mem.dirs
        /\ mem'.rel = mem.rel /\ mem'.known \in {mem.known, c} /\ saved' \in Catalogs
        /\ saved' = saved \/ saved' = mem'
    BY <1>t, <2>1, <2>4, <2>5, <2>6
  <2>8. gop.kind = "idle"
    BY <1>t, <2>1 DEF OpShape
  <2>9. Guarded'
    BY <2>1, <2>8 DEF Guarded, Spares
  <2>10. ~Catalog!GateHolding
    BY <2>1 DEF Catalog!GateHolding
  <2>11. ASSUME ~unprotected
         PROVE  /\ current' # Catalog!NoContext => Standing(current'.rt) /\ NodeKept(current')
                /\ mem'.known # Catalog!NoContext => Standing(mem'.known.rt) /\ NodeKept(mem'.known)
                /\ KnownIn(saved')
    <3>1. Standing(c.rt) /\ NodeKept(c) /\ c.node \in mem.nodes \cup {0}
      BY <1>k, <2>2, <2>11 DEF NodeKept, c
    <3>2. mem'.known.node \in mem.nodes \cup {0}
      BY <1>k, <2>7, <2>11, <3>1
    <3>3. KnownIn(saved')
      BY <1>k, <2>7, <2>11, <3>2 DEF KnownIn
    <3>4. mem'.known # Catalog!NoContext => Standing(mem'.known.rt) /\ NodeKept(mem'.known)
      BY <1>k, <2>7, <2>11, <3>1
    <3>5. QED
      BY <2>1, <3>1, <3>3, <3>4
  <2>12. overlapped' = (overlapped \/ Catalog!GateHolding
                             \/ \E l \in Catalog!Launchers : Catalog!Holding(l))
    BY <2>1, <2>10
  <2>13. current' \in SomeContext
    BY <2>1, <2>3
  <2>14. QED
    BY <2>1, <2>7, <2>9, <2>11, <2>12, <2>13, HostEnds
<1>2. ASSUME NEW configure \in BOOLEAN, Catalog!LaunchFails(configure) PROVE CatalogInv'
  <2> DEFINE d == IF configure THEN c ELSE mem.conf
             s == [mem EXCEPT !.conf = d]
  <2>1. /\ Catalog!Committing \/ (hostOp.pc = "launch" /\ launches["host"].pc = "failed")
        /\ IF hostOp.kind = "switch" THEN saved' = s /\ mem' = s ELSE UNCHANGED <<saved, mem>>
        /\ overlapped' = (overlapped \/ Catalog!GateHolding
                             \/ \E l \in Catalog!Launchers : Catalog!Holding(l))
        /\ switching' = FALSE /\ hostOp' = Catalog!IdleHost
        /\ launches' = [launches EXCEPT !["host"] = Catalog!IdleLaunch]
        /\ UNCHANGED <<current, gop, rtFiles, rtBackup, nodeFiles, systemVersion, kept, gens, unprotected>>
    BY <1>2 DEF Catalog!LaunchFails
  <2>2. c \in Contexts /\ hostOp.pc \in {"launch", "run"}
    BY <1>c, <2>1
  <2>3. d \in Contexts
    BY <1>t, <2>2, CatalogFields
  <2> HIDE DEF d, c
  <2>4. /\ s \in Catalogs /\ s.rt = mem.rt /\ s.nodes = mem.nodes /\ s.dirs = mem.dirs
        /\ s.rel = mem.rel /\ s.known = mem.known
    BY <1>t, <2>3 DEF Catalogs
  <2> HIDE DEF s
  <2>5. /\ mem' \in Catalogs /\ mem'.rt = mem.rt /\ mem'.nodes = mem.nodes /\ mem'.dirs = mem.dirs
        /\ mem'.rel = mem.rel /\ mem'.known = mem.known /\ saved' \in Catalogs
        /\ saved' = saved \/ saved' = mem'
    BY <1>t, <2>1, <2>4
  <2>6. hostOp.kind = "switch" => gop.kind \in {"idle", "releases"}
    BY <1>t, <2>2 DEF HostShape
  <2>7. Guarded'
    <3>1. CASE hostOp.kind = "switch"
      BY <2>1, <2>6, <3>1 DEF Guarded, Spares
    <3>2. CASE hostOp.kind # "switch"
      BY <1>g, <2>1, <3>2 DEF Guarded, Spares
    <3>3. QED
      BY <3>1, <3>2
  <2>8. ASSUME ~unprotected
        PROVE  /\ current' # Catalog!NoContext => Standing(current'.rt) /\ NodeKept(current')
               /\ mem'.known # Catalog!NoContext => Standing(mem'.known.rt) /\ NodeKept(mem'.known)
               /\ KnownIn(saved')
    <3>1. KnownIn(saved')
      BY <1>k, <2>5, <2>8 DEF KnownIn
    <3>2. QED
      BY <1>k, <2>1, <2>5, <2>8, <3>1
  <2>9. QED
    BY <1>t, <2>1, <2>5, <2>7, <2>8, HostEnds
<1>3. QED
  BY <1>1, <1>2

\* The process dies, and New reads state.json.
LEMMA CatalogCrash ==
    ASSUME CatalogInv, Catalog!CrashCatalog
    PROVE  CatalogInv'
<1>t. saved \in Catalogs /\ rtFiles \in [Managed -> Nat] /\ saved.rt \in Versions
  BY CatalogFields DEF CatalogInv, CatalogTyped
<1>r. saved.rt[System] # 0 /\ saved.rt \in [Catalog!Runtimes -> Nat]
  BY <1>t, VersionFields
<1>1. /\ mem' = [saved EXCEPT !.rt[System] = IF saved.rt[System] = 0 THEN 1 ELSE saved.rt[System]]
      /\ current' = Catalog!NoContext /\ switching' = FALSE /\ gop' = Catalog!IdleGop
      /\ launches' = [l \in Catalog!Launchers |-> Catalog!IdleLaunch] /\ hostOp' = Catalog!IdleHost
      /\ rtBackup' = [v \in Managed |-> 0] /\ kept' = Catalog!Registered(saved) \ {System}
      /\ overlapped' = FALSE /\ unprotected' = (unprotected \/ saved.known # mem.known)
      /\ UNCHANGED <<saved, rtFiles, nodeFiles, systemVersion, gens>>
  BY DEF Catalog!CrashCatalog
<1>2. mem' = saved
  <2> DEFINE F == [saved.rt EXCEPT ![System] = saved.rt[System]]
  <2>1. F = saved.rt
    BY <1>r
  <2>2. mem' = [saved EXCEPT !.rt = F]
    BY <1>1, <1>r
  <2> HIDE DEF F
  <2>3. QED
    BY <1>t, <2>1, <2>2 DEF Catalogs
<1>3. /\ gop' \in GateOps /\ gop'.kind = "idle" /\ gop'.pc = "idle" /\ OpShape(gop')
  BY <1>1, IdleTyped
<1>4. /\ launches' \in [Catalog!Launchers -> CatalogLaunches]
      /\ \A l \in Catalog!Launchers : launches'[l].pc = "idle"
      /\ {"host", "automation"} = Catalog!Launchers
  BY <1>1, IdleLaunchTyped DEF Catalog!Launchers
<1>5. hostOp' \in HostOps /\ hostOp'.kind = "idle" /\ hostOp'.pc = "idle"
  BY <1>1, HostFields
<1>6. CatalogTyped'
  <2>1. unprotected' \in BOOLEAN /\ overlapped' \in BOOLEAN /\ switching' \in BOOLEAN
    BY <1>1, Zenon
  <2>2. kept' \subseteq Managed
    BY <1>1 DEF Catalog!Registered, Catalog!Runtimes
  <2>3. rtBackup' \in [Managed -> Nat]
    BY <1>1
  <2>4. QED
    BY <1>1, <1>2, <1>3, <1>4, <1>5, <1>t, <2>1, <2>2, <2>3, ContextFields DEF CatalogInv, CatalogTyped
<1>7. OpShape(gop)'
  BY <1>3 DEF OpShape
<1>8. HostShape'
  BY <1>1, <1>3, <1>4, <1>5 DEF HostShape
<1>9. Trees' /\ NodeSnaps' /\ Guarded'
  BY <1>1, <1>3 DEF Trees, NodeSnaps, Guarded, Spares, Catalog!GateHolding
<1>10. Files'
  <2>1. ASSUME ~unprotected', mem'.known # Catalog!NoContext
        PROVE  Standing(mem.known.rt)' /\ NodeKept(mem.known)'
    <3>1. /\ ~unprotected /\ saved.known = mem.known /\ mem.known # Catalog!NoContext
          /\ mem'.known = mem.known
      BY <1>1, <1>2, <2>1
    <3>2. Standing(mem.known.rt) /\ NodeKept(mem.known) /\ KnownIn(saved) /\ Spares(mem.known)
      BY <3>1 DEF CatalogInv, Files, Guarded
    <3>3. mem.known.rt \in Managed => rtFiles[mem.known.rt] # 0
      BY <3>2 DEF Standing, Spares, Catalog!Installing
    <3>4. mem.known.node \in (nodeFiles \cap saved.nodes) \cup {0}
      BY <3>1, <3>2 DEF NodeKept, KnownIn
    <3>5. QED
      BY <1>1, <1>2, <1>3, <3>1, <3>3, <3>4 DEF Standing, NodeKept, Catalog!Installing
  <2>2. ~unprotected' => KnownIn(saved')
    BY <1>1 DEF CatalogInv, Files
  <2>3. ~HostResolved' /\ ~Catalog!GateHolding' /\ \A l \in Catalog!Launchers : ~Catalog!Holding(l)'
    BY <1>3, <1>4 DEF HostResolved, Catalog!GateHolding, Catalog!Holding
  <2>4. QED
    BY <1>1, <2>1, <2>2, <2>3 DEF Files, KnownIn
<1>11. OneSaver'
  BY <1>3, <1>4 DEF OneSaver, Catalog!GateHolding, Catalog!Holding
<1>12. Saved'
  BY <1>1, <1>2, <1>3, <1>4 DEF Saved, Catalog!GateHolding, Catalog!Holding, Catalog!Catalog, Catalog!Registered
<1>13. QED
  BY <1>6, <1>7, <1>8, <1>9, <1>10, <1>11, <1>12 DEF CatalogInv

-----------------------------------------------------------------------------
(* The specification                                                       *)

\* The catalogue of a first start.
LEMMA CatalogStart ==
    ASSUME Catalog!Init
    PROVE  CatalogInv
<1> USE DEF Catalog!Init
<1>1. /\ mem \in Catalogs /\ saved = mem /\ mem.known = Catalog!NoContext /\ mem.nodes = {}
  BY BaseTyped
<1>2. gop \in GateOps /\ gop.kind = "idle" /\ gop.pc = "idle" /\ OpShape(gop)
  BY IdleTyped
<1>3. /\ launches \in [Catalog!Launchers -> CatalogLaunches]
      /\ \A l \in Catalog!Launchers : launches[l].pc = "idle"
      /\ {"host", "automation"} = Catalog!Launchers
  BY IdleLaunchTyped DEF Catalog!Launchers
<1>4. hostOp \in HostOps /\ hostOp.kind = "idle" /\ hostOp.pc = "idle"
  BY HostFields
<1>5. CatalogTyped
  <2>1. current \in SomeContext
    BY ContextFields
  <2>2. rtFiles \in [Managed -> Nat] /\ rtBackup \in [Managed -> Nat]
    OBVIOUS
  <2>3. systemVersion \in Nat \ {0} /\ gens \in Nat
    OBVIOUS
  <2>4. nodeFiles \subseteq Nodes /\ kept \subseteq Managed
    OBVIOUS
  <2>5. switching \in BOOLEAN /\ overlapped \in BOOLEAN /\ unprotected \in BOOLEAN
    BY Zenon
  <2>6. QED
    <3> USE DEF CatalogTyped
    <3> HIDE DEF Catalog!Init
    <3>1. QED
      BY <1>1, <1>2, <1>3, <1>4, <2>1, <2>2, <2>3, <2>4, <2>5
<1>6. HostShape
  BY <1>2, <1>3, <1>4 DEF HostShape
<1>7. Trees /\ NodeSnaps /\ Guarded
  BY <1>2 DEF Trees, NodeSnaps, Guarded, Spares, Catalog!GateHolding
<1>8. Files
  BY <1>1, <1>2, <1>3, ContextFields
  DEF Files, KnownIn, HostResolved, Catalog!GateHolding, Catalog!Holding
<1>9. OneSaver /\ Saved
  BY <1>1, <1>2, <1>3 DEF OneSaver, Saved, Catalog!GateHolding, Catalog!Holding
<1>10. QED
  BY <1>2, <1>5, <1>6, <1>7, <1>8, <1>9 DEF CatalogInv

\* Every step of the catalogue keeps the invariant.
LEMMA CatalogStep ==
    ASSUME CatalogInv, [Catalog!Next]_catalogVars
    PROVE  CatalogInv'
<1>1. CASE Catalog!Next
  BY <1>1, CatalogBegins, CatalogWorks, OpReadsKeeps, OpSavesKeeps, OpSaveFailsKeeps,
     OpPublishesKeeps, CatalogLaunchStep, CatalogHostStep, CatalogHostEnd, CatalogCrash
  DEF Catalog!Next
<1>2. CASE UNCHANGED catalogVars
  <2>1. /\ UNCHANGED <<mem, saved, gop, rtFiles, rtBackup, nodeFiles, kept, gens, unprotected,
                       overlapped, systemVersion, current, hostOp, switching, launches>>
    BY <1>2 DEF catalogVars
  <2>2. HostShape' /\ (HostResolved' <=> HostResolved)
    BY <2>1 DEF CatalogInv, HostShape, HostResolved
  <2>3. /\ systemVersion' \in Nat \ {0} /\ hostOp' \in HostOps /\ switching' \in BOOLEAN
        /\ launches' \in [Catalog!Launchers -> CatalogLaunches]
    BY <2>1 DEF CatalogInv, CatalogTyped
  <2>4. QED
    BY <2>1, <2>2, <2>3, HostMoves
<1>3. QED
  BY <1>1, <1>2

\* The part that runs is the catalogue's throughout, or never.
LEMMA CatalogSteps ==
    ASSUME [ServicesNext]_ServicesVars
    PROVE  part' = part /\ (part = "catalog" => [Catalog!Next]_catalogVars)
<1>1. CASE ServicesNext
  BY <1>1 DEF ServicesNext, AutoNext, BrowserNext, GateNext, ComputerNext, CatalogNext, PetNext,
              PetsNext
<1>2. CASE UNCHANGED ServicesVars
  BY <1>2 DEF ServicesVars
<1>3. QED
  BY <1>1, <1>2

\* Every state of the composed services satisfies the invariant of the catalogue.
LEMMA CatalogInvariant == ServicesSpec => [](part = "catalog" => CatalogInv)
<1>1. ServicesInit => (part = "catalog" => CatalogInv)
  BY CatalogStart DEF ServicesInit
<1>2. (part = "catalog" => CatalogInv) /\ [ServicesNext]_ServicesVars
        => (part = "catalog" => CatalogInv)'
  BY CatalogSteps, CatalogStep
<1>3. QED
  BY <1>1, <1>2, PTL DEF ServicesSpec

\* Whatever is installed, removed, registered, launched or switched, and wherever the
\* process dies: the runtime and the Node of the current and of the known-good context stay
\* on disk unless a launch resolved on a candidate or a restart read back an older
\* known-good context, and unless two savers overlapped the catalogue in memory is the one
\* in state.json with nothing registered lost (manager.go:558-704, 755-833, 1679-1738).
THEOREM CatalogKept == ServicesSpec => []CatalogIsTrue
<1>1. CatalogInv => Catalog!SelectedKeepsFiles
  <2>1. SUFFICES ASSUME CatalogInv, ~unprotected,
                        NEW c \in {current, mem.known} \ {Catalog!NoContext}
                 PROVE  Catalog!Present(c.rt) /\ c.node \in nodeFiles \cup {0}
    BY DEF Catalog!SelectedKeepsFiles, Catalog!InUseIsPresent
  <2>2. Standing(c.rt) /\ NodeKept(c) /\ Spares(c)
    BY <2>1 DEF CatalogInv, Files, Guarded
  <2>3. c \in Contexts
    BY <2>1, CatalogFields DEF CatalogInv, CatalogTyped, SomeContext
  <2>4. c.rt \in Managed => rtFiles[c.rt] # 0
    BY <2>2 DEF Standing, Spares, Catalog!Installing
  <2>5. QED
    BY <2>2, <2>3, <2>4, ContextFields DEF Catalog!Present, Catalog!Runtimes, NodeKept
<1>2. CatalogInv => Catalog!CatalogIsSaved
  <2>1. SUFFICES ASSUME CatalogInv, ~overlapped, Catalog!AtRest
                 PROVE  /\ Catalog!Catalog(mem) = Catalog!Catalog(saved)
                        /\ kept \subseteq Catalog!Registered(mem)
    BY DEF Catalog!CatalogIsSaved
  <2>2. QED
    BY <2>1 DEF CatalogInv, Saved, Catalog!AtRest, Catalog!GateFree, Catalog!Holding
<1>3. QED
  BY <1>1, <1>2, CatalogInvariant, PTL DEF CatalogIsTrue

\* Only a crash counts as one.
LEMMA CrashesCounted ==
    ASSUME Catalog!Next
    PROVE  UNCHANGED catalogCrashes \/ (Catalog!CrashCatalog /\ catalogCrashes' = catalogCrashes + 1)
<1> USE DEF Catalog!UnchangedButGop, Catalog!UnchangedButFiles, Catalog!UnchangedButLaunch,
            Catalog!UnchangedButHost
<1>1. CASE \/ \E R \in SUBSET Managed : Catalog!RefreshDSHReleases(R)
           \/ Catalog!RegisterRuntime
           \/ \E d \in Directories : \/ Catalog!RegisterDataDirectory(d)
                                     \/ Catalog!RemoveDataDirectory(d)
           \/ \E v \in Managed : Catalog!RemoveRuntime(v) \/ Catalog!InstallRuntime(v)
           \/ \E n \in Nodes : Catalog!RemoveNode(n) \/ Catalog!InstallLatestNode(n)
           \/ \E c \in Contexts : Catalog!SetConfigured(c) \/ Catalog!BeginRunContextSwitch(c)
  BY <1>1 DEF Catalog!RefreshDSHReleases, Catalog!RegisterRuntime, Catalog!RegisterDataDirectory,
     Catalog!RemoveDataDirectory, Catalog!RemoveRuntime, Catalog!InstallRuntime, Catalog!RemoveNode,
     Catalog!InstallLatestNode, Catalog!SetConfigured, Catalog!BeginRunContextSwitch
<1>2. CASE \/ Catalog!Toolchain \/ Catalog!NodeInstalled \/ Catalog!NodeRefused
           \/ Catalog!NodeAccepted \/ Catalog!Package \/ Catalog!SetAside
           \/ Catalog!CommitFiles \/ Catalog!CandidateRefused \/ Catalog!CandidateVerified
           \/ Catalog!FinalizeFiles \/ Catalog!RemoveFiles
           \/ Catalog!OpReads \/ Catalog!OpSaves \/ Catalog!OpSaveFails \/ Catalog!OpPublishes
  BY <1>2 DEF Catalog!Toolchain, Catalog!NodeInstalled, Catalog!NodeRefused, Catalog!NodeAccepted,
     Catalog!Package, Catalog!SetAside, Catalog!CommitFiles, Catalog!CandidateRefused,
     Catalog!CandidateVerified, Catalog!FinalizeFiles, Catalog!RemoveFiles, Catalog!OpReads,
     Catalog!OpSaves, Catalog!OpSaveFails, Catalog!OpPublishes
<1>3. CASE \/ \E l \in Catalog!Launchers :
                \/ Catalog!ResolveLaunch(l) \/ Catalog!Observe(l) \/ Catalog!LaunchReads(l)
                \/ Catalog!LaunchSaves(l) \/ Catalog!LaunchPublishes(l)
           \/ Catalog!AutomationResolves \/ Catalog!AutomationReturns
           \/ Catalog!HostStarts \/ Catalog!Drain \/ Catalog!ClearCurrent \/ Catalog!HostStops
           \/ Catalog!Drift \/ Catalog!CrashCatalog
           \/ \E ok, verified \in BOOLEAN : Catalog!CommitHealthy(ok, verified)
           \/ \E configure \in BOOLEAN : Catalog!LaunchFails(configure)
  BY <1>3 DEF Catalog!ResolveLaunch, Catalog!Observe, Catalog!LaunchReads, Catalog!LaunchSaves,
     Catalog!LaunchPublishes, Catalog!AutomationResolves, Catalog!AutomationReturns,
     Catalog!HostStarts, Catalog!Drain, Catalog!ClearCurrent, Catalog!HostStops, Catalog!Drift,
     Catalog!CrashCatalog, Catalog!CommitHealthy, Catalog!LaunchFails
<1>4. QED
  BY <1>1, <1>2, <1>3 DEF Catalog!Next

\* The operation under way ends only where an adapter, a save or a publication ends it.
LEMMA GateEndsWhere ==
    ASSUME CatalogInv, Catalog!Next, gop.kind = "install", gop.pc # "finalize",
           gop' = Catalog!IdleGop, ~Catalog!CrashCatalog
    PROVE  \/ Catalog!Toolchain \/ Catalog!NodeInstalled \/ Catalog!NodeRefused
           \/ Catalog!Package \/ Catalog!SetAside \/ Catalog!CommitFiles
           \/ Catalog!CandidateRefused \/ Catalog!OpSaveFails
<1> USE DEF Catalog!UnchangedButGop, Catalog!UnchangedButFiles, Catalog!UnchangedButLaunch,
            Catalog!UnchangedButHost
<1>t. gop \in GateOps /\ gop.pc # "idle" /\ gop.pc # "files" /\ gop' # gop
  BY IdleTyped DEF CatalogInv, CatalogTyped, OpShape
<1>1. CASE \/ \E R \in SUBSET Managed : Catalog!RefreshDSHReleases(R)
           \/ Catalog!RegisterRuntime
           \/ \E d \in Directories : \/ Catalog!RegisterDataDirectory(d)
                                     \/ Catalog!RemoveDataDirectory(d)
           \/ \E v \in Managed : Catalog!RemoveRuntime(v) \/ Catalog!InstallRuntime(v)
           \/ \E n \in Nodes : Catalog!RemoveNode(n) \/ Catalog!InstallLatestNode(n)
           \/ \E c \in Contexts : Catalog!SetConfigured(c)
  BY <1>1, <1>t DEF Catalog!RefreshDSHReleases, Catalog!RegisterRuntime,
     Catalog!RegisterDataDirectory, Catalog!RemoveDataDirectory, Catalog!RemoveRuntime,
     Catalog!InstallRuntime, Catalog!RemoveNode, Catalog!InstallLatestNode, Catalog!SetConfigured,
     Catalog!Hold, Catalog!GateFree
<1>2. CASE Catalog!NodeAccepted \/ Catalog!CandidateVerified \/ Catalog!OpReads \/ Catalog!OpSaves
  <2>1. ASSUME gop'.kind = gop.kind PROVE FALSE
    BY <2>1, IdleTyped
  <2>2. CASE Catalog!NodeAccepted
    BY <1>t, <2>1, <2>2 DEF Catalog!NodeAccepted, GateOps
  <2>3. CASE Catalog!CandidateVerified
    BY <1>t, <2>1, <2>3 DEF Catalog!CandidateVerified, GateOps
  <2>4. CASE Catalog!OpReads
    <3> DEFINE X == Catalog!Changed(mem)
    <3>1. gop' = [gop EXCEPT !.pc = "save", !.snap = X]
      BY <2>4 DEF Catalog!OpReads
    <3> HIDE DEF X
    <3>2. gop'.kind = gop.kind
      BY <1>t, <3>1 DEF GateOps
    <3>3. QED
      BY <2>1, <3>2
  <2>5. CASE Catalog!OpSaves
    BY <1>t, <2>1, <2>5 DEF Catalog!OpSaves, GateOps
  <2>6. QED
    BY <1>2, <2>2, <2>3, <2>4, <2>5
<1>3. CASE Catalog!OpPublishes
  <2>1. gop'.kind = "idle" /\ gop'.pc = "idle"
    BY IdleTyped
  <2>2. \/ gop' = [gop EXCEPT !.pc = "package", !.node = 0]
        \/ gop' = [gop EXCEPT !.pc = "finalize"]
    BY <1>3 DEF Catalog!OpPublishes
  <2>3. ASSUME gop' = [gop EXCEPT !.pc = "package", !.node = 0] PROVE FALSE
    <3> DEFINE z == 0
    <3>1. gop' = [gop EXCEPT !.pc = "package", !.node = z]
      BY <2>3
    <3> HIDE DEF z
    <3>2. gop'.kind = gop.kind
      BY <1>t, <3>1 DEF GateOps
    <3>3. QED
      BY <2>1, <3>2
  <2>4. ASSUME gop' = [gop EXCEPT !.pc = "finalize"] PROVE FALSE
    BY <1>t, <2>1, <2>4 DEF GateOps
  <2>5. QED
    BY <2>2, <2>3, <2>4
<1>4. CASE Catalog!FinalizeFiles \/ Catalog!RemoveFiles
  BY <1>4, <1>t DEF Catalog!FinalizeFiles, Catalog!RemoveFiles
<1>5. CASE \/ \E l \in Catalog!Launchers :
                \/ Catalog!ResolveLaunch(l) \/ Catalog!Observe(l) \/ Catalog!LaunchReads(l)
                \/ Catalog!LaunchSaves(l) \/ Catalog!LaunchPublishes(l)
           \/ Catalog!AutomationResolves \/ Catalog!AutomationReturns
           \/ \E c \in Contexts : Catalog!BeginRunContextSwitch(c)
           \/ Catalog!HostStarts \/ Catalog!Drain \/ Catalog!ClearCurrent \/ Catalog!HostStops
           \/ Catalog!Drift
           \/ \E ok, verified \in BOOLEAN : Catalog!CommitHealthy(ok, verified)
           \/ \E configure \in BOOLEAN : Catalog!LaunchFails(configure)
  <2>1. UNCHANGED gop
    BY <1>5 DEF Catalog!ResolveLaunch, Catalog!Observe, Catalog!LaunchReads, Catalog!LaunchSaves,
       Catalog!LaunchPublishes, Catalog!AutomationResolves, Catalog!AutomationReturns,
       Catalog!BeginRunContextSwitch, Catalog!HostStarts, Catalog!Drain, Catalog!ClearCurrent,
       Catalog!HostStops, Catalog!Drift, Catalog!CommitHealthy, Catalog!LaunchFails
  <2>2. QED
    BY <1>t, <2>1
<1>6. QED
  BY <1>1, <1>2, <1>3, <1>4, <1>5 DEF Catalog!Next

\* A step that ends an installation before it is registered restores the directory.
LEMMA InstallFails ==
    ASSUME CatalogInv, [Catalog!Next]_catalogVars, catalogCrashes \in Nat
    PROVE  Catalog!FailedInstallStep
<1>1. SUFFICES ASSUME gop.kind = "install", gop.pc # "finalize", gop' = Catalog!IdleGop,
                      catalogCrashes' = catalogCrashes
               PROVE  rtFiles'[gop.id] = gop.before /\ rtBackup'[gop.id] = 0
  BY DEF Catalog!FailedInstallStep
<1> USE DEF Catalog!UnchangedButFiles
<1>t. gop.id \in Managed /\ rtFiles \in [Managed -> Nat] /\ rtBackup \in [Managed -> Nat] /\ OpShape(gop)
  BY <1>1 DEF CatalogInv, CatalogTyped, OpShape
<1>2. Catalog!Next
  BY <1>1, IdleTyped DEF catalogVars
<1>3. ~Catalog!CrashCatalog
  BY <1>1 DEF Catalog!CrashCatalog
<1>4. \/ Catalog!Toolchain \/ Catalog!NodeInstalled \/ Catalog!NodeRefused
      \/ Catalog!Package \/ Catalog!SetAside \/ Catalog!CommitFiles
      \/ Catalog!CandidateRefused \/ Catalog!OpSaveFails
  BY <1>1, <1>2, <1>3, GateEndsWhere
<1>i. gop'.pc = "idle"
  BY <1>1, IdleTyped
<1>g. gop \in GateOps
  BY DEF CatalogInv, CatalogTyped
\* An end before a tree went aside touches neither tree.
<1>e. ASSUME gop.node # 0 \/ gop.pc \in {"toolchain", "package", "aside"},
             UNCHANGED <<rtFiles, rtBackup>>
      PROVE  rtFiles'[gop.id] = gop.before /\ rtBackup'[gop.id] = 0
  BY <1>1, <1>e, <1>t, NothingAside
<1>5. CASE Catalog!Toolchain \/ Catalog!Package
  BY <1>5, <1>e DEF Catalog!Toolchain, Catalog!Package
<1>6. CASE Catalog!NodeInstalled \/ Catalog!NodeRefused
  BY <1>6, <1>e, <1>t DEF Catalog!NodeInstalled, Catalog!NodeRefused, OpShape
<1>7. CASE Catalog!SetAside
  <2>1. gop.pc = "aside"
    BY <1>7 DEF Catalog!SetAside
  <2>2. ASSUME gop' = [gop EXCEPT !.pc = "commit"] PROVE FALSE
    BY <1>g, <1>i, <2>2 DEF GateOps
  <2>3. UNCHANGED <<rtFiles, rtBackup>>
    BY <1>7, <2>2 DEF Catalog!SetAside
  <2>4. QED
    BY <1>e, <2>1, <2>3
<1>8. CASE Catalog!CommitFiles
  <2>1. gop.pc = "commit"
    BY <1>8 DEF Catalog!CommitFiles
  <2>2. ASSUME gop' = [gop EXCEPT !.pc = "candidate"] PROVE FALSE
    BY <1>g, <1>i, <2>2 DEF GateOps
  <2>3. /\ rtFiles' = [rtFiles EXCEPT ![gop.id] = rtBackup[gop.id]]
        /\ rtBackup' = [rtBackup EXCEPT ![gop.id] = 0]
    BY <1>8, <2>2 DEF Catalog!CommitFiles
  <2>4. rtBackup[gop.id] = gop.before
    BY <1>1, <2>1 DEF CatalogInv, Trees
  <2>5. QED
    BY <1>t, <2>3, <2>4
<1>9. CASE Catalog!CandidateRefused
  <2>1. gop.pc = "candidate" /\ Catalog!Discard(gop.id) /\ gop.node = 0
    BY <1>9, <1>t DEF Catalog!CandidateRefused, OpShape, OfRuntime
  <2>2. QED
    BY <1>1, <1>t, <2>1, Discards
<1>10. CASE Catalog!OpSaveFails
  <2>1. CASE gop.node = 0
    <3>1. gop.pc = "save" /\ Catalog!Discard(gop.id)
      BY <1>1, <1>10, <2>1 DEF Catalog!OpSaveFails
    <3>2. QED
      BY <1>1, <1>t, <2>1, <3>1, Discards
  <2>2. CASE gop.node # 0
    BY <1>10, <1>e, <2>2 DEF Catalog!OpSaveFails
  <2>3. QED
    BY <2>1, <2>2
<1>11. QED
  BY <1>4, <1>5, <1>6, <1>7, <1>8, <1>9, <1>10

\* An installation that ends without registering its candidate leaves the directory as it
\* found it: the old tree is back, or there is none, and nothing is set aside
\* (runtime_installer_windows.go: commitManagedRuntime, Discard).
THEOREM InstallRestored == ServicesSpec => FailedInstallRestores
<1>1. ASSUME CatalogInv, [Catalog!Next]_catalogVars, catalogCrashes \in Nat
      PROVE  Catalog!FailedInstallStep
  BY <1>1, InstallFails
<1>2. ServicesInit => (part = "catalog" => catalogCrashes \in Nat)
  BY DEF ServicesInit, Catalog!Init
<1>3. (part = "catalog" => catalogCrashes \in Nat) /\ [ServicesNext]_ServicesVars
        => (part = "catalog" => catalogCrashes \in Nat)'
  BY CatalogSteps, CrashesCounted DEF catalogVars
<1>4. /\ part = "catalog" => CatalogInv
      /\ part = "catalog" => catalogCrashes \in Nat
      /\ [ServicesNext]_ServicesVars
      => [part = "catalog" => Catalog!FailedInstallStep]_catalogVars
  BY <1>1, CatalogSteps
<1>5. QED
  BY <1>2, <1>3, <1>4, CatalogInvariant, PTL DEF ServicesSpec, FailedInstallRestores
=============================================================================
