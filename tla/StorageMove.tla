---------------------------- MODULE StorageMove ----------------------------
(***************************************************************************)
(* Moving the application's storage: internal/storagepaths/locations.go    *)
(* (the location record config.toml and the relocation a starting daemon   *)
(* applies), internal/app/process_lock.go (the manager lock kept in the    *)
(* application root), the start of runDaemon in desktopapp/daemon.go, and  *)
(* the two offline commands that take the same lock: newManager            *)
(* (cmd/dsh-work/main.go) and data purge (cmd/dsh-work/data_purge.go).     *)
(*                                                                         *)
(* A place is a directory; `content` says what is left of the              *)
(* application's data in it, `lockFile` whether it holds a state.lock,     *)
(* `lock` which process holds the kernel lock on that file.  Paths never   *)
(* contain one another here: validate (locations.go:253-312) refuses those *)
(* that do before anything is moved.  A process may be killed at any step; *)
(* the kernel then drops its locks.                                        *)
(***************************************************************************)
EXTENDS Naturals, Sequences, FiniteSets

CONSTANTS Roots, Datas,       \* application roots and user-data directories
          DefaultRoot, DefaultData,
          Daemons, Clis, Purges,
          MaxSaves,           \* relocations asked for
          MaxKills            \* processes killed

VARIABLES
    config,      \* the location record: [cur, move]
    content,     \* [place -> "none", "part", "full"]
    lockFile,    \* [root -> state.lock exists]
    lock,        \* [root -> holder of the kernel lock]
    proc,        \* [process -> its step and what it read]
    boundary,    \* the purge holding the installer mutex
    saves, kills, purged,
    outdated     \* a daemon locked a root whose record had left the places it read

storageVars == <<config, content, lockFile, lock, proc, boundary, saves, kills, purged, outdated>>

Places == Roots \cup Datas
Processes == Daemons \cup Clis \cup Purges
Free == "nobody"
Locations == [root : Roots, data : Datas]
NoMove == [root |-> Free, data |-> Free]
Default == [root |-> DefaultRoot, data |-> DefaultData]
Records == [cur : Locations, move : Locations \cup {NoMove}]
DefaultRecord == [cur |-> Default, move |-> NoMove]

Off == [at |-> "off", seen |-> DefaultRecord, mem |-> DefaultRecord, done |-> 0, stage |-> <<>>]
Steps == {"off", "checked", "opened", "locked", "staged", "publishing", "committing", "removing",
          "releasing", "tidying", "rollback", "failing", "running",
          "working", "purging", "unlocking", "clearing", "sweeping"}

StorageTypeOK ==
    /\ config \in Records
    /\ content \in [Places -> {"none", "part", "full"}]
    /\ lockFile \in [Roots -> BOOLEAN]
    /\ lock \in [Roots -> Processes \cup {Free}]
    /\ \A p \in Processes : /\ proc[p].at \in Steps
                            /\ proc[p].seen \in Records /\ proc[p].mem \in Records
                            /\ proc[p].done \in 0..2
    /\ boundary \in Purges \cup {Free}
    /\ saves \in 0..MaxSaves /\ kills \in 0..MaxKills
    /\ purged \in BOOLEAN /\ outdated \in BOOLEAN

Init ==
    /\ config = DefaultRecord
    /\ content = [p \in Places |-> IF p \in {DefaultRoot, DefaultData} THEN "full" ELSE "none"]
    /\ lockFile = [r \in Roots |-> FALSE]
    /\ lock = [r \in Roots |-> Free]
    /\ proc = [p \in Processes |-> Off]
    /\ boundary = Free
    /\ saves = 0 /\ kills = 0
    /\ purged = FALSE /\ outdated = FALSE

----------------------------------------------------------------------------
(* Helpers                                                                 *)

Empty(p) == content[p] = "none" /\ (p \in Roots => ~lockFile[p])

\* The relocations a move is made of: application data first, user data
\* independently of it.
Moves(old, next) ==
    (IF old.root # next.root THEN <<[source |-> old.root, target |-> next.root]>> ELSE <<>>)
    \o (IF old.data # next.data THEN <<[source |-> old.data, target |-> next.data]>> ELSE <<>>)

\* A target must be empty, or not exist.
Validate(old, next) == \A i \in DOMAIN Moves(old, next) : Empty(Moves(old, next)[i].target)

To(p, step) == proc' = [proc EXCEPT ![p].at = step]

\* ApplyPendingWith has returned: what is left of it is the record in memory.
Runs(d, record) == proc' = [proc EXCEPT ![d] = [Off EXCEPT !.at = "running", !.mem = record]]

\* Opening creates the directory and state.lock; a held lock is an error.
AcquireLock(p, r) ==
    /\ lock[r] = Free
    /\ lock' = [lock EXCEPT ![r] = p]
    /\ lockFile' = [lockFile EXCEPT ![r] = TRUE]

HeldBy(p) == {r \in Roots : lock[r] = p}

\* A process ends; the kernel releases what it held.
Ends(p) ==
    /\ proc' = [proc EXCEPT ![p] = Off]
    /\ lock' = [r \in Roots |-> IF lock[r] = p THEN Free ELSE lock[r]]

----------------------------------------------------------------------------
(* The daemon: the record is opened, then the root it names is locked      *)

\* Run refuses to start while the installer boundary exists.
DaemonOpens(d) ==
    /\ proc[d].at = "off" /\ boundary = Free
    /\ proc' = [proc EXCEPT ![d] = [Off EXCEPT !.at = "opened", !.seen = config, !.mem = config]]
    /\ UNCHANGED <<config, content, lockFile, lock, boundary, saves, kills, purged, outdated>>

\* The record is not read again under the lock.
DaemonLocks(d) ==
    /\ proc[d].at = "opened"
    /\ \/ /\ AcquireLock(d, proc[d].seen.cur.root) /\ To(d, "locked")
          /\ outdated' = (outdated \/ proc[d].seen.cur # config.cur)
       \/ lock[proc[d].seen.cur.root] # Free /\ Ends(d) /\ UNCHANGED <<lockFile, outdated>>
    /\ UNCHANGED <<config, content, boundary, saves, kills, purged>>

\* ApplyPendingWith: nothing is pending, or the target is refused.
ApplyNothing(d) ==
    /\ proc[d].at = "locked"
    /\ LET seen == proc[d].seen IN
       \/ seen.move = NoMove /\ Runs(d, seen)
       \/ seen.move # NoMove /\ ~Validate(seen.cur, seen.move) /\ To(d, "failing")
    /\ UNCHANGED <<config, content, lockFile, lock, boundary, saves, kills, purged, outdated>>

\* migrate: every source is copied beside its target before any is published;
\* a copy may fail.  A source that is not there is skipped.
StageCopies(d) ==
    /\ proc[d].at = "locked"
    /\ LET seen == proc[d].seen
           moves == Moves(seen.cur, seen.move)
       IN /\ seen.move # NoMove /\ Validate(seen.cur, seen.move)
          /\ \/ proc' = [proc EXCEPT ![d].at = "staged",
                                     ![d].stage = [i \in DOMAIN moves |-> content[moves[i].source]]]
             \/ To(d, "failing")
    /\ UNCHANGED <<config, content, lockFile, lock, boundary, saves, kills, purged, outdated>>

\* The next staged copy is renamed onto its target, which must still be empty.
Publish(d) ==
    /\ proc[d].at \in {"staged", "publishing"}
    /\ LET seen == proc[d].seen
           moves == Moves(seen.cur, seen.move)
           k == proc[d].done + 1
       IN /\ k <= Len(moves)
          /\ \/ /\ Empty(moves[k].target)
                /\ content' = [content EXCEPT ![moves[k].target] = proc[d].stage[k]]
                /\ proc' = [proc EXCEPT ![d].at = "publishing", ![d].done = k]
             \/ To(d, "rollback") /\ UNCHANGED content
    /\ UNCHANGED <<config, lockFile, lock, boundary, saves, kills, purged, outdated>>

\* beforeCommit: the destination root is locked before the record names it.
LockNext(d) ==
    /\ proc[d].at \in {"staged", "publishing"}
    /\ LET seen == proc[d].seen
           root == seen.move.root
       IN /\ proc[d].done = Len(Moves(seen.cur, seen.move))
          /\ \/ root = seen.cur.root /\ To(d, "committing") /\ UNCHANGED <<lock, lockFile>>
             \/ root # seen.cur.root /\ AcquireLock(d, root) /\ To(d, "committing")
             \/ root # seen.cur.root /\ lock[root] # Free /\ To(d, "rollback")
                /\ UNCHANGED <<lock, lockFile>>
    /\ UNCHANGED <<config, content, boundary, saves, kills, purged, outdated>>

\* A plausible slip: the record is committed before the copies are published.
CommitEarly(d) ==
    /\ proc[d].at \in {"staged", "committing"}
    /\ \/ /\ config' = [cur |-> proc[d].seen.move, move |-> NoMove]
          /\ (IF proc[d].at = "staged" THEN UNCHANGED proc
               ELSE proc' = [proc EXCEPT ![d].at = "removing", ![d].mem = config'])
       \/ To(d, "rollback") /\ UNCHANGED config
    /\ UNCHANGED <<content, lockFile, lock, boundary, saves, kills, purged, outdated>>

\* The record is replaced by rename; a failed write rolls the copies back.
Commit(d) ==
    /\ proc[d].at = "committing"
    /\ \/ /\ config' = [cur |-> proc[d].seen.move, move |-> NoMove]
          /\ proc' = [proc EXCEPT ![d].at = "removing", ![d].mem = config']
       \/ To(d, "rollback") /\ UNCHANGED config
    /\ UNCHANGED <<content, lockFile, lock, boundary, saves, kills, purged, outdated>>

\* The old copies go, last one first; a failure is only reported.
RemoveOld(d) ==
    /\ proc[d].at = "removing"
    /\ LET seen == proc[d].seen
           moves == Moves(seen.cur, seen.move)
           k == proc[d].done
       IN \/ /\ k > 0
             /\ \E left \in {"none", "part"} :
                   content' = [content EXCEPT ![moves[k].source] =
                                  IF @ = "none" THEN "none" ELSE left]
             /\ proc' = [proc EXCEPT ![d].done = k - 1]
          \/ k = 0 /\ UNCHANGED content
             /\ (IF seen.move.root # seen.cur.root THEN To(d, "releasing") ELSE Runs(d, proc[d].mem))
    /\ UNCHANGED <<config, lockFile, lock, boundary, saves, kills, purged, outdated>>

ReleasePrevious(d) ==
    /\ proc[d].at = "releasing"
    /\ lock' = [lock EXCEPT ![proc[d].seen.cur.root] = Free]
    /\ To(d, "tidying")
    /\ UNCHANGED <<config, content, lockFile, boundary, saves, kills, purged, outdated>>

\* state.lock alone in the old root is removed with the root; a file another
\* process has opened stays.
TidyPrevious(d) ==
    /\ proc[d].at = "tidying"
    /\ LET old == proc[d].seen.cur.root IN
       lockFile' = [lockFile EXCEPT ![old] = @ /\ ~(content[old] = "none" /\ lock[old] = Free)]
    /\ Runs(d, proc[d].mem)
    /\ UNCHANGED <<config, content, lock, boundary, saves, kills, purged, outdated>>

\* What was published is removed again, last one first.
Rollback(d) ==
    /\ proc[d].at = "rollback"
    /\ LET moves == Moves(proc[d].seen.cur, proc[d].seen.move) IN
       content' = [p \in Places |-> IF \E i \in 1..proc[d].done : moves[i].target = p
                                      THEN "none" ELSE content[p]]
    /\ proc' = [proc EXCEPT ![d].at = "failing", ![d].done = 0, ![d].stage = <<>>]
    /\ UNCHANGED <<config, lockFile, lock, boundary, saves, kills, purged, outdated>>

\* The failed move is dropped from the record, which keeps the location the
\* daemon read; writing it may fail.  A destination lock already taken is closed.
DropMove(d) ==
    /\ proc[d].at = "failing"
    /\ \/ /\ config' = [cur |-> proc[d].seen.cur, move |-> NoMove]
          /\ Runs(d, config')
       \/ Runs(d, proc[d].mem) /\ UNCHANGED config
    /\ lock' = [r \in Roots |-> IF lock[r] = d /\ r # proc[d].seen.cur.root THEN Free ELSE lock[r]]
    /\ UNCHANGED <<content, lockFile, boundary, saves, kills, purged, outdated>>

\* The location a process works in: the daemon's is the one it has in memory.
WorksIn(p) == IF p \in Daemons THEN proc[p].mem.cur ELSE proc[p].seen.cur

\* StorageService.SaveLocations and CancelMigration, in the running daemon.
SaveLocations(d) ==
    /\ proc[d].at = "running" /\ saves < MaxSaves
    /\ \E next \in Locations :
          /\ Validate(WorksIn(d), next)
          /\ config' = [cur |-> WorksIn(d), move |-> IF next = WorksIn(d) THEN NoMove ELSE next]
    /\ proc' = [proc EXCEPT ![d].mem = config']
    /\ saves' = saves + 1
    /\ UNCHANGED <<content, lockFile, lock, boundary, kills, purged, outdated>>

CancelMigration(d) ==
    /\ proc[d].at = "running"
    /\ config' = [cur |-> WorksIn(d), move |-> NoMove]
    /\ proc' = [proc EXCEPT ![d].mem = config']
    /\ UNCHANGED <<content, lockFile, lock, boundary, saves, kills, purged, outdated>>

DaemonStops(d) ==
    /\ proc[d].at = "running" /\ Ends(d)
    /\ UNCHANGED <<config, content, lockFile, boundary, saves, kills, purged, outdated>>

----------------------------------------------------------------------------
(* The offline command line: newManager locks, then reads the record again *)

CliChecks(c) ==
    /\ proc[c].at = "off" /\ boundary = Free
    /\ proc' = [proc EXCEPT ![c] = [Off EXCEPT !.at = "checked"]]
    /\ UNCHANGED <<config, content, lockFile, lock, boundary, saves, kills, purged, outdated>>

CliOpens(c) ==
    /\ proc[c].at = "checked"
    /\ proc' = [proc EXCEPT ![c].at = "opened", ![c].seen = config]
    /\ UNCHANGED <<config, content, lockFile, lock, boundary, saves, kills, purged, outdated>>

CliLocks(c) ==
    /\ proc[c].at = "opened"
    /\ \/ AcquireLock(c, proc[c].seen.cur.root) /\ To(c, "locked")
       \/ lock[proc[c].seen.cur.root] # Free /\ Ends(c) /\ UNCHANGED lockFile
    /\ UNCHANGED <<config, content, boundary, saves, kills, purged, outdated>>

\* A plausible slip: the record is not read again under the lock.
CliTrusts(c) ==
    /\ proc[c].at = "locked" /\ To(c, "working")
    /\ UNCHANGED <<config, content, lockFile, lock, boundary, saves, kills, purged, outdated>>

CliRechecks(c) ==
    /\ proc[c].at = "locked"
    /\ IF config.cur.root = proc[c].seen.cur.root
         THEN To(c, "working") /\ UNCHANGED lock
         ELSE Ends(c)
    /\ UNCHANGED <<config, content, lockFile, boundary, saves, kills, purged, outdated>>

CliEnds(c) ==
    /\ proc[c].at = "working" /\ Ends(c)
    /\ UNCHANGED <<config, content, lockFile, boundary, saves, kills, purged, outdated>>

----------------------------------------------------------------------------
(* data purge --yes                                                        *)

\* The record is read first, then the installer mutex is taken.
PurgeOpens(u) ==
    /\ proc[u].at = "off" /\ boundary = Free
    /\ proc' = [proc EXCEPT ![u] = [Off EXCEPT !.at = "checked", !.seen = config]]
    /\ UNCHANGED <<config, content, lockFile, lock, boundary, saves, kills, purged, outdated>>

PurgeReserves(u) ==
    /\ proc[u].at = "checked"
    /\ IF boundary = Free
         THEN boundary' = u /\ To(u, "opened") /\ UNCHANGED lock
         ELSE Ends(u) /\ UNCHANGED boundary
    /\ UNCHANGED <<config, content, lockFile, saves, kills, purged, outdated>>

PurgeLeaves(u) == Ends(u) /\ boundary' = IF boundary = u THEN Free ELSE boundary

PurgeLocks(u) ==
    /\ proc[u].at = "opened"
    /\ \/ AcquireLock(u, proc[u].seen.cur.root) /\ To(u, "locked") /\ UNCHANGED boundary
       \/ lock[proc[u].seen.cur.root] # Free /\ PurgeLeaves(u) /\ UNCHANGED lockFile
    /\ UNCHANGED <<config, content, saves, kills, purged, outdated>>

\* A plausible slip: the locations read before the lock are purged.
PurgeTrusts(u) ==
    /\ proc[u].at = "locked" /\ To(u, "purging")
    /\ UNCHANGED <<config, content, lockFile, lock, boundary, saves, kills, purged, outdated>>

PurgeRechecks(u) ==
    /\ proc[u].at = "locked"
    /\ IF config.cur = proc[u].seen.cur
         THEN To(u, "purging") /\ UNCHANGED <<lock, boundary>>
         ELSE PurgeLeaves(u)
    /\ UNCHANGED <<config, content, lockFile, saves, kills, purged, outdated>>

\* First pass: everything but state.lock and config.toml; it may stop half way.
PurgeRemoves(u) ==
    /\ proc[u].at = "purging"
    /\ LET gone == {proc[u].seen.cur.root, proc[u].seen.cur.data} IN
       \/ /\ content' = [p \in Places |-> IF p \in gone THEN "none" ELSE content[p]]
          /\ To(u, "unlocking") /\ UNCHANGED <<lock, boundary>>
       \/ /\ \E some \in SUBSET gone :
                content' = [p \in Places |-> IF p \in some /\ content[p] # "none"
                                              THEN "part" ELSE content[p]]
          /\ PurgeLeaves(u)
    /\ purged' = TRUE
    /\ UNCHANGED <<config, lockFile, saves, kills, outdated>>

PurgeUnlocks(u) ==
    /\ proc[u].at = "unlocking"
    /\ lock' = [lock EXCEPT ![proc[u].seen.cur.root] = Free]
    /\ To(u, "clearing")
    /\ UNCHANGED <<config, content, lockFile, boundary, saves, kills, purged, outdated>>

\* state.lock, then config.toml; a state.lock someone has opened is an error.
PurgeClears(u) ==
    /\ proc[u].at = "clearing"
    /\ LET root == proc[u].seen.cur.root IN
       \/ /\ lock[root] = Free
          /\ lockFile' = [lockFile EXCEPT ![root] = FALSE]
          /\ config' = DefaultRecord
          /\ To(u, "sweeping") /\ UNCHANGED <<lock, boundary>>
       \/ lock[root] # Free /\ PurgeLeaves(u) /\ UNCHANGED <<lockFile, config>>
    /\ UNCHANGED <<content, saves, kills, purged, outdated>>

\* Second pass over the emptied roots.
PurgeSweeps(u) ==
    /\ proc[u].at = "sweeping"
    /\ LET gone == {proc[u].seen.cur.root, proc[u].seen.cur.data} IN
       /\ content' = [p \in Places |-> IF p \in gone THEN "none" ELSE content[p]]
       /\ lockFile' = [r \in Roots |-> IF r \in gone /\ lock[r] = Free THEN FALSE ELSE lockFile[r]]
    /\ PurgeLeaves(u)
    /\ UNCHANGED <<config, saves, kills, purged, outdated>>

\* The process is killed; the kernel releases its lock and its mutex.
Killed(p) ==
    /\ proc[p].at # "off" /\ kills < MaxKills
    /\ kills' = kills + 1
    /\ PurgeLeaves(p)
    /\ UNCHANGED <<config, content, lockFile, saves, purged, outdated>>

DaemonStep(d) ==
    \/ DaemonOpens(d) \/ DaemonLocks(d) \/ ApplyNothing(d) \/ StageCopies(d) \/ Publish(d)
    \/ LockNext(d) \/ Commit(d) \/ RemoveOld(d) \/ ReleasePrevious(d) \/ TidyPrevious(d)
    \/ Rollback(d) \/ DropMove(d) \/ SaveLocations(d) \/ CancelMigration(d) \/ DaemonStops(d)
CliStep(c) == CliChecks(c) \/ CliOpens(c) \/ CliLocks(c) \/ CliRechecks(c) \/ CliEnds(c)
PurgeStep(u) ==
    \/ PurgeOpens(u) \/ PurgeReserves(u) \/ PurgeLocks(u) \/ PurgeRechecks(u)
    \/ PurgeRemoves(u) \/ PurgeUnlocks(u) \/ PurgeClears(u) \/ PurgeSweeps(u)

Next ==
    \/ \E d \in Daemons : DaemonStep(d)
    \/ \E c \in Clis : CliStep(c)
    \/ \E u \in Purges : PurgeStep(u)
    \/ \E p \in Processes : Killed(p)

StorageSpec == Init /\ [][Next]_storageVars

----------------------------------------------------------------------------
(* Properties                                                              *)

\* No purge has begun to delete, and every daemon began on the record as it was when it
\* locked the root: two daemons that start at once may break the second (daemon.go:69-79).
Ordinary == ~purged /\ ~outdated

\* The location record always names a complete copy of the data, wherever a
\* relocation was cut short and whichever of its steps failed; only a purge
\* takes the data away (locations.go:344-474).
DataIsFound ==
    Ordinary => content[config.cur.root] = "full" /\ content[config.cur.data] = "full"

\* Until the data is purged, an offline command never works in a root the record
\* has left: the record is read again under the root's lock (main.go:106-122).
CliRootIsCurrent ==
    Ordinary => \A c \in Clis : proc[c].at = "working" => config.cur.root = proc[c].seen.cur.root

\* While the first purge deletes, no other process works in what it deletes
\* (data_purge.go:111-167).
PurgeIsAlone ==
    Ordinary => \A u \in Purges : proc[u].at = "purging" =>
        \A p \in Processes \ {u} :
            proc[p].at \in {"running", "working", "removing", "committing"} =>
                /\ WorksIn(p).root # proc[u].seen.cur.root
                /\ WorksIn(p).data # proc[u].seen.cur.data

============================================================================
