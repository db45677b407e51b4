----------------------------- MODULE Automation -----------------------------
(***************************************************************************)
(* internal/automation/service.go: one capability's intent, the            *)
(* preparation of its components and the lifetimes of the resources that   *)
(* carry out its calls.                                                    *)
(*                                                                         *)
(* Service.mu makes every locked section one step.  `op` is the mutex the  *)
(* control operations hold until the entries they revoked are released;    *)
(* StopSession does not take it.  A preparer and a resource factory run in *)
(* goroutines of their own, which learn of a cancellation only when they   *)
(* look.  An entry is created when a call finds none for its key; one      *)
(* session and one lifetime stand for the key.                             *)
(***************************************************************************)
EXTENDS Naturals, FiniteSets

CONSTANTS AutoCalls,         \* calls of the gateway
          MaxEpoch, MaxPreps, MaxEntries

VARIABLES
    slot,        \* [enabled, dep, epoch, prep]
    worker,      \* [gen, canChange, gateway]
    maintaining, \* browserMaintenance
    prepared,    \* what Preparer.Ready answers: a published set exists
    preps,       \* [preparation -> its goroutine]
    entries,     \* [entry -> record]
    ownEntry,    \* the entry in the map, 0 for none
    stoppedAt,   \* epochs whose session was stopped
    opHeld,      \* entries the operation holding op still waits for, or none
    acalls

autoVars == <<slot, worker, maintaining, prepared, preps, entries, ownEntry, stoppedAt, opHeld, acalls>>

NotHeld == [held |-> FALSE, waits |-> {}]
NoPrep == [at |-> "none", cancelled |-> FALSE, repair |-> FALSE]
NoEntry == [at |-> "none", res |-> "none", err |-> FALSE, revoked |-> FALSE,
            cancelled |-> FALSE, waiters |-> 0, closing |-> FALSE, closed |-> FALSE]
NoCall == [at |-> "idle", epoch |-> 0, gen |-> 0, entry |-> 0, done |-> FALSE]
PrepIDs == 1..MaxPreps
EntryIDs == 1..MaxEntries

Slots == [enabled : BOOLEAN, dep : {"unprepared", "preparing", "prepared", "failed"},
          epoch : 1..MaxEpoch, prep : 0..MaxPreps]
Workers == [gen : 0..MaxEpoch, canChange : BOOLEAN, gateway : BOOLEAN]

AutoTypeOK ==
    /\ slot \in Slots /\ worker \in Workers
    /\ maintaining \in BOOLEAN /\ prepared \in BOOLEAN
    /\ \A p \in PrepIDs : preps[p].at \in {"none", "waiting", "running", "done"}
    /\ \A e \in EntryIDs : /\ entries[e].at \in {"none", "creating", "ready"}
                           /\ entries[e].res \in {"none", "open", "closed"}
    /\ ownEntry \in 0..MaxEntries
    /\ opHeld.waits \subseteq EntryIDs
    /\ \A c \in AutoCalls : acalls[c].at \in {"idle", "waiting", "calling", "executing"}

Init ==
    /\ \E on \in BOOLEAN : slot = [enabled |-> on, dep |-> "unprepared", epoch |-> 1, prep |-> 0]
    /\ worker = [gen |-> 0, canChange |-> FALSE, gateway |-> FALSE]
    /\ maintaining = FALSE /\ prepared \in BOOLEAN
    /\ preps = [p \in PrepIDs |-> NoPrep]
    /\ entries = [e \in EntryIDs |-> NoEntry]
    /\ ownEntry = 0 /\ stoppedAt = {}
    /\ opHeld = NotHeld
    /\ acalls = [c \in AutoCalls |-> NoCall]

----------------------------------------------------------------------------
(* Helpers                                                                 *)

\* revokeLocked: the entry is revoked, cancelled and on its way to be closed.
RevokeEntry(all, e) ==
    [all EXCEPT ![e] = [@ EXCEPT !.revoked = TRUE, !.cancelled = TRUE, !.closing = TRUE]]

\* The entry of the map is revoked, and leaves the map.
Revoked == IF ownEntry = 0 THEN entries ELSE RevokeEntry(entries, ownEntry)
Old == IF ownEntry = 0 THEN {} ELSE {ownEntry}

\* probeLocked: what is published decides; it never acquires anything.
Probed(dep) == IF dep = "preparing" THEN dep ELSE IF prepared THEN "prepared" ELSE "unprepared"

\* componentWorkLocked
Busy == maintaining \/ ownEntry # 0

Valid(c) ==
    /\ ~maintaining /\ worker.canChange /\ worker.gateway
    /\ worker.gen = acalls[c].gen
    /\ slot.enabled /\ slot.epoch = acalls[c].epoch /\ slot.dep = "prepared"
    /\ slot.epoch \notin stoppedAt

\* The goroutine of preparation p waits for the one before it.
PreviousDone(p) == \A q \in PrepIDs : q < p => preps[q].at = "done"

\* startLocked
StartOf(s, repair) ==
    IF s.dep \in {"preparing", "prepared"}
      THEN slot' = s /\ UNCHANGED preps
      ELSE /\ s.prep < MaxPreps
           /\ slot' = [s EXCEPT !.dep = "preparing", !.prep = s.prep + 1]
           /\ preps' = [preps EXCEPT ![s.prep + 1] = [at |-> "waiting", cancelled |-> FALSE,
                                                       repair |-> repair]]

----------------------------------------------------------------------------
(* Control operations: op is held until what they revoked is released      *)

SetEnabled(on) ==
    /\ ~opHeld.held /\ worker.canChange /\ slot.enabled # on /\ slot.epoch < MaxEpoch
    /\ slot' = [slot EXCEPT !.enabled = on, !.epoch = slot.epoch + 1,
                            !.dep = IF on THEN Probed(slot.dep) ELSE slot.dep]
    /\ entries' = Revoked /\ ownEntry' = 0
    /\ opHeld' = [held |-> TRUE, waits |-> Old]
    /\ UNCHANGED <<worker, maintaining, prepared, preps, stoppedAt, acalls>>

Retry ==
    /\ ~opHeld.held /\ worker.canChange /\ ~Busy /\ slot.dep # "preparing"
    /\ StartOf([slot EXCEPT !.dep = Probed(slot.dep)], FALSE)
    /\ UNCHANGED <<worker, maintaining, prepared, entries, ownEntry, stoppedAt, opHeld, acalls>>

Repair ==
    /\ ~opHeld.held /\ worker.canChange /\ ~Busy /\ slot.dep # "preparing"
    /\ StartOf([slot EXCEPT !.dep = "unprepared"], TRUE)
    /\ UNCHANGED <<worker, maintaining, prepared, entries, ownEntry, stoppedAt, opHeld, acalls>>

\* BeginBrowserMaintenance and its release.
Maintain ==
    /\ ~maintaining /\ ~Busy /\ maintaining' = TRUE
    /\ UNCHANGED <<slot, worker, prepared, preps, entries, ownEntry, stoppedAt, opHeld, acalls>>

EndMaintenance ==
    /\ maintaining /\ maintaining' = FALSE
    /\ UNCHANGED <<slot, worker, prepared, preps, entries, ownEntry, stoppedAt, opHeld, acalls>>

\* A plausible slip: a cancelled preparation stays the slot's state.
WorkerKeepsState(ready) ==
    /\ ~opHeld.held /\ slot.epoch < MaxEpoch
    /\ \E gen \in {worker.gen, worker.gen + 1} :
          /\ gen # worker.gen \/ worker.canChange # ready
          /\ gen <= MaxEpoch
          /\ worker' = [gen |-> gen, canChange |-> ready,
                        gateway |-> worker.gateway /\ gen = worker.gen /\ ready]
    /\ preps' = [p \in PrepIDs |-> [preps[p] EXCEPT !.cancelled = @ \/ p = slot.prep]]
    /\ slot' = [slot EXCEPT !.epoch = @ + 1, !.dep = IF ready THEN Probed(slot.dep) ELSE slot.dep]
    /\ entries' = Revoked /\ ownEntry' = 0 /\ stoppedAt' = {}
    /\ opHeld' = [held |-> TRUE, waits |-> Old]
    /\ UNCHANGED <<maintaining, prepared, acalls>>

\* Worker: another generation, or readiness lost, revokes every execution and
\* cancels the preparation under way.
Worker(ready) ==
    /\ ~opHeld.held /\ slot.epoch < MaxEpoch
    /\ \E gen \in {worker.gen, worker.gen + 1} :
          /\ gen # worker.gen \/ worker.canChange # ready
          /\ gen <= MaxEpoch
          /\ worker' = [gen |-> gen, canChange |-> ready,
                        gateway |-> worker.gateway /\ gen = worker.gen /\ ready]
    /\ preps' = [p \in PrepIDs |-> [preps[p] EXCEPT !.cancelled = @ \/ p = slot.prep]]
    /\ LET dep == IF slot.dep = "preparing" THEN "unprepared" ELSE slot.dep IN
       slot' = [slot EXCEPT !.epoch = @ + 1, !.dep = IF ready THEN Probed(dep) ELSE dep]
    /\ entries' = Revoked /\ ownEntry' = 0 /\ stoppedAt' = {}
    /\ opHeld' = [held |-> TRUE, waits |-> Old]
    /\ UNCHANGED <<maintaining, prepared, acalls>>

\* Gateway: the channel's health; losing it revokes execution only.
Gateway ==
    /\ ~opHeld.held
    /\ \/ ~worker.gateway /\ worker' = [worker EXCEPT !.gateway = TRUE]
          /\ UNCHANGED <<slot, entries, ownEntry, opHeld>>
       \/ /\ worker.gateway /\ slot.epoch < MaxEpoch
          /\ worker' = [worker EXCEPT !.gateway = FALSE]
          /\ slot' = [slot EXCEPT !.epoch = @ + 1]
          /\ entries' = Revoked /\ ownEntry' = 0
          /\ opHeld' = [held |-> TRUE, waits |-> Old]
    /\ UNCHANGED <<maintaining, prepared, preps, stoppedAt, acalls>>

\* release has waited for every entry; the operation returns.
OpReturns ==
    /\ opHeld.held /\ \A e \in opHeld.waits : entries[e].closed
    /\ opHeld' = NotHeld
    /\ UNCHANGED <<slot, worker, maintaining, prepared, preps, entries, ownEntry, stoppedAt, acalls>>

\* StopSession: the session is stopped for this epoch.
StopSession ==
    /\ slot.epoch \notin stoppedAt
    /\ stoppedAt' = stoppedAt \cup {slot.epoch}
    /\ entries' = Revoked /\ ownEntry' = 0
    /\ UNCHANGED <<slot, worker, maintaining, prepared, preps, opHeld, acalls>>

----------------------------------------------------------------------------
(* The preparer's goroutine                                                *)

\* A plausible slip: the next preparer does not wait for the cancelled one.
PrepareAtOnce(p) ==
    /\ preps[p].at = "waiting"
    /\ preps' = [preps EXCEPT ![p].at = IF preps[p].cancelled THEN "done" ELSE "running"]
    /\ UNCHANGED <<slot, worker, maintaining, prepared, entries, ownEntry, stoppedAt, opHeld, acalls>>

Prepare(p) ==
    /\ preps[p].at = "waiting" /\ PreviousDone(p)
    /\ preps' = [preps EXCEPT ![p].at = IF preps[p].cancelled THEN "done" ELSE "running"]
    /\ UNCHANGED <<slot, worker, maintaining, prepared, entries, ownEntry, stoppedAt, opHeld, acalls>>

\* It ends; unless it was cancelled, its outcome is the slot's.  A repair that
\* fails leaves the published set in use.
PrepareEnds(p, ok) ==
    /\ preps[p].at = "running"
    /\ preps' = [preps EXCEPT ![p].at = "done"]
    /\ prepared' = (prepared \/ ok)
    /\ slot' = IF slot.prep # p \/ preps[p].cancelled THEN slot
               ELSE [slot EXCEPT !.dep = IF ok \/ (preps[p].repair /\ prepared)
                                           THEN "prepared" ELSE "failed"]
    /\ UNCHANGED <<worker, maintaining, entries, ownEntry, stoppedAt, opHeld, acalls>>

----------------------------------------------------------------------------
(* executeOwned: a call, and the entry it uses                             *)

\* A request bears the epoch and generation its sender last saw.
Ask(c) ==
    /\ acalls[c].at = "idle" /\ ~acalls[c].done
    /\ worker.canChange /\ slot.enabled /\ slot.dep = "prepared"
    /\ acalls' = [acalls EXCEPT ![c] = [NoCall EXCEPT !.epoch = slot.epoch, !.gen = worker.gen,
                                           !.done = TRUE]]
    /\ UNCHANGED <<slot, worker, maintaining, prepared, preps, entries, ownEntry, stoppedAt, opHeld>>

Free(e) == entries[e].at = "none"
Replaceable ==
    IF ownEntry = 0 THEN TRUE ELSE entries[ownEntry].cancelled /\ entries[ownEntry].closed

\* It joins the entry of its key, or makes one.  A closed entry whose creation
\* was cancelled is replaced; a call waits for one that is still closing.
Join(c) ==
    /\ acalls[c].at = "idle" /\ acalls[c].done /\ acalls[c].entry = 0 /\ Valid(c)
    /\ \/ /\ ownEntry # 0 /\ ~entries[ownEntry].cancelled
          /\ entries' = [entries EXCEPT ![ownEntry].waiters = @ + 1]
          /\ acalls' = [acalls EXCEPT ![c].at = "waiting", ![c].entry = ownEntry]
          /\ UNCHANGED ownEntry
       \/ /\ Replaceable
          /\ \E e \in EntryIDs :
                /\ Free(e) /\ \A f \in EntryIDs : f < e => ~Free(f)
                /\ entries' = [entries EXCEPT ![e] = [NoEntry EXCEPT !.at = "creating", !.waiters = 1]]
                /\ ownEntry' = e
                /\ acalls' = [acalls EXCEPT ![c].at = "waiting", ![c].entry = e]
    /\ UNCHANGED <<slot, worker, maintaining, prepared, preps, stoppedAt, opHeld>>

\* The factory returns a resource, or an error; a cancelled creation is one,
\* even when it yielded a resource.  Its goroutine closes a failed entry.
Created(e, ok) ==
    /\ entries[e].at = "creating"
    /\ entries' = [entries EXCEPT ![e].at = "ready",
                                  ![e].res = IF ok THEN "open" ELSE "none",
                                  ![e].err = ~ok \/ entries[e].cancelled,
                                  ![e].closing = @ \/ ~ok \/ entries[e].cancelled]
    /\ UNCHANGED <<slot, worker, maintaining, prepared, preps, ownEntry, stoppedAt, opHeld, acalls>>

\* A plausible slip: an entry is closed without waiting for its creation.
CloseEntryNow(e) ==
    /\ entries[e].closing /\ ~entries[e].closed
    /\ entries' = [entries EXCEPT ![e].closed = TRUE, ![e].res = IF @ = "open" THEN "closed" ELSE @]
    /\ UNCHANGED <<slot, worker, maintaining, prepared, preps, ownEntry, stoppedAt, opHeld, acalls>>

\* closeEntry: once the entry is ready its resource is closed; this happens once.
CloseEntry(e) ==
    /\ entries[e].closing /\ ~entries[e].closed /\ entries[e].at = "ready"
    /\ entries' = [entries EXCEPT ![e].closed = TRUE, ![e].res = IF @ = "open" THEN "closed" ELSE @]
    /\ UNCHANGED <<slot, worker, maintaining, prepared, preps, ownEntry, stoppedAt, opHeld, acalls>>

\* The caller gives up; the last one to leave cancels a creation under way.
Abandon(c) ==
    /\ acalls[c].at = "waiting"
    /\ LET e == acalls[c].entry IN
       entries' = [entries EXCEPT ![e].waiters = @ - 1,
                      ![e].cancelled = @ \/ (entries[e].waiters = 1 /\ entries[e].at = "creating")]
    /\ acalls' = [acalls EXCEPT ![c].at = "idle"]
    /\ UNCHANGED <<slot, worker, maintaining, prepared, preps, ownEntry, stoppedAt, opHeld>>

\* The entry is ready: the call, still valid, runs on the resource; a failed
\* entry is revoked by the call that finds it.
Execute(c) ==
    /\ acalls[c].at = "waiting"
    /\ LET e == acalls[c].entry
           left == [entries EXCEPT ![e].waiters = @ - 1]
       IN /\ entries[e].at = "ready"
          /\ IF Valid(c) /\ ~entries[e].revoked
               THEN IF entries[e].err
                      THEN /\ acalls' = [acalls EXCEPT ![c].at = "idle"]
                           /\ IF ownEntry = e
                                THEN entries' = RevokeEntry(left, e) /\ ownEntry' = 0
                                ELSE entries' = left /\ UNCHANGED ownEntry
                      ELSE /\ acalls' = [acalls EXCEPT ![c].at = "executing"]
                           /\ entries' = left /\ UNCHANGED ownEntry
               ELSE acalls' = [acalls EXCEPT ![c].at = "idle"] /\ entries' = left /\ UNCHANGED ownEntry
    /\ UNCHANGED <<slot, worker, maintaining, prepared, preps, stoppedAt, opHeld>>

\* The tool returns; the value is dropped if the call is no longer valid.  A
\* resource that reports it is finished is revoked.
Return(c) ==
    /\ acalls[c].at = "executing"
    /\ LET e == acalls[c].entry IN
       \/ UNCHANGED <<entries, ownEntry>>
       \/ /\ ownEntry = e
          /\ entries' = RevokeEntry(entries, e)
          /\ ownEntry' = 0
    /\ acalls' = [acalls EXCEPT ![c].at = "idle"]
    /\ UNCHANGED <<slot, worker, maintaining, prepared, preps, stoppedAt, opHeld>>

Next ==
    \/ \E on \in BOOLEAN : SetEnabled(on) \/ Worker(on)
    \/ Retry \/ Repair \/ Maintain \/ EndMaintenance \/ Gateway \/ OpReturns \/ StopSession
    \/ \E p \in PrepIDs : Prepare(p) \/ \E ok \in BOOLEAN : PrepareEnds(p, ok)
    \/ \E c \in AutoCalls : Ask(c) \/ Join(c) \/ Abandon(c) \/ Execute(c) \/ Return(c)
    \/ \E e \in EntryIDs : CloseEntry(e) \/ \E ok \in BOOLEAN : Created(e, ok)

AutoSpec == Init /\ [][Next]_autoVars

----------------------------------------------------------------------------
(* Properties                                                              *)

\* One preparer at a time uses the staging tree, though a preparation may be
\* cancelled and started again before its goroutine notices (service.go:383-407).
OnePreparer == Cardinality({p \in PrepIDs : preps[p].at = "running"}) <= 1

\* A slot that says "preparing" has a preparation that will report: a cancelled
\* one never leaves the slot waiting for it (service.go:451-454, 519-526).
PreparingIsLive ==
    slot.dep = "preparing" =>
        slot.prep > 0 /\ preps[slot.prep].at # "done" /\ ~preps[slot.prep].cancelled

\* When no revocation is still being carried out, an open resource belongs to
\* the entry the map holds: none outlives a disabled capability, a replaced
\* Worker or a stopped session (service.go:738-779).
NoOrphanResource ==
    (\A e \in EntryIDs : entries[e].at # "creating" /\ (entries[e].closing => entries[e].closed)) =>
        \A e \in EntryIDs : entries[e].res = "open" => e = ownEntry

============================================================================
