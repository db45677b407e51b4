--------------------------- MODULE ServicesProofs ---------------------------
(***************************************************************************)
(* Proofs about the services of MCServices, for every value of the         *)
(* constants: what CapabilitiesEnd and ConsentHolds say of the capability  *)
(* service, the linked browser profiles and the two consent gateways, and  *)
(* what PetIsTrue says of the desktop Pet.  The components share no        *)
(* variable, so each has an inductive invariant of its own (AutoInv,       *)
(* BrowserInv, GateInv, ComputerInv, PetsInv, RuntimeInv), and the         *)
(* composition keeps the one of the component that runs.                   *)
(*                                                                         *)
(* The Pet service (PetService).  A list and the definitions it is         *)
(* resolved by change together, so they agree while a scan runs, whatever  *)
(* it has found and whoever has joined it.  The window follows the         *)
(* preference and the loaded Pet in every step that moves one of them;     *)
(* that needs that a refresh in progress keeps the shut-down out, and that *)
(* a closed service's start-up task is past the point where it may restore *)
(* a Pet.                                                                  *)
(*                                                                         *)
(* The Pet runtime (PetRuntime).  A finished task goes through its action, *)
(* a track that is played once and a track that repeats, which the hold    *)
(* ends.  Each restarts the clock of the next, so the time it has been     *)
(* shown is bounded in each by the ones before it: less than one length in *)
(* the action, less than two in the track, two and the age in the hold.    *)
(***************************************************************************)
EXTENDS MCServices, TLAPS, FiniteSetTheorems, SequenceTheorems, Integers

\* A set whose members are all equal has at most one.
LEMMA AtMostOne ==
    ASSUME NEW S, \A x, y \in S : x = y
    PROVE  Cardinality(S) <= 1
<1>1. CASE S = {}
  BY <1>1, FS_EmptySet
<1>2. CASE S # {}
  <2>1. PICK x : x \in S
    BY <1>2
  <2>2. S = {x}
    BY <2>1
  <2>3. QED
    BY <2>2, FS_Singleton
<1>3. QED
  BY <1>1, <1>2

-----------------------------------------------------------------------------
(* Automation: preparations, entries and calls                             *)

\* What a preparation, an entry and a call record.
AutoPreps == [at : {"none", "waiting", "running", "done"}, cancelled : BOOLEAN, repair : BOOLEAN]
AutoEntries ==
    [at : {"none", "creating", "ready"}, res : {"none", "open", "closed"}, err : BOOLEAN,
     revoked : BOOLEAN, cancelled : BOOLEAN, waiters : Int, closing : BOOLEAN, closed : BOOLEAN]
AutoCallers == [at : {"idle", "waiting", "calling", "executing"}, epoch : Nat, gen : Nat,
                entry : 0..MaxEntries, done : BOOLEAN]
\* Types, and that a call under way has joined an entry (executeOwned).
AutoTyped ==
    /\ Capability!AutoTypeOK
    /\ preps \in [Capability!PrepIDs -> AutoPreps]
    /\ entries \in [Capability!EntryIDs -> AutoEntries]
    /\ acalls \in [AutoCalls -> AutoCallers]
    /\ \A c \in AutoCalls : acalls[c].at # "idle" => acalls[c].entry # 0

\* Preparations are numbered as they start, and one goes past its wait only after
\* all before it have ended (startLocked).
AutoPrepares ==
    /\ \A p \in Capability!PrepIDs : slot.prep < p <=> preps[p].at = "none"
    /\ \A p \in Capability!PrepIDs : preps[p].at \in {"running", "done"} => Capability!PreviousDone(p)

\* An entry outside the map is being closed, and a closed one holds no resource
\* (revokeLocked, closeEntry).
AutoReleases ==
    \A e \in Capability!EntryIDs :
        /\ entries[e].at # "none" /\ e # ownEntry => entries[e].closing
        /\ entries[e].closed => entries[e].at = "ready" /\ entries[e].res # "open" /\ entries[e].closing
        /\ entries[e].at = "none" => entries[e].res # "open"

\* What holds after every step of the capability.
AutoInv == AutoTyped /\ AutoPrepares /\ AutoReleases /\ Capability!PreparingIsLive

\* One entry changes.
LEMMA EntryReplaced ==
    ASSUME NEW E \in [Capability!EntryIDs -> AutoEntries], NEW e \in Capability!EntryIDs,
           NEW X \in AutoEntries
    PROVE  /\ [E EXCEPT ![e] = X] \in [Capability!EntryIDs -> AutoEntries]
           /\ [E EXCEPT ![e] = X][e] = X
           /\ \A f \in Capability!EntryIDs \ {e} : [E EXCEPT ![e] = X][f] = E[f]
OBVIOUS

\* revokeLocked of an entry: its creation and its resource are as they were.
LEMMA EntryRevoked ==
    ASSUME NEW E \in [Capability!EntryIDs -> AutoEntries], NEW e \in Capability!EntryIDs
    PROVE  /\ Capability!RevokeEntry(E, e) \in [Capability!EntryIDs -> AutoEntries]
           /\ \A f \in Capability!EntryIDs \ {e} : Capability!RevokeEntry(E, e)[f] = E[f]
           /\ Capability!RevokeEntry(E, e)[e].at = E[e].at
           /\ Capability!RevokeEntry(E, e)[e].res = E[e].res
           /\ Capability!RevokeEntry(E, e)[e].closed = E[e].closed
           /\ Capability!RevokeEntry(E, e)[e].closing
<1> DEFINE X == [E[e] EXCEPT !.revoked = TRUE, !.cancelled = TRUE, !.closing = TRUE]
           F == Capability!RevokeEntry(E, e)
<1>1. X \in AutoEntries /\ X.at = E[e].at /\ X.res = E[e].res /\ X.closed = E[e].closed /\ X.closing
  BY DEF AutoEntries
<1>2. F = [E EXCEPT ![e] = X]
  BY Zenon DEF Capability!RevokeEntry
<1> HIDE DEF X
<1>3. /\ F \in [Capability!EntryIDs -> AutoEntries] /\ F[e] = X
      /\ \A f \in Capability!EntryIDs \ {e} : F[f] = E[f]
  BY <1>1, <1>2, EntryReplaced
<1>4. QED
  BY <1>1, <1>3

\* A caller that comes or leaves changes the count only.
LEMMA EntryCounted ==
    ASSUME NEW E \in [Capability!EntryIDs -> AutoEntries], NEW e \in Capability!EntryIDs,
           NEW n \in Int, NEW F, F = [E EXCEPT ![e].waiters = n]
    PROVE  /\ F \in [Capability!EntryIDs -> AutoEntries]
           /\ \A f \in Capability!EntryIDs \ {e} : F[f] = E[f]
           /\ F[e].at = E[e].at /\ F[e].res = E[e].res /\ F[e].closed = E[e].closed
           /\ F[e].closing = E[e].closing
<1> DEFINE X == [E[e] EXCEPT !.waiters = n]
<1>1. /\ X \in AutoEntries /\ X.at = E[e].at /\ X.res = E[e].res /\ X.closed = E[e].closed
      /\ X.closing = E[e].closing
  BY DEF AutoEntries
<1>2. F = [E EXCEPT ![e] = X]
  OBVIOUS
<1> HIDE DEF X
<1>3. /\ F \in [Capability!EntryIDs -> AutoEntries] /\ F[e] = X
      /\ \A f \in Capability!EntryIDs \ {e} : F[f] = E[f]
  BY <1>1, <1>2, EntryReplaced
<1>4. QED
  BY <1>1, <1>3

\* The entries after a step that takes the one of the map out of it.
LEMMA AutoRevokes ==
    ASSUME AutoTyped, AutoReleases, entries' = Capability!Revoked, ownEntry' = 0
    PROVE  entries' \in [Capability!EntryIDs -> AutoEntries] /\ AutoReleases'
<1>t. ownEntry \in 0..MaxEntries
  BY DEF AutoTyped, Capability!AutoTypeOK
<1>1. CASE ownEntry = 0
  BY <1>1 DEF Capability!Revoked, AutoTyped, AutoReleases, Capability!EntryIDs
<1>2. CASE ownEntry # 0
  <2>1. ownEntry \in Capability!EntryIDs
    BY <1>t, <1>2, AutoAssumption DEF Capability!EntryIDs
  <2>2. entries' = Capability!RevokeEntry(entries, ownEntry)
    BY <1>2 DEF Capability!Revoked
  <2>3. /\ entries' \in [Capability!EntryIDs -> AutoEntries]
        /\ \A f \in Capability!EntryIDs \ {ownEntry} : entries'[f] = entries[f]
        /\ entries'[ownEntry].at = entries[ownEntry].at
        /\ entries'[ownEntry].res = entries[ownEntry].res
        /\ entries'[ownEntry].closed = entries[ownEntry].closed
        /\ entries'[ownEntry].closing
    BY <2>1, <2>2, EntryRevoked DEF AutoTyped
  <2>4. QED
    BY <2>1, <2>3 DEF AutoReleases
<1>3. QED
  BY <1>1, <1>2

\* A step that starts and ends no preparation keeps their order.
LEMMA AutoPreparesKept ==
    ASSUME AutoPrepares, UNCHANGED preps, slot'.prep = slot.prep
    PROVE  AutoPrepares'
BY DEF AutoPrepares, Capability!PreviousDone

\* The same for a step that leaves the entries and the map alone.
LEMMA AutoReleasesKept ==
    ASSUME AutoReleases, UNCHANGED <<entries, ownEntry>>
    PROVE  AutoReleases'
BY DEF AutoReleases

\* A call that goes on keeps its entry.
LEMMA CallMoves ==
    ASSUME acalls \in [AutoCalls -> AutoCallers], NEW c \in AutoCalls,
           NEW a \in {"idle", "waiting", "calling", "executing"},
           acalls' = [acalls EXCEPT ![c].at = a]
    PROVE  /\ acalls' \in [AutoCalls -> AutoCallers]
           /\ \A d \in AutoCalls \ {c} : acalls'[d] = acalls[d]
           /\ acalls'[c].at = a /\ acalls'[c].entry = acalls[c].entry
<1> DEFINE X == [acalls[c] EXCEPT !.at = a]
<1>1. X \in AutoCallers /\ X.at = a /\ X.entry = acalls[c].entry
  BY DEF AutoCallers
<1>2. acalls' = [acalls EXCEPT ![c] = X]
  OBVIOUS
<1> HIDE DEF X
<1>3. QED
  BY <1>1, <1>2

\* A call joins an entry.
LEMMA CallJoins ==
    ASSUME acalls \in [AutoCalls -> AutoCallers], NEW c \in AutoCalls, NEW e \in 0..MaxEntries,
           acalls' = [acalls EXCEPT ![c].at = "waiting", ![c].entry = e]
    PROVE  /\ acalls' \in [AutoCalls -> AutoCallers]
           /\ \A d \in AutoCalls \ {c} : acalls'[d] = acalls[d]
           /\ acalls'[c].at = "waiting" /\ acalls'[c].entry = e
<1> DEFINE X == [acalls[c] EXCEPT !.at = "waiting", !.entry = e]
<1>1. X \in AutoCallers /\ X.at = "waiting" /\ X.entry = e
  BY DEF AutoCallers
<1>2. acalls' = [acalls EXCEPT ![c] = X]
  BY DEF AutoCallers
<1> HIDE DEF X
<1>3. QED
  BY <1>1, <1>2

\* The parts of the type, for records.
LEMMA AutoParts ==
    /\ \A e \in AutoEntries : /\ e.at \in {"none", "creating", "ready"}
                              /\ e.res \in {"none", "open", "closed"}
                              /\ e.waiters \in Int /\ e.closing \in BOOLEAN
                              /\ e.closed \in BOOLEAN /\ e.cancelled \in BOOLEAN
    /\ \A p \in AutoPreps : /\ p.at \in {"none", "waiting", "running", "done"}
                            /\ p.cancelled \in BOOLEAN /\ p.repair \in BOOLEAN
    /\ \A c \in AutoCallers : /\ c.at \in {"idle", "waiting", "calling", "executing"}
                              /\ c.entry \in 0..MaxEntries
    /\ \A s \in Capability!Slots :
          /\ s.enabled \in BOOLEAN /\ s.dep \in {"unprepared", "preparing", "prepared", "failed"}
          /\ s.epoch \in 1..MaxEpoch /\ s.prep \in 0..MaxPreps
    /\ \A w \in Capability!Workers :
          w.gen \in 0..MaxEpoch /\ w.canChange \in BOOLEAN /\ w.gateway \in BOOLEAN
BY DEF AutoEntries, AutoPreps, AutoCallers, Capability!Slots, Capability!Workers

\* An entry whose callers change is the entry it was.
WithWaiters(r, n, b) == [r EXCEPT !.waiters = n, !.cancelled = b]

LEMMA WaitersChange ==
  ASSUME NEW r \in AutoEntries, NEW n \in Int, NEW b \in BOOLEAN
  PROVE  /\ WithWaiters(r, n, b) \in AutoEntries
         /\ WithWaiters(r, n, b).at = r.at /\ WithWaiters(r, n, b).res = r.res
         /\ WithWaiters(r, n, b).closed = r.closed /\ WithWaiters(r, n, b).closing = r.closing
  BY DEF AutoEntries, WithWaiters

\* The type of a state, from that of its records.
LEMMA AutoTypedOf ==
    ASSUME AutoTyped, slot' \in Capability!Slots, worker' \in Capability!Workers,
           maintaining' \in BOOLEAN, prepared' \in BOOLEAN,
           preps' \in [Capability!PrepIDs -> AutoPreps],
           entries' \in [Capability!EntryIDs -> AutoEntries],
           ownEntry' \in 0..MaxEntries, (opHeld').waits \subseteq Capability!EntryIDs,
           acalls' \in [AutoCalls -> AutoCallers],
           \A c \in AutoCalls : acalls'[c].at # "idle" => acalls'[c].entry # 0
    PROVE  AutoTyped'
BY AutoParts DEF AutoTyped, Capability!AutoTypeOK

\* startLocked: the preparation that starts is the newest, and it will report.
LEMMA AutoStarts ==
    ASSUME AutoTyped, AutoPrepares, NEW s \in Capability!Slots, s.prep = slot.prep,
           s.dep # "preparing", NEW repair \in BOOLEAN, Capability!StartOf(s, repair)
    PROVE  /\ slot' \in Capability!Slots /\ preps' \in [Capability!PrepIDs -> AutoPreps]
           /\ AutoPrepares' /\ (Capability!PreparingIsLive)'
<1>t. s.prep \in 0..MaxPreps /\ preps \in [Capability!PrepIDs -> AutoPreps]
  BY AutoParts DEF AutoTyped
<1>1. CASE s.dep = "prepared"
  <2>1. slot' = s /\ preps' = preps
    BY <1>1 DEF Capability!StartOf
  <2>2. QED
    BY <1>1, <1>t, <2>1, AutoPreparesKept DEF Capability!PreparingIsLive
<1>2. CASE s.dep # "prepared"
  <2> DEFINE n == s.prep + 1
             X == [at |-> "waiting", cancelled |-> FALSE, repair |-> repair]
  <2>1. /\ s.prep < MaxPreps /\ slot' = [s EXCEPT !.dep = "preparing", !.prep = n]
        /\ preps' = [preps EXCEPT ![n] = X]
    BY <1>2 DEF Capability!StartOf
  <2>2. n \in Capability!PrepIDs /\ n \in 0..MaxPreps
    BY <1>t, <2>1, AutoAssumption DEF Capability!PrepIDs
  <2>3. X \in AutoPreps /\ X.at = "waiting" /\ ~X.cancelled
    BY DEF AutoPreps
  <2>4. slot' \in Capability!Slots /\ slot'.prep = n /\ slot'.dep = "preparing"
    BY <2>1, <2>2 DEF Capability!Slots
  <2> HIDE DEF X
  <2>5. /\ preps' \in [Capability!PrepIDs -> AutoPreps] /\ preps'[n] = X
        /\ \A p \in Capability!PrepIDs \ {n} : preps'[p] = preps[p]
    BY <1>t, <2>1, <2>2, <2>3
  <2>6. \A p \in Capability!PrepIDs : p \in Nat /\ (s.prep < p <=> p = n \/ n < p)
    BY <1>t, AutoAssumption DEF Capability!PrepIDs
  <2>7. AutoPrepares'
    <3>1. \A p \in Capability!PrepIDs : slot'.prep < p <=> preps'[p].at = "none"
      BY <1>t, <2>2, <2>3, <2>4, <2>5, <2>6 DEF AutoPrepares
    <3>2. ASSUME NEW p \in Capability!PrepIDs, preps'[p].at \in {"running", "done"}
          PROVE  (Capability!PreviousDone(p))'
      <4>1. p # n /\ preps[p].at \in {"running", "done"}
        BY <2>3, <2>5, <3>2
      <4>2. ~(s.prep < p)
        BY <4>1 DEF AutoPrepares
      <4>3. \A q \in Capability!PrepIDs : q < p => q # n
        BY <1>t, <2>6, <4>2
      <4>4. QED
        BY <2>5, <4>1, <4>3 DEF AutoPrepares, Capability!PreviousDone
    <3>3. QED
      BY <3>1, <3>2 DEF AutoPrepares
  <2>8. (Capability!PreparingIsLive)'
    BY <2>2, <2>3, <2>4, <2>5, <1>t DEF Capability!PreparingIsLive
  <2>9. QED
    BY <2>4, <2>5, <2>7, <2>8
<1>3. QED
  BY <1>1, <1>2

\* Every operation, goroutine and call of the service keeps the invariant.
LEMMA AutoStep ==
    ASSUME AutoInv, [Capability!Next]_autoVars
    PROVE  AutoInv'
<1> USE DEF AutoInv
<1>t. /\ slot \in Capability!Slots /\ worker \in Capability!Workers
      /\ maintaining \in BOOLEAN /\ prepared \in BOOLEAN
      /\ preps \in [Capability!PrepIDs -> AutoPreps]
      /\ entries \in [Capability!EntryIDs -> AutoEntries]
      /\ ownEntry \in 0..MaxEntries /\ opHeld.waits \subseteq Capability!EntryIDs
      /\ acalls \in [AutoCalls -> AutoCallers]
      /\ \A c \in AutoCalls : acalls[c].at # "idle" => acalls[c].entry # 0
  BY DEF AutoTyped, Capability!AutoTypeOK
<1>e. \A i \in 0..MaxEntries : i # 0 => i \in Capability!EntryIDs
  BY AutoAssumption DEF Capability!EntryIDs
<1>z. 0 \in 0..MaxEntries /\ Capability!EntryIDs \subseteq 0..MaxEntries
  BY AutoAssumption DEF Capability!EntryIDs
<1>o. ASSUME opHeld' = [held |-> TRUE, waits |-> Capability!Old]
      PROVE  (opHeld').waits \subseteq Capability!EntryIDs
  BY <1>o, <1>t, <1>e DEF Capability!Old
<1>s. /\ slot.enabled \in BOOLEAN /\ slot.dep \in {"unprepared", "preparing", "prepared", "failed"}
      /\ slot.epoch \in 1..MaxEpoch /\ slot.prep \in 0..MaxPreps
      /\ worker.gen \in 0..MaxEpoch /\ worker.canChange \in BOOLEAN /\ worker.gateway \in BOOLEAN
  BY <1>t, AutoParts
<1>1. ASSUME NEW on \in BOOLEAN, Capability!SetEnabled(on) PROVE AutoInv'
  <2> DEFINE dep == IF on THEN Capability!Probed(slot.dep) ELSE slot.dep
             s == [slot EXCEPT !.enabled = on, !.epoch = slot.epoch + 1, !.dep = dep]
  <2>1. /\ dep \in {"unprepared", "preparing", "prepared", "failed"}
        /\ dep = "preparing" => slot.dep = "preparing"
    BY <1>s DEF Capability!Probed
  <2>2. slot.epoch + 1 \in 1..MaxEpoch
    BY <1>1, <1>s, AutoAssumption DEF Capability!SetEnabled
  <2> HIDE DEF dep
  <2>3. s \in Capability!Slots /\ s.prep = slot.prep /\ s.dep = dep
    BY <1>t, <2>1, <2>2 DEF Capability!Slots
  <2> HIDE DEF s
  <2>4. /\ slot' = s /\ entries' = Capability!Revoked /\ ownEntry' = 0
        /\ opHeld' = [held |-> TRUE, waits |-> Capability!Old]
        /\ UNCHANGED <<worker, maintaining, prepared, preps, stoppedAt, acalls>>
    BY <1>1 DEF Capability!SetEnabled, s, dep
  <2>5. entries' \in [Capability!EntryIDs -> AutoEntries] /\ AutoReleases'
    BY <2>4, AutoRevokes
  <2>6. AutoPrepares'
    BY <2>3, <2>4, AutoPreparesKept
  <2>7. (Capability!PreparingIsLive)'
    BY <2>1, <2>3, <2>4 DEF Capability!PreparingIsLive
  <2>8. AutoTyped'
    BY <1>t, <1>z, <1>o, <2>3, <2>4, <2>5, AutoTypedOf
  <2>9. QED
    BY <2>5, <2>6, <2>7, <2>8
<1>2. ASSUME NEW ready \in BOOLEAN, Capability!Worker(ready) PROVE AutoInv'
  <2> DEFINE was == IF slot.dep = "preparing" THEN "unprepared" ELSE slot.dep
             dep == IF ready THEN Capability!Probed(was) ELSE was
             s == [slot EXCEPT !.epoch = slot.epoch + 1, !.dep = dep]
             P == [p \in Capability!PrepIDs |-> [preps[p] EXCEPT !.cancelled = @ \/ p = slot.prep]]
  <2>1. dep \in {"unprepared", "prepared", "failed"}
    BY <1>s DEF Capability!Probed
  <2>2. slot.epoch + 1 \in 1..MaxEpoch
    BY <1>2, <1>s, AutoAssumption DEF Capability!Worker
  <2>3. /\ slot' = s /\ preps' = P /\ entries' = Capability!Revoked /\ ownEntry' = 0
        /\ opHeld' = [held |-> TRUE, waits |-> Capability!Old]
        /\ UNCHANGED <<maintaining, prepared, acalls>>
    BY <1>2 DEF Capability!Worker
  <2> HIDE DEF dep
  <2>4. s \in Capability!Slots /\ s.prep = slot.prep /\ s.dep = dep
    BY <1>t, <2>1, <2>2 DEF Capability!Slots
  <2>5. /\ P \in [Capability!PrepIDs -> AutoPreps]
        /\ \A p \in Capability!PrepIDs : P[p].at = preps[p].at
    <3>1. ASSUME NEW p \in Capability!PrepIDs
          PROVE  /\ [preps[p] EXCEPT !.cancelled = @ \/ p = slot.prep] \in AutoPreps
                 /\ [preps[p] EXCEPT !.cancelled = @ \/ p = slot.prep].at = preps[p].at
      BY <1>t DEF AutoPreps
    <3>2. QED
      BY <3>1
  <2>6. worker' \in Capability!Workers
    <3>1. PICK gen \in {worker.gen, worker.gen + 1} :
              /\ gen <= MaxEpoch
              /\ worker' = [gen |-> gen, canChange |-> ready,
                            gateway |-> worker.gateway /\ gen = worker.gen /\ ready]
      BY <1>2 DEF Capability!Worker
    <3>2. gen \in 0..MaxEpoch
      BY <1>s, <3>1, AutoAssumption
    <3>3. QED
      BY <3>1, <3>2 DEF Capability!Workers
  <2> HIDE DEF s, P
  <2>7. entries' \in [Capability!EntryIDs -> AutoEntries] /\ AutoReleases'
    BY <2>3, AutoRevokes
  <2>8. AutoPrepares'
    BY <2>3, <2>4, <2>5 DEF AutoPrepares, Capability!PreviousDone
  <2>9. (Capability!PreparingIsLive)'
    BY <2>1, <2>3, <2>4 DEF Capability!PreparingIsLive
  <2>10. AutoTyped'
    BY <1>t, <1>z, <1>o, <2>3, <2>4, <2>5, <2>6, <2>7, AutoTypedOf
  <2>11. QED
    BY <2>7, <2>8, <2>9, <2>10
<1>3. ASSUME Capability!Retry \/ Capability!Repair PROVE AutoInv'
  <2>1. PICK s \in Capability!Slots, repair \in BOOLEAN :
            s.prep = slot.prep /\ s.dep # "preparing" /\ Capability!StartOf(s, repair)
    <3>1. CASE Capability!Retry
      <4> DEFINE s == [slot EXCEPT !.dep = Capability!Probed(slot.dep)]
      <4>1. Capability!Probed(slot.dep) \in {"unprepared", "prepared"}
        BY <3>1 DEF Capability!Retry, Capability!Probed
      <4>2. s \in Capability!Slots /\ s.prep = slot.prep /\ s.dep # "preparing"
        BY <1>t, <4>1 DEF Capability!Slots
      <4>3. Capability!StartOf(s, FALSE)
        BY <3>1 DEF Capability!Retry
      <4> HIDE DEF s
      <4>4. QED
        BY <4>2, <4>3
    <3>2. CASE Capability!Repair
      <4> DEFINE s == [slot EXCEPT !.dep = "unprepared"]
      <4>1. s \in Capability!Slots /\ s.prep = slot.prep /\ s.dep # "preparing"
        BY <1>t DEF Capability!Slots
      <4>2. Capability!StartOf(s, TRUE)
        BY <3>2 DEF Capability!Repair
      <4> HIDE DEF s
      <4>3. QED
        BY <4>1, <4>2
    <3>3. QED
      BY <1>3, <3>1, <3>2
  <2>2. UNCHANGED <<worker, maintaining, prepared, entries, ownEntry, stoppedAt, opHeld, acalls>>
    BY <1>3 DEF Capability!Retry, Capability!Repair
  <2>3. /\ slot' \in Capability!Slots /\ preps' \in [Capability!PrepIDs -> AutoPreps]
        /\ AutoPrepares' /\ (Capability!PreparingIsLive)'
    BY <2>1, AutoStarts
  <2>4. AutoTyped'
    BY <1>t, <2>2, <2>3, AutoTypedOf
  <2>5. QED
    BY <2>2, <2>3, <2>4, AutoReleasesKept
<1>4. ASSUME Capability!Maintain \/ Capability!EndMaintenance PROVE AutoInv'
  <2>1. maintaining' \in BOOLEAN
    BY <1>4, Zenon DEF Capability!Maintain, Capability!EndMaintenance
  <2>2. UNCHANGED <<slot, worker, prepared, preps, entries, ownEntry, stoppedAt, opHeld, acalls>>
    BY <1>4 DEF Capability!Maintain, Capability!EndMaintenance
  <2>3. AutoTyped'
    BY <1>t, <2>1, <2>2, AutoTypedOf
  <2>4. QED
    BY <2>2, <2>3, AutoReleasesKept, AutoPreparesKept DEF Capability!PreparingIsLive
<1>5. ASSUME Capability!Gateway PROVE AutoInv'
  <2>1. worker' \in Capability!Workers
    BY <1>5, <1>t DEF Capability!Gateway, Capability!Workers
  <2>2. UNCHANGED <<maintaining, prepared, preps, stoppedAt, acalls>>
    BY <1>5 DEF Capability!Gateway
  <2>3. CASE UNCHANGED <<slot, entries, ownEntry, opHeld>>
    <3>1. AutoTyped'
      BY <1>t, <2>1, <2>2, <2>3, AutoTypedOf
    <3>2. QED
      BY <2>2, <2>3, <3>1, AutoReleasesKept, AutoPreparesKept DEF Capability!PreparingIsLive
  <2>4. CASE /\ slot.epoch < MaxEpoch /\ slot' = [slot EXCEPT !.epoch = @ + 1]
             /\ entries' = Capability!Revoked /\ ownEntry' = 0
             /\ opHeld' = [held |-> TRUE, waits |-> Capability!Old]
    <3>1. slot.epoch + 1 \in 1..MaxEpoch
      BY <1>s, <2>4, AutoAssumption
    <3>2. slot' \in Capability!Slots /\ slot'.prep = slot.prep /\ slot'.dep = slot.dep
      BY <1>t, <2>4, <3>1 DEF Capability!Slots
    <3>3. entries' \in [Capability!EntryIDs -> AutoEntries] /\ AutoReleases'
      BY <2>4, AutoRevokes
    <3>4. AutoTyped'
      BY <1>t, <1>z, <1>o, <2>1, <2>2, <2>4, <3>2, <3>3, AutoTypedOf
    <3>5. QED
      BY <2>2, <3>2, <3>3, <3>4, AutoPreparesKept DEF Capability!PreparingIsLive
  <2>5. QED
    BY <1>5, <2>3, <2>4 DEF Capability!Gateway
<1>6. ASSUME Capability!OpReturns PROVE AutoInv'
  <2>1. (opHeld').waits \subseteq Capability!EntryIDs
    BY <1>6 DEF Capability!OpReturns, Capability!NotHeld
  <2>2. UNCHANGED <<slot, worker, maintaining, prepared, preps, entries, ownEntry, stoppedAt, acalls>>
    BY <1>6 DEF Capability!OpReturns
  <2>3. AutoTyped'
    BY <1>t, <2>1, <2>2, AutoTypedOf
  <2>4. QED
    BY <2>2, <2>3, AutoReleasesKept, AutoPreparesKept DEF Capability!PreparingIsLive
<1>7. ASSUME Capability!StopSession PROVE AutoInv'
  <2>1. /\ UNCHANGED <<slot, worker, maintaining, prepared, preps, opHeld, acalls>>
        /\ entries' = Capability!Revoked /\ ownEntry' = 0
    BY <1>7 DEF Capability!StopSession
  <2>2. entries' \in [Capability!EntryIDs -> AutoEntries] /\ AutoReleases'
    BY <2>1, AutoRevokes
  <2>3. AutoTyped'
    BY <1>t, <1>z, <2>1, <2>2, AutoTypedOf
  <2>4. QED
    BY <2>1, <2>2, <2>3, AutoPreparesKept DEF Capability!PreparingIsLive
<1>8. ASSUME NEW p \in Capability!PrepIDs, Capability!Prepare(p) PROVE AutoInv'
  <2> DEFINE a == IF preps[p].cancelled THEN "done" ELSE "running"
             X == [preps[p] EXCEPT !.at = a]
  <2>1. /\ preps' = [preps EXCEPT ![p] = X] /\ preps[p].at = "waiting" /\ Capability!PreviousDone(p)
        /\ UNCHANGED <<slot, worker, maintaining, prepared, entries, ownEntry, stoppedAt, opHeld, acalls>>
    BY <1>8 DEF Capability!Prepare
  <2>2. a \in {"running", "done"} /\ (a = "done" => preps[p].cancelled)
    OBVIOUS
  <2> HIDE DEF a
  <2>3. X \in AutoPreps /\ X.at = a /\ X.cancelled = preps[p].cancelled
    BY <1>t, <2>2 DEF AutoPreps
  <2> HIDE DEF X
  <2>4. /\ preps' \in [Capability!PrepIDs -> AutoPreps] /\ preps'[p].at = a
        /\ preps'[p].cancelled = preps[p].cancelled
        /\ \A q \in Capability!PrepIDs \ {p} : preps'[q] = preps[q]
    BY <1>t, <2>1, <2>3
  <2>5. AutoPrepares'
    <3>1. \A q \in Capability!PrepIDs : slot'.prep < q <=> preps'[q].at = "none"
      BY <2>1, <2>2, <2>4 DEF AutoPrepares
    <3>2. \A q \in Capability!PrepIDs : preps[q].at = "done" => preps'[q].at = "done"
      BY <2>1, <2>4
    <3>3. \A q \in Capability!PrepIDs : preps'[q].at \in {"running", "done"} => (Capability!PreviousDone(q))'
      BY <2>1, <2>4, <3>2 DEF AutoPrepares, Capability!PreviousDone
    <3>4. QED
      BY <3>1, <3>3 DEF AutoPrepares
  <2>6. (Capability!PreparingIsLive)'
    <3>1. CASE slot.prep = p
      BY <2>1, <2>2, <2>4, <3>1 DEF Capability!PreparingIsLive
    <3>2. CASE slot.prep # p
      <4>1. slot.prep > 0 => slot.prep \in Capability!PrepIDs
        BY <1>s, AutoAssumption DEF Capability!PrepIDs
      <4>2. QED
        BY <2>1, <2>4, <3>2, <4>1 DEF Capability!PreparingIsLive
    <3>3. QED
      BY <3>1, <3>2
  <2>7. AutoTyped'
    BY <1>t, <2>1, <2>4, AutoTypedOf
  <2>8. QED
    BY <2>1, <2>5, <2>6, <2>7, AutoReleasesKept
<1>9. ASSUME NEW p \in Capability!PrepIDs, NEW ok \in BOOLEAN, Capability!PrepareEnds(p, ok) PROVE AutoInv'
  <2> DEFINE X == [preps[p] EXCEPT !.at = "done"]
             d == IF ok \/ (preps[p].repair /\ prepared) THEN "prepared" ELSE "failed"
             s == [slot EXCEPT !.dep = d]
  <2>1. /\ preps' = [preps EXCEPT ![p] = X] /\ preps[p].at = "running"
        /\ UNCHANGED <<worker, maintaining, entries, ownEntry, stoppedAt, opHeld, acalls>>
    BY <1>9 DEF Capability!PrepareEnds
  <2>2. prepared' \in BOOLEAN
    BY <1>9, Zenon DEF Capability!PrepareEnds
  <2>3. slot' = s \/ (slot' = slot /\ (slot.prep # p \/ preps[p].cancelled))
    <3>1. slot' = IF slot.prep # p \/ preps[p].cancelled THEN slot ELSE s
      BY <1>9, Zenon DEF Capability!PrepareEnds
    <3> HIDE DEF s
    <3>2. QED
      BY <3>1, Zenon
  <2>4. d \in {"prepared", "failed"}
    OBVIOUS
  <2> HIDE DEF d
  <2>5. s \in Capability!Slots /\ s.prep = slot.prep /\ s.dep = d
    BY <1>t, <2>4 DEF Capability!Slots
  <2>6. X \in AutoPreps /\ X.at = "done" /\ X.cancelled = preps[p].cancelled
    BY <1>t DEF AutoPreps
  <2> HIDE DEF X, s
  <2>7. /\ preps' \in [Capability!PrepIDs -> AutoPreps] /\ preps'[p].at = "done"
        /\ preps'[p].cancelled = preps[p].cancelled
        /\ \A q \in Capability!PrepIDs \ {p} : preps'[q] = preps[q]
    BY <1>t, <2>1, <2>6
  <2>8. slot' \in Capability!Slots /\ slot'.prep = slot.prep
    BY <1>t, <2>3, <2>5
  <2>9. AutoPrepares'
    <3>1. \A q \in Capability!PrepIDs : slot'.prep < q <=> preps'[q].at = "none"
      BY <2>1, <2>7, <2>8 DEF AutoPrepares
    <3>2. \A q \in Capability!PrepIDs : preps[q].at = "done" => preps'[q].at = "done"
      BY <2>7
    <3>3. \A q \in Capability!PrepIDs : preps'[q].at \in {"running", "done"} => (Capability!PreviousDone(q))'
      BY <2>1, <2>7, <3>2 DEF AutoPrepares, Capability!PreviousDone
    <3>4. QED
      BY <3>1, <3>3 DEF AutoPrepares
  <2>10. (Capability!PreparingIsLive)'
    <3>1. CASE slot' = s
      BY <2>4, <2>5, <3>1 DEF Capability!PreparingIsLive
    <3>2. CASE slot' = slot /\ (slot.prep # p \/ preps[p].cancelled)
      <4>1. slot.prep > 0 => slot.prep \in Capability!PrepIDs
        BY <1>s, AutoAssumption DEF Capability!PrepIDs
      <4>2. QED
        BY <2>7, <3>2, <4>1 DEF Capability!PreparingIsLive
    <3>3. QED
      BY <2>3, <3>1, <3>2
  <2>11. AutoTyped'
    BY <1>t, <2>1, <2>2, <2>7, <2>8, AutoTypedOf
  <2>12. QED
    BY <2>1, <2>9, <2>10, <2>11, AutoReleasesKept
<1>10. ASSUME NEW c \in AutoCalls, Capability!Ask(c) PROVE AutoInv'
  <2> DEFINE X == [Capability!NoCall EXCEPT !.epoch = slot.epoch, !.gen = worker.gen, !.done = TRUE]
  <2>1. /\ acalls' = [acalls EXCEPT ![c] = X]
        /\ UNCHANGED <<slot, worker, maintaining, prepared, preps, entries, ownEntry, stoppedAt, opHeld>>
    BY <1>10 DEF Capability!Ask
  <2>a. slot.epoch \in Nat /\ worker.gen \in Nat
    BY <1>s, AutoAssumption
  <2>2. X \in AutoCallers /\ X.at = "idle"
    BY <1>z, <2>a DEF AutoCallers, Capability!NoCall
  <2> HIDE DEF X
  <2>3. /\ acalls' \in [AutoCalls -> AutoCallers]
        /\ \A d \in AutoCalls : acalls'[d].at # "idle" => acalls'[d].entry # 0
    BY <1>t, <2>1, <2>2
  <2>4. AutoTyped'
    BY <1>t, <2>1, <2>3, AutoTypedOf
  <2>5. QED
    BY <2>1, <2>4, AutoReleasesKept, AutoPreparesKept DEF Capability!PreparingIsLive
<1>11. ASSUME NEW c \in AutoCalls, Capability!Join(c) PROVE AutoInv'
  <2>1. UNCHANGED <<slot, worker, maintaining, prepared, preps, stoppedAt, opHeld>>
    BY <1>11 DEF Capability!Join
  <2>2. CASE /\ ownEntry # 0
             /\ entries' = [entries EXCEPT ![ownEntry].waiters = @ + 1]
             /\ acalls' = [acalls EXCEPT ![c].at = "waiting", ![c].entry = ownEntry]
             /\ UNCHANGED ownEntry
    <3>1. ownEntry \in Capability!EntryIDs
      BY <1>t, <1>e, <2>2
    <3>2. entries[ownEntry].waiters + 1 \in Int
      BY <1>t, <3>1, AutoParts
    <3>3. entries' = [entries EXCEPT ![ownEntry].waiters = entries[ownEntry].waiters + 1]
      BY <2>2
    <3>4. /\ entries' \in [Capability!EntryIDs -> AutoEntries]
          /\ \A f \in Capability!EntryIDs \ {ownEntry} : entries'[f] = entries[f]
          /\ entries'[ownEntry].at = entries[ownEntry].at
          /\ entries'[ownEntry].res = entries[ownEntry].res
          /\ entries'[ownEntry].closed = entries[ownEntry].closed
          /\ entries'[ownEntry].closing = entries[ownEntry].closing
      BY <1>t, <3>1, <3>2, <3>3, EntryCounted
    <3>5. AutoReleases'
      BY <2>2, <3>1, <3>4 DEF AutoReleases
    <3>6. /\ acalls' \in [AutoCalls -> AutoCallers]
          /\ \A d \in AutoCalls : acalls'[d].at # "idle" => acalls'[d].entry # 0
      BY <1>t, <2>2, CallJoins
    <3>7. AutoTyped'
      BY <1>t, <2>1, <2>2, <3>4, <3>6, AutoTypedOf
    <3>8. QED
      BY <2>1, <3>5, <3>7, AutoPreparesKept DEF Capability!PreparingIsLive
  <2>3. ASSUME Capability!Replaceable, NEW e \in Capability!EntryIDs, Capability!Free(e), ownEntry' = e,
               entries' = [entries EXCEPT ![e] =
                             [Capability!NoEntry EXCEPT !.at = "creating", !.waiters = 1]],
               acalls' = [acalls EXCEPT ![c].at = "waiting", ![c].entry = e]
        PROVE  AutoInv'
    <3> DEFINE X == [Capability!NoEntry EXCEPT !.at = "creating", !.waiters = 1]
    <3>1. X \in AutoEntries /\ X.at = "creating" /\ ~X.closed
      <4>1. Capability!NoEntry \in AutoEntries /\ ~Capability!NoEntry.closed
        BY DEF AutoEntries, Capability!NoEntry
      <4>2. ASSUME NEW r \in AutoEntries, NEW w \in Int
            PROVE  LET n == [r EXCEPT !.at = "creating", !.waiters = w]
                   IN n \in AutoEntries /\ n.at = "creating" /\ n.closed = r.closed
        BY <4>2 DEF AutoEntries
      <4>3. 1 \in Int
        OBVIOUS
      <4>4. QED
        BY <4>1, <4>2, <4>3, Zenon
    <3>2. entries' = [entries EXCEPT ![e] = X]
      BY <2>3
    <3> HIDE DEF X
    <3>3. /\ entries' \in [Capability!EntryIDs -> AutoEntries] /\ entries'[e] = X
          /\ \A f \in Capability!EntryIDs \ {e} : entries'[f] = entries[f]
      BY <1>t, <3>1, <3>2, EntryReplaced
    <3>4. e # 0 /\ e \in 0..MaxEntries
      BY <1>z, AutoAssumption DEF Capability!EntryIDs
    <3>5. ownEntry # 0 => ownEntry \in Capability!EntryIDs /\ entries[ownEntry].closed
      BY <1>t, <1>e, <2>3 DEF Capability!Replaceable
    <3>6. AutoReleases'
      <4>1. \A f \in Capability!EntryIDs \ {e} : entries[f].at # "none" => entries[f].closing
        <5>1. 0 \notin Capability!EntryIDs
          BY AutoAssumption DEF Capability!EntryIDs
        <5>2. QED
          BY <3>5, <5>1 DEF AutoReleases
      <4>2. QED
        BY <2>3, <3>1, <3>3, <4>1 DEF AutoReleases
    <3>7. /\ acalls' \in [AutoCalls -> AutoCallers]
          /\ \A d \in AutoCalls : acalls'[d].at # "idle" => acalls'[d].entry # 0
      BY <1>t, <2>3, <3>4, CallJoins
    <3>8. AutoTyped'
      BY <1>t, <2>1, <2>3, <3>3, <3>4, <3>7, AutoTypedOf
    <3>9. QED
      BY <2>1, <3>6, <3>8, AutoPreparesKept DEF Capability!PreparingIsLive
  <2>4. QED
    BY <1>11, <2>2, <2>3 DEF Capability!Join
<1>12. ASSUME NEW c \in AutoCalls, Capability!Abandon(c) PROVE AutoInv'
  <2> DEFINE e == acalls[c].entry
             n == entries[e].waiters - 1
             b == entries[e].cancelled \/ (entries[e].waiters = 1 /\ entries[e].at = "creating")
             X == WithWaiters(entries[e], n, b)
  <2>1. /\ UNCHANGED <<slot, worker, maintaining, prepared, preps, ownEntry, stoppedAt, opHeld>>
        /\ acalls[c].at = "waiting" /\ acalls' = [acalls EXCEPT ![c].at = "idle"]
        /\ entries' = [entries EXCEPT ![e].waiters = n, ![e].cancelled = b]
    BY <1>12 DEF Capability!Abandon
  <2>2. e \in Capability!EntryIDs
    BY <1>t, <1>e, <2>1, AutoParts
  <2>3. n \in Int /\ b \in BOOLEAN
    BY <1>t, <2>2, AutoParts
  <2> HIDE DEF n, b
  <2>4. /\ X \in AutoEntries /\ X.at = entries[e].at /\ X.res = entries[e].res
        /\ X.closed = entries[e].closed /\ X.closing = entries[e].closing
    <3>1. entries[e] \in AutoEntries
      BY <1>t, <2>2 DEF AutoTyped
    <3>2. QED
      BY <2>3, <3>1, WaitersChange
  <2>5. entries' = [entries EXCEPT ![e] = X]
    BY <1>t, <2>1, <2>2 DEF AutoEntries, WithWaiters
  <2> HIDE DEF X, e
  <2>6. /\ entries' \in [Capability!EntryIDs -> AutoEntries] /\ entries'[e] = X
        /\ \A f \in Capability!EntryIDs \ {e} : entries'[f] = entries[f]
    BY <1>t, <2>2, <2>4, <2>5, EntryReplaced
  <2>7. AutoReleases'
    BY <2>1, <2>2, <2>4, <2>6 DEF AutoReleases
  <2>8. /\ acalls' \in [AutoCalls -> AutoCallers]
        /\ \A d \in AutoCalls : acalls'[d].at # "idle" => acalls'[d].entry # 0
    <3>1. /\ acalls' \in [AutoCalls -> AutoCallers]
          /\ acalls'[c].at = "idle" /\ \A d \in AutoCalls \ {c} : acalls'[d] = acalls[d]
      BY <1>t, <2>1, CallMoves
    <3>2. QED
      BY <1>t, <3>1
  <2>9. AutoTyped'
    BY <1>t, <2>1, <2>6, <2>8, AutoTypedOf
  <2>10. QED
    BY <2>1, <2>7, <2>9, AutoPreparesKept DEF Capability!PreparingIsLive
<1>13. ASSUME NEW c \in AutoCalls, Capability!Execute(c) PROVE AutoInv'
  <2> DEFINE e == acalls[c].entry
             n == entries[e].waiters - 1
             left == [entries EXCEPT ![e].waiters = n]
  <2>1. /\ UNCHANGED <<slot, worker, maintaining, prepared, preps, stoppedAt, opHeld>>
        /\ acalls[c].at = "waiting"
        /\ \E a \in {"idle", "executing"} : acalls' = [acalls EXCEPT ![c].at = a]
        /\ \/ entries' = left /\ UNCHANGED ownEntry
           \/ ownEntry = e /\ entries' = Capability!RevokeEntry(left, e) /\ ownEntry' = 0
    BY <1>13 DEF Capability!Execute
  <2>2. e \in Capability!EntryIDs /\ acalls[c].entry # 0
    BY <1>t, <1>e, <2>1, AutoParts
  <2>3. n \in Int
    BY <1>t, <2>2, AutoParts
  <2>a. left = [entries EXCEPT ![e].waiters = n]
    OBVIOUS
  <2> HIDE DEF n, left, e
  <2>4. /\ left \in [Capability!EntryIDs -> AutoEntries]
        /\ \A f \in Capability!EntryIDs \ {e} : left[f] = entries[f]
        /\ left[e].at = entries[e].at /\ left[e].res = entries[e].res
        /\ left[e].closed = entries[e].closed /\ left[e].closing = entries[e].closing
    BY <1>t, <2>2, <2>3, <2>a, EntryCounted
  <2>5. entries' \in [Capability!EntryIDs -> AutoEntries] /\ AutoReleases' /\ ownEntry' \in 0..MaxEntries
    <3>1. CASE entries' = left /\ UNCHANGED ownEntry
      BY <1>t, <2>2, <2>4, <3>1 DEF AutoReleases
    <3>2. CASE ownEntry = e /\ entries' = Capability!RevokeEntry(left, e) /\ ownEntry' = 0
      <4>1. /\ entries' \in [Capability!EntryIDs -> AutoEntries]
            /\ \A f \in Capability!EntryIDs \ {e} : entries'[f] = left[f]
            /\ entries'[e].at = left[e].at /\ entries'[e].res = left[e].res
            /\ entries'[e].closed = left[e].closed /\ entries'[e].closing
        BY <2>2, <2>4, <3>2, EntryRevoked
      <4>2. QED
        BY <1>z, <2>2, <2>4, <3>2, <4>1 DEF AutoReleases
    <3>3. QED
      BY <2>1, <3>1, <3>2
  <2>6. /\ acalls' \in [AutoCalls -> AutoCallers]
        /\ \A d \in AutoCalls : acalls'[d].at # "idle" => acalls'[d].entry # 0
    <3>1. PICK a \in {"idle", "executing"} : acalls' = [acalls EXCEPT ![c].at = a]
      BY <2>1
    <3>2. /\ acalls' \in [AutoCalls -> AutoCallers]
          /\ \A d \in AutoCalls \ {c} : acalls'[d] = acalls[d]
          /\ acalls'[c].entry = acalls[c].entry
      BY <1>t, <3>1, CallMoves
    <3>3. QED
      BY <1>t, <2>2, <3>2
  <2>7. AutoTyped'
    BY <1>t, <2>1, <2>5, <2>6, AutoTypedOf
  <2>8. QED
    BY <2>1, <2>5, <2>7, AutoPreparesKept DEF Capability!PreparingIsLive
<1>14. ASSUME NEW c \in AutoCalls, Capability!Return(c) PROVE AutoInv'
  <2> DEFINE e == acalls[c].entry
  <2>1. /\ UNCHANGED <<slot, worker, maintaining, prepared, preps, stoppedAt, opHeld>>
        /\ acalls[c].at = "executing" /\ acalls' = [acalls EXCEPT ![c].at = "idle"]
        /\ \/ UNCHANGED <<entries, ownEntry>>
           \/ ownEntry = e /\ entries' = Capability!RevokeEntry(entries, e) /\ ownEntry' = 0
    BY <1>14 DEF Capability!Return
  <2>2. e \in Capability!EntryIDs
    BY <1>t, <1>e, <2>1, AutoParts
  <2> HIDE DEF e
  <2>3. entries' \in [Capability!EntryIDs -> AutoEntries] /\ AutoReleases' /\ ownEntry' \in 0..MaxEntries
    <3>1. CASE UNCHANGED <<entries, ownEntry>>
      BY <1>t, <3>1, AutoReleasesKept
    <3>2. CASE ownEntry = e /\ entries' = Capability!RevokeEntry(entries, e) /\ ownEntry' = 0
      <4>1. /\ entries' \in [Capability!EntryIDs -> AutoEntries]
            /\ \A f \in Capability!EntryIDs \ {e} : entries'[f] = entries[f]
            /\ entries'[e].at = entries[e].at /\ entries'[e].res = entries[e].res
            /\ entries'[e].closed = entries[e].closed /\ entries'[e].closing
        BY <1>t, <2>2, <3>2, EntryRevoked
      <4>2. QED
        BY <1>z, <2>2, <3>2, <4>1 DEF AutoReleases
    <3>3. QED
      BY <2>1, <3>1, <3>2
  <2>4. /\ acalls' \in [AutoCalls -> AutoCallers]
        /\ \A d \in AutoCalls : acalls'[d].at # "idle" => acalls'[d].entry # 0
    <3>1. /\ acalls' \in [AutoCalls -> AutoCallers]
          /\ acalls'[c].at = "idle" /\ \A d \in AutoCalls \ {c} : acalls'[d] = acalls[d]
      BY <1>t, <2>1, CallMoves
    <3>2. QED
      BY <1>t, <3>1
  <2>5. AutoTyped'
    BY <1>t, <2>1, <2>3, <2>4, AutoTypedOf
  <2>6. QED
    BY <2>1, <2>3, <2>5, AutoPreparesKept DEF Capability!PreparingIsLive
<1>15. ASSUME NEW e \in Capability!EntryIDs, Capability!CloseEntry(e) PROVE AutoInv'
  <2> DEFINE v == IF entries[e].res = "open" THEN "closed" ELSE entries[e].res
             X == [entries[e] EXCEPT !.closed = TRUE, !.res = v]
  <2>1. /\ UNCHANGED <<slot, worker, maintaining, prepared, preps, ownEntry, stoppedAt, opHeld, acalls>>
        /\ entries[e].closing /\ entries[e].at = "ready"
        /\ entries' = [entries EXCEPT ![e].closed = TRUE, ![e].res = v]
    BY <1>15 DEF Capability!CloseEntry
  <2>2. v \in {"none", "closed"}
    BY <1>t, AutoParts
  <2> HIDE DEF v
  <2>3. X \in AutoEntries /\ X.at = entries[e].at /\ X.res = v /\ X.closing = entries[e].closing
    BY <1>t, <2>2 DEF AutoEntries
  <2>4. entries' = [entries EXCEPT ![e] = X]
    BY <1>t, <2>1 DEF AutoEntries
  <2> HIDE DEF X
  <2>5. /\ entries' \in [Capability!EntryIDs -> AutoEntries] /\ entries'[e] = X
        /\ \A f \in Capability!EntryIDs \ {e} : entries'[f] = entries[f]
    BY <1>t, <2>3, <2>4, EntryReplaced
  <2>6. AutoReleases'
    BY <2>1, <2>2, <2>3, <2>5 DEF AutoReleases
  <2>7. AutoTyped'
    BY <1>t, <2>1, <2>5, AutoTypedOf
  <2>8. QED
    BY <2>1, <2>6, <2>7, AutoPreparesKept DEF Capability!PreparingIsLive
<1>16. ASSUME NEW e \in Capability!EntryIDs, NEW ok \in BOOLEAN, Capability!Created(e, ok) PROVE AutoInv'
  <2> DEFINE v == IF ok THEN "open" ELSE "none"
             f == ~ok \/ entries[e].cancelled
             g == entries[e].closing \/ ~ok \/ entries[e].cancelled
             X == [entries[e] EXCEPT !.at = "ready", !.res = v, !.err = f, !.closing = g]
  <2>1. /\ UNCHANGED <<slot, worker, maintaining, prepared, preps, ownEntry, stoppedAt, opHeld, acalls>>
        /\ entries[e].at = "creating"
        /\ entries' = [entries EXCEPT ![e].at = "ready", ![e].res = v, ![e].err = f, ![e].closing = g]
    BY <1>16 DEF Capability!Created
  <2>2. v \in {"none", "open"} /\ f \in BOOLEAN /\ g \in BOOLEAN /\ (entries[e].closing => g)
    BY <1>t, AutoParts
  <2> HIDE DEF v, f, g
  <2>3. X \in AutoEntries /\ X.at = "ready" /\ X.closing = g /\ X.closed = entries[e].closed
    BY <1>t, <2>2 DEF AutoEntries
  <2>4. entries' = [entries EXCEPT ![e] = X]
    BY <1>t, <2>1 DEF AutoEntries
  <2> HIDE DEF X
  <2>5. /\ entries' \in [Capability!EntryIDs -> AutoEntries] /\ entries'[e] = X
        /\ \A h \in Capability!EntryIDs \ {e} : entries'[h] = entries[h]
    BY <1>t, <2>3, <2>4, EntryReplaced
  <2>6. ~entries[e].closed
    BY <2>1 DEF AutoReleases
  <2>7. AutoReleases'
    BY <2>1, <2>2, <2>3, <2>5, <2>6 DEF AutoReleases
  <2>8. AutoTyped'
    BY <1>t, <2>1, <2>5, AutoTypedOf
  <2>9. QED
    BY <2>1, <2>7, <2>8, AutoPreparesKept DEF Capability!PreparingIsLive
<1>17. ASSUME UNCHANGED autoVars PROVE AutoInv'
  <2>1. UNCHANGED <<slot, worker, maintaining, prepared, preps, entries, ownEntry, stoppedAt, opHeld, acalls>>
    BY <1>17 DEF autoVars
  <2>2. AutoTyped'
    BY <1>t, <2>1, AutoTypedOf
  <2>3. QED
    BY <2>1, <2>2, AutoReleasesKept, AutoPreparesKept DEF Capability!PreparingIsLive
<1>18. QED
  BY <1>1, <1>2, <1>3, <1>4, <1>5, <1>6, <1>7, <1>8, <1>9, <1>10, <1>11, <1>12, <1>13, <1>14,
     <1>15, <1>16, <1>17 DEF Capability!Next

\* Nothing is prepared, open or called at the start.
LEMMA AutoStart ==
    ASSUME Capability!Init
    PROVE  AutoInv
<1> USE DEF Capability!Init
<1>1. Capability!NoPrep \in AutoPreps /\ Capability!NoPrep.at = "none"
  BY DEF AutoPreps, Capability!NoPrep
<1>2. /\ Capability!NoEntry \in AutoEntries /\ Capability!NoEntry.at = "none"
      /\ Capability!NoEntry.res = "none" /\ ~Capability!NoEntry.closed
  BY DEF AutoEntries, Capability!NoEntry
<1>3. Capability!NoCall \in AutoCallers /\ Capability!NoCall.at = "idle"
  BY AutoAssumption DEF AutoCallers, Capability!NoCall
<1>4. slot \in Capability!Slots /\ slot.prep = 0 /\ slot.dep = "unprepared"
  BY AutoAssumption DEF Capability!Slots
<1>5. worker \in Capability!Workers
  BY AutoAssumption DEF Capability!Workers
<1>6. maintaining \in BOOLEAN /\ prepared \in BOOLEAN
  BY Zenon
<1>7. opHeld.waits \subseteq Capability!EntryIDs /\ ownEntry \in 0..MaxEntries
  BY AutoAssumption DEF Capability!NotHeld
<1>8. AutoTyped
  BY <1>1, <1>2, <1>3, <1>4, <1>5, <1>6, <1>7 DEF AutoTyped, Capability!AutoTypeOK
<1>9. AutoPrepares
  BY <1>1, <1>4, AutoAssumption DEF AutoPrepares, Capability!PrepIDs
<1>10. AutoReleases
  BY <1>2 DEF AutoReleases
<1>11. QED
  BY <1>4, <1>8, <1>9, <1>10 DEF AutoInv, Capability!PreparingIsLive

\* The component counts with the same Cardinality.
LEMMA AutoCount == \A S : Capability!Cardinality(S) = Cardinality(S)
BY DEF Capability!Cardinality, Cardinality

\* The invariant gives one preparer, a preparation that reports and no orphan resource.
LEMMA AutoSafe ==
    ASSUME AutoInv
    PROVE  Capability!OnePreparer /\ Capability!PreparingIsLive /\ Capability!NoOrphanResource
<1> DEFINE S == {p \in Capability!PrepIDs : preps[p].at = "running"}
<1>1. \A p, q \in S : p = q
  <2>1. \A p, q \in Capability!PrepIDs : p \in Nat /\ q \in Nat /\ (p < q \/ q < p \/ p = q)
    BY AutoAssumption DEF Capability!PrepIDs
  <2>2. QED
    BY <2>1 DEF AutoInv, AutoPrepares, Capability!PreviousDone
<1> HIDE DEF S
<1>2. Cardinality(S) <= 1
  BY <1>1, AtMostOne
<1>3. Capability!OnePreparer
  BY <1>2, AutoCount DEF S, Capability!OnePreparer
<1>4. Capability!NoOrphanResource
  BY DEF AutoInv, AutoReleases, Capability!NoOrphanResource
<1>5. QED
  BY <1>3, <1>4 DEF AutoInv
-----------------------------------------------------------------------------
(* The linked browser profiles                                             *)

\* Types of what the run's type invariant leaves open.
BrowserTyped ==
    /\ Browser!ProfilesTypeOK
    /\ selectedProfile \in Bindings \cup {"none"}
    /\ conflicts \subseteq Profiles
    /\ requests \in [Conns -> {"none", "live", "expired"}]
    /\ browserEpoch \in Nat
    /\ DOMAIN lease = Routes
    /\ broken \in [Routes -> BOOLEAN]

\* A connection that speaks has had its id handed out (connectBrowser never reuses
\* one), and an identity seen twice is under quarantine until it has no connection.
BrowserHistory ==
    /\ \A c \in Conns : connections[c] # "none" => c \in usedConns
    /\ duplicated \subseteq conflicts

\* A lease was taken at an epoch no later than the current one, and a lease of the
\* current epoch names the route there has been ever since.
BrowserLeases ==
    \A r \in Routes :
        lease[r].held => /\ lease[r].epoch \in Nat
                         /\ lease[r].epoch <= browserEpoch
                         /\ lease[r].epoch = browserEpoch =>
                               ~broken[r] /\ Browser!Route = lease[r].conn

\* What holds after every step of the profiles.
BrowserInv == BrowserTyped /\ BrowserHistory /\ BrowserLeases

\* selectedConnectionLocked reads the selection, the selected binding, the quarantine
\* and the connections, and nothing else.
LEMMA RouteStays ==
    ASSUME UNCHANGED <<connections, conflicts, selectedProfile>>,
           selectedProfile # "none" => bindings'[selectedProfile] = bindings[selectedProfile]
    PROVE  (Browser!Route)' = Browser!Route
<1>1. CASE selectedProfile = "none"
  BY <1>1 DEF Browser!Route
<1>2. CASE selectedProfile # "none"
  <2> DEFINE First(S) == CHOOSE c \in S : TRUE
             p == bindings[selectedProfile]
             q == bindings'[selectedProfile']
             S == {c \in Conns : connections[c] = p}
             T == {c \in Conns : connections'[c] = q}
  <2>1. Browser!Route = IF p \in conflicts THEN "conflict" ELSE IF S = {} THEN "offline" ELSE First(S)
    BY <1>2, Zenon DEF Browser!Route, Browser!Speaking
  <2>2. selectedProfile' # "none" /\ p = q
    BY <1>2
  <2>3. (Browser!Route)' = IF q \in conflicts' THEN "conflict" ELSE IF T = {} THEN "offline" ELSE First(T)
    BY <2>2, Zenon DEF Browser!Route, Browser!Speaking
  <2>4. S = T
    BY <2>2
  <2> HIDE DEF First, S, T, p, q
  <2>5. QED
    BY <2>1, <2>2, <2>3, <2>4
<1>3. QED
  BY <1>1, <1>2

\* Leases survive a step that moves the epoch whenever it may move the route.
LEMMA LeasesKept ==
    ASSUME BrowserTyped, BrowserLeases, lease' = lease, Browser!Watch,
           \/ browserEpoch' = browserEpoch /\ (Browser!Route)' = Browser!Route
           \/ browserEpoch' = browserEpoch + 1
    PROVE  BrowserLeases' /\ broken' \in [Routes -> BOOLEAN] /\ browserEpoch' \in Nat
<1>1. broken' \in [Routes -> BOOLEAN] /\ browserEpoch' \in Nat
  <2>1. broken' \in [Routes -> BOOLEAN]
    BY DEF Browser!Watch
  <2>2. QED
    BY <2>1 DEF BrowserTyped
<1>2. ASSUME NEW r \in Routes, lease[r].held, lease[r].epoch = browserEpoch'
      PROVE  ~broken'[r] /\ (Browser!Route)' = lease[r].conn
  <2>1. lease[r].epoch = browserEpoch /\ (Browser!Route)' = Browser!Route
    BY <1>2 DEF BrowserTyped, BrowserLeases
  <2>2. ~broken[r] /\ Browser!Route = lease[r].conn
    BY <1>2, <2>1 DEF BrowserLeases
  <2>3. broken'[r] = (broken[r] \/ (lease[r].held /\ (Browser!Route)' # lease[r].conn))
    BY Zenon DEF Browser!Watch
  <2>4. QED
    BY <2>1, <2>2, <2>3
<1>3. \A r \in Routes : lease[r].held => lease[r].epoch \in Nat /\ lease[r].epoch <= browserEpoch'
  BY DEF BrowserTyped, BrowserLeases
<1>4. QED
  BY <1>1, <1>2, <1>3 DEF BrowserLeases

\* Leases survive a step that leaves the route, the leases and the epoch alone.
LEMMA LeasesStay ==
    ASSUME BrowserLeases, (Browser!Route)' = Browser!Route,
           UNCHANGED <<lease, broken, browserEpoch>>
    PROVE  BrowserLeases'
BY DEF BrowserLeases

\* A profile under quarantine keeps a connection, none of which waits for a binding.
Quarantined ==
    \A p \in conflicts : /\ Browser!Speaking(p) # {}
                         /\ \A c \in Browser!Speaking(p) : requests[c] = "none"

\* The selection is of a binding that names a profile.
SelectionIsBound == selectedProfile # "none" => bindings[selectedProfile] \in Profiles

\* The invariant of the profiles is that of its parts, after a step.
LEMMA BrowserInvOf ==
    ASSUME connections' \in [Conns -> Profiles \cup {"none"}],
           bindings' \in [Bindings -> Profiles \cup {"none", "forgotten"}],
           SelectionIsBound', Quarantined',
           selectedProfile' \in Bindings \cup {"none"}, conflicts' \subseteq Profiles,
           requests' \in [Conns -> {"none", "live", "expired"}], browserEpoch' \in Nat,
           DOMAIN lease' = Routes, broken' \in [Routes -> BOOLEAN],
           BrowserHistory', BrowserLeases'
    PROVE  BrowserInv'
BY DEF BrowserInv, BrowserTyped, Browser!ProfilesTypeOK, SelectionIsBound, Quarantined

\* What the invariant says, part by part.
LEMMA BrowserInvHas ==
    ASSUME BrowserInv
    PROVE  /\ connections \in [Conns -> Profiles \cup {"none"}]
           /\ bindings \in [Bindings -> Profiles \cup {"none", "forgotten"}]
           /\ SelectionIsBound /\ Quarantined
           /\ selectedProfile \in Bindings \cup {"none"} /\ conflicts \subseteq Profiles
           /\ requests \in [Conns -> {"none", "live", "expired"}] /\ browserEpoch \in Nat
           /\ DOMAIN lease = Routes /\ broken \in [Routes -> BOOLEAN]
           /\ BrowserTyped /\ BrowserHistory /\ BrowserLeases
BY DEF BrowserInv, BrowserTyped, Browser!ProfilesTypeOK, SelectionIsBound, Quarantined

\* Every operation of the profiles preserves their invariant.
LEMMA BrowserStep ==
    ASSUME BrowserInv, [Browser!ProfilesNext]_browserVars
    PROVE  BrowserInv'
<1> USE BrowserAssumption
<1>h. /\ connections \in [Conns -> Profiles \cup {"none"}]
      /\ bindings \in [Bindings -> Profiles \cup {"none", "forgotten"}]
      /\ SelectionIsBound /\ Quarantined
      /\ selectedProfile \in Bindings \cup {"none"} /\ conflicts \subseteq Profiles
      /\ requests \in [Conns -> {"none", "live", "expired"}] /\ browserEpoch \in Nat
      /\ DOMAIN lease = Routes /\ broken \in [Routes -> BOOLEAN]
      /\ BrowserTyped /\ BrowserHistory /\ BrowserLeases
  BY BrowserInvHas
<1>p. ASSUME Browser!ProfileChange
      PROVE  \/ browserEpoch' = browserEpoch /\ (Browser!Route)' = Browser!Route
             \/ browserEpoch' = browserEpoch + 1
  BY <1>p DEF Browser!ProfileChange
<1>1. ASSUME NEW c \in Conns, NEW p \in Profiles, Browser!BrowserConnected(c, p)
      PROVE  BrowserInv'
  <2> DEFINE twin == IF Browser!Speaking(p) # {} THEN {p} ELSE {}
  <2>1. /\ c \notin usedConns
        /\ connections' = [connections EXCEPT ![c] = p]
        /\ usedConns' = usedConns \cup {c}
        /\ conflicts' = conflicts \cup twin
        /\ duplicated' = duplicated \cup twin
        /\ UNCHANGED <<bindings, selectedProfile, lease, opening>>
        /\ Browser!ProfileChange /\ Browser!Watch
    BY <1>1 DEF Browser!BrowserConnected
  <2>2. requests' = [x \in Conns |-> IF p \in conflicts' /\ connections'[x] = p
                                     THEN "none" ELSE requests[x]]
    BY <1>1 DEF Browser!BrowserConnected
  <2>3. requests' \in [Conns -> {"none", "live", "expired"}]
    BY <1>h, <2>2
  <2>4. twin \subseteq {p}
    OBVIOUS
  <2> HIDE DEF twin
  <2>5. /\ connections' \in [Conns -> Profiles \cup {"none"}] /\ connections'[c] = p
        /\ \A x \in Conns \ {c} : connections'[x] = connections[x]
    BY <1>h, <2>1
  <2>6. connections[c] = "none"
    BY <1>h, <2>1 DEF BrowserHistory
  <2>7. Quarantined'
    <3> SUFFICES ASSUME NEW q \in conflicts'
                 PROVE  /\ \E x \in Conns : connections'[x] = q
                        /\ \A x \in Conns : connections'[x] = q => requests'[x] = "none"
      BY DEF Quarantined, Browser!Speaking
    <3>1. CASE q = p
      BY <2>2, <2>5, <3>1
    <3>2. CASE q # p
      <4>1. q \in conflicts /\ q # "none"
        BY <1>h, <2>1, <2>4, <3>2
      <4>2. /\ \E x \in Conns : connections[x] = q
            /\ \A x \in Conns : connections[x] = q => requests[x] = "none"
        BY <1>h, <4>1 DEF Quarantined, Browser!Speaking
      <4>3. \A x \in Conns : requests'[x] = requests[x] \/ requests'[x] = "none"
        BY <2>2
      <4>4. \A x \in Conns : connections'[x] = q <=> connections[x] = q
        BY <2>5, <2>6, <3>2, <4>1
      <4>5. QED
        BY <4>2, <4>3, <4>4
    <3>3. QED
      BY <3>1, <3>2
  <2>8. BrowserHistory'
    BY <1>h, <2>1, <2>5 DEF BrowserHistory
  <2>9. BrowserLeases' /\ broken' \in [Routes -> BOOLEAN] /\ browserEpoch' \in Nat
    BY <1>h, <1>p, <2>1, LeasesKept
  <2>10. conflicts' \subseteq Profiles /\ SelectionIsBound'
    BY <1>h, <2>1, <2>4 DEF SelectionIsBound
  <2>11. QED
    BY <1>h, <2>1, <2>3, <2>5, <2>7, <2>8, <2>9, <2>10, BrowserInvOf
<1>2. ASSUME NEW c \in Conns, Browser!BrowserDisconnected(c) PROVE BrowserInv'
  <2> DEFINE p == connections[c]
             gone == IF Browser!Speaking(p) = {c} THEN {p} ELSE {}
  <2>1. /\ connections' = [connections EXCEPT ![c] = "none"]
        /\ requests' = [requests EXCEPT ![c] = "none"]
        /\ conflicts' = conflicts \ gone
        /\ duplicated' = duplicated \ gone
        /\ UNCHANGED <<usedConns, bindings, selectedProfile, lease, opening>>
        /\ Browser!ProfileChange /\ Browser!Watch
    BY <1>2 DEF Browser!BrowserDisconnected
  <2>2. Browser!Speaking(p) # {c} \/ gone = {p}
    OBVIOUS
  <2> HIDE DEF gone
  <2>3. /\ connections' \in [Conns -> Profiles \cup {"none"}] /\ connections'[c] = "none"
        /\ \A x \in Conns \ {c} : connections'[x] = connections[x]
        /\ requests' \in [Conns -> {"none", "live", "expired"}] /\ requests'[c] = "none"
        /\ \A x \in Conns \ {c} : requests'[x] = requests[x]
    BY <1>h, <2>1
  <2>4. Quarantined'
    <3> SUFFICES ASSUME NEW q \in conflicts'
                 PROVE  /\ \E x \in Conns : connections'[x] = q
                        /\ \A x \in Conns : connections'[x] = q => requests'[x] = "none"
      BY DEF Quarantined, Browser!Speaking
    <3>1. q \in conflicts /\ q # "none" /\ q \notin gone
      BY <1>h, <2>1
    <3>2. Browser!Speaking(q) # {} /\ \A x \in Browser!Speaking(q) : requests[x] = "none"
      BY <1>h, <3>1 DEF Quarantined
    <3>3. PICK x \in Browser!Speaking(q) : x # c
      <4>1. CASE q = p
        BY <2>2, <3>1, <3>2, <4>1
      <4>2. CASE q # p
        BY <3>2, <4>2 DEF Browser!Speaking
      <4>3. QED
        BY <4>1, <4>2
    <3>4. QED
      BY <2>3, <3>1, <3>2, <3>3 DEF Browser!Speaking
  <2>5. BrowserHistory'
    BY <1>h, <2>1, <2>3 DEF BrowserHistory
  <2>6. BrowserLeases' /\ broken' \in [Routes -> BOOLEAN] /\ browserEpoch' \in Nat
    BY <1>h, <1>p, <2>1, LeasesKept
  <2>7. conflicts' \subseteq Profiles /\ SelectionIsBound'
    BY <1>h, <2>1 DEF SelectionIsBound
  <2>8. QED
    BY <1>h, <2>1, <2>3, <2>4, <2>5, <2>6, <2>7, BrowserInvOf
<1>r. ASSUME UNCHANGED <<connections, usedConns, conflicts, selectedProfile, browserEpoch, lease, broken,
                         duplicated>>,
             requests' \in [Conns -> {"none", "live", "expired"}],
             bindings' \in [Bindings -> Profiles \cup {"none", "forgotten"}],
             selectedProfile # "none" => bindings'[selectedProfile] = bindings[selectedProfile],
             \A x \in Conns : connections[x] \in conflicts => requests'[x] = "none"
      PROVE  BrowserInv'
  <2>1. Quarantined'
    BY <1>h, <1>r DEF Quarantined, Browser!Speaking
  <2>2. (Browser!Route)' = Browser!Route
    BY <1>r, RouteStays
  <2>3. BrowserLeases'
    BY <1>h, <1>r, <2>2, LeasesStay
  <2>4. BrowserHistory' /\ SelectionIsBound'
    BY <1>h, <1>r DEF BrowserHistory, SelectionIsBound
  <2>5. QED
    BY <1>h, <1>r, <2>1, <2>3, <2>4, BrowserInvOf
<1>q. \A x \in Conns : connections[x] \in conflicts => requests[x] = "none"
  BY <1>h DEF Quarantined, Browser!Speaking
<1>3. ASSUME NEW c \in Conns, Browser!RequestBrowserBinding(c) PROVE BrowserInv'
  <2>1. /\ requests' = [x \in Conns |-> IF x = c THEN "live"
                                        ELSE IF requests[x] = "expired" THEN "none" ELSE requests[x]]
        /\ connections[c] \notin conflicts
        /\ UNCHANGED <<connections, usedConns, conflicts, bindings, selectedProfile, browserEpoch,
                       lease, broken, duplicated>>
    BY <1>3 DEF Browser!RequestBrowserBinding
  <2>2. requests' \in [Conns -> {"none", "live", "expired"}]
    BY <1>h, <2>1
  <2>3. \A x \in Conns : connections[x] \in conflicts => requests'[x] = "none"
    BY <1>q, <2>1
  <2>4. QED
    BY <1>h, <1>r, <2>1, <2>2, <2>3
<1>4. ASSUME NEW c \in Conns, Browser!RequestEnds(c) PROVE BrowserInv'
  <2>1. PICK a \in {"none", "expired"} : requests' = [requests EXCEPT ![c] = a]
    BY <1>4 DEF Browser!RequestEnds
  <2>2. /\ requests[c] # "none"
        /\ UNCHANGED <<connections, usedConns, conflicts, bindings, selectedProfile, browserEpoch,
                       lease, broken, duplicated>>
    BY <1>4 DEF Browser!RequestEnds
  <2>3. /\ requests' \in [Conns -> {"none", "live", "expired"}]
        /\ \A x \in Conns : connections[x] \in conflicts => requests'[x] = "none"
    BY <1>h, <1>q, <2>1, <2>2
  <2>4. QED
    BY <1>h, <1>r, <2>2, <2>3
<1>5. ASSUME NEW c \in Conns, NEW b \in Bindings, Browser!ConfirmBrowserBinding(c, b) PROVE BrowserInv'
  <2>1. /\ requests' = [requests EXCEPT ![c] = "none"]
        /\ UNCHANGED <<connections, usedConns, conflicts, selectedProfile, browserEpoch, lease,
                       broken, duplicated>>
        /\ \/ bindings' = bindings
           \/ /\ connections[c] # "none" /\ bindings[b] = "none"
              /\ bindings' = [bindings EXCEPT ![b] = connections[c]]
    BY <1>5 DEF Browser!ConfirmBrowserBinding
  <2>2. /\ requests' \in [Conns -> {"none", "live", "expired"}]
        /\ \A x \in Conns : connections[x] \in conflicts => requests'[x] = "none"
    BY <1>h, <1>q, <2>1
  <2>3. /\ bindings' \in [Bindings -> Profiles \cup {"none", "forgotten"}]
        /\ selectedProfile # "none" => bindings'[selectedProfile] = bindings[selectedProfile]
    BY <1>h, <2>1 DEF SelectionIsBound
  <2>4. QED
    BY <1>r, <2>1, <2>2, <2>3
<1>s. ASSUME UNCHANGED <<connections, usedConns, conflicts, requests, lease, duplicated>>,
             bindings' \in [Bindings -> Profiles \cup {"none", "forgotten"}],
             selectedProfile' \in Bindings \cup {"none"}, SelectionIsBound', Browser!Watch,
             \/ browserEpoch' = browserEpoch /\ (Browser!Route)' = Browser!Route
             \/ browserEpoch' = browserEpoch + 1
      PROVE  BrowserInv'
  <2>1. Quarantined' /\ BrowserHistory'
    BY <1>h, <1>s DEF Quarantined, BrowserHistory, Browser!Speaking
  <2>2. BrowserLeases' /\ broken' \in [Routes -> BOOLEAN] /\ browserEpoch' \in Nat
    BY <1>h, <1>s, LeasesKept
  <2>3. QED
    BY <1>h, <1>s, <2>1, <2>2, BrowserInvOf
<1>6. ASSUME NEW b \in Bindings \cup {"none"}, Browser!SelectBrowserBinding(b) PROVE BrowserInv'
  <2>1. /\ b # "none" => bindings[b] \in Profiles
        /\ selectedProfile' = b /\ browserEpoch' = browserEpoch + 1
        /\ UNCHANGED <<connections, usedConns, conflicts, requests, bindings, lease, duplicated>>
        /\ Browser!Watch
    BY <1>6 DEF Browser!SelectBrowserBinding
  <2>2. SelectionIsBound'
    BY <2>1 DEF SelectionIsBound
  <2>3. QED
    BY <1>h, <1>s, <2>1, <2>2
<1>7. ASSUME NEW b \in Bindings, Browser!ForgetBrowserBinding(b) PROVE BrowserInv'
  <2>1. /\ bindings' = [bindings EXCEPT ![b] = "forgotten"]
        /\ UNCHANGED <<connections, usedConns, conflicts, requests, lease, duplicated>>
        /\ Browser!Watch
    BY <1>7 DEF Browser!ForgetBrowserBinding
  <2>2. bindings' \in [Bindings -> Profiles \cup {"none", "forgotten"}]
    BY <1>h, <2>1
  <2>3. CASE selectedProfile = b
    <3>1. selectedProfile' = "none" /\ browserEpoch' = browserEpoch + 1
      BY <1>7, <2>3 DEF Browser!ForgetBrowserBinding
    <3>2. QED
      BY <1>s, <2>1, <2>2, <3>1 DEF SelectionIsBound
  <2>4. CASE selectedProfile # b
    <3>1. UNCHANGED <<selectedProfile, browserEpoch>>
      BY <1>7, <2>4 DEF Browser!ForgetBrowserBinding
    <3>2. selectedProfile # "none" => bindings'[selectedProfile] = bindings[selectedProfile]
      BY <1>h, <2>1, <2>4
    <3>3. (Browser!Route)' = Browser!Route
      BY <2>1, <3>1, <3>2, RouteStays
    <3>4. SelectionIsBound'
      BY <1>h, <3>1, <3>2 DEF SelectionIsBound
    <3>5. QED
      BY <1>h, <1>s, <2>1, <2>2, <3>1, <3>3, <3>4
  <2>5. QED
    BY <2>3, <2>4
<1>8. ASSUME NEW r \in Routes, Browser!TakeLease(r) PROVE BrowserInv'
  <2> DEFINE L == [held |-> TRUE, binding |-> selectedProfile, conn |-> Browser!Route, epoch |-> browserEpoch]
  <2>1. /\ lease' = [lease EXCEPT ![r] = L]
        /\ broken' = [broken EXCEPT ![r] = FALSE]
        /\ UNCHANGED <<connections, usedConns, conflicts, requests, bindings, selectedProfile,
                       browserEpoch, duplicated, opening>>
    BY <1>8 DEF Browser!TakeLease
  <2>2. L.conn = Browser!Route /\ L.epoch = browserEpoch
    OBVIOUS
  <2> HIDE DEF L
  <2>3. /\ DOMAIN lease' = Routes /\ lease'[r] = L
        /\ \A s \in Routes \ {r} : lease'[s] = lease[s]
    BY <1>h, <2>1
  <2>4. /\ broken' \in [Routes -> BOOLEAN] /\ ~broken'[r]
        /\ \A s \in Routes \ {r} : broken'[s] = broken[s]
    BY <1>h, <2>1
  <2>5. (Browser!Route)' = Browser!Route
    BY <2>1, RouteStays
  <2>6. BrowserLeases'
    BY <1>h, <2>1, <2>2, <2>3, <2>4, <2>5 DEF BrowserLeases
  <2>7. Quarantined' /\ BrowserHistory' /\ SelectionIsBound'
    BY <1>h, <2>1 DEF Quarantined, BrowserHistory, SelectionIsBound, Browser!Speaking
  <2>8. QED
    BY <1>h, <2>1, <2>3, <2>4, <2>6, <2>7, BrowserInvOf
<1>9. CASE Browser!OpenBrowserProfile \/ Browser!OpenReturns
  <2>1. UNCHANGED <<connections, usedConns, conflicts, requests, bindings, selectedProfile,
                    browserEpoch, lease, broken, duplicated>>
    BY <1>9 DEF Browser!OpenBrowserProfile, Browser!OpenReturns
  <2>2. QED
    BY <1>h, <1>q, <1>r, <2>1
<1>10. CASE UNCHANGED browserVars
  BY <1>h, <1>q, <1>r, <1>10 DEF browserVars
<1>11. QED
  BY <1>1, <1>2, <1>3, <1>4, <1>5, <1>6, <1>7, <1>8, <1>9, <1>10 DEF Browser!ProfilesNext

\* No connection, no binding and no lease at the start.
LEMMA BrowserStart ==
    ASSUME Browser!ProfilesInit
    PROVE  BrowserInv
<1> USE BrowserAssumption
<1>1. /\ connections = [c \in Conns |-> "none"] /\ conflicts = {} /\ duplicated = {}
      /\ requests = [c \in Conns |-> "none"] /\ bindings = [b \in Bindings |-> "none"]
      /\ selectedProfile = "none" /\ browserEpoch = 1
  BY DEF Browser!ProfilesInit
<1>2. broken \in [Routes -> BOOLEAN]
  BY DEF Browser!ProfilesInit
<1>3. DOMAIN lease = Routes /\ \A r \in Routes : ~lease[r].held
  BY DEF Browser!ProfilesInit, Browser!NoLease
<1>4. Quarantined /\ SelectionIsBound /\ BrowserHistory /\ BrowserLeases
  BY <1>1, <1>3 DEF Quarantined, SelectionIsBound, BrowserHistory, BrowserLeases
<1>5. QED
  BY <1>1, <1>2, <1>3, <1>4
  DEF BrowserInv, BrowserTyped, Browser!ProfilesTypeOK, SelectionIsBound, Quarantined

\* A lease ValidateBrowserLease accepts was never broken, and no route leads to a
\* profile seen twice.
LEMMA BrowserSafe ==
    ASSUME BrowserInv
    PROVE  Browser!LeaseIsUnbroken /\ Browser!QuarantineHolds
<1>1. Browser!LeaseIsUnbroken
  BY DEF BrowserInv, BrowserLeases, Browser!LeaseIsUnbroken, Browser!Validates
<1>2. Browser!QuarantineHolds
  BY DEF BrowserInv, BrowserHistory, Browser!QuarantineHolds, Browser!Route, Browser!Live
<1>3. QED
  BY <1>1, <1>2
-----------------------------------------------------------------------------
(* The consent queue                                                       *)

\* The queue without its first t, the one browserConsent's clean-up deletes: as t was in
\* it once, what is left is the others, each once.
LEMMA QueueLeft ==
    ASSUME NEW S, NEW q \in Seq(S), NEW t, Gate!IsInjective(q)
    PROVE  /\ Gate!RemoveFirst(q, t) \in Seq(S)
           /\ Gate!ToSet(Gate!RemoveFirst(q, t)) = Gate!ToSet(q) \ {t}
           /\ Gate!IsInjective(Gate!RemoveFirst(q, t))
<1> DEFINE n == Len(q)
           w == Gate!RemoveFirst(q, t)
<1>1. n \in Nat /\ \A i, j \in 1..n : q[i] = q[j] => i = j
  <2>1. n \in Nat /\ DOMAIN q = 1..n
    BY LenProperties
  <2>2. QED
    BY <2>1 DEF Gate!IsInjective
<1>2. CASE \A i \in 1..n : q[i] # t
  <2>1. w = q
    BY <1>2 DEF Gate!RemoveFirst
  <2>2. t \notin Gate!ToSet(q)
    BY <1>2 DEF Gate!ToSet
  <2>3. QED
    BY <2>1, <2>2
<1>3. ASSUME NEW k \in 1..n, q[k] = t
      PROVE  /\ w \in Seq(S) /\ Gate!ToSet(w) = Gate!ToSet(q) \ {t} /\ Gate!IsInjective(w)
  <2>1. {i \in 1..n : q[i] = t} = {k}
    BY <1>1, <1>3
  <2>2. Gate!Min({k}) = k
    BY <1>1 DEF Gate!Min
  <2>3. w = SubSeq(q, 1, k - 1) \o SubSeq(q, k + 1, n)
    BY <1>3, <2>1, <2>2 DEF Gate!RemoveFirst, Gate!RemoveAt, Gate!SelectInSeq
  <2>4. /\ w \in Seq(S) /\ Len(w) = n - 1 /\ DOMAIN w = 1..(n - 1)
        /\ \A i \in 1..(n - 1) : w[i] = IF i < k THEN q[i] ELSE q[i + 1]
    <3>1. /\ SubSeq(q, 1, k - 1) \in Seq(S) /\ Len(SubSeq(q, 1, k - 1)) = k - 1
          /\ \A i \in 1..(k - 1) : SubSeq(q, 1, k - 1)[i] = q[i]
      BY <1>1, SubSeqProperties
    <3>2. /\ SubSeq(q, k + 1, n) \in Seq(S) /\ Len(SubSeq(q, k + 1, n)) = n - k
          /\ \A i \in 1..(n - k) : SubSeq(q, k + 1, n)[i] = q[k + i]
      BY <1>1, SubSeqProperties
    <3> DEFINE a == SubSeq(q, 1, k - 1)
               b == SubSeq(q, k + 1, n)
    <3> HIDE DEF a, b
    <3>3. /\ a \in Seq(S) /\ Len(a) = k - 1 /\ b \in Seq(S) /\ Len(b) = n - k
          /\ \A i \in 1..(k - 1) : a[i] = q[i]
          /\ \A i \in 1..(n - k) : b[i] = q[k + i]
      BY <3>1, <3>2 DEF a, b
    <3>4. /\ a \o b \in Seq(S) /\ Len(a \o b) = Len(a) + Len(b)
          /\ \A i \in 1..(Len(a) + Len(b)) : (a \o b)[i] = IF i <= Len(a) THEN a[i] ELSE b[i - Len(a)]
      BY <3>3, ConcatProperties
    <3>5. /\ w \in Seq(S) /\ Len(w) = n - 1
          /\ \A i \in 1..(n - 1) : w[i] = IF i <= k - 1 THEN a[i] ELSE b[i - (k - 1)]
      <4>1. w = a \o b
        BY <2>3 DEF a, b
      <4>2. Len(a) + Len(b) = n - 1
        BY <1>1, <3>3
      <4> HIDE DEF w
      <4>3. QED
        BY <3>3, <3>4, <4>1, <4>2
    <3> HIDE DEF w, n
    <3>6. DOMAIN w = 1..(n - 1)
      BY <3>5, LenProperties
    <3>7. \A i \in 1..(n - 1) : w[i] = IF i < k THEN q[i] ELSE q[i + 1]
      <4> TAKE i \in 1..(n - 1)
      <4>1. CASE i < k
        BY <1>1, <3>3, <3>5, <4>1
      <4>2. CASE ~(i < k)
        <5>1. i - (k - 1) \in 1..(n - k) /\ k + (i - (k - 1)) = i + 1 /\ ~(i <= k - 1)
          BY <1>1, <4>2
        <5>2. QED
          BY <3>3, <3>5, <4>2, <5>1
      <4>3. QED
        BY <4>1, <4>2
    <3>8. QED
      BY <3>5, <3>6, <3>7
  <2>5. Gate!IsInjective(w)
    <3> DEFINE old(i) == IF i < k THEN i ELSE i + 1
    <3>1. ASSUME NEW i \in 1..(n - 1) PROVE w[i] = q[old(i)] /\ old(i) \in 1..n
      BY <1>1, <2>4
    <3>2. ASSUME NEW i \in 1..(n - 1), NEW j \in 1..(n - 1), w[i] = w[j] PROVE i = j
      <4>1. q[old(i)] = q[old(j)] /\ old(i) \in 1..n /\ old(j) \in 1..n
        BY <3>1, <3>2
      <4> HIDE DEF old
      <4>2. old(i) = old(j)
        BY <1>1, <4>1 DEF Gate!IsInjective
      <4>3. QED
        BY <1>1, <4>2 DEF old
    <3>3. QED
      BY <2>4, <3>2 DEF Gate!IsInjective
  <2>6. Gate!ToSet(w) = Gate!ToSet(q) \ {t}
    <3>1. \A i \in 1..(n - 1) : w[i] \in Gate!ToSet(q) \ {t}
      BY <1>1, <1>3, <2>4 DEF Gate!ToSet
    <3>2. ASSUME NEW i \in 1..n, q[i] # t PROVE \E j \in 1..(n - 1) : w[j] = q[i]
      <4>1. CASE i < k
        BY <1>1, <2>4, <4>1
      <4>2. CASE k < i
        <5>1. i - 1 \in 1..(n - 1) /\ w[i - 1] = q[i]
          BY <1>1, <2>4, <4>2
        <5>2. QED
          BY <5>1
      <4>3. QED
        BY <1>1, <1>3, <3>2, <4>1, <4>2
    <3>3. Gate!ToSet(w) = {w[i] : i \in 1..(n - 1)} /\ Gate!ToSet(q) = {q[i] : i \in 1..n}
      BY <2>4, LenProperties DEF Gate!ToSet
    <3> HIDE DEF w, n
    <3>4. QED
      BY <3>1, <3>2, <3>3
  <2>7. QED
    BY <2>4, <2>5, <2>6
<1>4. QED
  BY <1>2, <1>3

\* A question joins the queue behind the others.
LEMMA QueueJoined ==
    ASSUME NEW S, NEW q \in Seq(S), NEW t \in S, Gate!IsInjective(q), t \notin Gate!ToSet(q)
    PROVE  /\ Append(q, t) \in Seq(S) /\ Gate!ToSet(Append(q, t)) = Gate!ToSet(q) \cup {t}
           /\ Gate!IsInjective(Append(q, t))
<1> DEFINE n == Len(q)
<1>1. n \in Nat /\ DOMAIN q = 1..n /\ \A i, j \in 1..n : q[i] = q[j] => i = j
  BY LenProperties DEF Gate!IsInjective
<1>2. \A i \in 1..n : q[i] # t
  BY <1>1 DEF Gate!ToSet
<1>3. /\ Append(q, t) \in Seq(S) /\ Len(Append(q, t)) = n + 1
      /\ \A i \in 1..n : Append(q, t)[i] = q[i]
      /\ Append(q, t)[n + 1] = t /\ DOMAIN Append(q, t) = 1..(n + 1)
  BY <1>1, AppendProperties
<1>4. Gate!ToSet(Append(q, t)) = Gate!ToSet(q) \cup {t}
  BY <1>1, <1>3 DEF Gate!ToSet
<1>5. Gate!IsInjective(Append(q, t))
  BY <1>1, <1>2, <1>3 DEF Gate!IsInjective
<1>6. QED
  BY <1>3, <1>4, <1>5
-----------------------------------------------------------------------------
(* BrowserGateway: permits and the consents they come from                 *)

\* Where a call of AuthorizeBrowser or executeBrowserPermit is, and what it carries.
GateAts == Gate!Serial \cup {"idle", "queued", "redeemed"}
GateKinds == {"none", "browser", "site", "action"}
GateCalls ==
    [at : GateAts, life : Nat, turn : Nat, epoch : Nat, rev : Nat, page : Nat,
     kind : GateKinds, confirm : {"ask", "allow", "block"}]
GatePermits == [live : BOOLEAN, rev : Nat, life : Nat, turn : Nat, epoch : Nat,
                page : Nat, late : BOOLEAN]
GateConvs == [life : Nat, turn : Nat, browser : BOOLEAN, site : BOOLEAN,
              denied : SUBSET GateKinds, stopped : BOOLEAN]
GatePolicies == [ask : BOOLEAN, rule : {"ask", "allow", "block"},
                 confirm : {"ask", "allow", "block"}, lasts : {"turn", "conversation"}]
ConsentStates == {"none", "waiting", "allow", "always", "deny", "cancelled", "denied late", "expired"}
\* A consent that may still turn into a permit.
OpenConsents == {"waiting", "allow", "always"}

\* Types of the policy, the calls, the permits, the consents and the conversation.
GateTyped ==
    /\ gatePolicy \in GatePolicies
    /\ tools \in [Tools -> GateCalls]
    /\ permits \in [Tools -> GatePermits]
    /\ consents \in [Tools -> ConsentStates]
    /\ conv \in GateConvs
    /\ consentQueue \in Seq(Tools)
    /\ policyRevision \in Nat /\ gateEpoch \in Nat /\ page \in Nat

\* The calls and the consents belong together: a lifetime's serial section holds one
\* call, and a call has a consent exactly while it waits for it.
GateSerial ==
    \A t, u \in Tools : t # u /\ tools[t].at \in Gate!Serial /\ tools[u].at \in Gate!Serial
                           => tools[t].life # tools[u].life
GateWaits == \A t \in Tools : consents[t] # "none" <=> tools[t].at = "wait"

\* While the conversation is stopped no permit is live, and no consent of any lifetime
\* can still be answered into one: a stop cancels them all, and browserConsent refuses
\* a call that is not valid.
GateStopped ==
    conv.stopped => \A t \in Tools : ~permits[t].live /\ consents[t] \notin OpenConsents

\* What holds after every step of the browser gateway.
GateInv ==
    /\ GateTyped /\ GateSerial /\ GateWaits /\ GateStopped
    /\ Gate!NoStalePermit /\ Gate!ConsentQueueIsExact /\ Gate!PermitIsSpent

\* The call of t goes to a and stays in its lifetime.
CallTo(t, a) ==
    \E X \in GateCalls : X.at = a /\ X.life = tools[t].life /\ tools' = [tools EXCEPT ![t] = X]

\* A call that is over, and a call without a permit.
LEMMA GateIdles ==
    /\ Gate!Idle \in GateCalls /\ Gate!Idle.at = "idle"
    /\ Gate!NoPermit \in GatePermits /\ ~Gate!NoPermit.live
<1>1. Gate!Idle \in GateCalls /\ Gate!Idle.at = "idle"
  BY DEF GateCalls, GateAts, GateKinds, Gate!Idle
<1>2. Gate!NoPermit \in GatePermits
  BY DEF GatePermits, Gate!NoPermit
<1>3. ~Gate!NoPermit.live
  BY DEF Gate!NoPermit
<1>4. QED
  BY <1>1, <1>2, <1>3

\* The ways a call goes on: to the next point, with what it read there.
LEMMA CallGoes ==
    ASSUME tools \in [Tools -> GateCalls], NEW t \in Tools, NEW a \in GateAts,
           NEW k \in GateKinds, NEW m \in {"ask", "allow", "block"}, NEW n \in Nat,
           \/ tools' = [tools EXCEPT ![t].at = a]
           \/ tools' = [tools EXCEPT ![t].at = a, ![t].kind = k]
           \/ tools' = [tools EXCEPT ![t].at = a, ![t].kind = k, ![t].confirm = m]
           \/ tools' = [tools EXCEPT ![t].at = a, ![t].confirm = m]
           \/ tools' = [tools EXCEPT ![t].at = a, ![t].epoch = n]
           \/ tools' = [tools EXCEPT ![t].at = a, ![t].page = n]
    PROVE  CallTo(t, a)
<1> DEFINE r == tools[t]
<1>0. r \in GateCalls
  OBVIOUS
<1>1. CASE tools' = [tools EXCEPT ![t].at = a]
  <2> DEFINE X == [r EXCEPT !.at = a]
  <2>1. X \in GateCalls /\ X.at = a /\ X.life = r.life
    BY <1>0 DEF GateCalls
  <2>2. tools' = [tools EXCEPT ![t] = X]
    BY <1>1
  <2> HIDE DEF X
  <2>3. QED
    BY <2>1, <2>2 DEF CallTo
<1>2. CASE tools' = [tools EXCEPT ![t].at = a, ![t].kind = k]
  <2> DEFINE X == [r EXCEPT !.at = a, !.kind = k]
  <2>1. X \in GateCalls /\ X.at = a /\ X.life = r.life
    BY <1>0 DEF GateCalls
  <2>2. tools' = [tools EXCEPT ![t] = X]
    BY <1>0, <1>2 DEF GateCalls
  <2> HIDE DEF X
  <2>3. QED
    BY <2>1, <2>2 DEF CallTo
<1>3. CASE tools' = [tools EXCEPT ![t].at = a, ![t].kind = k, ![t].confirm = m]
  <2> DEFINE X == [r EXCEPT !.at = a, !.kind = k, !.confirm = m]
  <2>1. X \in GateCalls /\ X.at = a /\ X.life = r.life
    BY <1>0 DEF GateCalls
  <2>2. tools' = [tools EXCEPT ![t] = X]
    BY <1>0, <1>3 DEF GateCalls
  <2> HIDE DEF X
  <2>3. QED
    BY <2>1, <2>2 DEF CallTo
<1>4. CASE tools' = [tools EXCEPT ![t].at = a, ![t].confirm = m]
  <2> DEFINE X == [r EXCEPT !.at = a, !.confirm = m]
  <2>1. X \in GateCalls /\ X.at = a /\ X.life = r.life
    BY <1>0 DEF GateCalls
  <2>2. tools' = [tools EXCEPT ![t] = X]
    BY <1>0, <1>4 DEF GateCalls
  <2> HIDE DEF X
  <2>3. QED
    BY <2>1, <2>2 DEF CallTo
<1>5. CASE tools' = [tools EXCEPT ![t].at = a, ![t].epoch = n]
  <2> DEFINE X == [r EXCEPT !.at = a, !.epoch = n]
  <2>1. X \in GateCalls /\ X.at = a /\ X.life = r.life
    BY <1>0 DEF GateCalls
  <2>2. tools' = [tools EXCEPT ![t] = X]
    BY <1>0, <1>5 DEF GateCalls
  <2> HIDE DEF X
  <2>3. QED
    BY <2>1, <2>2 DEF CallTo
<1>6. CASE tools' = [tools EXCEPT ![t].at = a, ![t].page = n]
  <2> DEFINE X == [r EXCEPT !.at = a, !.page = n]
  <2>1. X \in GateCalls /\ X.at = a /\ X.life = r.life
    BY <1>0 DEF GateCalls
  <2>2. tools' = [tools EXCEPT ![t] = X]
    BY <1>0, <1>6 DEF GateCalls
  <2> HIDE DEF X
  <2>3. QED
    BY <2>1, <2>2 DEF CallTo
<1>7. QED
  BY <1>1, <1>2, <1>3, <1>4, <1>5, <1>6

\* The records of a permit and a conversation have their fields.
LEMMA GateParts ==
    /\ \A p \in GatePermits : /\ p.live \in BOOLEAN /\ p.late \in BOOLEAN /\ p.rev \in Nat
                              /\ p.life \in Nat /\ p.turn \in Nat /\ p.epoch \in Nat /\ p.page \in Nat
    /\ \A c \in GateConvs : /\ c.life \in Nat /\ c.turn \in Nat /\ c.stopped \in BOOLEAN
                            /\ c.denied \in SUBSET GateKinds
    /\ \A r \in GateCalls : /\ r.at \in GateAts /\ r.kind \in GateKinds /\ r.page \in Nat
                            /\ r.confirm \in {"ask", "allow", "block"} /\ r.life \in Nat
    /\ \A p \in GatePolicies : p.confirm \in {"ask", "allow", "block"}
BY DEF GatePermits, GateConvs, GateCalls, GatePolicies

\* A step of one call that leaves the policy, the epoch and the lifetime alone keeps the
\* invariant, when what it does to the call, its consent and its permit fits together.
LEMMA GateCallStep ==
    ASSUME GateInv, NEW t \in Tools, NEW X \in GateCalls, tools' = [tools EXCEPT ![t] = X],
           UNCHANGED <<gatePolicy, policyRevision, gateEpoch, page>>,
           conv' \in GateConvs, conv'.life = conv.life, conv'.turn = conv.turn,
           conv'.stopped = conv.stopped,
           X.at \in Gate!Serial => /\ X.life = tools[t].life
                                   /\ tools[t].at \in Gate!Serial \/ Gate!SerialFree(t),
           permits' \in [Tools -> GatePermits],
           \A u \in Tools \ {t} : permits'[u] = permits[u],
           X.at \in {"redeemed", "reinspect", "act"} => ~permits'[t].live,
           permits'[t].live => /\ permits'[t].rev = policyRevision
                               /\ permits'[t].life = conv.life /\ permits'[t].turn = conv.turn
                               /\ permits'[t].epoch = gateEpoch /\ ~conv.stopped,
           consents' \in [Tools -> ConsentStates],
           \A u \in Tools \ {t} : consents'[u] = consents[u],
           consents'[t] # "none" <=> X.at = "wait",
           consents'[t] \in OpenConsents => ~conv.stopped,
           consentQueue' \in Seq(Tools), (Gate!ConsentQueueIsExact)'
    PROVE  GateInv'
<1>1. /\ tools' \in [Tools -> GateCalls] /\ tools'[t] = X
      /\ \A u \in Tools \ {t} : tools'[u] = tools[u]
  BY DEF GateInv, GateTyped
<1>2. GateTyped'
  BY <1>1 DEF GateInv, GateTyped
<1>3. GateSerial'
  <2> SUFFICES ASSUME NEW u \in Tools, u # t, X.at \in Gate!Serial, tools[u].at \in Gate!Serial
               PROVE  X.life # tools[u].life
    BY <1>1 DEF GateInv, GateSerial
  <2>1. CASE tools[t].at \in Gate!Serial
    BY <2>1 DEF GateInv, GateSerial
  <2>2. CASE Gate!SerialFree(t)
    BY <2>2 DEF Gate!SerialFree
  <2>3. QED
    BY <2>1, <2>2
<1>4. GateWaits'
  BY <1>1 DEF GateInv, GateWaits
<1>5. GateStopped'
  BY DEF GateInv, GateStopped
<1>6. (Gate!NoStalePermit)'
  BY DEF GateInv, Gate!NoStalePermit
<1>7. (Gate!PermitIsSpent)'
  BY <1>1 DEF GateInv, Gate!PermitIsSpent
<1>8. QED
  BY <1>2, <1>3, <1>4, <1>5, <1>6, <1>7 DEF GateInv

\* A step that moves a call and nothing else.
LEMMA GateMove ==
    ASSUME GateInv, NEW t \in Tools, NEW a \in GateAts, CallTo(t, a),
           UNCHANGED <<gatePolicy, policyRevision, gateEpoch, page, permits, consents, consentQueue>>,
           conv' \in GateConvs, conv'.life = conv.life, conv'.turn = conv.turn,
           conv'.stopped = conv.stopped,
           a \in Gate!Serial => tools[t].at \in Gate!Serial \/ Gate!SerialFree(t),
           a \in {"redeemed", "reinspect", "act"} => ~permits[t].live,
           tools[t].at # "wait", a # "wait"
    PROVE  GateInv'
<1>1. PICK X \in GateCalls : X.at = a /\ X.life = tools[t].life /\ tools' = [tools EXCEPT ![t] = X]
  BY DEF CallTo
<1>2. permits[t].live => /\ permits[t].rev = policyRevision
                         /\ permits[t].life = conv.life /\ permits[t].turn = conv.turn
                         /\ permits[t].epoch = gateEpoch /\ ~conv.stopped
  BY DEF GateInv, Gate!NoStalePermit, GateStopped
<1>3. consents[t] = "none"
  BY DEF GateInv, GateWaits
<1>4. /\ permits' \in [Tools -> GatePermits] /\ consents' \in [Tools -> ConsentStates]
      /\ consentQueue' \in Seq(Tools)
  BY DEF GateInv, GateTyped
<1>5. (Gate!ConsentQueueIsExact)'
  BY DEF GateInv, Gate!ConsentQueueIsExact
<1>6. consents[t] \notin OpenConsents
  BY <1>3 DEF OpenConsents
<1>7. QED
  BY <1>1, <1>2, <1>3, <1>4, <1>5, <1>6, GateCallStep

\* A step that ends a call and nothing else.
LEMMA GateFail ==
    ASSUME GateInv, NEW t \in Tools, tools' = [tools EXCEPT ![t] = Gate!Idle],
           UNCHANGED <<gatePolicy, policyRevision, conv, gateEpoch, page, permits, consents, consentQueue>>,
           tools[t].at # "wait"
    PROVE  GateInv'
<1>1. permits[t].live => /\ permits[t].rev = policyRevision
                         /\ permits[t].life = conv.life /\ permits[t].turn = conv.turn
                         /\ permits[t].epoch = gateEpoch /\ ~conv.stopped
  BY DEF GateInv, Gate!NoStalePermit, GateStopped
<1>2. consents[t] = "none"
  BY DEF GateInv, GateWaits
<1>3. /\ permits' \in [Tools -> GatePermits] /\ consents' \in [Tools -> ConsentStates]
      /\ consentQueue' \in Seq(Tools) /\ conv' \in GateConvs
  BY DEF GateInv, GateTyped
<1>4. (Gate!ConsentQueueIsExact)'
  BY DEF GateInv, Gate!ConsentQueueIsExact
<1>5. consents[t] \notin OpenConsents
  BY <1>2 DEF OpenConsents
<1>6. "idle" \notin Gate!Serial
  BY DEF Gate!Serial
<1>7. QED
  BY <1>1, <1>2, <1>3, <1>4, <1>5, <1>6, GateIdles, GateCallStep

\* The events of the user and of the connection empty the table of permits and cancel
\* consents, which leaves each of them before the call that waits for it.
LEMMA GateCleared ==
    ASSUME GateInv, permits' = Gate!NoPermits, tools' = tools, consentQueue' = consentQueue,
           gatePolicy' \in GatePolicies, conv' \in GateConvs, policyRevision' \in Nat,
           gateEpoch' \in Nat, page' \in Nat, consents' \in [Tools -> ConsentStates],
           \A t \in Tools : consents'[t] = "none" <=> consents[t] = "none",
           conv'.stopped => \A t \in Tools : consents'[t] \notin OpenConsents
    PROVE  GateInv'
<1>1. permits' \in [Tools -> GatePermits] /\ \A t \in Tools : ~permits'[t].live
  BY GateIdles DEF Gate!NoPermits
<1>2. GateTyped'
  BY <1>1 DEF GateInv, GateTyped
<1>3. GateSerial' /\ GateWaits' /\ GateStopped'
  BY <1>1 DEF GateInv, GateSerial, GateWaits, GateStopped
<1>4. (Gate!NoStalePermit)' /\ (Gate!PermitIsSpent)'
  BY <1>1 DEF Gate!NoStalePermit, Gate!PermitIsSpent
<1>5. (Gate!ConsentQueueIsExact)'
  BY DEF GateInv, Gate!ConsentQueueIsExact
<1>6. QED
  BY <1>2, <1>3, <1>4, <1>5 DEF GateInv

\* What cancelBrowserConsentsLocked leaves.
LEMMA GateCancels ==
    ASSUME consents \in [Tools -> ConsentStates]
    PROVE  /\ Gate!Cancelled \in [Tools -> ConsentStates]
           /\ \A t \in Tools : /\ Gate!Cancelled[t] = "none" <=> consents[t] = "none"
                               /\ Gate!Cancelled[t] \notin OpenConsents
<1>1. ASSUME NEW t \in Tools
      PROVE  /\ Gate!Cancelled[t] \in ConsentStates
             /\ Gate!Cancelled[t] = "none" <=> consents[t] = "none"
             /\ Gate!Cancelled[t] \notin OpenConsents
  <2> DEFINE c == consents[t]
  <2>1. Gate!Cancelled[t] = CASE c \in {"waiting", "allow", "always"} -> "cancelled"
                              [] c = "deny" -> "denied late" [] OTHER -> c
    BY DEF Gate!Cancelled
  <2>2. c \in ConsentStates
    OBVIOUS
  <2> HIDE DEF c
  <2>3. QED
    BY <2>1, <2>2 DEF ConsentStates, OpenConsents, c
<1>2. Gate!Cancelled = [t \in Tools |-> Gate!Cancelled[t]]
  BY DEF Gate!Cancelled
<1>3. QED
  BY <1>1, <1>2

\* What revokeBrowserGrantsLocked leaves.
LEMMA GateRevokes ==
    ASSUME consents \in [Tools -> ConsentStates], conv' \in GateConvs, consents' = Gate!Revoked
    PROVE  /\ consents' \in [Tools -> ConsentStates]
           /\ \A t \in Tools : consents'[t] = "none" <=> consents[t] = "none"
           /\ conv'.stopped => \A t \in Tools : consents'[t] \notin OpenConsents
<1>1. \A t \in Tools : \/ consents'[t] = Gate!Cancelled[t]
                       \/ consents'[t] = consents[t] /\ ~conv'.stopped
  BY DEF Gate!Revoked
<1>2. consents' = [t \in Tools |-> consents'[t]]
  BY DEF Gate!Revoked
<1>3. QED
  BY <1>1, <1>2, GateCancels

\* The policies the user may set are policies.
LEMMA PoliciesTyped == Policies \subseteq GatePolicies
BY GateAssumption DEF GatePolicies

\* Every step of the browser gateway, the user and the connection keeps the invariant.
LEMMA GateStep ==
    ASSUME GateInv, [Gate!GateNext]_gateVars
    PROVE  GateInv'
<1>t. /\ gatePolicy \in GatePolicies
      /\ tools \in [Tools -> GateCalls]
      /\ permits \in [Tools -> GatePermits]
      /\ consents \in [Tools -> ConsentStates]
      /\ conv \in GateConvs
      /\ consentQueue \in Seq(Tools)
      /\ policyRevision \in Nat /\ gateEpoch \in Nat /\ page \in Nat
  BY DEF GateInv, GateTyped
<1>c. conv.life \in Nat /\ conv.turn \in Nat /\ conv.stopped \in BOOLEAN /\ conv.denied \in SUBSET GateKinds
  BY <1>t, GateParts
<1>u. /\ Gate!Ungranted(conv) \in GateConvs /\ Gate!Ungranted(conv).stopped = conv.stopped
      /\ Gate!Ungranted(conv).life = conv.life /\ Gate!Ungranted(conv).turn = conv.turn
  BY <1>t DEF Gate!Ungranted, GateConvs
<1>l. \A t \in Tools : permits[t].live => /\ permits[t].rev = policyRevision
                                          /\ permits[t].life = conv.life /\ permits[t].turn = conv.turn
                                          /\ permits[t].epoch = gateEpoch /\ ~conv.stopped
  BY DEF GateInv, Gate!NoStalePermit, GateStopped
<1>w. \A t \in Tools : consents[t] # "none" <=> tools[t].at = "wait"
  BY DEF GateInv, GateWaits
<1>1. CASE Gate!BrowserTurn
  <2> DEFINE next == [conv EXCEPT !.turn = @ + 1, !.denied = {}]
  <2>1. /\ conv' = IF conv.stopped THEN [Gate!Ungranted(next) EXCEPT !.life = @ + 1, !.stopped = FALSE]
                   ELSE IF gatePolicy.lasts = "turn" THEN Gate!Ungranted(next) ELSE next
        /\ permits' = Gate!NoPermits /\ consents' = Gate!Cancelled
        /\ UNCHANGED <<gatePolicy, policyRevision, gateEpoch, page, tools, consentQueue>>
    BY <1>1 DEF Gate!BrowserTurn
  <2>2. next \in GateConvs /\ next.stopped = conv.stopped
    <3>1. ASSUME NEW n \in Nat, NEW D \in SUBSET GateKinds
          PROVE  LET c == [conv EXCEPT !.turn = n, !.denied = D]
                 IN c \in GateConvs /\ c.stopped = conv.stopped
      BY <1>t, <3>1 DEF GateConvs
    <3>2. conv.turn + 1 \in Nat /\ {} \in SUBSET GateKinds
      BY <1>c
    <3>3. next = [conv EXCEPT !.turn = conv.turn + 1, !.denied = {}]
      BY <1>t DEF GateConvs
    <3>4. QED
      BY <3>1, <3>2, <3>3, Zenon
  <2> HIDE DEF next
  <2>3. Gate!Ungranted(next) \in GateConvs /\ Gate!Ungranted(next).stopped = conv.stopped
    BY <2>2 DEF Gate!Ungranted, GateConvs
  <2>4. ASSUME NEW c \in GateConvs
        PROVE  LET d == [c EXCEPT !.life = @ + 1, !.stopped = FALSE] IN d \in GateConvs /\ ~d.stopped
    <3>1. ASSUME NEW n \in Nat, NEW b \in BOOLEAN
          PROVE  LET d == [c EXCEPT !.life = n, !.stopped = b] IN d \in GateConvs /\ d.stopped = b
      BY <3>1 DEF GateConvs
    <3>2. c.life + 1 \in Nat /\ FALSE \in BOOLEAN
      BY GateParts
    <3>3. [c EXCEPT !.life = @ + 1, !.stopped = FALSE] = [c EXCEPT !.life = c.life + 1, !.stopped = FALSE]
      BY DEF GateConvs
    <3>4. QED
      BY <3>1, <3>2, <3>3, Zenon
  <2>5. conv' \in GateConvs /\ ~conv'.stopped
    <3>1. CASE conv.stopped
      BY <2>1, <2>3, <2>4, <3>1
    <3>2. CASE ~conv.stopped
      BY <2>1, <2>2, <2>3, <3>2
    <3>3. QED
      BY <3>1, <3>2
  <2>6. QED
    BY <1>t, <2>1, <2>5, GateCancels, GateCleared
<1>2. CASE Gate!StopBrowserUse
  <2>1. /\ conv' = [Gate!Ungranted(conv) EXCEPT !.stopped = TRUE]
        /\ permits' = Gate!NoPermits /\ consents' = Gate!Revoked
        /\ UNCHANGED <<gatePolicy, policyRevision, gateEpoch, page, tools, consentQueue>>
    BY <1>2 DEF Gate!StopBrowserUse
  <2>2. conv' \in GateConvs
    BY <1>u, <2>1 DEF GateConvs
  <2>3. QED
    BY <1>t, <2>1, <2>2, GateRevokes, GateCleared
<1>3. CASE Gate!RouteChanges
  <2>1. /\ conv' = Gate!Ungranted(conv) /\ gateEpoch' = gateEpoch + 1
        /\ permits' = Gate!NoPermits /\ consents' = Gate!Revoked
        /\ UNCHANGED <<gatePolicy, policyRevision, page, tools, consentQueue>>
    BY <1>3 DEF Gate!RouteChanges
  <2>2. conv' \in GateConvs /\ gateEpoch' \in Nat
    BY <1>t, <1>u, <2>1
  <2>3. QED
    BY <1>t, <2>1, <2>2, GateRevokes, GateCleared
<1>4. CASE Gate!IdleExpires
  <2>1. /\ conv' = Gate!Ungranted(conv) /\ permits' = Gate!NoPermits /\ consents' = Gate!Revoked
        /\ UNCHANGED <<gatePolicy, policyRevision, gateEpoch, page, tools, consentQueue>>
    BY <1>4 DEF Gate!IdleExpires
  <2>2. conv' \in GateConvs
    BY <1>u, <2>1
  <2>3. QED
    BY <1>t, <2>1, <2>2, GateRevokes, GateCleared
<1>5. CASE Gate!PageChanges
  <2>1. /\ page' = page + 1
        /\ UNCHANGED <<gatePolicy, policyRevision, conv, gateEpoch, tools, consents, consentQueue, permits>>
    BY <1>5 DEF Gate!PageChanges
  <2>2. GateTyped'
    BY <1>t, <2>1 DEF GateTyped
  <2>3. QED
    BY <2>1, <2>2 DEF GateInv, GateSerial, GateWaits, GateStopped, Gate!NoStalePermit,
                      Gate!ConsentQueueIsExact, Gate!PermitIsSpent
<1>6. ASSUME NEW p \in Policies, Gate!SetBrowserPolicy(p) PROVE GateInv'
  <2>1. /\ gatePolicy' = p /\ policyRevision' = policyRevision + 1
        /\ permits' = Gate!NoPermits /\ consents' = Gate!Cancelled
        /\ UNCHANGED <<conv, gateEpoch, page, tools, consentQueue>>
    BY <1>6 DEF Gate!SetBrowserPolicy
  <2>2. p \in GatePolicies
    BY PoliciesTyped
  <2>3. policyRevision' \in Nat
    BY <1>t, <2>1
  <2>4. QED
    BY <1>t, <2>1, <2>2, <2>3, GateCancels, GateCleared
<1>7. ASSUME NEW t \in Tools, Gate!AuthorizeBrowser(t) PROVE GateInv'
  <2> DEFINE X == [Gate!Idle EXCEPT !.at = "queued", !.life = conv.life, !.turn = conv.turn,
                                    !.epoch = gateEpoch]
  <2>1. /\ tools[t].at = "idle" /\ ~permits[t].live
        /\ tools' = [tools EXCEPT ![t] = X]
        /\ UNCHANGED <<gatePolicy, policyRevision, conv, gateEpoch, page, permits, consents, consentQueue>>
    BY <1>7 DEF Gate!AuthorizeBrowser, Gate!Quiet
  <2>2. X \in GateCalls /\ X.at = "queued"
    <3>1. Gate!Idle \in GateCalls /\ "queued" \in GateAts
      BY GateIdles DEF GateAts
    <3>2. QED
      BY <1>t, <1>c, <3>1 DEF GateCalls
  <2> HIDE DEF X
  <2>3. "queued" \notin Gate!Serial
    BY DEF Gate!Serial
  <2>4. (Gate!ConsentQueueIsExact)'
    BY <2>1 DEF GateInv, Gate!ConsentQueueIsExact
  <2>5. consents[t] = "none" /\ "none" \notin OpenConsents
    BY <1>w, <2>1 DEF OpenConsents
  <2>6. QED
    BY <1>t, <2>1, <2>2, <2>3, <2>4, <2>5, GateCallStep
<1>8. ASSUME NEW t \in Tools, Gate!TakeSerial(t) PROVE GateInv'
  <2>1. /\ tools[t].at = "queued" /\ Gate!SerialFree(t)
        /\ UNCHANGED <<gatePolicy, policyRevision, conv, gateEpoch, page, permits, consents, consentQueue>>
    BY <1>8 DEF Gate!TakeSerial, Gate!Quiet
  <2>2. \/ tools' = [tools EXCEPT ![t] = Gate!Idle]
        \/ tools' = [tools EXCEPT ![t].at = "ask", ![t].kind = "browser"]
        \/ tools' = [tools EXCEPT ![t].at = "connect"]
    BY <1>8 DEF Gate!TakeSerial, Gate!Fail, Gate!Go
  <2>3. \/ tools' = [tools EXCEPT ![t] = Gate!Idle]
        \/ CallTo(t, "ask") \/ CallTo(t, "connect")
    BY <1>t, <2>2, CallGoes DEF GateAts, GateKinds, Gate!Serial
  <2>4. QED
    BY <1>t, <2>1, <2>3, GateFail, GateMove DEF GateAts, Gate!Serial
<1>9. ASSUME NEW t \in Tools, Gate!GiveUp(t) PROVE GateInv'
  BY <1>9, GateFail DEF Gate!GiveUp, Gate!Fail, Gate!Quiet
<1>10. ASSUME NEW t \in Tools, Gate!BrowserConsent(t) PROVE GateInv'
  <2>1. /\ tools[t].at = "ask"
        /\ UNCHANGED <<gatePolicy, policyRevision, conv, gateEpoch, page, permits>>
    BY <1>10 DEF Gate!BrowserConsent, Gate!Quiet
  <2>2. ASSUME tools' = [tools EXCEPT ![t] = Gate!Idle], UNCHANGED <<consents, consentQueue>> PROVE GateInv'
    BY <2>1, <2>2, GateFail
  <2>3. ASSUME Gate!Valid(t), tools' = [tools EXCEPT ![t].at = "wait"],
               consents' = [consents EXCEPT ![t] = "waiting"], consentQueue' = Append(consentQueue, t)
        PROVE  GateInv'
    <3>1. consents[t] = "none" /\ ~conv.stopped
      BY <1>w, <2>1, <2>3 DEF Gate!Valid
    <3>2. /\ consents' \in [Tools -> ConsentStates] /\ consents'[t] = "waiting"
          /\ \A u \in Tools \ {t} : consents'[u] = consents[u]
      BY <1>t, <2>3 DEF ConsentStates
    <3>3. /\ Gate!ToSet(consentQueue) = {u \in Tools : consents[u] # "none"}
          /\ Gate!IsInjective(consentQueue)
      BY DEF GateInv, Gate!ConsentQueueIsExact
    <3>4. /\ consentQueue' \in Seq(Tools)
          /\ Gate!ToSet(consentQueue') = Gate!ToSet(consentQueue) \cup {t}
          /\ Gate!IsInjective(consentQueue')
      BY <1>t, <2>3, <3>1, <3>3, QueueJoined
    <3>5. (Gate!ConsentQueueIsExact)'
      BY <3>2, <3>3, <3>4 DEF Gate!ConsentQueueIsExact
    <3>6. CallTo(t, "wait")
      BY <1>t, <2>3, CallGoes DEF GateAts, GateKinds, Gate!Serial
    <3>7. PICK X \in GateCalls : X.at = "wait" /\ X.life = tools[t].life /\ tools' = [tools EXCEPT ![t] = X]
      BY <3>6 DEF CallTo
    <3>8. tools[t].at \in Gate!Serial
      BY <2>1 DEF Gate!Serial
    <3>9. QED
      BY <1>t, <1>l, <2>1, <3>1, <3>2, <3>4, <3>5, <3>7, <3>8, GateCallStep
  <2>4. QED
    BY <1>10, <2>2, <2>3 DEF Gate!BrowserConsent, Gate!Fail, Gate!Go
\* A step that changes the consent of one call, neither beginning nor ending it.
<1>a. ASSUME NEW t \in Tools, NEW c \in ConsentStates \ {"none"}, consents[t] # "none",
             consents' = [consents EXCEPT ![t] = c], c \in OpenConsents => ~conv.stopped,
             UNCHANGED <<gatePolicy, policyRevision, conv, gateEpoch, page, tools, consentQueue, permits>>
      PROVE  GateInv'
  <2>1. /\ consents' \in [Tools -> ConsentStates] /\ consents'[t] = c
        /\ \A u \in Tools \ {t} : consents'[u] = consents[u]
    BY <1>t, <1>a
  <2>2. GateTyped' /\ GateSerial'
    BY <1>t, <1>a, <2>1 DEF GateInv, GateTyped, GateSerial
  <2>3. GateWaits' /\ GateStopped'
    BY <1>a, <2>1 DEF GateInv, GateWaits, GateStopped
  <2>4. (Gate!ConsentQueueIsExact)'
    BY <1>a, <2>1 DEF GateInv, Gate!ConsentQueueIsExact
  <2>5. QED
    BY <1>a, <2>2, <2>3, <2>4 DEF GateInv, Gate!NoStalePermit, Gate!PermitIsSpent
<1>11. ASSUME NEW t \in Tools, NEW choice \in Gate!Answered, Gate!AnswerBrowserConsent(t, choice)
       PROVE  GateInv'
  <2>1. /\ consents[t] = "waiting" /\ consents' = [consents EXCEPT ![t] = choice]
        /\ UNCHANGED <<conv, gateEpoch, page, tools, consentQueue>>
    BY <1>11 DEF Gate!AnswerBrowserConsent
  <2>2. ~conv.stopped
    BY <2>1 DEF GateInv, GateStopped, OpenConsents
  <2>3. choice \in ConsentStates \ {"none"}
    BY DEF Gate!Answered, ConsentStates
  <2>4. CASE choice = "always"
    <3> DEFINE a == IF tools[t].kind = "browser" THEN FALSE ELSE gatePolicy.ask
               r == IF tools[t].kind = "site" THEN "allow" ELSE gatePolicy.rule
    <3>1. /\ gatePolicy' = [gatePolicy EXCEPT !.ask = a, !.rule = r]
          /\ policyRevision' = policyRevision + 1 /\ permits' = Gate!NoPermits
      BY <1>11, <2>4, <1>t DEF Gate!AnswerBrowserConsent, GatePolicies
    <3>2. a \in BOOLEAN /\ r \in {"ask", "allow", "block"}
      BY <1>t DEF GatePolicies
    <3> HIDE DEF a, r
    <3>3. gatePolicy' \in GatePolicies
      BY <1>t, <3>1, <3>2 DEF GatePolicies
    <3>4. /\ consents' \in [Tools -> ConsentStates] /\ consents'[t] = choice
          /\ \A u \in Tools \ {t} : consents'[u] = consents[u]
      BY <1>t, <2>1, <2>3
    <3>5. policyRevision' \in Nat
      BY <1>t, <3>1
    <3>6. QED
      BY <1>t, <2>1, <2>2, <2>3, <3>1, <3>3, <3>4, <3>5, GateCleared
  <2>5. CASE choice # "always"
    <3>1. UNCHANGED <<gatePolicy, policyRevision, permits>>
      BY <1>11, <2>5 DEF Gate!AnswerBrowserConsent
    <3>2. QED
      BY <1>a, <2>1, <2>2, <2>3, <3>1
  <2>6. QED
    BY <2>4, <2>5
<1>12. ASSUME NEW t \in Tools, Gate!DenyWhileConnecting(t) PROVE GateInv'
  <2>1. /\ consents[t] \in {"allow", "always"} /\ consents' = [consents EXCEPT ![t] = "cancelled"]
        /\ UNCHANGED <<gatePolicy, policyRevision, conv, gateEpoch, page, tools, consentQueue, permits>>
    BY <1>12 DEF Gate!DenyWhileConnecting, Gate!Connecting, Gate!Quiet
  <2>2. QED
    BY <1>a, <2>1 DEF ConsentStates, OpenConsents
<1>13. ASSUME NEW t \in Tools, Gate!ConsentExpires(t) PROVE GateInv'
  <2>1. /\ consents[t] = "waiting" /\ consents' = [consents EXCEPT ![t] = "expired"]
        /\ UNCHANGED <<gatePolicy, policyRevision, conv, gateEpoch, page, tools, consentQueue, permits>>
    BY <1>13 DEF Gate!ConsentExpires, Gate!Quiet
  <2>2. QED
    BY <1>a, <2>1 DEF ConsentStates, OpenConsents
<1>14. ASSUME NEW t \in Tools, Gate!ConsentReturns(t) PROVE GateInv'
  <2>1. /\ tools[t].at = "wait"
        /\ consents' = [consents EXCEPT ![t] = "none"]
        /\ consentQueue' = Gate!RemoveFirst(consentQueue, t)
        /\ UNCHANGED <<gatePolicy, policyRevision, gateEpoch, page, permits>>
    BY <1>14 DEF Gate!ConsentReturns, Gate!Quiet
  <2>2. conv' = conv \/ conv' = [conv EXCEPT !.denied = @ \cup {tools[t].kind}]
    BY <1>14 DEF Gate!ConsentReturns
  <2>3. /\ conv' \in GateConvs /\ conv'.life = conv.life /\ conv'.turn = conv.turn
        /\ conv'.stopped = conv.stopped
    <3>1. conv.denied \cup {tools[t].kind} \in SUBSET GateKinds
      BY <1>t, <1>c, GateParts
    <3>2. QED
      BY <1>t, <2>2, <3>1 DEF GateConvs
  <2>4. \/ tools' = [tools EXCEPT ![t].at = "connect"]
        \/ tools' = [tools EXCEPT ![t].at = "grant"]
        \/ tools' = [tools EXCEPT ![t].at = "issue"]
        \/ tools' = [tools EXCEPT ![t] = Gate!Idle]
    <3>1. CASE Gate!Fail(t)
      BY <3>1 DEF Gate!Fail
    <3>2. CASE Gate!Go(t, CASE tools[t].kind = "browser" -> "connect"
                            [] tools[t].kind = "site" -> "grant" [] OTHER -> "issue")
      <4> DEFINE a == CASE tools[t].kind = "browser" -> "connect"
                        [] tools[t].kind = "site" -> "grant" [] OTHER -> "issue"
      <4>1. a \in {"connect", "grant", "issue"}
        OBVIOUS
      <4>2. tools' = [tools EXCEPT ![t].at = a]
        BY <3>2 DEF Gate!Go
      <4> HIDE DEF a
      <4>3. QED
        BY <4>1, <4>2
    <3>3. QED
      BY <1>14, <3>1, <3>2 DEF Gate!ConsentReturns
  <2>5. \/ CallTo(t, "connect") \/ CallTo(t, "grant") \/ CallTo(t, "issue")
        \/ tools' = [tools EXCEPT ![t] = Gate!Idle]
    BY <1>t, <2>4, CallGoes DEF GateAts, GateKinds, Gate!Serial
  <2>6. PICK X \in GateCalls : /\ X.at \in {"connect", "grant", "issue", "idle"}
                               /\ X.at \in Gate!Serial => X.life = tools[t].life
                               /\ tools' = [tools EXCEPT ![t] = X]
    BY <2>5, GateIdles DEF CallTo, Gate!Serial
  <2>7. /\ consents' \in [Tools -> ConsentStates] /\ consents'[t] = "none"
        /\ \A u \in Tools \ {t} : consents'[u] = consents[u]
    BY <1>t, <2>1 DEF ConsentStates
  <2>8. /\ Gate!ToSet(consentQueue) = {u \in Tools : consents[u] # "none"}
        /\ Gate!IsInjective(consentQueue)
    BY DEF GateInv, Gate!ConsentQueueIsExact
  <2>9. /\ consentQueue' \in Seq(Tools)
        /\ Gate!ToSet(consentQueue') = Gate!ToSet(consentQueue) \ {t}
        /\ Gate!IsInjective(consentQueue')
    BY <1>t, <2>1, <2>8, QueueLeft
  <2>10. (Gate!ConsentQueueIsExact)'
    BY <2>7, <2>8, <2>9 DEF Gate!ConsentQueueIsExact
  <2>11. tools[t].at \in Gate!Serial /\ "none" \notin OpenConsents
    BY <2>1 DEF Gate!Serial, OpenConsents
  <2>12. QED
    BY <1>t, <1>l, <2>1, <2>3, <2>6, <2>7, <2>9, <2>10, <2>11, GateCallStep
<1>15. ASSUME NEW t \in Tools, Gate!GrantSite(t) PROVE GateInv'
  <2>1. /\ tools[t].at = "grant" /\ tools' = [tools EXCEPT ![t].at = "category"]
        /\ conv' = conv \/ conv' = [conv EXCEPT !.site = TRUE]
        /\ UNCHANGED <<gatePolicy, policyRevision, gateEpoch, page, consents, consentQueue, permits>>
    BY <1>15 DEF Gate!GrantSite, Gate!Go, Gate!Quiet
  <2>2. /\ conv' \in GateConvs /\ conv'.life = conv.life /\ conv'.turn = conv.turn
        /\ conv'.stopped = conv.stopped
    BY <1>t, <2>1 DEF GateConvs
  <2>3. CallTo(t, "category")
    BY <1>t, <2>1, CallGoes DEF GateAts, GateKinds, Gate!Serial
  <2>4. QED
    BY <2>1, <2>2, <2>3, GateMove DEF GateAts, Gate!Serial
<1>16. ASSUME NEW t \in Tools, Gate!Connected(t) PROVE GateInv'
  <2>1. /\ tools[t].at = "connect"
        /\ UNCHANGED <<gatePolicy, policyRevision, gateEpoch, page, consents, consentQueue, permits>>
    BY <1>16 DEF Gate!Connected, Gate!Quiet
  <2>2. ASSUME tools' = [tools EXCEPT ![t].at = "inspect", ![t].epoch = gateEpoch],
               conv' = [conv EXCEPT !.browser = TRUE]
        PROVE  GateInv'
    <3>1. /\ conv' \in GateConvs /\ conv'.life = conv.life /\ conv'.turn = conv.turn
          /\ conv'.stopped = conv.stopped
      BY <1>t, <2>2 DEF GateConvs
    <3>2. CallTo(t, "inspect")
      BY <1>t, <2>2, CallGoes DEF GateAts, GateKinds, Gate!Serial
    <3>3. QED
      BY <2>1, <3>1, <3>2, GateMove DEF GateAts, Gate!Serial
  <2>3. ASSUME tools' = [tools EXCEPT ![t] = Gate!Idle], UNCHANGED conv PROVE GateInv'
    BY <2>1, <2>3, GateFail
  <2>4. QED
    BY <1>16, <2>2, <2>3 DEF Gate!Connected, Gate!Fail
<1>17. ASSUME NEW t \in Tools, Gate!Inspect(t) PROVE GateInv'
  <2>1. /\ tools[t].at = "inspect"
        /\ UNCHANGED <<gatePolicy, policyRevision, conv, gateEpoch, page, permits, consents, consentQueue>>
        /\ \/ tools' = [tools EXCEPT ![t].at = "site", ![t].page = page]
           \/ tools' = [tools EXCEPT ![t] = Gate!Idle]
    BY <1>17 DEF Gate!Inspect, Gate!Fail, Gate!Quiet
  <2>2. CallTo(t, "site") \/ tools' = [tools EXCEPT ![t] = Gate!Idle]
    <3>1. ASSUME tools' = [tools EXCEPT ![t].at = "site", ![t].page = page] PROVE CallTo(t, "site")
      <4>1. "site" \in GateAts /\ "none" \in GateKinds
        BY DEF GateAts, GateKinds, Gate!Serial
      <4>2. QED
        BY <1>t, <3>1, <4>1, CallGoes
    <3>2. QED
      BY <2>1, <3>1
  <2>3. QED
    BY <1>t, <2>1, <2>2, GateFail, GateMove DEF GateAts, Gate!Serial
<1>18. ASSUME NEW t \in Tools, Gate!SiteDecision(t) PROVE GateInv'
  <2>1. /\ tools[t].at = "site"
        /\ UNCHANGED <<gatePolicy, policyRevision, conv, gateEpoch, page, permits, consents, consentQueue>>
    BY <1>18 DEF Gate!SiteDecision, Gate!Quiet
  <2>2. \/ tools' = [tools EXCEPT ![t] = Gate!Idle]
        \/ tools' = [tools EXCEPT ![t].at = "ask", ![t].kind = "site", ![t].confirm = gatePolicy.confirm]
        \/ tools' = [tools EXCEPT ![t].at = "category", ![t].confirm = gatePolicy.confirm]
    BY <1>18, Zenon DEF Gate!SiteDecision
  <2>3. gatePolicy.confirm \in {"ask", "allow", "block"}
    BY <1>t, GateParts
  <2>a. "ask" \in GateAts /\ "category" \in GateAts /\ "site" \in GateKinds /\ 0 \in Nat
    BY DEF GateAts, GateKinds, Gate!Serial
  <2>b. tools \in [Tools -> GateCalls]
    BY <1>t
  <2> DEFINE m == gatePolicy.confirm
  <2> HIDE DEF m
  <2>c. m \in {"ask", "allow", "block"}
    BY <2>3 DEF m
  <2>d. ASSUME tools' = [tools EXCEPT ![t].at = "ask", ![t].kind = "site", ![t].confirm = m]
        PROVE  CallTo(t, "ask")
    BY <2>a, <2>b, <2>c, <2>d, CallGoes
  <2>e. ASSUME tools' = [tools EXCEPT ![t].at = "category", ![t].confirm = m]
        PROVE  CallTo(t, "category")
    BY <2>a, <2>b, <2>c, <2>e, CallGoes
  <2>4. \/ tools' = [tools EXCEPT ![t] = Gate!Idle]
        \/ CallTo(t, "ask") \/ CallTo(t, "category")
    BY <2>2, <2>d, <2>e, Zenon DEF m
  <2>5. QED
    BY <1>t, <2>1, <2>4, GateFail, GateMove DEF GateAts, Gate!Serial
<1>19. ASSUME NEW t \in Tools, Gate!CategoryDecision(t) PROVE GateInv'
  <2>1. /\ tools[t].at = "category"
        /\ UNCHANGED <<gatePolicy, policyRevision, conv, gateEpoch, page, permits, consents, consentQueue>>
    BY <1>19 DEF Gate!CategoryDecision, Gate!Quiet
  <2>2. \/ tools' = [tools EXCEPT ![t] = Gate!Idle]
        \/ tools' = [tools EXCEPT ![t].at = "ask", ![t].kind = "action"]
        \/ tools' = [tools EXCEPT ![t].at = "issue"]
    BY <1>19 DEF Gate!CategoryDecision
  <2>3. \/ tools' = [tools EXCEPT ![t] = Gate!Idle]
        \/ CallTo(t, "ask") \/ CallTo(t, "issue")
    BY <1>t, <2>2, CallGoes DEF GateAts, GateKinds, Gate!Serial
  <2>4. QED
    BY <1>t, <2>1, <2>3, GateFail, GateMove DEF GateAts, Gate!Serial
\* A step that changes the permit of a call that is not at work with it.
<1>p. ASSUME NEW t \in Tools, NEW P \in GatePermits, permits' = [permits EXCEPT ![t] = P],
             tools' = tools \/ tools' = [tools EXCEPT ![t] = Gate!Idle],
             P.live => /\ P.rev = policyRevision /\ P.life = conv.life /\ P.turn = conv.turn
                       /\ P.epoch = gateEpoch /\ ~conv.stopped
                       /\ tools'[t].at \notin {"redeemed", "reinspect", "act"},
             tools' # tools => tools[t].at # "wait",
             UNCHANGED <<gatePolicy, policyRevision, conv, gateEpoch, page, consents, consentQueue>>
      PROVE  GateInv'
  <2>1. /\ permits' \in [Tools -> GatePermits] /\ permits'[t] = P
        /\ \A u \in Tools \ {t} : permits'[u] = permits[u]
    BY <1>t, <1>p
  <2>2. PICK X \in GateCalls : /\ tools' = [tools EXCEPT ![t] = X]
                               /\ X = tools[t] \/ (X = Gate!Idle /\ tools[t].at # "wait")
    <3>1. tools = [tools EXCEPT ![t] = tools[t]] /\ tools[t] \in GateCalls
      BY <1>t
    <3>2. QED
      BY <1>p, <3>1, GateIdles
  <2>3. tools'[t] = X
    BY <1>t, <2>2
  <2>4. (Gate!ConsentQueueIsExact)'
    BY <1>p DEF GateInv, Gate!ConsentQueueIsExact
  <2>5. consents[t] # "none" <=> X.at = "wait"
    BY <1>w, <2>2, GateIdles
  <2>6. consents[t] \in OpenConsents => ~conv.stopped
    BY DEF GateInv, GateStopped
  <2>7. X.at \in Gate!Serial => X.life = tools[t].life /\ tools[t].at \in Gate!Serial
    BY <2>2, GateIdles DEF Gate!Serial
  <2>8. QED
    BY <1>t, <1>p, <2>1, <2>2, <2>3, <2>4, <2>5, <2>6, <2>7, GateCallStep
<1>20. ASSUME NEW t \in Tools, Gate!Issue(t) PROVE GateInv'
  <2> DEFINE P == [live |-> TRUE, rev |-> policyRevision, life |-> conv.life, turn |-> conv.turn,
                   epoch |-> gateEpoch, page |-> tools[t].page, late |-> FALSE]
  <2>1. /\ tools[t].at = "issue" /\ tools' = [tools EXCEPT ![t] = Gate!Idle]
        /\ UNCHANGED <<gatePolicy, policyRevision, conv, gateEpoch, page, consents, consentQueue>>
    BY <1>20 DEF Gate!Issue, Gate!Fail, Gate!Quiet
  <2>2. CASE Gate!Valid(t)
    <3>1. permits' = [permits EXCEPT ![t] = P]
      BY <1>20, <2>2 DEF Gate!Issue
    <3>2. tools[t].page \in Nat
      BY <1>t, GateParts
    <3>3. P \in GatePermits
      BY <1>t, <1>c, <3>2 DEF GatePermits
    <3>4. P.rev = policyRevision /\ P.life = conv.life /\ P.turn = conv.turn /\ P.epoch = gateEpoch
      OBVIOUS
    <3>5. ~conv.stopped
      BY <2>2 DEF Gate!Valid
    <3> HIDE DEF P
    <3>6. tools'[t].at = "idle"
      BY <1>t, <2>1, GateIdles
    <3>7. QED
      BY <1>p, <2>1, <3>1, <3>3, <3>4, <3>5, <3>6
  <2>3. CASE ~Gate!Valid(t)
    <3>1. permits' = permits
      BY <1>20, <2>3 DEF Gate!Issue
    <3>2. QED
      BY <2>1, <3>1, GateFail
  <2>4. QED
    BY <2>2, <2>3
<1>21. ASSUME NEW t \in Tools, Gate!PermitExpires(t) PROVE GateInv'
  <2> DEFINE P == [permits[t] EXCEPT !.late = TRUE]
  <2>1. /\ permits[t].live /\ permits' = [permits EXCEPT ![t] = P]
        /\ UNCHANGED <<gatePolicy, policyRevision, conv, gateEpoch, page, tools, consents, consentQueue>>
    BY <1>21 DEF Gate!PermitExpires, Gate!Quiet
  <2>2. /\ P \in GatePermits /\ P.rev = permits[t].rev /\ P.life = permits[t].life
        /\ P.turn = permits[t].turn /\ P.epoch = permits[t].epoch
    BY <1>t DEF GatePermits
  <2> HIDE DEF P
  <2>3. tools[t].at \notin {"redeemed", "reinspect", "act"}
    BY <2>1 DEF GateInv, Gate!PermitIsSpent
  <2>4. QED
    BY <1>l, <1>p, <2>1, <2>2, <2>3
<1>22. ASSUME NEW t \in Tools, Gate!DiscardBrowserPermit(t) PROVE GateInv'
  <2>1. /\ permits' = [permits EXCEPT ![t] = Gate!NoPermit]
        /\ UNCHANGED <<gatePolicy, policyRevision, conv, gateEpoch, page, tools, consents, consentQueue>>
    BY <1>22 DEF Gate!DiscardBrowserPermit, Gate!Quiet
  <2>2. QED
    BY <1>p, <2>1, GateIdles
<1>23. ASSUME NEW t \in Tools, Gate!Redeem(t) PROVE GateInv'
  <2> DEFINE X == [Gate!Idle EXCEPT !.at = "redeemed", !.life = permits[t].life, !.turn = permits[t].turn,
                                    !.epoch = permits[t].epoch, !.rev = permits[t].rev,
                                    !.page = permits[t].page]
  <2>1. /\ tools[t].at = "idle" /\ permits' = [permits EXCEPT ![t] = Gate!NoPermit]
        /\ tools' = [tools EXCEPT ![t] = X] \/ tools' = [tools EXCEPT ![t] = Gate!Idle]
        /\ UNCHANGED <<gatePolicy, policyRevision, conv, gateEpoch, page, consents, consentQueue>>
    BY <1>23 DEF Gate!Redeem, Gate!Fail, Gate!Quiet
  <2>2. X \in GateCalls /\ X.at = "redeemed"
    <3>1. Gate!Idle \in GateCalls /\ "redeemed" \in GateAts
      BY GateIdles DEF GateAts
    <3>2. /\ permits[t].life \in Nat /\ permits[t].turn \in Nat /\ permits[t].epoch \in Nat
          /\ permits[t].rev \in Nat /\ permits[t].page \in Nat
      BY <1>t, GateParts
    <3>3. QED
      BY <3>1, <3>2 DEF GateCalls
  <2> HIDE DEF X
  <2>3. /\ permits' \in [Tools -> GatePermits] /\ ~permits'[t].live
        /\ \A u \in Tools \ {t} : permits'[u] = permits[u]
    BY <1>t, <2>1, GateIdles
  <2>4. (Gate!ConsentQueueIsExact)'
    BY <2>1 DEF GateInv, Gate!ConsentQueueIsExact
  <2>5. consents[t] = "none" /\ "none" \notin OpenConsents
    BY <1>w, <2>1 DEF OpenConsents
  <2>6. {"redeemed", "idle"} \cap Gate!Serial = {}
    BY DEF Gate!Serial
  <2>7. QED
    BY <1>t, <2>1, <2>2, <2>3, <2>4, <2>5, <2>6, GateIdles, GateCallStep
<1>24. ASSUME NEW t \in Tools, Gate!Recheck(t) PROVE GateInv'
  <2>1. /\ tools[t].at = "redeemed" /\ Gate!SerialFree(t)
        /\ UNCHANGED <<gatePolicy, policyRevision, conv, gateEpoch, page, permits, consents, consentQueue>>
        /\ \/ tools' = [tools EXCEPT ![t].at = "reinspect"]
           \/ tools' = [tools EXCEPT ![t] = Gate!Idle]
    BY <1>24 DEF Gate!Recheck, Gate!Fail, Gate!Go, Gate!Quiet
  <2>2. CallTo(t, "reinspect") \/ tools' = [tools EXCEPT ![t] = Gate!Idle]
    BY <1>t, <2>1, CallGoes DEF GateAts, GateKinds, Gate!Serial
  <2>3. ~permits[t].live
    BY <2>1 DEF GateInv, Gate!PermitIsSpent
  <2>4. QED
    BY <1>t, <2>1, <2>2, <2>3, GateFail, GateMove DEF GateAts, Gate!Serial
<1>25. ASSUME NEW t \in Tools, Gate!Reinspect(t) PROVE GateInv'
  <2>1. /\ tools[t].at = "reinspect"
        /\ UNCHANGED <<gatePolicy, policyRevision, conv, gateEpoch, page, permits, consents, consentQueue>>
        /\ \/ tools' = [tools EXCEPT ![t].at = "act"]
           \/ tools' = [tools EXCEPT ![t] = Gate!Idle]
    BY <1>25 DEF Gate!Reinspect, Gate!Fail, Gate!Go, Gate!Quiet
  <2>2. CallTo(t, "act") \/ tools' = [tools EXCEPT ![t] = Gate!Idle]
    BY <1>t, <2>1, CallGoes DEF GateAts, GateKinds, Gate!Serial
  <2>3. ~permits[t].live
    BY <2>1 DEF GateInv, Gate!PermitIsSpent
  <2>4. QED
    BY <1>t, <2>1, <2>2, <2>3, GateFail, GateMove DEF GateAts, Gate!Serial
<1>26. ASSUME NEW t \in Tools, Gate!Act(t) PROVE GateInv'
  BY <1>26, GateFail DEF Gate!Act, Gate!Fail, Gate!Quiet
<1>27. CASE UNCHANGED gateVars
  <2>1. UNCHANGED <<gatePolicy, policyRevision, conv, gateEpoch, page, tools, consents, consentQueue, permits>>
    BY <1>27 DEF gateVars
  <2>2. GateTyped'
    BY <1>t, <2>1 DEF GateTyped
  <2>3. QED
    BY <2>1, <2>2 DEF GateInv, GateSerial, GateWaits, GateStopped, Gate!NoStalePermit,
                      Gate!ConsentQueueIsExact, Gate!PermitIsSpent
<1>28. QED
  BY <1>1, <1>2, <1>3, <1>4, <1>5, <1>6, <1>7, <1>8, <1>9, <1>10, <1>11, <1>12, <1>13, <1>14,
     <1>15, <1>16, <1>17, <1>18, <1>19, <1>20, <1>21, <1>22, <1>23, <1>24, <1>25, <1>26, <1>27
  DEF Gate!GateNext

\* No call, no consent and no permit at the start.
LEMMA GateStart ==
    ASSUME Gate!GateInit
    PROVE  GateInv
<1> USE DEF Gate!GateInit
<1>1. gatePolicy \in GatePolicies
  BY PoliciesTyped
<1>2. conv \in GateConvs /\ ~conv.stopped
  BY DEF GateConvs
<1>3. /\ tools \in [Tools -> GateCalls] /\ \A t \in Tools : tools[t].at = "idle"
      /\ permits \in [Tools -> GatePermits] /\ \A t \in Tools : ~permits[t].live
  BY GateIdles
<1>4. consents \in [Tools -> ConsentStates] /\ \A t \in Tools : consents[t] = "none"
  BY DEF ConsentStates
<1>5. consentQueue \in Seq(Tools) /\ Gate!ToSet(consentQueue) = {} /\ Gate!IsInjective(consentQueue)
  BY DEF Gate!ToSet, Gate!IsInjective
<1>6. GateTyped
  BY <1>1, <1>2, <1>3, <1>4, <1>5 DEF GateTyped
<1>7. GateSerial /\ GateWaits /\ GateStopped
  BY <1>2, <1>3, <1>4 DEF GateSerial, GateWaits, GateStopped, Gate!Serial
<1>8. Gate!NoStalePermit /\ Gate!PermitIsSpent /\ Gate!ConsentQueueIsExact
  BY <1>3, <1>4, <1>5 DEF Gate!NoStalePermit, Gate!PermitIsSpent, Gate!ConsentQueueIsExact
<1>9. QED
  BY <1>6, <1>7, <1>8 DEF GateInv

\* The invariant gives what the run checks of the gateway.
LEMMA GateSafe ==
    ASSUME GateInv
    PROVE  /\ Gate!NoStalePermit /\ Gate!StopLeavesNothing /\ Gate!ConsentQueueIsExact
           /\ Gate!PermitIsSpent
BY DEF GateInv, GateStopped, OpenConsents, Gate!StopLeavesNothing
-----------------------------------------------------------------------------
(* ComputerGateway: observations, permits and stops                        *)

\* Where a call is, and what it carries.
UseAts == Computer!SerialHolders \cup {"idle", "queued", "redeemed"}
UseCalls == [at : UseAts, life : Nat, kind : {"none", "observe", "act", "type"},
             snap : Nat, ok : BOOLEAN]
Chats == [life : Nat, stopped : BOOLEAN]
\* Where a call that acts carries the snapshot it was chosen from, and where that
\* snapshot has been found to be the current one.
Snapped == {"refreshEnter", "refreshRun", "element", "probe", "issue", "redeemed", "final",
            "enter", "run"}
Approved == {"final", "enter", "run"}

\* Types of the calls, their permits and consents, the conversations and the observations.
UseTyped ==
    /\ uses \in [Uses -> UseCalls]
    /\ usePermits \in [Uses -> Nat]
    /\ asking \in [Uses -> {"none", "waiting", "allow", "deny"}]
    /\ chat \in [Sessions -> Chats]
    /\ snaps \in 0..MaxSnapshots /\ observation \in 0..snaps
    /\ actedOn \subseteq 1..snaps

\* The serial section holds one call, and only an asked call has a pending consent.
UseSerial ==
    /\ \A c, d \in Uses : uses[c].at \in Computer!SerialHolders /\ uses[d].at \in Computer!SerialHolders
                             => c = d
    /\ \A c \in Uses : asking[c] # "none" <=> uses[c].at = "asked"

\* A call that acts names a snapshot that was taken, also in its permit, and a call with
\* a permit is not under way.
UseNames ==
    \A c \in Uses :
        /\ uses[c].kind # "observe" /\ uses[c].at \in Snapped => uses[c].snap \in 1..snaps
        /\ usePermits[c] # Computer!NoSnap =>
              /\ uses[c].at = "idle"
              /\ uses[c].kind # "observe" => usePermits[c] \in 1..snaps

\* No action was performed on the snapshot the next action may use, nor on the one a call
\* was approved for; once FinalCheck has spent the observation there is none, until the
\* call that spent it is done.
UseFresh ==
    /\ observation \notin actedOn
    /\ \A c \in Uses :
          /\ uses[c].kind # "observe" /\ uses[c].at \in Approved => uses[c].snap \notin actedOn
          /\ uses[c].at \in {"enter", "run"} => observation = 0

\* What holds after every step of the computer gateway.
ComputerInv ==
    /\ UseTyped /\ UseSerial /\ UseNames /\ UseFresh
    /\ Computer!ActsOnce /\ Computer!StoppedComputerIsQuiet

\* A call that is over.
LEMMA UseRests == Computer!Resting \in UseCalls /\ Computer!Resting.at = "idle"
BY DEF UseCalls, UseAts, Computer!Resting

\* The parts of the invariant.
LEMMA ComputerParts ==
    ASSUME ComputerInv
    PROVE  /\ uses \in [Uses -> UseCalls] /\ usePermits \in [Uses -> Nat]
           /\ asking \in [Uses -> {"none", "waiting", "allow", "deny"}]
           /\ chat \in [Sessions -> Chats] /\ actedOn \subseteq 1..snaps
           /\ snaps \in Nat /\ snaps <= MaxSnapshots /\ observation \in 0..snaps
           /\ ~acted /\ observation \notin actedOn
           /\ \A c \in Uses : asking[c] # "none" <=> uses[c].at = "asked"
           /\ \A c \in Uses : uses[c].at # "idle" => usePermits[c] = Computer!NoSnap
           /\ \A c \in Uses : chat[UseSession[c]].stopped => usePermits[c] = Computer!NoSnap
BY ComputerAssumption
DEF ComputerInv, UseTyped, UseSerial, UseNames, UseFresh, Computer!ActsOnce,
    Computer!StoppedComputerIsQuiet

\* A step of one call keeps the invariant when what it does to the call, its consent, its
\* permit and the observation fits together: only the call in the serial section takes an
\* observation or acts.
LEMMA UseCallStep ==
    ASSUME ComputerInv, NEW c \in Uses, NEW X \in UseCalls, uses' = [uses EXCEPT ![c] = X],
           chat' = chat,
           X.at \in Computer!SerialHolders =>
               uses[c].at \in Computer!SerialHolders \/ Computer!SerialIdle,
           asking' \in [Uses -> {"none", "waiting", "allow", "deny"}],
           \A d \in Uses \ {c} : asking'[d] = asking[d],
           asking'[c] # "none" <=> X.at = "asked",
           usePermits' \in [Uses -> Nat],
           \A d \in Uses \ {c} : usePermits'[d] = usePermits[d],
           usePermits'[c] # Computer!NoSnap =>
               /\ X.at = "idle" /\ ~chat[UseSession[c]].stopped
               /\ X.kind # "observe" => usePermits'[c] \in 1..snaps,
           snaps' \in 0..MaxSnapshots, snaps <= snaps', observation' \in 0..snaps',
           actedOn' \subseteq 1..snaps', observation' \notin actedOn', ~acted',
           actedOn' # actedOn \/ observation' \notin {0, observation} =>
               uses[c].at \in Computer!SerialHolders,
           X.kind # "observe" /\ X.at \in Snapped => X.snap \in 1..snaps',
           X.kind # "observe" /\ X.at \in Approved => X.snap \notin actedOn',
           X.at \in {"enter", "run"} => observation' = 0
    PROVE  ComputerInv'
<1>1. /\ uses' \in [Uses -> UseCalls] /\ uses'[c] = X
      /\ \A d \in Uses \ {c} : uses'[d] = uses[d]
  BY DEF ComputerInv, UseTyped
<1>2. UseTyped'
  BY <1>1 DEF ComputerInv, UseTyped
<1>3. UseSerial'
  BY <1>1 DEF ComputerInv, UseSerial, Computer!SerialIdle
<1>4. UseNames'
  <2>1. snaps \in Nat /\ snaps' \in Nat
    BY ComputerAssumption DEF ComputerInv, UseTyped
  <2>2. \A n : n \in 1..snaps => n \in 1..snaps'
    BY <2>1
  <2>3. Computer!NoSnap' = Computer!NoSnap
    BY DEF Computer!NoSnap
  <2>4. QED
    BY <1>1, <2>2, <2>3 DEF ComputerInv, UseNames
<1>5. UseFresh'
  <2>1. ASSUME NEW d \in Uses, d # c
        PROVE  /\ uses[d].kind # "observe" /\ uses[d].at \in Approved => uses[d].snap \notin actedOn'
               /\ uses[d].at \in {"enter", "run"} => observation' = 0
    <3>1. CASE uses[d].at \in Approved
      <4>1. uses[d].at \in Computer!SerialHolders
        BY <3>1 DEF Approved, Computer!SerialHolders
      <4>2. uses[c].at \notin Computer!SerialHolders
        BY <2>1, <4>1 DEF ComputerInv, UseSerial
      <4>3. actedOn' = actedOn /\ observation' \in {0, observation}
        BY <4>2
      <4>4. QED
        BY <4>3 DEF ComputerInv, UseFresh
    <3>2. CASE uses[d].at \notin Approved
      BY <3>2 DEF Approved
    <3>3. QED
      BY <3>1, <3>2
  <2>2. QED
    BY <1>1, <2>1 DEF UseFresh
<1>6. (Computer!StoppedComputerIsQuiet)'
  BY DEF ComputerInv, Computer!StoppedComputerIsQuiet, Computer!NoSnap
<1>7. QED
  BY <1>2, <1>3, <1>4, <1>5, <1>6 DEF ComputerInv, Computer!ActsOnce

\* A step of a call without a permit that touches the call and its consent only.
LEMMA UseMove ==
    ASSUME ComputerInv, NEW c \in Uses, NEW X \in UseCalls, uses' = [uses EXCEPT ![c] = X],
           UNCHANGED <<chat, observation, snaps, actedOn, usePermits, acted>>,
           usePermits[c] = Computer!NoSnap,
           X.at \in Computer!SerialHolders =>
               uses[c].at \in Computer!SerialHolders \/ Computer!SerialIdle,
           asking' \in [Uses -> {"none", "waiting", "allow", "deny"}],
           \A d \in Uses \ {c} : asking'[d] = asking[d],
           asking'[c] # "none" <=> X.at = "asked",
           X.kind # "observe" /\ X.at \in Snapped => X.snap \in 1..snaps,
           X.kind # "observe" /\ X.at \in Approved => X.snap \notin actedOn,
           X.at \in {"enter", "run"} => observation = 0
    PROVE  ComputerInv'
<1>1. /\ usePermits' \in [Uses -> Nat] /\ snaps' \in 0..MaxSnapshots /\ snaps <= snaps'
      /\ observation' \in 0..snaps' /\ actedOn' \subseteq 1..snaps'
      /\ observation' \notin actedOn' /\ ~acted'
  BY ComputerParts, ComputerAssumption
<1>2. QED
  BY <1>1, UseCallStep

\* A call ends.
LEMMA UseEnds ==
    ASSUME ComputerInv, NEW c \in Uses, uses' = [uses EXCEPT ![c] = Computer!Resting],
           UNCHANGED <<chat, observation, snaps, actedOn, usePermits, acted>>,
           usePermits[c] = Computer!NoSnap,
           asking' = asking \/ asking' = [asking EXCEPT ![c] = "none"],
           asking' = asking => uses[c].at # "asked"
    PROVE  ComputerInv'
<1>1. /\ asking' \in [Uses -> {"none", "waiting", "allow", "deny"}]
      /\ \A d \in Uses \ {c} : asking'[d] = asking[d]
      /\ asking'[c] = "none"
  BY ComputerParts
<1>2. "idle" \notin Computer!SerialHolders \cup Snapped \cup Approved
  BY DEF Computer!SerialHolders, Snapped, Approved
<1>3. QED
  BY <1>1, <1>2, UseRests, UseMove

\* A call without a permit goes on from one point of the serial section to the next and
\* keeps its snapshot.
LEMMA UseStays ==
    ASSUME ComputerInv, NEW c \in Uses, NEW a \in UseAts, uses' = [uses EXCEPT ![c].at = a],
           UNCHANGED <<chat, observation, snaps, actedOn, usePermits, acted, asking>>,
           uses[c].at \notin {"idle", "asked"}, a # "asked",
           a \in Computer!SerialHolders => uses[c].at \in Computer!SerialHolders \/ Computer!SerialIdle,
           uses[c].kind # "observe" /\ a \in Snapped => uses[c].at \in Snapped,
           a \in Approved => uses[c].at \in Approved,
           a = "run" => uses[c].at = "enter", a # "enter"
    PROVE  ComputerInv'
<1>0. uses \in [Uses -> UseCalls]
  BY ComputerParts
<1>1. uses[c] \in UseCalls /\ uses[c].snap \in Nat
  BY <1>0 DEF UseCalls
<1> DEFINE X == [uses[c] EXCEPT !.at = a]
<1>2. /\ X \in UseCalls /\ X.at = a /\ X.snap = uses[c].snap /\ X.kind = uses[c].kind
      /\ uses' = [uses EXCEPT ![c] = X]
  BY <1>1 DEF UseCalls
<1> HIDE DEF X
<1>3. /\ X.kind # "observe" /\ X.at \in Snapped => X.snap \in 1..snaps
      /\ X.kind # "observe" /\ X.at \in Approved => X.snap \notin actedOn
      /\ X.at \in {"enter", "run"} => observation = 0
  BY <1>2 DEF ComputerInv, UseNames, UseFresh
<1>4. /\ asking' \in [Uses -> {"none", "waiting", "allow", "deny"}]
      /\ asking'[c] = "none" /\ usePermits[c] = Computer!NoSnap
  BY ComputerParts
<1>5. QED
  BY <1>2, <1>3, <1>4, UseMove

\* Steps of the user, of the engine and of a revocation: no call moves, permits and the
\* observation are only taken away, a stopped conversation keeps no permit.
LEMMA UseRevoked ==
    ASSUME ComputerInv, UNCHANGED <<uses, snaps, actedOn, acted>>,
           chat' \in [Sessions -> Chats],
           asking' \in [Uses -> {"none", "waiting", "allow", "deny"}],
           \A c \in Uses : asking'[c] = "none" <=> asking[c] = "none",
           observation' \in {0, observation},
           usePermits' \in [Uses -> Nat],
           \A c \in Uses : usePermits'[c] \in {usePermits[c], Computer!NoSnap},
           \A c \in Uses : chat'[UseSession[c]].stopped => usePermits'[c] = Computer!NoSnap
    PROVE  ComputerInv'
<1>1. observation' \in 0..snaps /\ observation' \notin actedOn
  BY ComputerParts
<1>2. UseTyped'
  BY <1>1 DEF ComputerInv, UseTyped
<1>3. UseSerial'
  BY DEF ComputerInv, UseSerial
<1>4. UseNames'
  BY DEF ComputerInv, UseNames, Computer!NoSnap
<1>5. UseFresh'
  BY <1>1 DEF ComputerInv, UseFresh
<1>6. (Computer!StoppedComputerIsQuiet)'
  BY DEF Computer!StoppedComputerIsQuiet, Computer!NoSnap
<1>7. QED
  BY <1>2, <1>3, <1>4, <1>5, <1>6 DEF ComputerInv, Computer!ActsOnce

\* Every step of the calls, the user and the engine keeps the invariant.
LEMMA ComputerStep ==
    ASSUME ComputerInv, [Computer!ComputerNext]_computerVars
    PROVE  ComputerInv'
<1>t. /\ uses \in [Uses -> UseCalls] /\ usePermits \in [Uses -> Nat]
      /\ asking \in [Uses -> {"none", "waiting", "allow", "deny"}]
      /\ chat \in [Sessions -> Chats] /\ actedOn \subseteq 1..snaps
      /\ snaps \in Nat /\ snaps <= MaxSnapshots /\ observation \in 0..snaps
      /\ ~acted /\ observation \notin actedOn
      /\ \A c \in Uses : asking[c] # "none" <=> uses[c].at = "asked"
      /\ \A c \in Uses : uses[c].at # "idle" => usePermits[c] = Computer!NoSnap
      /\ \A c \in Uses : chat[UseSession[c]].stopped => usePermits[c] = Computer!NoSnap
  BY ComputerParts
<1>c. uses \in [Uses -> UseCalls]
  BY <1>t
<1>u. \A c \in Uses : UseSession[c] \in Sessions
  BY ComputerAssumption
<1>r. /\ \A r \in UseCalls : /\ r.at \in UseAts /\ r.life \in Nat /\ r.snap \in Nat
                             /\ r.kind \in {"none", "observe", "act", "type"}
      /\ \A h \in Chats : h.life \in Nat /\ h.stopped \in BOOLEAN
  BY DEF UseCalls, Chats
<1>n. Computer!NoSnap \in Nat
  BY ComputerAssumption DEF Computer!NoSnap
<1>1. ASSUME NEW c \in Uses, NEW k \in Computer!Kinds, Computer!Claim(c, k) PROVE ComputerInv'
  <2> DEFINE l == chat[UseSession[c]].life
             X == [Computer!Resting EXCEPT !.at = "queued", !.life = l, !.kind = k]
  <2>1. /\ uses[c].at = "idle" /\ usePermits[c] = Computer!NoSnap
        /\ uses' = [uses EXCEPT ![c] = X]
        /\ UNCHANGED <<chat, asking, observation, snaps, actedOn, usePermits, acted>>
    BY <1>1 DEF Computer!Claim, Computer!Same
  <2>2. l \in Nat
    BY <1>t, <1>u, <1>r
  <2> HIDE DEF l
  <2>3. X \in UseCalls /\ X.at = "queued"
    <3>1. "queued" \in UseAts /\ k \in {"none", "observe", "act", "type"}
      BY DEF UseAts, Computer!Kinds
    <3>2. QED
      BY <2>2, <3>1, UseRests DEF UseCalls
  <2> HIDE DEF X
  <2>4. "queued" \notin Computer!SerialHolders \cup Snapped \cup Approved
    BY DEF Computer!SerialHolders, Snapped, Approved
  <2>5. asking'[c] = "none" /\ asking' \in [Uses -> {"none", "waiting", "allow", "deny"}]
    BY <1>t, <2>1
  <2>6. QED
    BY <2>1, <2>3, <2>4, <2>5, UseMove
\* The two ways most steps end: the call goes on, or it is refused.
<1>e. ASSUME NEW c \in Uses, uses' = [uses EXCEPT ![c] = Computer!Resting],
             UNCHANGED <<chat, asking, observation, snaps, actedOn, usePermits, acted>>,
             uses[c].at \notin {"idle", "asked"}
      PROVE  ComputerInv'
  BY <1>t, <1>e, UseEnds
<1>2. ASSUME NEW c \in Uses, Computer!GiveUpQueued(c) PROVE ComputerInv'
  BY <1>2, <1>e DEF Computer!GiveUpQueued, Computer!Refused
<1>3. ASSUME NEW c \in Uses, Computer!Enter(c) PROVE ComputerInv'
  <2>1. /\ uses[c].at = "queued" /\ Computer!SerialIdle
        /\ UNCHANGED <<chat, asking, observation, snaps, actedOn, usePermits, acted>>
        /\ \/ uses' = [uses EXCEPT ![c].at = "consent"]
           \/ uses' = [uses EXCEPT ![c] = Computer!Resting]
    BY <1>3 DEF Computer!Enter, Computer!Step, Computer!Refused, Computer!Same
  <2>2. "consent" \in UseAts /\ "consent" \notin Snapped /\ "consent" \notin Approved
    BY DEF UseAts, Computer!SerialHolders, Snapped, Approved
  <2>3. QED
    BY <1>e, <2>1, <2>2, UseStays
<1>4. ASSUME NEW c \in Uses, Computer!ComputerConsent(c) PROVE ComputerInv'
  <2>1. /\ uses[c].at = "consent"
        /\ UNCHANGED <<chat, observation, snaps, actedOn, usePermits, acted>>
    BY <1>4 DEF Computer!ComputerConsent, Computer!Same
  <2>2. uses[c].at \in Computer!SerialHolders
    BY <2>1 DEF Computer!SerialHolders
  <2>3. ASSUME uses' = [uses EXCEPT ![c].at = "observed"], asking' = asking PROVE ComputerInv'
    <3>1. "observed" \in UseAts /\ "observed" \notin Snapped /\ "observed" \notin Approved
      BY DEF UseAts, Computer!SerialHolders, Snapped, Approved
    <3>2. QED
      BY <2>1, <2>2, <2>3, <3>1, UseStays
  <2>4. ASSUME uses' = [uses EXCEPT ![c].at = "asked"], asking' = [asking EXCEPT ![c] = "waiting"]
        PROVE  ComputerInv'
    <3> DEFINE X == [uses[c] EXCEPT !.at = "asked"]
    <3>1. "asked" \in UseAts /\ "asked" \notin Snapped /\ "asked" \notin Approved
      BY DEF UseAts, Computer!SerialHolders, Snapped, Approved
    <3>2. X \in UseCalls /\ X.at = "asked" /\ uses' = [uses EXCEPT ![c] = X]
      BY <1>t, <2>4, <3>1 DEF UseCalls
    <3> HIDE DEF X
    <3>3. /\ asking' \in [Uses -> {"none", "waiting", "allow", "deny"}] /\ asking'[c] = "waiting"
          /\ \A d \in Uses \ {c} : asking'[d] = asking[d]
      BY <1>t, <2>4
    <3>4. usePermits[c] = Computer!NoSnap
      BY <1>t, <2>1
    <3>5. QED
      BY <2>1, <2>2, <3>1, <3>2, <3>3, <3>4, UseMove
  <2>5. QED
    BY <1>4, <2>3, <2>4 DEF Computer!ComputerConsent, Computer!Step
<1>5. ASSUME NEW c \in Uses, Computer!Consented(c) PROVE ComputerInv'
  <2>1. /\ uses[c].at = "asked" /\ asking' = [asking EXCEPT ![c] = "none"]
        /\ UNCHANGED <<chat, observation, snaps, actedOn, usePermits, acted>>
        /\ \/ uses' = [uses EXCEPT ![c].at = "observed"]
           \/ uses' = [uses EXCEPT ![c] = Computer!Resting]
    BY <1>5 DEF Computer!Consented, Computer!Step, Computer!Refused, Computer!Same
  <2>2. /\ asking' \in [Uses -> {"none", "waiting", "allow", "deny"}] /\ asking'[c] = "none"
        /\ \A d \in Uses \ {c} : asking'[d] = asking[d]
        /\ usePermits[c] = Computer!NoSnap
    BY <1>t, <2>1
  <2>3. ASSUME uses' = [uses EXCEPT ![c].at = "observed"] PROVE ComputerInv'
    <3> DEFINE X == [uses[c] EXCEPT !.at = "observed"]
    <3>1. "observed" \in UseAts /\ "observed" \notin Snapped /\ "observed" \notin Approved
      BY DEF UseAts, Computer!SerialHolders, Snapped, Approved
    <3>2. X \in UseCalls /\ X.at = "observed" /\ uses' = [uses EXCEPT ![c] = X]
      BY <1>t, <2>3, <3>1 DEF UseCalls
    <3> HIDE DEF X
    <3>3. uses[c].at \in Computer!SerialHolders
      BY <2>1 DEF Computer!SerialHolders
    <3>4. QED
      BY <2>1, <2>2, <3>1, <3>2, <3>3, UseMove
  <2>4. ASSUME uses' = [uses EXCEPT ![c] = Computer!Resting] PROVE ComputerInv'
    BY <1>t, <2>1, <2>2, <2>4, UseEnds
  <2>5. QED
    BY <2>1, <2>3, <2>4
<1>6. ASSUME NEW c \in Uses, Computer!Observed(c) PROVE ComputerInv'
  <2>1. /\ uses[c].at = "observed"
        /\ UNCHANGED <<chat, asking, observation, snaps, actedOn, usePermits, acted>>
    BY <1>6 DEF Computer!Observed, Computer!Same
  <2>2. uses[c].at \in Computer!SerialHolders /\ usePermits[c] = Computer!NoSnap /\ asking[c] = "none"
    BY <1>t, <2>1 DEF Computer!SerialHolders
  <2>3. CASE uses[c].kind = "observe"
    <3>1. uses' = [uses EXCEPT ![c].at = "issue"]
      BY <1>6, <2>3 DEF Computer!Observed, Computer!Step
    <3>2. "issue" \in UseAts /\ "issue" \notin Approved
      BY DEF UseAts, Computer!SerialHolders, Approved
    <3>3. QED
      BY <2>1, <2>2, <2>3, <3>1, <3>2, UseStays
  <2>4. CASE uses[c].kind # "observe" /\ observation = 0
    BY <1>6, <1>e, <2>1, <2>4 DEF Computer!Observed, Computer!Refused
  <2>5. CASE uses[c].kind # "observe" /\ observation # 0
    <3> DEFINE a == IF uses[c].kind = "type" THEN "refreshEnter" ELSE "issue"
    <3>1. uses' = [uses EXCEPT ![c].snap = observation, ![c].at = a]
      BY <1>6, <2>5 DEF Computer!Observed
    <3>2. a \in UseAts /\ a \in {"refreshEnter", "issue"}
      BY DEF UseAts, Computer!SerialHolders
    <3> HIDE DEF a
    <3>3. observation \in Nat /\ observation \in 1..snaps
      BY <1>t, <2>5
    <3> DEFINE X == [uses[c] EXCEPT !.snap = observation, !.at = a]
    <3>4. /\ X \in UseCalls /\ X.at = a /\ X.snap = observation /\ X.kind = uses[c].kind
          /\ uses' = [uses EXCEPT ![c] = X]
      BY <1>c, <3>1, <3>2, <3>3 DEF UseCalls
    <3> HIDE DEF X
    <3>5. a \notin Approved /\ a # "asked"
      BY <3>2 DEF Approved
    <3>6. QED
      <4>1. /\ asking' \in [Uses -> {"none", "waiting", "allow", "deny"}] /\ asking'[c] = "none"
            /\ \A d \in Uses \ {c} : asking'[d] = asking[d]
        BY <1>t, <2>1, <2>2
      <4>2. a \notin {"enter", "run"}
        BY <3>2
      <4>3. QED
        BY <2>1, <2>2, <3>3, <3>4, <3>5, <4>1, <4>2, UseMove
  <2>6. QED
    BY <2>3, <2>4, <2>5
<1>7. ASSUME NEW c \in Uses, Computer!EngineEnter(c) PROVE ComputerInv'
  <2>1. /\ uses[c].at \in {"refreshEnter", "enter"}
        /\ UNCHANGED <<chat, asking, observation, snaps, actedOn, usePermits, acted>>
    BY <1>7 DEF Computer!EngineEnter, Computer!Same
  <2>2. \/ uses' = [uses EXCEPT ![c] = Computer!Resting]
        \/ uses' = [uses EXCEPT ![c].at = IF uses[c].at = "enter" THEN "run" ELSE "refreshRun"]
    BY <1>7 DEF Computer!EngineEnter, Computer!Refused, Computer!Step
  <2>3. \/ uses' = [uses EXCEPT ![c] = Computer!Resting]
        \/ uses[c].at = "enter" /\ uses' = [uses EXCEPT ![c].at = "run"]
        \/ uses[c].at = "refreshEnter" /\ uses' = [uses EXCEPT ![c].at = "refreshRun"]
    <3>1. CASE uses[c].at = "enter"
      BY <2>2, <3>1
    <3>2. CASE uses[c].at = "refreshEnter"
      BY <2>2, <3>2
    <3>3. QED
      BY <2>1, <3>1, <3>2
  <2>4. /\ {"run", "refreshRun"} \subseteq UseAts /\ uses[c].at \in Computer!SerialHolders
        /\ uses[c].at \in Snapped /\ "refreshRun" \notin Approved
        /\ uses[c].at = "enter" => uses[c].at \in Approved
    BY <2>1 DEF UseAts, Computer!SerialHolders, Snapped, Approved
  <2>5. QED
    BY <1>e, <2>1, <2>3, <2>4, UseStays
\* A fresh observation is of no action yet.
<1>f. snaps < MaxSnapshots =>
          /\ snaps + 1 \in 0..MaxSnapshots /\ snaps <= snaps + 1 /\ snaps + 1 \in 0..(snaps + 1)
          /\ actedOn \subseteq 1..(snaps + 1) /\ snaps + 1 \notin actedOn /\ snaps + 1 \in 1..(snaps + 1)
          /\ snaps + 1 \in Nat
  BY <1>t, ComputerAssumption
<1>8. ASSUME NEW c \in Uses, Computer!Refresh(c) PROVE ComputerInv'
  <2>1. /\ uses[c].at = "refreshRun" /\ UNCHANGED <<chat, asking, actedOn, usePermits, acted>>
    BY <1>8 DEF Computer!Refresh, Computer!Same
  <2>2. ASSUME snaps < MaxSnapshots, snaps' = snaps + 1, observation' = snaps + 1,
               uses' = [uses EXCEPT ![c].at = "element", ![c].snap = snaps + 1]
        PROVE  ComputerInv'
    <3>1. "element" \in UseAts /\ "element" \notin Approved
      BY DEF UseAts, Computer!SerialHolders, Approved
    <3> DEFINE n == snaps + 1
               X == [uses[c] EXCEPT !.at = "element", !.snap = n]
    <3>n. n \in Nat
      BY <1>f, <2>2
    <3> HIDE DEF n
    <3>2. /\ X \in UseCalls /\ X.at = "element" /\ X.snap = n /\ X.kind = uses[c].kind
          /\ uses' = [uses EXCEPT ![c] = X]
      <4>1. uses' = [uses EXCEPT ![c].at = "element", ![c].snap = n]
        BY <2>2 DEF n
      <4>2. QED
        BY <1>c, <3>n, <3>1, <4>1 DEF UseCalls
    <3> HIDE DEF X
    <3>3. uses[c].at \in Computer!SerialHolders
      BY <2>1 DEF Computer!SerialHolders
    <3>4. asking[c] = "none" /\ usePermits[c] = Computer!NoSnap
      BY <1>t, <2>1
    <3>5. QED
      <4>1. /\ asking' \in [Uses -> {"none", "waiting", "allow", "deny"}] /\ asking'[c] = "none"
            /\ \A d \in Uses \ {c} : asking'[d] = asking[d]
        BY <1>t, <2>1, <3>4
      <4>2. /\ usePermits' \in [Uses -> Nat] /\ usePermits'[c] = Computer!NoSnap
            /\ \A d \in Uses \ {c} : usePermits'[d] = usePermits[d]
        BY <1>t, <2>1, <3>4
      <4>3. /\ snaps' \in 0..MaxSnapshots /\ snaps <= snaps' /\ observation' \in 0..snaps'
            /\ actedOn' \subseteq 1..snaps' /\ observation' \notin actedOn' /\ X.snap \in 1..snaps'
        BY <1>f, <2>1, <2>2, <3>2 DEF n
      <4>4. chat' = chat /\ ~acted'
        BY <1>t, <2>1
      <4>5. X.at # "asked" /\ X.at \notin Approved /\ X.at \notin {"enter", "run"}
        BY <3>1, <3>2
      <4>6. QED
        BY <3>2, <3>3, <4>1, <4>2, <4>3, <4>4, <4>5, UseCallStep
  <2>3. ASSUME uses' = [uses EXCEPT ![c] = Computer!Resting], UNCHANGED <<snaps, observation>>
        PROVE  ComputerInv'
    BY <1>e, <2>1, <2>3
  <2>4. QED
    BY <1>8, <2>2, <2>3 DEF Computer!Refresh, Computer!Refused
<1>9. ASSUME NEW c \in Uses, Computer!Probe(c) PROVE ComputerInv'
  <2>1. /\ uses[c].at = "element"
        /\ UNCHANGED <<chat, asking, observation, snaps, actedOn, usePermits, acted>>
        /\ \/ uses' = [uses EXCEPT ![c].at = "probe"]
           \/ uses' = [uses EXCEPT ![c] = Computer!Resting]
    BY <1>9 DEF Computer!Probe, Computer!Step, Computer!Refused, Computer!Same
  <2>2. /\ "probe" \in UseAts /\ "probe" \notin Approved
        /\ "element" \in Computer!SerialHolders /\ "element" \in Snapped
    BY DEF UseAts, Computer!SerialHolders, Snapped, Approved
  <2>3. QED
    BY <1>e, <2>1, <2>2, UseStays
<1>10. ASSUME NEW c \in Uses, Computer!Probed(c) PROVE ComputerInv'
  <2>1. /\ uses[c].at = "probe"
        /\ UNCHANGED <<chat, asking, observation, snaps, actedOn, usePermits, acted>>
        /\ \/ uses' = [uses EXCEPT ![c].at = "issue"]
           \/ uses' = [uses EXCEPT ![c] = Computer!Resting]
    BY <1>10 DEF Computer!Probed, Computer!Step, Computer!Refused, Computer!Same
  <2>2. /\ "issue" \in UseAts /\ "issue" \notin Approved
        /\ "probe" \in Computer!SerialHolders /\ "probe" \in Snapped
    BY DEF UseAts, Computer!SerialHolders, Snapped, Approved
  <2>3. QED
    BY <1>e, <2>1, <2>2, UseStays
<1>11. ASSUME NEW c \in Uses, Computer!IssuePermit(c) PROVE ComputerInv'
  <2>1. /\ uses[c].at = "issue"
        /\ UNCHANGED <<chat, asking, observation, snaps, actedOn, acted>>
    BY <1>11 DEF Computer!IssuePermit, Computer!Same
  <2>2. ASSUME Computer!UseValid(c), usePermits' = [usePermits EXCEPT ![c] = uses[c].snap],
               uses' = [uses EXCEPT ![c] = [Computer!Resting EXCEPT !.life = uses[c].life,
                                                                    !.kind = uses[c].kind]]
        PROVE  ComputerInv'
    <3> DEFINE l == uses[c].life
               k == uses[c].kind
               X == [Computer!Resting EXCEPT !.life = l, !.kind = k]
    <3>1. l \in Nat /\ k \in {"none", "observe", "act", "type"} /\ uses[c].snap \in Nat
      BY <1>t, <1>r
    <3> HIDE DEF l
    <3>2. X \in UseCalls /\ X.at = "idle" /\ X.kind = k
      <4> HIDE DEF k
      <4>1. QED
        BY <3>1, UseRests DEF UseCalls
    <3>3. uses' = [uses EXCEPT ![c] = X]
      BY <2>2 DEF l
    <3> HIDE DEF X
    <3>4. /\ usePermits' \in [Uses -> Nat] /\ usePermits'[c] = uses[c].snap
          /\ \A d \in Uses \ {c} : usePermits'[d] = usePermits[d]
      BY <1>t, <2>2, <3>1
    <3>5. k # "observe" => uses[c].snap \in 1..snaps
      BY <2>1 DEF ComputerInv, UseNames, Snapped
    <3>6. ~chat[UseSession[c]].stopped
      BY <2>2 DEF Computer!UseValid
    <3>7. "idle" \notin Computer!SerialHolders \cup Snapped \cup Approved
      BY DEF Computer!SerialHolders, Snapped, Approved
    <3>8. asking[c] = "none"
      BY <1>t, <2>1
    <3>9. snaps \in 0..MaxSnapshots
      BY <1>t, ComputerAssumption
    <3>10. QED
      <4>1. /\ asking' \in [Uses -> {"none", "waiting", "allow", "deny"}] /\ asking'[c] = "none"
            /\ \A d \in Uses \ {c} : asking'[d] = asking[d]
        BY <1>t, <2>1, <3>8
      <4>2. /\ snaps' \in 0..MaxSnapshots /\ snaps <= snaps' /\ observation' \in 0..snaps'
            /\ actedOn' \subseteq 1..snaps' /\ observation' \notin actedOn' /\ ~acted'
        BY <1>t, <2>1, <3>9
      <4>3. X.at \notin Computer!SerialHolders \cup Snapped \cup Approved /\ X.at \notin {"enter", "run", "asked"}
        BY <3>2, <3>7
      <4>4. actedOn' = actedOn /\ observation' = observation /\ chat' = chat
        BY <2>1
      <4>5. QED
        BY <3>2, <3>3, <3>4, <3>5, <3>6, <4>1, <4>2, <4>3, <4>4, UseCallStep
  <2>3. ASSUME uses' = [uses EXCEPT ![c] = Computer!Resting], UNCHANGED usePermits PROVE ComputerInv'
    BY <1>e, <2>1, <2>3
  <2>4. QED
    BY <1>11, <2>2, <2>3 DEF Computer!IssuePermit, Computer!Refused
<1>12. ASSUME NEW c \in Uses, Computer!RedeemPermit(c) PROVE ComputerInv'
  <2>1. /\ uses[c].at = "idle" /\ usePermits[c] # Computer!NoSnap
        /\ usePermits' = [usePermits EXCEPT ![c] = Computer!NoSnap]
        /\ UNCHANGED <<chat, asking, observation, snaps, actedOn, acted>>
        /\ \/ uses' = [uses EXCEPT ![c].at = "redeemed", ![c].snap = usePermits[c]]
           \/ uses' = [uses EXCEPT ![c] = Computer!Resting]
    BY <1>12 DEF Computer!RedeemPermit, Computer!Same, Computer!Kept
  <2>2. /\ usePermits' \in [Uses -> Nat] /\ usePermits'[c] = Computer!NoSnap
        /\ \A d \in Uses \ {c} : usePermits'[d] = usePermits[d]
    BY <1>t, <1>n, <2>1
  <2>3. asking[c] = "none" /\ snaps \in 0..MaxSnapshots
    BY <1>t, <2>1, ComputerAssumption
  <2>4. "redeemed" \in UseAts /\ {"redeemed", "idle"} \cap (Computer!SerialHolders \cup Approved) = {}
    BY DEF UseAts, Computer!SerialHolders, Approved
  <2>a. /\ asking' \in [Uses -> {"none", "waiting", "allow", "deny"}] /\ asking'[c] = "none"
        /\ \A d \in Uses \ {c} : asking'[d] = asking[d]
    BY <1>t, <2>1, <2>3
  <2>b. /\ snaps' \in 0..MaxSnapshots /\ snaps <= snaps' /\ observation' \in 0..snaps'
        /\ actedOn' \subseteq 1..snaps' /\ observation' \notin actedOn' /\ ~acted'
    BY <1>t, <2>1, <2>3
  <2>c. actedOn' = actedOn /\ observation' = observation /\ chat' = chat /\ snaps' = snaps
    BY <2>1
  <2>5. ASSUME uses' = [uses EXCEPT ![c].at = "redeemed", ![c].snap = usePermits[c]] PROVE ComputerInv'
    <3> DEFINE n == usePermits[c]
               X == [uses[c] EXCEPT !.at = "redeemed", !.snap = n]
    <3>n. n \in Nat
      BY <1>t
    <3> HIDE DEF n
    <3>1. /\ X \in UseCalls /\ X.at = "redeemed" /\ X.snap = n /\ X.kind = uses[c].kind
          /\ uses' = [uses EXCEPT ![c] = X]
      <4>1. uses' = [uses EXCEPT ![c].at = "redeemed", ![c].snap = n]
        BY <2>5 DEF n
      <4>2. QED
        BY <1>c, <2>4, <3>n, <4>1 DEF UseCalls
    <3> HIDE DEF X
    <3>2. X.kind # "observe" => X.snap \in 1..snaps
      BY <2>1, <3>1 DEF ComputerInv, UseNames, n
    <3>3. QED
      <4>1. X.at \notin Computer!SerialHolders \cup Approved /\ X.at \notin {"enter", "run", "asked"}
        BY <2>4, <3>1
      <4>2. QED
        BY <2>2, <2>a, <2>b, <2>c, <3>1, <3>2, <4>1, UseCallStep
  <2>6. ASSUME uses' = [uses EXCEPT ![c] = Computer!Resting] PROVE ComputerInv'
    <3>1. "idle" \notin Snapped
      BY DEF Snapped
    <3>2. QED
      <4> DEFINE X == Computer!Resting
      <4>1. X \in UseCalls /\ uses' = [uses EXCEPT ![c] = X] /\ X.at = "idle"
        BY <2>6, UseRests
      <4>2. /\ X.at \notin Computer!SerialHolders \cup Snapped \cup Approved
            /\ X.at \notin {"enter", "run", "asked"}
        BY <2>4, <3>1, <4>1
      <4> HIDE DEF X
      <4>3. QED
        BY <2>2, <2>a, <2>b, <2>c, <4>1, <4>2, UseCallStep
  <2>7. QED
    BY <2>1, <2>5, <2>6
<1>13. ASSUME NEW c \in Uses, Computer!CheckObservation(c) PROVE ComputerInv'
  <2>1. /\ uses[c].at = "redeemed" /\ Computer!SerialIdle
        /\ UNCHANGED <<chat, asking, observation, snaps, actedOn, usePermits, acted>>
    BY <1>13 DEF Computer!CheckObservation, Computer!Same, Computer!Kept
  <2>2. ASSUME uses[c].kind = "observe" \/ observation = uses[c].snap,
               uses' = [uses EXCEPT ![c].at = "final"]
        PROVE  ComputerInv'
    <3> DEFINE X == [uses[c] EXCEPT !.at = "final"]
    <3>1. "final" \in UseAts /\ "redeemed" \in Snapped
      BY DEF UseAts, Computer!SerialHolders, Snapped
    <3>2. /\ X \in UseCalls /\ X.at = "final" /\ X.kind = uses[c].kind /\ X.snap = uses[c].snap
          /\ uses' = [uses EXCEPT ![c] = X]
      BY <1>t, <2>2, <3>1 DEF UseCalls
    <3> HIDE DEF X
    <3>3. X.kind # "observe" => X.snap \in 1..snaps /\ X.snap \notin actedOn
      BY <1>t, <2>1, <2>2, <3>1, <3>2 DEF ComputerInv, UseNames
    <3>4. usePermits[c] = Computer!NoSnap /\ asking[c] = "none"
      BY <1>t, <2>1
    <3>5. QED
      BY <1>t, <2>1, <3>2, <3>3, <3>4, UseMove
  <2>3. ASSUME uses' = [uses EXCEPT ![c] = Computer!Resting] PROVE ComputerInv'
    BY <1>e, <2>1, <2>3
  <2>4. QED
    BY <1>13, <2>2, <2>3 DEF Computer!CheckObservation, Computer!Step
<1>14. ASSUME NEW c \in Uses, Computer!FinalCheck(c) PROVE ComputerInv'
  <2>1. /\ uses[c].at = "final" /\ UNCHANGED <<chat, asking, snaps, actedOn, usePermits, acted>>
    BY <1>14 DEF Computer!FinalCheck, Computer!Same, Computer!Kept
  <2>2. ASSUME uses' = [uses EXCEPT ![c].at = "enter"], observation' = 0 PROVE ComputerInv'
    <3> DEFINE X == [uses[c] EXCEPT !.at = "enter"]
    <3>1. /\ "enter" \in UseAts /\ "final" \in Snapped /\ "final" \in Approved
          /\ "final" \in Computer!SerialHolders
      BY DEF UseAts, Computer!SerialHolders, Snapped, Approved
    <3>2. /\ X \in UseCalls /\ X.at = "enter" /\ X.kind = uses[c].kind /\ X.snap = uses[c].snap
          /\ uses' = [uses EXCEPT ![c] = X]
      BY <1>t, <2>2, <3>1 DEF UseCalls
    <3> HIDE DEF X
    <3>3. X.kind # "observe" => X.snap \in 1..snaps /\ X.snap \notin actedOn
      BY <2>1, <3>1, <3>2 DEF ComputerInv, UseNames, UseFresh
    <3>4. usePermits[c] = Computer!NoSnap /\ asking[c] = "none"
      BY <1>t, <2>1
    <3>5. 0 \in 0..snaps /\ 0 \notin actedOn /\ snaps \in 0..MaxSnapshots
      BY <1>t, ComputerAssumption
    <3>6. QED
      <4>1. /\ asking' \in [Uses -> {"none", "waiting", "allow", "deny"}] /\ asking'[c] = "none"
            /\ \A d \in Uses \ {c} : asking'[d] = asking[d]
        BY <1>t, <2>1, <3>4
      <4>2. /\ usePermits' \in [Uses -> Nat] /\ usePermits'[c] = Computer!NoSnap
            /\ \A d \in Uses \ {c} : usePermits'[d] = usePermits[d]
        BY <1>t, <2>1, <3>4
      <4>3. /\ snaps' \in 0..MaxSnapshots /\ snaps <= snaps' /\ observation' \in 0..snaps'
            /\ actedOn' \subseteq 1..snaps' /\ observation' \notin actedOn' /\ ~acted'
        BY <1>t, <2>1, <2>2, <3>5
      <4>4. actedOn' = actedOn /\ chat' = chat /\ snaps' = snaps
        BY <2>1
      <4>5. uses[c].at \in Computer!SerialHolders
        BY <2>1, <3>1
      <4>6. X.at # "asked"
        BY <3>2
      <4>7. QED
        BY <2>2, <3>2, <3>3, <4>1, <4>2, <4>3, <4>4, <4>5, <4>6, UseCallStep
  <2>3. ASSUME uses' = [uses EXCEPT ![c] = Computer!Resting], UNCHANGED observation PROVE ComputerInv'
    BY <1>e, <2>1, <2>3
  <2>4. QED
    BY <1>14, <2>2, <2>3 DEF Computer!FinalCheck, Computer!Step
<1>15. ASSUME NEW c \in Uses, Computer!Run(c) PROVE ComputerInv'
  <2>1. /\ uses[c].at = "run" /\ uses' = [uses EXCEPT ![c] = Computer!Resting]
        /\ UNCHANGED <<chat, asking, usePermits>>
    BY <1>15 DEF Computer!Run, Computer!Same, Computer!Kept
  <2>2. uses[c].at \in Computer!SerialHolders
    BY <2>1 DEF Computer!SerialHolders
  <2>3. asking[c] = "none" /\ usePermits[c] = Computer!NoSnap /\ snaps \in 0..MaxSnapshots
    BY <1>t, <2>1, ComputerAssumption
  <2>4. "idle" \notin Computer!SerialHolders \cup Snapped \cup Approved
    BY DEF Computer!SerialHolders, Snapped, Approved
  <2> DEFINE X == Computer!Resting
  <2>a. /\ X \in UseCalls /\ uses' = [uses EXCEPT ![c] = X] /\ X.at = "idle"
        /\ X.at \notin Computer!SerialHolders \cup Snapped \cup Approved
        /\ X.at \notin {"enter", "run", "asked"}
    BY <2>1, <2>4, UseRests
  <2> HIDE DEF X
  <2>b. /\ asking' \in [Uses -> {"none", "waiting", "allow", "deny"}] /\ asking'[c] = "none"
        /\ \A d \in Uses \ {c} : asking'[d] = asking[d]
        /\ usePermits' \in [Uses -> Nat] /\ usePermits'[c] = Computer!NoSnap
        /\ \A d \in Uses \ {c} : usePermits'[d] = usePermits[d]
        /\ chat' = chat
    BY <1>t, <2>1, <2>3
  <2>5. ASSUME snaps < MaxSnapshots, snaps' = snaps + 1, observation' = snaps + 1,
               UNCHANGED <<actedOn, acted>>
        PROVE  ComputerInv'
    <3>1. /\ snaps' \in 0..MaxSnapshots /\ snaps <= snaps' /\ observation' \in 0..snaps'
          /\ actedOn' \subseteq 1..snaps' /\ observation' \notin actedOn'
      BY <1>f, <2>5
    <3>2. ~acted'
      BY <1>t, <2>5
    <3>3. QED
      BY <2>2, <2>a, <2>b, <3>1, <3>2, UseCallStep
  <2>6. ASSUME uses[c].kind # "observe", actedOn' = actedOn \cup {uses[c].snap},
               acted' = (uses[c].snap \in actedOn), observation' \in {0, observation}, UNCHANGED snaps
        PROVE  ComputerInv'
    <3>1. uses[c].snap \in 1..snaps /\ uses[c].snap \notin actedOn /\ observation = 0
      BY <2>1, <2>6 DEF ComputerInv, UseNames, UseFresh, Snapped, Approved
    <3>2. ~acted'
      BY <2>6, <3>1
    <3>3. observation' = 0
      BY <2>6, <3>1
    <3>4. actedOn' \subseteq 1..snaps
      BY <1>t, <2>6, <3>1
    <3>5. snaps \in Nat
      BY <1>t
    <3>6. 0 \notin 1..snaps /\ 0 \in 0..snaps /\ snaps <= snaps
      BY <3>5
    <3>7. /\ snaps' \in 0..MaxSnapshots /\ snaps <= snaps' /\ observation' \in 0..snaps'
          /\ actedOn' \subseteq 1..snaps' /\ observation' \notin actedOn'
      BY <2>3, <2>6, <3>3, <3>4, <3>6
    <3>8. QED
      BY <2>2, <2>a, <2>b, <3>2, <3>7, UseCallStep
  <2>7. ASSUME UNCHANGED <<snaps, observation, actedOn, acted>> PROVE ComputerInv'
    BY <1>e, <2>1, <2>7
  <2>8. QED
    BY <1>15, <2>5, <2>6, <2>7 DEF Computer!Run
<1>16. ASSUME NEW c \in Uses, NEW choice \in {"allow", "deny"},
              Computer!AnswerComputerConsent(c, choice)
       PROVE  ComputerInv'
  <2>1. /\ asking[c] = "waiting" /\ asking' = [asking EXCEPT ![c] = choice]
        /\ UNCHANGED <<uses, snaps, actedOn, acted, chat, observation, usePermits>>
    BY <1>16 DEF Computer!AnswerComputerConsent, Computer!Same
  <2>2. /\ asking' \in [Uses -> {"none", "waiting", "allow", "deny"}]
        /\ \A d \in Uses : asking'[d] = "none" <=> asking[d] = "none"
    BY <1>t, <2>1
  <2>3. QED
    BY <1>t, <2>1, <2>2, UseRevoked
<1>q. ASSUME UNCHANGED <<uses, snaps, actedOn, acted, chat, asking, observation, usePermits>>
      PROVE  ComputerInv'
  BY <1>t, <1>q, UseRevoked
<1>17. ASSUME NEW s \in Sessions, Computer!EngineReady(s) \/ Computer!EngineClosed(s) PROVE ComputerInv'
  BY <1>17, <1>q DEF Computer!EngineReady, Computer!EngineClosed, Computer!Same
\* A revocation of a conversation's lifetime.
<1>v. ASSUME NEW s \in Sessions,
             usePermits' = [c \in Uses |-> IF UseSession[c] = s THEN Computer!NoSnap ELSE usePermits[c]],
             asking' = [c \in Uses |-> IF UseSession[c] = s /\ asking[c] = "waiting"
                                       THEN "deny" ELSE asking[c]],
             observation' \in {0, observation}, UNCHANGED <<uses, snaps, actedOn, acted>>,
             chat' \in [Sessions -> Chats], \A x \in Sessions \ {s} : chat'[x] = chat[x]
      PROVE  ComputerInv'
  <2>1. /\ usePermits' \in [Uses -> Nat]
        /\ \A c \in Uses : usePermits'[c] \in {usePermits[c], Computer!NoSnap}
        /\ \A c \in Uses : UseSession[c] = s => usePermits'[c] = Computer!NoSnap
    BY <1>t, <1>n, <1>v
  <2>2. /\ asking' \in [Uses -> {"none", "waiting", "allow", "deny"}]
        /\ \A c \in Uses : asking'[c] = "none" <=> asking[c] = "none"
    BY <1>t, <1>v
  <2>3. \A c \in Uses : chat'[UseSession[c]].stopped => usePermits'[c] = Computer!NoSnap
    BY <1>t, <1>u, <1>v, <2>1
  <2>4. QED
    BY <1>v, <2>1, <2>2, <2>3, UseRevoked
<1>w. ASSUME NEW s \in Sessions, NEW H \in Chats, chat' = [chat EXCEPT ![s] = H]
      PROVE  chat' \in [Sessions -> Chats] /\ \A x \in Sessions \ {s} : chat'[x] = chat[x]
  BY <1>t, <1>w
<1>18. ASSUME NEW s \in Sessions, Computer!StopComputerUse(s) PROVE ComputerInv'
  <2> DEFINE H == [chat[s] EXCEPT !.stopped = TRUE]
  <2>1. chat' = [chat EXCEPT ![s] = H] /\ UNCHANGED <<uses, snaps, actedOn, acted>>
    BY <1>18 DEF Computer!StopComputerUse
  <2>2. H \in Chats
    BY <1>t DEF Chats
  <2> HIDE DEF H
  <2>3. /\ usePermits' = [c \in Uses |-> IF UseSession[c] = s THEN Computer!NoSnap ELSE usePermits[c]]
        /\ asking' = [c \in Uses |-> IF UseSession[c] = s /\ asking[c] = "waiting"
                                     THEN "deny" ELSE asking[c]]
        /\ observation' \in {0, observation}
    BY <1>18 DEF Computer!StopComputerUse, Computer!RevokeComputer
  <2>4. QED
    BY <1>v, <1>w, <2>1, <2>2, <2>3
<1>19. ASSUME NEW s \in Sessions, Computer!ReleaseComputer(s) PROVE ComputerInv'
  <2>1. UNCHANGED <<uses, snaps, actedOn, acted, chat>>
    BY <1>19 DEF Computer!ReleaseComputer
  <2>2. /\ usePermits' = [c \in Uses |-> IF UseSession[c] = s THEN Computer!NoSnap ELSE usePermits[c]]
        /\ asking' = [c \in Uses |-> IF UseSession[c] = s /\ asking[c] = "waiting"
                                     THEN "deny" ELSE asking[c]]
        /\ observation' \in {0, observation}
    BY <1>19 DEF Computer!ReleaseComputer, Computer!RevokeComputer
  <2>3. QED
    BY <1>t, <1>v, <2>1, <2>2
<1>20. ASSUME NEW s \in Sessions, Computer!ComputerTurn(s) PROVE ComputerInv'
  <2> DEFINE H == [life |-> chat[s].life + 1, stopped |-> FALSE]
  <2>1. /\ chat' = [chat EXCEPT ![s] = H]
        /\ usePermits' = [c \in Uses |-> IF UseSession[c] = s THEN Computer!NoSnap ELSE usePermits[c]]
        /\ asking' = [c \in Uses |-> IF UseSession[c] = s /\ asking[c] = "waiting"
                                     THEN "deny" ELSE asking[c]]
        /\ UNCHANGED <<uses, snaps, actedOn, acted, observation>>
    BY <1>20 DEF Computer!ComputerTurn
  <2>2. chat[s].life + 1 \in Nat
    BY <1>t, <1>r
  <2>3. H \in Chats
    BY <2>2 DEF Chats
  <2> HIDE DEF H
  <2>4. QED
    BY <1>v, <1>w, <2>1, <2>3
<1>21. CASE UNCHANGED computerVars
  BY <1>21, <1>q DEF computerVars
<1>22. QED
  BY <1>1, <1>2, <1>3, <1>4, <1>5, <1>6, <1>7, <1>8, <1>9, <1>10, <1>11, <1>12, <1>13, <1>14,
     <1>15, <1>16, <1>17, <1>18, <1>19, <1>20, <1>21
  DEF Computer!ComputerNext

\* No call, no observation and no permit at the start.
LEMMA ComputerStart ==
    ASSUME Computer!ComputerInit
    PROVE  ComputerInv
<1> USE DEF Computer!ComputerInit
<1>1. /\ uses \in [Uses -> UseCalls] /\ \A c \in Uses : uses[c].at = "idle"
  BY UseRests
<1>2. /\ usePermits \in [Uses -> Nat] /\ \A c \in Uses : usePermits[c] = Computer!NoSnap
  BY ComputerAssumption DEF Computer!NoSnap
<1>3. chat \in [Sessions -> Chats]
  BY DEF Chats
<1>4. UseTyped
  BY <1>1, <1>2, <1>3, ComputerAssumption DEF UseTyped
<1>5. UseSerial /\ UseNames /\ UseFresh
  BY <1>1, <1>2 DEF UseSerial, UseNames, UseFresh, Computer!SerialHolders, Snapped, Approved
<1>6. Computer!ActsOnce /\ Computer!StoppedComputerIsQuiet
  BY <1>2 DEF Computer!ActsOnce, Computer!StoppedComputerIsQuiet
<1>7. QED
  BY <1>4, <1>5, <1>6 DEF ComputerInv

-----------------------------------------------------------------------------
(* The composition                                                         *)

\* One component runs, and its steps are the steps of its own specification.
LEMMA ServicesSteps ==
    ASSUME [ServicesNext]_ServicesVars
    PROVE  /\ part' = part
           /\ part = "automation" => [Capability!Next]_autoVars
           /\ part = "browser" => [Browser!ProfilesNext]_browserVars
           /\ part = "gate" => [Gate!GateNext]_gateVars
           /\ part = "computer" => [Computer!ComputerNext]_computerVars
<1>1. CASE ServicesNext
  BY <1>1 DEF ServicesNext, AutoNext, BrowserNext, GateNext, ComputerNext, CatalogNext, PetNext,
              PetsNext
<1>2. CASE UNCHANGED ServicesVars
  BY <1>2 DEF ServicesVars
<1>3. QED
  BY <1>1, <1>2

\* The invariant of the component that runs.
ServicesInv ==
    /\ part = "automation" => AutoInv
    /\ part = "browser" => BrowserInv
    /\ part = "gate" => GateInv
    /\ part = "computer" => ComputerInv

\* The component that runs keeps its invariant.
LEMMA ServicesInvariant == ServicesSpec => []ServicesInv
<1>1. ServicesInit => ServicesInv
  BY AutoStart, BrowserStart, GateStart, ComputerStart DEF ServicesInit, ServicesInv
<1>2. ServicesInv /\ [ServicesNext]_ServicesVars => ServicesInv'
  BY ServicesSteps, AutoStep, BrowserStep, GateStep, ComputerStep DEF ServicesInv
<1>3. QED
  BY <1>1, <1>2, PTL DEF ServicesSpec

\* Capabilities end when they are taken away, for any number of calls, preparations,
\* connections, profiles and routes: one preparer uses the staging tree, "preparing" has a
\* preparation that will report, no open resource outlives a revocation
\* (service.go:383-454, 519-526, 738-804), a lease is accepted only while its profile stayed
\* reachable and no route leads to an identity seen twice (browser_profiles.go:265-292,
\* 392-428).
THEOREM CapabilitiesEnded == ServicesSpec => []CapabilitiesEnd
<1>1. ServicesInv => CapabilitiesEnd
  BY AutoSafe, BrowserSafe DEF ServicesInv, CapabilitiesEnd
<1>2. QED
  BY <1>1, ServicesInvariant, PTL

\* Consent is worth what it said, for any number of tools, turns, calls and observations:
\* a permit is of the current policy, lifetime and turn and is redeemed once, the queue
\* shown holds exactly the open questions (browser_gateway.go:370-477, 741-757, 839-870), an
\* observation supports one action and a stopped conversation keeps no permit
\* (computer_gateway.go:785-847, 1173-1210).
THEOREM ConsentKept == ServicesSpec => []ConsentHolds
<1>1. ServicesInv => ConsentHolds
  BY GateSafe DEF ServicesInv, ConsentHolds, ComputerInv
<1>2. QED
  BY <1>1, ServicesInvariant, PTL

-----------------------------------------------------------------------------
(* The Pet service: its inductive invariant                                *)

Snapshots == [rev : Nat, state : {"never-scanned", "scanning", "ready", "failed"},
              items : Pets!Keyed]
Scans == [by : {"panel", "startup"}, found : UNION {[K -> PetVersions] : K \in SUBSET PetKeys},
          prev : Snapshots, cancelled : BOOLEAN]
LoadedPets == [key : PetKeys, digest : PetKeys \X PetVersions, gen : Nat, hidden : BOOLEAN]
Preferences == [key : PetKeys \cup {Pets!None}, visible : BOOLEAN, size : PetSizes]

PetsTyped ==
    /\ source \in Pets!Keyed /\ petEntries \in Pets!Keyed /\ petSnapshot \in Snapshots
    /\ scan \in Scans \cup {Pets!NoScan}
    /\ pref \in Preferences /\ mover \in {<<>>} \cup {<<p>> : p \in Preferences}
    /\ active \in LoadedPets \cup {Pets!NoPet}
    /\ generation \in Nat /\ windowShown \in BOOLEAN /\ closed \in BOOLEAN
    /\ windowSize \in PetSizes
    /\ panel \in {"idle", "waits", "reconciles"}
    /\ startup \in {"idle", "waits", "locks", "done"}
    /\ quitting \in {"no", "waits", "clears", "done"}

\* The list shown, and the one a scan would put back, are the list resolved.
Listed == /\ petSnapshot.items = petEntries
          /\ scan # Pets!NoScan => scan.prev.items = petEntries

\* The shut-down has the mutex and no start-up task that would restore a Pet; once it has
\* cleared there is no Pet, and then no window.
Closing == /\ closed = (quitting # "no")
           /\ closed => panel = "idle" /\ startup # "waits"
           /\ quitting \in {"clears", "done"} => active = Pets!NoPet
           /\ quitting = "done" => ~windowShown

\* The window is shown exactly when the preference and the loaded Pet say so, and the
\* Pet's runtime knows it and is of the present generation.
Following == /\ ~closed => windowShown = Pets!Shows(pref, active)
             /\ ~closed /\ active # Pets!NoPet => active.hidden = ~windowShown
             /\ active # Pets!NoPet => active.gen = generation

PetsInv == PetsTyped /\ Listed /\ Closing /\ Following

LEMMA PetsStart == ASSUME Pets!Init PROVE PetsInv
<1>1. <<>> \in [{} -> PetVersions]
  OBVIOUS
<1>2. Pets!NoSnapshot \in Snapshots /\ Pets!NoPackages \in Pets!Keyed
  BY PetsAssumption DEF Pets!NoSnapshot, Pets!NoPackages, Pets!Absent, Pets!Keyed, Snapshots
<1>3. PetsTyped
  BY <1>2, PetsAssumption DEF Pets!Init, PetsTyped, Preferences
<1>4. Listed /\ Closing /\ Following
  BY DEF Pets!Init, Listed, Closing, Following, Pets!NoSnapshot, Pets!NoPackages, Pets!Absent,
         Pets!Shows, Pets!NoPet
<1>5. QED
  BY <1>3, <1>4 DEF PetsInv

-----------------------------------------------------------------------------
(* The catalogue                                                           *)

\* What the candidates on disk and the window are is no matter to a scan that begins.
LEMMA ScanBegins ==
    ASSUME PetsTyped, Listed, NEW who \in {"panel", "startup"}, Pets!BeginScan(who)
    PROVE  /\ petSnapshot' \in Snapshots /\ petEntries' \in Pets!Keyed
           /\ scan' \in Scans \cup {Pets!NoScan} /\ Listed'
<1>1. <<>> \in [{} -> PetVersions]
  OBVIOUS
<1>2. CASE scan # Pets!NoScan
  BY <1>2 DEF PetsTyped, Listed, Pets!BeginScan, Pets!catalogState
<1>3. CASE scan = Pets!NoScan
  <2>1. /\ scan' = [by |-> who, found |-> <<>>, prev |-> petSnapshot, cancelled |-> FALSE]
        /\ petSnapshot' = [petSnapshot EXCEPT !.state = "scanning"] /\ petEntries' = petEntries
    BY <1>3 DEF Pets!BeginScan
  <2>2. <<>> \in UNION {[K -> PetVersions] : K \in SUBSET PetKeys}
    BY <1>1
  <2>3. scan' \in Scans /\ petSnapshot' \in Snapshots
    BY <2>1, <2>2 DEF PetsTyped, Scans, Snapshots
  <2>4. Listed'
    BY <2>1 DEF PetsTyped, Listed, Snapshots
  <2>5. QED
    BY <2>1, <2>3, <2>4 DEF PetsTyped
<1>4. QED
  BY <1>2, <1>3

\* Reading a candidate, and the end of a caller's patience, leave what is published.
LEMMA ScanSteps ==
    ASSUME PetsInv, Pets!SourceChanges \/ Pets!ScanOne \/ Pets!ScanCancelled
                    \/ Pets!JoinerGivesUp
    PROVE  PetsInv'
<1>1. CASE Pets!SourceChanges
  BY <1>1 DEF PetsInv, PetsTyped, Listed, Closing, Following, Pets!SourceChanges, Pets!Keyed
<1>2. CASE Pets!ScanOne
  <2>1. PICK k \in PetKeys \ DOMAIN scan.found :
          scan' = [scan EXCEPT !.found = [x \in DOMAIN @ \cup {k} |->
                                            IF x = k THEN source[k] ELSE @[x]]]
    BY <1>2 DEF Pets!ScanOne
  <2>2. scan \in Scans
    BY <1>2 DEF PetsInv, PetsTyped, Pets!ScanOne
  <2>3. PICK K \in SUBSET PetKeys : scan.found \in [K -> PetVersions]
    BY <2>2 DEF Scans
  <2>4. [x \in DOMAIN scan.found \cup {k} |-> IF x = k THEN source[k] ELSE scan.found[x]]
          \in [K \cup {k} -> PetVersions]
    BY <2>3 DEF PetsInv, PetsTyped, Pets!Keyed
  <2>5. K \cup {k} \in SUBSET PetKeys
    OBVIOUS
  <2>6. scan' \in Scans /\ scan'.prev = scan.prev
    <3> DEFINE f == [x \in DOMAIN scan.found \cup {k} |-> IF x = k THEN source[k] ELSE scan.found[x]]
    <3>1. f \in UNION {[L -> PetVersions] : L \in SUBSET PetKeys}
      BY <2>4, <2>5, Zenon
    <3>2. scan' = [scan EXCEPT !.found = f]
      BY <2>1
    <3> HIDE DEF f
    <3>3. QED
      BY <2>2, <3>1, <3>2 DEF Scans
  <2>7. QED
    BY <1>2, <2>6 DEF PetsInv, PetsTyped, Listed, Closing, Following, Pets!ScanOne
<1>3. CASE Pets!ScanCancelled
  <2>1. scan \in Scans
    BY <1>3 DEF PetsInv, PetsTyped, Pets!ScanCancelled
  <2>2. scan' \in Scans /\ scan'.prev = scan.prev
    BY <1>3, <2>1 DEF Pets!ScanCancelled, Scans
  <2>3. QED
    BY <1>3, <2>2 DEF PetsInv, PetsTyped, Listed, Closing, Following, Pets!ScanCancelled
<1>4. CASE Pets!JoinerGivesUp
  BY <1>4 DEF PetsInv, PetsTyped, Listed, Closing, Following, Pets!JoinerGivesUp
<1>5. QED
  BY <1>1, <1>2, <1>3, <1>4

\* The end of a scan publishes the list and the definitions together, or neither.
LEMMA ScanEnd ==
    ASSUME PetsInv, Pets!ScanEnds
    PROVE  PetsInv'
<1>1. PICK outcome \in Pets!Outcome(scan) :
        /\ Pets!PublishScan(outcome)
        /\ panel' = IF panel = "waits" THEN "reconciles" ELSE panel
        /\ startup' = IF startup = "waits" THEN IF outcome = "ready" THEN "locks" ELSE "done"
                      ELSE startup
  BY DEF Pets!ScanEnds
<1>2. /\ scan \in Scans /\ scan.prev \in Snapshots /\ scan.prev.items = petEntries
      /\ scan.prev.rev \in Nat
  BY DEF Pets!ScanEnds, PetsInv, PetsTyped, Listed, Scans, Snapshots
<1>3. outcome = "ready" => scan.found \in Pets!Keyed
  <2>1. PICK K \in SUBSET PetKeys : scan.found \in [K -> PetVersions]
    BY <1>2 DEF Scans
  <2>2. outcome = "ready" => DOMAIN scan.found = PetKeys
    BY DEF Pets!ScanEnds, Pets!Outcome
  <2>3. QED
    BY <2>1, <2>2 DEF Pets!Keyed
<1>4. scan' = Pets!NoScan
  BY <1>1 DEF Pets!PublishScan
<1>5. petSnapshot' \in Snapshots /\ petEntries' \in Pets!Keyed /\ petSnapshot'.items = petEntries'
  <2>1. CASE outcome = "ready"
    <3>1. petSnapshot' = [rev |-> scan.prev.rev + 1, state |-> "ready", items |-> scan.found]
          /\ petEntries' = scan.found
      BY <1>1, <2>1 DEF Pets!PublishScan
    <3>2. QED
      BY <3>1, <1>2, <1>3, <2>1 DEF Snapshots
  <2>2. CASE outcome = "failed"
    <3>1. petSnapshot' = [scan.prev EXCEPT !.state = "failed"] /\ petEntries' = petEntries
      BY <1>1, <2>2 DEF Pets!PublishScan
    <3>2. QED
      BY <3>1, <1>2 DEF Snapshots, PetsInv, PetsTyped
  <2>3. CASE outcome = "cancelled"
    <3>1. petSnapshot' = scan.prev /\ petEntries' = petEntries
      BY <1>1, <2>3 DEF Pets!PublishScan
    <3>2. QED
      BY <3>1, <1>2 DEF PetsInv, PetsTyped
  <2>4. QED
    BY <2>1, <2>2, <2>3 DEF Pets!Outcome
<1>6. PetsTyped'
  BY <1>1, <1>4, <1>5 DEF Pets!ScanEnds, PetsInv, PetsTyped
<1>7. QED
  BY <1>1, <1>4, <1>5, <1>6 DEF Pets!ScanEnds, PetsInv, Listed, Closing, Following
-----------------------------------------------------------------------------
(* The overlay                                                             *)

\* A Pet to be loaded or kept: of the present generation, whatever its hidden flag.
Ready(a) == a = Pets!NoPet \/ (a \in LoadedPets /\ a.gen = generation)

\* No loaded Pet is the absence of one.
LEMMA LoadedIsSome == \A a \in LoadedPets : a # Pets!NoPet
BY PetsAssumption DEF LoadedPets, Pets!NoPet, Pets!None

LEMMA LoadedIsReady ==
    ASSUME PetsTyped, NEW k \in PetKeys
    PROVE  Ready(Pets!Loaded(k, source[k]))
BY DEF PetsTyped, Pets!Keyed, Pets!Loaded, LoadedPets, Ready

\* applyOverlayVisibilityLocked leaves the window as the preference and the Pet say.
LEMMA OverlayFollows ==
    ASSUME PetsTyped, NEW p \in Preferences, NEW a, Ready(a), Pets!ApplyOverlayVisibility(p, a),
           generation' = generation, pref' = p
    PROVE  /\ active' \in LoadedPets \cup {Pets!NoPet} /\ windowShown' \in BOOLEAN
           /\ Following'
<1>1. CASE a = Pets!NoPet
  BY <1>1 DEF Pets!ApplyOverlayVisibility, Pets!Shows, Following
<1>2. CASE a \in LoadedPets /\ a.gen = generation
  <2>1. a # Pets!NoPet
    BY <1>2, LoadedIsSome
  <2>2. active' = [a EXCEPT !.hidden = ~Pets!Shows(p, a)] /\ windowShown' = Pets!Shows(p, a)
    BY <2>1 DEF Pets!ApplyOverlayVisibility
  <2>3. Pets!Shows(p, a) \in BOOLEAN
    BY DEF Pets!Shows
  <2>4. active' \in LoadedPets /\ active'.key = a.key /\ active'.gen = a.gen
        /\ active'.hidden = ~Pets!Shows(p, a)
    BY <1>2, <2>2, <2>3 DEF LoadedPets
  <2>5. active' # Pets!NoPet
    BY <2>4, LoadedIsSome
  <2>6. windowShown' = Pets!Shows(pref', active')
    BY <2>1, <2>2, <2>4, <2>5 DEF Pets!Shows
  <2>7. QED
    BY <1>2, <2>2, <2>3, <2>4, <2>5, <2>6 DEF Following
<1>3. QED
  BY <1>1, <1>2 DEF Ready

\* The Pet that is loaded is of the present generation.
LEMMA ActiveIsReady == ASSUME PetsTyped, Following PROVE Ready(active)
BY DEF PetsTyped, Following, Ready

\* A refresh, the panel's or the start-up's, begins.
LEMMA RefreshSteps ==
    ASSUME PetsInv, Pets!RefreshPetCatalog \/ Pets!StartupPetService
    PROVE  PetsInv'
<1>1. CASE Pets!RefreshPetCatalog
  <2>1. Pets!BeginScan("panel")
    BY <1>1 DEF Pets!RefreshPetCatalog
  <2>2. /\ petSnapshot' \in Snapshots /\ petEntries' \in Pets!Keyed
        /\ scan' \in Scans \cup {Pets!NoScan} /\ Listed'
    BY <2>1, ScanBegins DEF PetsInv
  <2>3. QED
    BY <1>1, <2>2 DEF PetsInv, PetsTyped, Closing, Following, Pets!RefreshPetCatalog,
       Pets!Operation
<1>2. CASE Pets!StartupPetService
  <2>1. Pets!BeginScan("startup")
    BY <1>2 DEF Pets!StartupPetService
  <2>2. /\ petSnapshot' \in Snapshots /\ petEntries' \in Pets!Keyed
        /\ scan' \in Scans \cup {Pets!NoScan} /\ Listed'
    BY <2>1, ScanBegins DEF PetsInv
  <2>3. QED
    BY <1>2, <2>2 DEF PetsInv, PetsTyped, Closing, Following, Pets!StartupPetService
<1>3. QED
  BY <1>1, <1>2

LEMMA RefreshEnd ==
    ASSUME PetsInv, Pets!RefreshReturns
    PROVE  PetsInv'
<1> USE DEF Pets!RefreshReturns
<1>1. CASE petSnapshot.rev = 0 /\ petSnapshot.state = "never-scanned"
  BY <1>1 DEF PetsInv, PetsTyped, Listed, Closing, Following
<1>2. CASE ~(petSnapshot.rev = 0 /\ petSnapshot.state = "never-scanned")
  <2> DEFINE k == pref.key
             gone == k # Pets!None /\ petSnapshot.items[k] = Pets!Absent
             wanted == k # Pets!None /\ ~gone /\ active.key # k
             a == IF k = Pets!None \/ (gone /\ active.key = k) THEN Pets!NoPet
                  ELSE IF wanted THEN IF Pets!Usable(k) THEN Pets!Loaded(k, source[k])
                                      ELSE Pets!NoPet
                  ELSE active
  <2>1. Pets!ApplyOverlayVisibility(pref, a)
    BY <1>2 DEF Pets!ReconcileActive
  <2>2. k = Pets!None \/ k \in PetKeys
    BY DEF PetsInv, PetsTyped, Preferences
  <2>3. Ready(a)
    BY <2>2, LoadedIsReady, ActiveIsReady DEF PetsInv, Ready
  <2> HIDE DEF a
  <2>4. /\ active' \in LoadedPets \cup {Pets!NoPet} /\ windowShown' \in BOOLEAN
        /\ Following'
    BY <2>1, <2>3, OverlayFollows DEF PetsInv, PetsTyped
  <2>5. PetsTyped' /\ Listed'
    BY <2>4 DEF PetsInv, PetsTyped, Listed
  <2>6. Closing'
    BY DEF PetsInv, PetsTyped, Closing
  <2>7. QED
    BY <2>4, <2>5, <2>6 DEF PetsInv
<1>3. QED
  BY <1>1, <1>2

\* What a call on the service leaves alone; it runs only before the shut-down.
LEMMA CallKeeps ==
    ASSUME PetsInv, ~closed, Following', PetsTyped',
           UNCHANGED <<petSnapshot, petEntries, scan, panel, startup, closed, quitting>>
    PROVE  PetsInv'
BY DEF PetsInv, Listed, Closing

LEMMA SelectSteps ==
    ASSUME PetsInv, NEW k \in PetKeys, Pets!SelectPet(k)
    PROVE  PetsInv'
<1>1. PICK stored \in BOOLEAN :
       IF Pets!Usable(k) /\ stored
       THEN /\ pref' = [pref EXCEPT !.key = k]
            /\ Pets!ApplyOverlayVisibility(pref', Pets!Loaded(k, source[k]))
       ELSE UNCHANGED <<pref, active, windowShown>>
  BY DEF Pets!SelectPet
<1>2. /\ UNCHANGED <<petSnapshot, petEntries, scan, panel, startup, closed, quitting>>
      /\ ~closed /\ UNCHANGED <<source, windowSize, generation, mover>>
  BY DEF Pets!SelectPet, Pets!Operation
<1>3. CASE Pets!Usable(k) /\ stored
  <2>1. pref' = [pref EXCEPT !.key = k] /\ pref' \in Preferences
    BY <1>1, <1>3 DEF PetsInv, PetsTyped, Preferences
  <2>2. Pets!ApplyOverlayVisibility(pref', Pets!Loaded(k, source[k]))
    BY <1>1, <1>3
  <2>3. /\ active' \in LoadedPets \cup {Pets!NoPet} /\ windowShown' \in BOOLEAN
        /\ Following'
    BY <1>2, <2>1, <2>2, LoadedIsReady, OverlayFollows DEF PetsInv
  <2>4. PetsTyped'
    BY <1>2, <2>1, <2>3 DEF PetsInv, PetsTyped
  <2>5. QED
    BY <1>2, <2>3, <2>4, CallKeeps
<1>4. CASE ~(Pets!Usable(k) /\ stored)
  BY <1>1, <1>2, <1>4, CallKeeps DEF PetsInv, PetsTyped, Following
<1>5. QED
  BY <1>3, <1>4

LEMMA PreferenceSteps ==
    ASSUME PetsInv,
           \/ \E v \in BOOLEAN : Pets!SetPetVisibility(v)
           \/ \E n \in PetSizes : Pets!SetPetSize(n)
           \/ Pets!ClearPetSelection \/ Pets!GetPetOverlay
    PROVE  PetsInv'
<1>1. CASE \E v \in BOOLEAN : Pets!SetPetVisibility(v)
  <2>1. PICK v \in BOOLEAN : Pets!SetPetVisibility(v)
    BY <1>1
  <2>2. pref' = [pref EXCEPT !.visible = v] /\ pref' \in Preferences
    BY <2>1 DEF Pets!SetPetVisibility, PetsInv, PetsTyped, Preferences
  <2>3. /\ active' \in LoadedPets \cup {Pets!NoPet} /\ windowShown' \in BOOLEAN
        /\ Following'
    BY <2>1, <2>2, ActiveIsReady, OverlayFollows DEF PetsInv, Pets!SetPetVisibility
  <2>4. PetsTyped'
    BY <2>1, <2>2, <2>3 DEF PetsInv, PetsTyped, Pets!SetPetVisibility
  <2>5. QED
    BY <2>1, <2>3, <2>4, CallKeeps DEF Pets!SetPetVisibility, Pets!Operation
<1>2. CASE \E n \in PetSizes : Pets!SetPetSize(n)
  <2>1. PICK n \in PetSizes : Pets!SetPetSize(n)
    BY <1>2
  <2>2. quitting = "no"
    BY <2>1 DEF Pets!SetPetSize, Pets!Operation, PetsInv, Closing
  <2>3. pref' = [pref EXCEPT !.size = n] /\ pref' \in Preferences
    BY <2>1, <2>2 DEF Pets!SetPetSize, PetsInv, PetsTyped, Preferences
  <2>4. /\ active' \in LoadedPets \cup {Pets!NoPet} /\ windowShown' \in BOOLEAN
        /\ Following'
    BY <2>1, <2>2, <2>3, ActiveIsReady, OverlayFollows DEF PetsInv, Pets!SetPetSize
  <2>5. PetsTyped'
    BY <2>1, <2>2, <2>3, <2>4 DEF PetsInv, PetsTyped, Pets!SetPetSize
  <2>6. QED
    BY <2>1, <2>4, <2>5, CallKeeps DEF Pets!SetPetSize, Pets!Operation
<1>3. CASE Pets!ClearPetSelection
  <2>1. pref' = [pref EXCEPT !.key = Pets!None, !.visible = FALSE] /\ pref' \in Preferences
    BY <1>3 DEF Pets!ClearPetSelection, PetsInv, PetsTyped, Preferences
  <2>2. /\ active' \in LoadedPets \cup {Pets!NoPet} /\ windowShown' \in BOOLEAN
        /\ Following'
    BY <1>3, <2>1, OverlayFollows DEF Ready, PetsInv, Pets!ClearPetSelection
  <2>3. PetsTyped'
    BY <1>3, <2>1, <2>2 DEF PetsInv, PetsTyped, Pets!ClearPetSelection
  <2>4. QED
    BY <1>3, <2>2, <2>3, CallKeeps DEF Pets!ClearPetSelection, Pets!Operation
<1>4. CASE Pets!GetPetOverlay
  BY <1>4 DEF Pets!GetPetOverlay, PetsInv, PetsTyped, Listed, Closing, Following
<1>5. QED
  BY <1>1, <1>2, <1>3, <1>4

\* A newer generation moves the loaded Pet's runtime with the service; a moved window
\* changes the position, and the size that goes with it.
LEMMA HostAndMoveSteps ==
    ASSUME PetsInv, Pets!PublishPetHostStatus \/ Pets!MoveReads \/ Pets!MovePersists
    PROVE  PetsInv'
<1>1. CASE Pets!PublishPetHostStatus
  <2>1. generation' = generation + 1 /\ generation' \in Nat
    BY <1>1 DEF Pets!PublishPetHostStatus, PetsInv, PetsTyped
  <2>2. CASE active = Pets!NoPet
    BY <1>1, <2>1, <2>2 DEF Pets!PublishPetHostStatus, PetsInv, PetsTyped, Listed, Closing,
       Following
  <2>3. CASE active # Pets!NoPet
    <3>1. active \in LoadedPets /\ active' = [active EXCEPT !.gen = generation']
      BY <1>1, <2>3 DEF Pets!PublishPetHostStatus, PetsInv, PetsTyped
    <3>2. /\ active' \in LoadedPets /\ active'.key = active.key
          /\ active'.hidden = active.hidden /\ active'.gen = generation'
      BY <3>1, <2>1 DEF LoadedPets
    <3>3. active' # Pets!NoPet
      BY <3>2, LoadedIsSome
    <3>4. Pets!Shows(pref, active) = Pets!Shows(pref, active')
      BY <2>3, <3>2, <3>3 DEF Pets!Shows
    <3>5. UNCHANGED <<source, petSnapshot, petEntries, scan, pref, windowShown, windowSize, panel,
                      startup, mover, closed, quitting>>
      BY <1>1 DEF Pets!PublishPetHostStatus
    <3>6. PetsTyped' /\ Listed'
      BY <2>1, <3>2, <3>5 DEF PetsInv, PetsTyped, Listed
    <3>7. Closing'
      BY <2>3, <3>5 DEF PetsInv, Closing
    <3>8. Pets!Shows(pref, active)' = Pets!Shows(pref, active')
      BY <3>5 DEF Pets!Shows
    <3>9. Following'
      BY <2>3, <3>2, <3>3, <3>4, <3>5, <3>8 DEF PetsInv, Following
    <3>10. QED
      BY <3>6, <3>7, <3>9 DEF PetsInv
  <2>4. QED
    BY <2>2, <2>3
<1>2. CASE Pets!MoveReads
  BY <1>2 DEF Pets!MoveReads, PetsInv, PetsTyped, Listed, Closing, Following
<1>3. CASE Pets!MovePersists
  <2>1. UNCHANGED <<source, petSnapshot, petEntries, scan, active, windowShown, windowSize,
                    generation, panel, startup, closed, quitting>> /\ mover' = <<>>
    BY <1>3 DEF Pets!MovePersists
  <2>2. mover[1] \in Preferences
    BY <1>3 DEF Pets!MovePersists, PetsInv, PetsTyped
  <2>3. pref' = pref \/ pref' = [pref EXCEPT !.size = mover[1].size]
    BY <1>3 DEF Pets!MovePersists, Pets!PersistPetPosition
  <2>4. pref' \in Preferences /\ pref'.key = pref.key /\ pref'.visible = pref.visible
    BY <2>2, <2>3 DEF PetsInv, PetsTyped, Preferences
  <2>5. QED
    BY <2>1, <2>4 DEF PetsInv, PetsTyped, Listed, Closing, Following, Pets!Shows
<1>4. QED
  BY <1>1, <1>2, <1>3
-----------------------------------------------------------------------------
(* Start-up and shut-down                                                  *)

\* The start-up task restores a Pet only while the service is open.
LEMMA RestoreSteps ==
    ASSUME PetsInv, Pets!StartupRestores
    PROVE  PetsInv'
<1>1. /\ startup' = "done"
      /\ UNCHANGED <<source, petSnapshot, petEntries, scan, pref, windowSize, generation, panel,
                     mover, closed, quitting>>
  BY DEF Pets!StartupRestores
<1>2. CASE UNCHANGED <<active, windowShown>>
  BY <1>1, <1>2 DEF PetsInv, PetsTyped, Listed, Closing, Following
<1>3. CASE Pets!Restores /\ Pets!Usable(pref.key)
  <2>1. Pets!ApplyOverlayVisibility(pref, Pets!Loaded(pref.key, source[pref.key]))
    BY <1>3 DEF Pets!StartupRestores
  <2>2. pref \in Preferences /\ pref.key \in PetKeys /\ ~closed
    BY <1>3 DEF Pets!Restores, PetsInv, PetsTyped, Preferences
  <2>3. /\ active' \in LoadedPets \cup {Pets!NoPet} /\ windowShown' \in BOOLEAN
        /\ Following'
    BY <1>1, <2>1, <2>2, LoadedIsReady, OverlayFollows DEF PetsInv
  <2>4. PetsTyped' /\ Listed'
    BY <1>1, <2>3 DEF PetsInv, PetsTyped, Listed
  <2>5. Closing'
    BY <1>1, <2>2 DEF PetsInv, PetsTyped, Closing
  <2>6. QED
    BY <2>3, <2>4, <2>5 DEF PetsInv
<1>4. QED
  BY <1>2, <1>3 DEF Pets!StartupRestores

LEMMA ShutdownSteps ==
    ASSUME PetsInv, Pets!ShutdownBegins \/ Pets!ShutdownClears \/ Pets!ShutdownHides
    PROVE  PetsInv'
<1>1. CASE Pets!ShutdownBegins
  <2>1. scan' \in Scans \cup {Pets!NoScan} /\ (scan' # Pets!NoScan => scan # Pets!NoScan)
        /\ scan'.prev = scan.prev
    <3>1. CASE scan.by = "startup" /\ ~scan.cancelled
      <4>1. scan \in Scans /\ scan # Pets!NoScan
        BY <3>1 DEF PetsInv, PetsTyped, Pets!NoScan, Pets!None
      <4>2. QED
        BY <1>1, <3>1, <4>1 DEF Pets!ShutdownBegins, Scans
    <3>2. CASE ~(scan.by = "startup" /\ ~scan.cancelled)
      BY <1>1, <3>2 DEF Pets!ShutdownBegins, PetsInv, PetsTyped
    <3>3. QED
      BY <3>1, <3>2
  <2>2. QED
    BY <1>1, <2>1 DEF Pets!ShutdownBegins, Pets!MuFree, PetsInv, PetsTyped, Listed, Closing,
       Following
<1>2. CASE Pets!ShutdownClears
  BY <1>2 DEF Pets!ShutdownClears, PetsInv, PetsTyped, Listed, Closing, Following
<1>3. CASE Pets!ShutdownHides
  BY <1>3 DEF Pets!ShutdownHides, PetsInv, PetsTyped, Listed, Closing, Following
<1>4. QED
  BY <1>1, <1>2, <1>3

LEMMA PetsSteps ==
    ASSUME PetsInv, [Pets!Next]_petsVars
    PROVE  PetsInv'
<1>1. CASE UNCHANGED petsVars
  BY <1>1 DEF petsVars, PetsInv, PetsTyped, Listed, Closing, Following, Pets!Shows
<1>2. CASE Pets!Next
  BY <1>2, ScanSteps, ScanEnd, RefreshSteps, RefreshEnd, SelectSteps, PreferenceSteps,
     HostAndMoveSteps, RestoreSteps, ShutdownSteps DEF Pets!Next
<1>3. QED
  BY <1>1, <1>2

\* The invariant gives what the service promises.
LEMMA PetsTruth ==
    ASSUME PetsInv
    PROVE  /\ Pets!ListIsResolvable /\ Pets!PanelIsTrue
           /\ Pets!RuntimeIsCurrent /\ Pets!ShutdownIsFinal
<1>1. Pets!ListIsResolvable /\ Pets!RuntimeIsCurrent /\ Pets!ShutdownIsFinal
  BY DEF PetsInv, Listed, Closing, Following, Pets!ListIsResolvable, Pets!RuntimeIsCurrent,
         Pets!ShutdownIsFinal
<1>2. Pets!PanelIsTrue
  <2>1. SUFFICES ASSUME ~closed
                 PROVE  /\ windowShown => pref.visible /\ active # Pets!NoPet /\ active.key = pref.key
                        /\ active # Pets!NoPet => active.hidden = ~windowShown
                        /\ Pets!PanelVisible => windowShown
    BY DEF Pets!PanelIsTrue
  <2>2. Pets!PanelVisible => active # Pets!NoPet
    BY DEF Pets!PanelVisible, Pets!NoPet
  <2>3. Pets!PanelVisible => Pets!Shows(pref, active)
    BY <2>2 DEF Pets!PanelVisible, Pets!Shows
  <2>4. windowShown = Pets!Shows(pref, active) /\ windowShown \in BOOLEAN
    BY <2>1 DEF PetsInv, PetsTyped, Following
  <2>5. active # Pets!NoPet => active.hidden = ~windowShown
    BY <2>1 DEF PetsInv, Following
  <2>6. windowShown => pref.visible /\ active # Pets!NoPet /\ active.key = pref.key
    BY <2>4 DEF Pets!Shows
  <2>7. QED
    BY <2>3, <2>4, <2>5, <2>6
<1>3. QED
  BY <1>1, <1>2
-----------------------------------------------------------------------------
(* The Pet's runtime: its inductive invariant                              *)

L == Pet!Longest(package)

\* Types, and what an accepted package gives.
RuntimeTyped ==
    /\ package \in Packages /\ base \in Pet!Bases
    /\ override \in package.tracks \cup {""}
    /\ action \in Pet!Playable(package) \cup {""}
    /\ playful \in BOOLEAN /\ hidden \in BOOLEAN /\ reduced \in BOOLEAN
    /\ baseAge \in 0..MaxAge /\ actionAge \in 0..MaxAge /\ settling \in 0..MaxAge

\* Where a finished task stands on its way to idle: in its action, in a track that is
\* played once, or in one that repeats, which only the hold ends.
InAction(s, age) == s <= age /\ s < L
InTrack(s, age) == s <= L + age /\ s < 2 * L
InHold(s, age) == s <= 2 * L + age

Settles ==
    /\ base \notin Pet!Finished => settling = 0
    /\ settling <= 2 * L + HoldFailed
    /\ base \in Pet!Finished =>
         /\ action # "" => InAction(settling, actionAge)
         /\ action = "" /\ ~Pet!Loops(base, Pet!BaseTrack(base, override)) =>
              InTrack(settling, baseAge)
         /\ action = "" => InHold(settling, baseAge)
         /\ package.webm => override = ""

RuntimeInv == RuntimeTyped /\ Settles

LEMMA Clocks == /\ HoldCompleted \in Nat /\ HoldFailed \in Nat /\ HoldCompleted <= HoldFailed
                /\ MaxAge \in Nat /\ 0 \in 0..MaxAge
BY PackageAssumption

\* Nothing is before the limits.
LEMMA Limits ==
    ASSUME NEW l \in Nat \ {0}
    PROVE  /\ 0 < l /\ 0 < 2 * l /\ 0 <= 2 * l + HoldFailed
           /\ \A age \in 0..MaxAge : 0 <= age /\ 0 <= l + age /\ 0 <= 2 * l + age
<1>1. 0 < l /\ 0 < 2 * l /\ 0 <= 2 * l + HoldFailed
  BY Clocks
<1>2. \A age \in 0..MaxAge : 0 <= age /\ 0 <= l + age /\ 0 <= 2 * l + age
  BY Clocks
<1>3. QED
  BY <1>1, <1>2

\* What one more unit of time does to an age s, which becomes n.
LEMMA OneMore ==
    ASSUME NEW l \in Nat \ {0}, NEW s \in 0..MaxAge, NEW n \in 0..MaxAge, n <= s + 1,
           NEW age \in 0..MaxAge
    PROVE  /\ s <= age => s <= 0 + age
           /\ s < l => n <= l
           /\ s < 2 * l => n <= 2 * l
           /\ n <= 2 * l => n <= 2 * l + 0 /\ n <= 2 * l + HoldFailed
           /\ n <= 2 * l + age /\ age < HoldFailed => n <= 2 * l + HoldFailed
           /\ \A d \in 1..l : age < d => age < l
<1>1. /\ s <= age => s <= 0 + age
      /\ s < l => n <= l
      /\ s < 2 * l => n <= 2 * l
  BY Clocks
<1>2. /\ n <= 2 * l => n <= 2 * l + 0 /\ n <= 2 * l + HoldFailed
      /\ n <= 2 * l + age /\ age < HoldFailed => n <= 2 * l + HoldFailed
  BY Clocks
<1>3. \A d \in 1..l : age < d => age < l
  BY Clocks
<1>4. QED
  BY <1>1, <1>2, <1>3

\* What is read off the package stays as long as the package does.
LEMMA PackageKept ==
    ASSUME package' = package
    PROVE  L' = L /\ Pet!Playable(package)' = Pet!Playable(package)
BY DEF L, Pet!Longest, Pet!Durations, Pet!Playable

\* The longest track's length is one, and is at least one.
LEMMA LongestIsLongest ==
    ASSUME NEW p \in Packages
    PROVE  /\ Pet!Longest(p) \in Nat \ {0}
           /\ \A t \in p.tracks : p.length[t] <= Pet!Longest(p) /\ p.timeout[t] <= Pet!Longest(p)
           /\ 2 * Pet!Longest(p) + HoldFailed < MaxAge
<1>1. Pet!IsAccepted(p) /\ MaxAge > 2 * Pet!Longest(p) + HoldFailed
  BY PackageAssumption
<1>2. \E n \in Pet!Durations(p) : \A d \in Pet!Durations(p) : d <= n
  BY <1>1 DEF Pet!IsAccepted
<1>3. /\ Pet!Longest(p) \in Pet!Durations(p)
      /\ \A d \in Pet!Durations(p) : d <= Pet!Longest(p)
  BY <1>2 DEF Pet!Longest
<1>4. \A t \in p.tracks : p.length[t] \in Pet!Durations(p) /\ p.timeout[t] \in Pet!Durations(p)
  BY DEF Pet!Durations
<1>5. /\ p.idle \in p.tracks /\ p.length \in [p.tracks -> Nat \ {0}]
      /\ p.timeout \in [p.tracks -> Nat]
  BY <1>1 DEF Pet!IsAccepted
<1>6. Pet!Durations(p) \subseteq Nat
  BY <1>5 DEF Pet!Durations
<1>7. p.length[p.idle] <= Pet!Longest(p) /\ p.length[p.idle] \in Nat \ {0}
  BY <1>3, <1>4, <1>5
<1>8. Pet!Longest(p) \in Nat \ {0}
  BY <1>3, <1>6, <1>7
<1>9. QED
  BY <1>1, <1>3, <1>4, <1>8, PackageAssumption

\* Ages grow by one up to their bound.
LEMMA Ages ==
    ASSUME NEW age \in 0..MaxAge
    PROVE  /\ Pet!Older(age) \in 0..MaxAge /\ Pet!Older(age) <= age + 1
           /\ \A s \in 0..MaxAge : \A n \in Nat : s <= n + age => Pet!Older(s) <= n + Pet!Older(age)
BY PackageAssumption DEF Pet!Older

\* An action is over after its track's length or time-out, which is never zero for one
\* that a finished task can play; a track is over after its own.
LEMMA Lengths ==
    ASSUME RuntimeTyped
    PROVE  /\ \A a \in Pet!Playable(package) : \A play \in BOOLEAN :
                Pet!ActionLength(a, play) \in 1..L
           /\ \A t \in package.tracks : Pet!BaseLength(t) \in 1..L
<1>1. /\ package \in Packages /\ Pet!IsAccepted(package) /\ Pet!CanSettle(package)
  BY PackageAssumption DEF RuntimeTyped
<1>2. /\ L \in Nat
      /\ \A t \in package.tracks : package.length[t] <= L /\ package.timeout[t] <= L
  BY <1>1, LongestIsLongest DEF L
<1>3. \A t \in package.tracks : package.length[t] \in Nat \ {0} /\ package.timeout[t] \in Nat
  BY <1>1 DEF Pet!IsAccepted
<1>4. \A a \in Pet!Playable(package) : /\ package.actions[a].track \in package.tracks
                                       /\ package.actions[a].track \notin package.loops
  BY <1>1 DEF Pet!IsAccepted, Pet!CanSettle, Pet!Playable
<1>5. QED
  BY <1>2, <1>3, <1>4 DEF Pet!ActionLength, Pet!BaseLength

\* The base's track and its successor are the package's.
LEMMA TracksDeclared ==
    ASSUME RuntimeTyped
    PROVE  \A b \in Pet!Bases :
             /\ \A o \in package.tracks \cup {""} : Pet!BaseTrack(b, o) \in package.tracks
             /\ \A o \in package.tracks : Pet!BaseTrack(b, o) = o
             /\ \A t \in package.tracks : Pet!NextIn(package, b, t) \in package.tracks
<1>1. Pet!IsAccepted(package)
  BY PackageAssumption DEF RuntimeTyped
<1>2. \A b \in Pet!Bases : \A o : Pet!BaseTrack(b, o) \in package.tracks
  BY <1>1 DEF Pet!IsAccepted, Pet!BaseTrack
<1>3. \A b \in Pet!Bases : \A o \in package.tracks : Pet!BaseTrack(b, o) = o
  BY DEF Pet!BaseTrack
<1>4. \A t \in package.tracks : package.after[t] \in package.tracks \cup {""}
  BY <1>1 DEF Pet!IsAccepted
<1>5. ASSUME NEW b \in Pet!Bases, NEW t \in package.tracks
      PROVE  Pet!NextIn(package, b, t) \in package.tracks
  <2>1. CASE Pet!OfState(package, b, t) /\ package.states[b].after # ""
    <3>1. package.states[b].after \in package.tracks
      BY <1>1, <2>1 DEF Pet!IsAccepted, Pet!OfState
    <3>2. QED
      BY <2>1, <3>1 DEF Pet!NextIn
  <2>2. CASE ~(Pet!OfState(package, b, t) /\ package.states[b].after # "")
    <3>1. package.after[t] \in package.tracks \cup {""} /\ package.idle \in package.tracks
      BY <1>1, <1>4 DEF Pet!IsAccepted
    <3>2. QED
      BY <2>2, <3>1 DEF Pet!NextIn
  <2>3. QED
    BY <2>1, <2>2
<1>6. QED
  BY <1>2, <1>3, <1>5

LEMMA RuntimeStart == ASSUME Pet!Init PROVE RuntimeInv
<1>1. package \in Packages
  BY DEF Pet!Init
<1>2. L \in Nat \ {0}
  BY <1>1, LongestIsLongest DEF L
<1>3. RuntimeTyped
  BY <1>1, Clocks DEF Pet!Init, RuntimeTyped, Pet!Bases
<1>4. base \notin Pet!Finished /\ settling = 0
  BY DEF Pet!Init, Pet!Finished
<1>5. 0 <= 2 * L + HoldFailed
  BY <1>2, Clocks
<1>6. Settles
  BY <1>4, <1>5 DEF Settles
<1>7. QED
  BY <1>3, <1>6 DEF RuntimeInv

-----------------------------------------------------------------------------
(* Events start the way to idle again                                      *)

\* With nothing counted yet, a finished task is where it likes.
LEMMA Restarted ==
    ASSUME RuntimeTyped', package' = package, package \in Packages, settling' = 0,
           base' \in Pet!Finished /\ package.webm => override' = ""
    PROVE  RuntimeInv'
<1>1. L \in Nat \ {0} /\ L' = L
  BY LongestIsLongest, PackageKept DEF L
<1>2. baseAge' \in 0..MaxAge /\ actionAge' \in 0..MaxAge
  BY DEF RuntimeTyped
<1>3. /\ settling' <= 2 * L' + HoldFailed
      /\ InAction(settling, actionAge)'
      /\ InTrack(settling, baseAge)' /\ InHold(settling, baseAge)'
  <2>1. /\ 0 < L /\ 0 < 2 * L /\ 0 <= 2 * L + HoldFailed
        /\ \A age \in 0..MaxAge : 0 <= age /\ 0 <= L + age /\ 0 <= 2 * L + age
    BY <1>1, Limits
  <2>2. settling' = 0 /\ L' = L
    BY <1>1
  <2>3. QED
    BY <1>2, <2>1, <2>2 DEF InAction, InTrack, InHold
<1>4. Settles'
  BY <1>3 DEF Settles
<1>5. QED
  BY <1>4 DEF RuntimeInv

\* The events that are wanted name actions a finished task can play.
LEMMA EventSteps ==
    ASSUME RuntimeInv, \E b \in Pet!Bases, clears \in BOOLEAN : Pet!DispatchBase(b, clears)
    PROVE  RuntimeInv'
<1>1. PICK b \in Pet!Bases, clears \in BOOLEAN : Pet!DispatchBase(b, clears)
  OBVIOUS
<1>2. UNCHANGED <<package, hidden, reduced>> /\ settling' = 0 /\ package \in Packages
  BY <1>1 DEF Pet!DispatchBase, Pet!SetBaseLocked, RuntimeInv, RuntimeTyped
<1>3. CASE base # b
  <2> DEFINE wanted == Pet!Wanted(b)
             spared == IF b \in Pet!Finished THEN action ELSE ""
             chosen == {i \in DOMAIN wanted : Pet!Admits(spared, wanted[i])}
             first == CHOOSE i \in chosen : \A j \in chosen : i <= j
  <2>1. Pet!SetBaseLocked(b, wanted)
    BY <1>1, <1>3 DEF Pet!DispatchBase
  <2>2. /\ base' = b /\ playful' = FALSE /\ override' = "" /\ baseAge' = 0
        /\ action' = IF chosen # {} THEN wanted[first]
                     ELSE IF b = "failed" THEN "" ELSE spared
        /\ actionAge' = IF chosen # {} THEN 0 ELSE actionAge
    BY <2>1 DEF Pet!SetBaseLocked
  <2>3. chosen # {} => first \in chosen
    <3>1. DOMAIN wanted \subseteq {1, 2}
      BY DEF Pet!Wanted
    <3>2. chosen \subseteq {1, 2}
      BY <3>1
    <3> HIDE DEF chosen, wanted
    <3>3. 1 \in chosen => \A j \in chosen : 1 <= j
      BY <3>2
    <3>4. 1 \notin chosen => \A j \in chosen : j = 2
      BY <3>2
    <3>5. chosen # {} => \E i \in chosen : \A j \in chosen : i <= j
      BY <3>3, <3>4
    <3>6. QED
      BY <3>5
  <2>4. \A i \in DOMAIN wanted : wanted[i] \in {"attention", "celebrate", "wave"}
    BY DEF Pet!Wanted
  <2>5. \A i \in chosen : wanted[i] \in Pet!Playable(package)
    BY <2>4 DEF Pet!Admits, Pet!Playable
  <2> HIDE DEF chosen, first, wanted
  <2>6. action' \in Pet!Playable(package) \cup {""}
    BY <2>2, <2>3, <2>5 DEF RuntimeInv, RuntimeTyped
  <2>7. RuntimeTyped'
    BY <1>2, <2>2, <2>6, PackageKept, Clocks DEF RuntimeInv, RuntimeTyped
  <2>8. QED
    BY <1>2, <2>2, <2>7, Restarted
<1>4. CASE base = b
  <2>1. /\ action' = IF clears THEN "" ELSE action
        /\ UNCHANGED <<base, override, playful, baseAge, actionAge>>
    BY <1>1, <1>4 DEF Pet!DispatchBase
  <2>2. RuntimeTyped'
    BY <1>2, <2>1, PackageKept, Clocks DEF RuntimeInv, RuntimeTyped
  <2>3. base' \in Pet!Finished /\ package.webm => override' = ""
    BY <2>1 DEF RuntimeInv, Settles
  <2>4. QED
    BY <1>2, <2>2, <2>3, Restarted
<1>5. QED
  BY <1>3, <1>4

LEMMA ClickSteps ==
    ASSUME RuntimeInv, Pet!DispatchClick
    PROVE  RuntimeInv'
<1> DEFINE now == IF playful THEN "" ELSE action
           tried == IF package.clicks # {} THEN package.clicks ELSE {"wave", "bounce"}
           chosen == {a \in tried : Pet!Admits(now, a)}
<1>1. /\ UNCHANGED <<package, base, override, hidden, reduced, baseAge>> /\ settling' = 0
      /\ IF chosen # {}
         THEN /\ action' \in chosen /\ actionAge' = 0 /\ playful' = TRUE
         ELSE /\ action' = now /\ UNCHANGED <<actionAge, playful>>
  BY DEF Pet!DispatchClick
<1>2. chosen \subseteq Pet!Playable(package)
  BY DEF Pet!Admits, Pet!Playable
<1> HIDE DEF chosen
<1>3. RuntimeTyped'
  BY <1>1, <1>2, PackageKept, Clocks DEF RuntimeInv, RuntimeTyped
<1>4. QED
  BY <1>1, <1>3, Restarted DEF RuntimeInv, RuntimeTyped, Settles

LEMMA HiddenSteps ==
    ASSUME RuntimeInv, NEW h \in BOOLEAN, Pet!SetHidden(h)
    PROVE  RuntimeInv'
<1>1. UNCHANGED <<package, base, override, playful, reduced>> /\ hidden' = h
  BY DEF Pet!SetHidden
<1>2. CASE h
  <2>1. UNCHANGED <<action, actionAge, baseAge, settling>>
    BY <1>2 DEF Pet!SetHidden
  <2>2. L' = L
    BY <1>1 DEF L, Pet!Longest, Pet!Durations
  <2>3. Pet!Loops(base, Pet!BaseTrack(base, override))' = Pet!Loops(base, Pet!BaseTrack(base, override))
    BY <1>1 DEF Pet!Loops, Pet!LoopsIn, Pet!OfState, Pet!BaseTrack
  <2>4. QED
    BY <1>1, <2>1, <2>2, <2>3 DEF RuntimeInv, RuntimeTyped, Settles, InAction, InTrack, InHold
<1>3. CASE ~h
  <2>1. action' = "" /\ actionAge' = 0 /\ baseAge' = 0 /\ settling' = 0
    BY <1>3 DEF Pet!SetHidden
  <2>2. RuntimeTyped'
    BY <1>1, <2>1, PackageKept, Clocks DEF RuntimeInv, RuntimeTyped
  <2>3. QED
    BY <1>1, <2>1, <2>2, Restarted DEF RuntimeInv, RuntimeTyped, Settles
<1>4. QED
  BY <1>2, <1>3
-----------------------------------------------------------------------------
(* A poll: an action ends, then a track, then the hold                     *)

\* What finishTransientLocked works on.
Shown == [base : Pet!Bases, override : package.tracks \cup {""},
          action : Pet!Playable(package) \cup {""}, playful : BOOLEAN, baseAge : 0..MaxAge]

LEMMA PlayingShown ==
    ASSUME RuntimeTyped
    PROVE  /\ Pet!Playing \in Shown /\ Pet!Playing.baseAge = Pet!Older(baseAge)
           /\ Pet!Playing.base = base /\ Pet!Playing.override = override
           /\ Pet!Playing.action = action /\ Pet!Playing.playful = playful
<1>1. Pet!Older(baseAge) \in 0..MaxAge
  BY Ages DEF RuntimeTyped
<1>2. QED
  BY <1>1 DEF RuntimeTyped, Pet!Playing, Shown

\* An action that ends leaves the base's own track, or the action's fallback, which a
\* video package has not; the clock of the track starts again.
LEMMA ActionEnds ==
    ASSUME RuntimeTyped
    PROVE  LET s == Pet!FinishAction(Pet!Playing) IN
           /\ s \in Shown /\ s.base = base
           /\ \/ s = Pet!Playing /\ (action # "" => Pet!Older(actionAge) < L)
              \/ /\ action # "" /\ s.action = "" /\ s.baseAge = 0
                 /\ package.webm /\ override = "" => s.override = ""
<1> DEFINE p == Pet!Playing
           long == Pet!ActionLength(p.action, p.playful)
           own == package.actions[p.action].after
           next == IF p.playful THEN "" ELSE
                   IF own # "" THEN own ELSE package.after[package.actions[p.action].track]
           s == Pet!FinishAction(p)
           new == IF next # "" THEN next ELSE IF p.playful THEN "" ELSE p.override
<1>1. /\ p \in Shown /\ p.base = base /\ p.override = override /\ p.action = action
      /\ p.playful = playful
  BY PlayingShown
<1>2. s = IF p.action = "" \/ long = 0 \/ Pet!Older(actionAge) < long THEN p
          ELSE [p EXCEPT !.action = "", !.playful = FALSE, !.baseAge = 0, !.override = new]
  BY DEF Pet!FinishAction
<1>3. Pet!Older(actionAge) \in 0..MaxAge
  BY Ages DEF RuntimeTyped
<1> HIDE DEF p, s, new
<1>4. CASE p.action = ""
  BY <1>1, <1>2, <1>4 DEF s, p
<1>5. CASE p.action # ""
  <2>1. action \in Pet!Playable(package) /\ playful \in BOOLEAN
    BY <1>1, <1>5 DEF RuntimeTyped
  <2>2. long \in 1..L
    BY <1>1, <2>1, Lengths
  <2>3. L \in Nat
    BY LongestIsLongest DEF L, RuntimeTyped
  <2>4. CASE Pet!Older(actionAge) < long
    <3>1. Pet!Older(actionAge) < L
      BY <1>3, <2>2, <2>3, <2>4, Clocks
    <3>2. s = p
      BY <1>2, <2>4
    <3>3. QED
      BY <1>1, <3>1, <3>2 DEF s, p
  <2>5. CASE ~(Pet!Older(actionAge) < long)
    <3>1. s = [p EXCEPT !.action = "", !.playful = FALSE, !.baseAge = 0, !.override = new]
      <4>1. long # 0
        BY <2>2, <2>3
      <4>2. QED
        BY <1>2, <1>5, <2>5, <4>1
    <3>2. Pet!IsAccepted(package) /\ Pet!CanSettle(package)
      BY PackageAssumption DEF RuntimeTyped
    <3>3. action \in DOMAIN package.actions
      BY <2>1 DEF Pet!Playable
    <3>4. own \in package.tracks \cup {""} /\ package.actions[p.action].track \in package.tracks
      BY <1>1, <3>2, <3>3 DEF Pet!IsAccepted
    <3>5. package.after[package.actions[p.action].track] \in package.tracks \cup {""}
      BY <3>2, <3>4 DEF Pet!IsAccepted
    <3>6. new \in package.tracks \cup {""}
      BY <1>1, <3>4, <3>5 DEF new, Shown
    <3>7. package.webm => own = "" /\ package.after[package.actions[p.action].track] = ""
      BY <1>1, <2>1, <3>2 DEF Pet!CanSettle
    <3>8. package.webm /\ override = "" => new = ""
      BY <1>1, <3>7 DEF new
    <3>9. /\ s \in Shown /\ s.base = p.base /\ s.action = "" /\ s.baseAge = 0
          /\ s.override = new
      BY <1>1, <3>1, <3>6, Clocks DEF Shown
    <3>10. QED
      BY <1>1, <1>5, <3>8, <3>9 DEF s, p
  <2>6. QED
    BY <2>4, <2>5
<1>6. QED
  BY <1>4, <1>5

\* A track played once that ends settles a video's task, and leads to the next one else.
LEMMA TrackEnds ==
    ASSUME RuntimeTyped, NEW s \in Shown
    PROVE  LET t == Pet!BaseTrack(s.base, s.override)
               u == Pet!FinishBase(s)
           IN  /\ u \in Shown /\ t \in package.tracks
               /\ u.base = s.base \/ u.base = "idle"
               /\ \/ /\ u = s
                     /\ \/ s.action # "" \/ Pet!Loops(s.base, t) \/ s.baseAge < Pet!BaseLength(t)
                  \/ /\ s.action = "" /\ ~Pet!Loops(s.base, t) /\ package.webm
                     /\ u.base = "idle"
                  \/ /\ s.action = "" /\ ~Pet!Loops(s.base, t)
                     /\ package.webm => s.base \notin Pet!Finished
                     /\ u.base = s.base /\ u.action = "" /\ u.baseAge = 0
                     /\ u.override = Pet!NextIn(package, s.base, t)
<1> DEFINE t == Pet!BaseTrack(s.base, s.override)
           next == Pet!NextIn(package, s.base, t)
           u == Pet!FinishBase(s)
           over == s.action = "" /\ ~Pet!Loops(s.base, t) /\ ~(s.baseAge < Pet!BaseLength(t))
           ends == package.webm /\ s.base \in Pet!Finished
<1>1. /\ s.base \in Pet!Bases /\ s.override \in package.tracks \cup {""}
  BY DEF Shown
<1>2. t \in package.tracks /\ next \in package.tracks
  BY <1>1, TracksDeclared
<1>3. u = IF ~over THEN s
          ELSE IF ends THEN [s EXCEPT !.base = "idle", !.override = "", !.baseAge = 0]
          ELSE [s EXCEPT !.override = next, !.baseAge = 0]
  BY DEF Pet!FinishBase
<1>4. over => s.action = "" /\ ~Pet!Loops(s.base, t)
  OBVIOUS
<1>5. ~over => s.action # "" \/ Pet!Loops(s.base, t) \/ s.baseAge < Pet!BaseLength(t)
  OBVIOUS
<1>6. "idle" \in Pet!Bases
  BY DEF Pet!Bases
<1> HIDE DEF t, next, u, over
<1>7. CASE ~over
  BY <1>2, <1>3, <1>5, <1>7 DEF t, u
<1>8. CASE over /\ ends
  <2>1. u = [s EXCEPT !.base = "idle", !.override = "", !.baseAge = 0]
    BY <1>3, <1>8
  <2>2. u \in Shown /\ u.base = "idle"
    BY <2>1, <1>6, Clocks DEF Shown
  <2>3. QED
    BY <1>2, <1>4, <1>8, <2>2 DEF t, u
<1>9. CASE over /\ ~ends
  <2>1. u = [s EXCEPT !.override = next, !.baseAge = 0]
    BY <1>3, <1>9
  <2>2. /\ u \in Shown /\ u.base = s.base /\ u.action = s.action /\ u.baseAge = 0
        /\ u.override = next
    BY <2>1, <1>2, Clocks DEF Shown
  <2>3. QED
    BY <1>2, <1>4, <1>9, <2>2 DEF t, u, next
<1>10. QED
  BY <1>7, <1>8, <1>9

\* The hold ends what is left, except in a video package.
LEMMA HoldEnds ==
    ASSUME RuntimeTyped, NEW s \in Shown
    PROVE  LET u == Pet!FinishHold(s) IN
           /\ u \in Shown
           /\ \/ /\ u = s
                 /\ \/ package.webm \/ s.base \notin Pet!Finished \/ s.action # ""
                    \/ s.baseAge < HoldFailed
              \/ u.base = "idle"
<1> DEFINE hold == IF s.base = "failed" THEN HoldFailed ELSE HoldCompleted
           u == Pet!FinishHold(s)
           stays == package.webm \/ s.base \notin Pet!Finished \/ s.action # "" \/ s.baseAge < hold
<1>1. u = IF stays THEN s ELSE [s EXCEPT !.base = "idle", !.override = "", !.baseAge = 0]
  BY DEF Pet!FinishHold
<1>2. s.baseAge \in 0..MaxAge
  BY DEF Shown
<1>3. s.baseAge < hold => s.baseAge < HoldFailed
  BY <1>2, Clocks
<1>4. CASE stays
  BY <1>1, <1>3, <1>4
<1>5. CASE ~stays
  <2>1. u = [s EXCEPT !.base = "idle", !.override = "", !.baseAge = 0]
    BY <1>1, <1>5
  <2>2. "idle" \in Pet!Bases
    BY DEF Pet!Bases
  <2>3. u \in Shown /\ u.base = "idle"
    BY <2>1, <2>2, Clocks DEF Shown
  <2>4. QED
    BY <2>3
<1>6. QED
  BY <1>4, <1>5

\* An idle variation plays and shows what the package declares.
LEMMA VariationTyped ==
    ASSUME RuntimeTyped, NEW s \in Shown, Pet!IdleVariation(s)
    PROVE  /\ override' \in package.tracks \cup {""}
           /\ action' \in Pet!Playable(package) \cup {""} /\ playful' \in BOOLEAN
           /\ baseAge' \in 0..MaxAge /\ actionAge' \in 0..MaxAge
<1>1. /\ s.override \in package.tracks \cup {""} /\ s.baseAge \in 0..MaxAge
      /\ s.action \in Pet!Playable(package) \cup {""} /\ s.playful \in BOOLEAN
  BY DEF Shown
<1>2. Pet!Older(actionAge) \in 0..MaxAge
  BY Ages DEF RuntimeTyped
<1>3. CASE package.idles # {}
  <2>1. package.idles \subseteq package.tracks
    BY PackageAssumption DEF RuntimeTyped, Pet!IsAccepted
  <2>2. QED
    BY <1>1, <1>2, <1>3, <2>1, Clocks DEF Pet!IdleVariation
<1>4. CASE package.idles = {}
  <2>1. PICK a \in {""} \cup {n \in {"wave", "bounce"} \cap DOMAIN package.actions :
                                n # lastIdle /\ package.actions[n].track \notin package.loops} :
            IF a # "" /\ idleAge # Pet!Unset /\ idleAge' = 0 /\ Pet!Admits(s.action, a)
            THEN action' = a /\ actionAge' = 0 /\ playful' = TRUE /\ lastIdle' = a
            ELSE /\ action' = s.action /\ playful' = s.playful
                 /\ actionAge' = Pet!Older(actionAge) /\ lastIdle' = lastIdle
    BY <1>4 DEF Pet!IdleVariation
  <2>2. a # "" => a \in Pet!Playable(package)
    BY DEF Pet!Playable
  <2>3. override' = s.override /\ baseAge' = s.baseAge
    BY <1>4 DEF Pet!IdleVariation
  <2>4. QED
    BY <1>1, <1>2, <2>1, <2>2, <2>3, Clocks
<1>5. QED
  BY <1>3, <1>4

\* What a poll leaves of a finished task that it does not settle.
LEMMA PollSettles ==
    ASSUME RuntimeInv, Pet!FinishTransient.base \in Pet!Finished,
           package' = package, base' = Pet!FinishTransient.base,
           override' = Pet!FinishTransient.override, action' = Pet!FinishTransient.action,
           baseAge' = Pet!FinishTransient.baseAge, actionAge' = Pet!Older(actionAge),
           settling' = Pet!Older(settling)
    PROVE  Settles'
<1> DEFINE s == Pet!FinishAction(Pet!Playing)
           u == Pet!FinishBase(s)
           w == Pet!FinishHold(u)
           t == Pet!BaseTrack(s.base, s.override)
<1>1. w = Pet!FinishTransient /\ "idle" \notin Pet!Finished
  BY DEF Pet!FinishTransient, Pet!Finished
<1>2. RuntimeTyped
  BY DEF RuntimeInv
<1>3. /\ s \in Shown /\ s.base = base
      /\ \/ s = Pet!Playing /\ (action # "" => Pet!Older(actionAge) < L)
         \/ /\ action # "" /\ s.action = "" /\ s.baseAge = 0
            /\ package.webm /\ override = "" => s.override = ""
  BY <1>2, ActionEnds
<1>4. /\ u \in Shown /\ t \in package.tracks
      /\ u.base = s.base \/ u.base = "idle"
      /\ \/ /\ u = s
            /\ \/ s.action # "" \/ Pet!Loops(s.base, t) \/ s.baseAge < Pet!BaseLength(t)
         \/ /\ s.action = "" /\ ~Pet!Loops(s.base, t) /\ package.webm
            /\ u.base = "idle"
         \/ /\ s.action = "" /\ ~Pet!Loops(s.base, t)
            /\ package.webm => s.base \notin Pet!Finished
            /\ u.base = s.base /\ u.action = "" /\ u.baseAge = 0
            /\ u.override = Pet!NextIn(package, s.base, t)
  BY <1>2, <1>3, TrackEnds
<1>5. /\ w \in Shown
      /\ \/ /\ w = u
            /\ package.webm \/ u.base \notin Pet!Finished \/ u.action # "" \/ u.baseAge < HoldFailed
         \/ w.base = "idle"
  BY <1>2, <1>4, HoldEnds
<1>6. /\ Pet!Playing.baseAge = Pet!Older(baseAge) /\ Pet!Playing.base = base
      /\ Pet!Playing.override = override /\ Pet!Playing.action = action
  BY <1>2, PlayingShown
<1> HIDE DEF s, u, w, t
\* The task is not settled: the hold has not ended it, nor has a video's track.
<1>7. /\ w = u /\ u.base = base /\ base \in Pet!Finished
      /\ package.webm \/ u.action # "" \/ u.baseAge < HoldFailed
  BY <1>1, <1>3, <1>4, <1>5
<1>8. /\ base' = base /\ override' = u.override /\ action' = u.action /\ baseAge' = u.baseAge
  BY <1>1, <1>7
<1>9. /\ settling \in 0..MaxAge /\ baseAge \in 0..MaxAge /\ actionAge \in 0..MaxAge
      /\ Pet!Older(settling) \in 0..MaxAge /\ Pet!Older(baseAge) \in 0..MaxAge
      /\ Pet!Older(actionAge) \in 0..MaxAge
      /\ Pet!Older(settling) <= settling + 1
      /\ L \in Nat \ {0} /\ L' = L
  BY <1>2, Ages, LongestIsLongest, PackageKept DEF RuntimeTyped, L
<1>10. Pet!BaseLength(t) \in 1..L /\ t = Pet!BaseTrack(base, s.override)
  BY <1>2, <1>3, <1>4, Lengths DEF t
<1>11. Pet!Loops(base, Pet!BaseTrack(base, override))'
         = Pet!LoopsIn(package, base, Pet!BaseTrack(base, u.override))
  BY <1>8 DEF Pet!Loops, Pet!LoopsIn, Pet!OfState, Pet!BaseTrack
<1>12. \A n \in Nat : /\ settling <= n + baseAge => Pet!Older(settling) <= n + Pet!Older(baseAge)
                      /\ settling <= n + actionAge => Pet!Older(settling) <= n + Pet!Older(actionAge)
  BY <1>9, Ages
\* In its action: it is the same one, and younger than its track is long.
<1>13. CASE action # "" /\ s = Pet!Playing
  <2>1. InAction(settling, actionAge) /\ s.action # ""
    BY <1>6, <1>7, <1>13 DEF RuntimeInv, Settles
  <2>2. u = s
    BY <1>4, <2>1
  <2>3. /\ action' = action /\ override' = override /\ Pet!Older(actionAge) < L
    BY <1>3, <1>6, <1>8, <1>13, <2>2
  <2>4. Pet!Older(settling) <= 0 + Pet!Older(actionAge)
    <3>1. settling <= 0 + actionAge
      BY <2>1, <1>9, OneMore DEF InAction
    <3>2. QED
      BY <3>1, <1>12
  <2>5. InAction(settling, actionAge)' /\ settling' <= 2 * L + HoldFailed
    BY <2>3, <2>4, <1>9, Clocks DEF InAction
  <2>6. base' \in Pet!Finished /\ package'.webm => override' = ""
    BY <2>3, <1>7 DEF RuntimeInv, Settles
  <2>7. QED
    BY <1>7, <1>8, <1>9, <1>13, <2>3, <2>5, <2>6 DEF Settles
\* Its action has just ended: the track's clock starts.
<1>14. CASE action # "" /\ s # Pet!Playing
  <2>1. InAction(settling, actionAge) /\ s.action = "" /\ s.baseAge = 0
    BY <1>3, <1>7, <1>14 DEF RuntimeInv, Settles
  <2>2. u = s \/ (u.base = base /\ u.action = "" /\ u.baseAge = 0 /\ ~package.webm)
    BY <1>3, <1>4, <1>7, <1>1
  <2>3. action' = "" /\ baseAge' = 0
    BY <1>8, <2>1, <2>2
  <2>4. InTrack(settling, baseAge)' /\ InHold(settling, baseAge)' /\ settling' <= 2 * L + HoldFailed
    <3>1. settling' <= L
      BY <2>1, <1>9, OneMore DEF InAction
    <3>2. \A n \in 0..MaxAge : n <= L => n <= L + 0 /\ n < 2 * L /\ n <= 2 * L + 0 /\ n <= 2 * L + HoldFailed
      BY <1>9, Clocks
    <3>3. settling' \in 0..MaxAge
      BY <1>9
    <3>4. QED
      BY <3>1, <3>2, <3>3, <2>3, <1>9 DEF InTrack, InHold
  <2>5. package.webm => override' = ""
    <3>1. package.webm => override = ""
      BY <1>7 DEF RuntimeInv, Settles
    <3>2. QED
      BY <3>1, <1>3, <1>8, <1>14, <2>2
  <2>6. QED
    BY <1>7, <1>8, <1>9, <2>3, <2>4, <2>5 DEF Settles
\* In a track.
<1>15. CASE action = ""
  <2>1. s = Pet!Playing /\ s.action = "" /\ s.baseAge = Pet!Older(baseAge) /\ s.override = override
    BY <1>3, <1>6, <1>15
  <2>2. t = Pet!BaseTrack(base, override)
    BY <1>10, <2>1
  <2>3. /\ InHold(settling, baseAge) /\ (package.webm => override = "")
        /\ ~Pet!Loops(base, t) => InTrack(settling, baseAge)
    BY <1>7, <1>15, <2>2 DEF RuntimeInv, Settles
  <2>4. Pet!CanSettle(package)
    BY <1>2, PackageAssumption DEF RuntimeTyped
  <2>5. package.webm => ~Pet!Loops(base, t)
    <3>1. SUFFICES ASSUME package.webm
                   PROVE  ~Pet!LoopsIn(package, base, t)
      BY DEF Pet!Loops
    <3>2. "" \notin package.tracks
      BY <1>2, PackageAssumption DEF RuntimeTyped, Pet!IsAccepted
    <3>3. t = IF base \in DOMAIN package.states THEN package.states[base].track ELSE package.idle
      BY <2>2, <2>3, <3>1, <3>2 DEF Pet!BaseTrack
    <3>4. QED
      BY <2>4, <3>1, <3>3, <1>7 DEF Pet!CanSettle
  \* One that repeats: only the hold is left, and it has not passed.
  <2>6. CASE Pet!Loops(base, t)
    <3>1. u = s /\ ~package.webm
      BY <1>3, <1>4, <2>5, <2>6
    <3>2. /\ action' = "" /\ override' = override /\ baseAge' = Pet!Older(baseAge)
          /\ Pet!Older(baseAge) < HoldFailed
      BY <1>7, <1>8, <2>1, <3>1
    <3>3. Pet!Loops(base, Pet!BaseTrack(base, override))'
      BY <1>8, <2>2, <2>6, <3>2 DEF Pet!Loops, Pet!LoopsIn, Pet!OfState, Pet!BaseTrack
    <3>4. InHold(settling, baseAge)' /\ settling' <= 2 * L + HoldFailed
      <4>1. 2 * L \in Nat
        BY <1>9
      <4>2. Pet!Older(settling) <= 2 * L + Pet!Older(baseAge)
        BY <1>12, <2>3, <4>1 DEF InHold
      <4>3. Pet!Older(settling) <= 2 * L + HoldFailed
        BY <1>9, <3>2, <4>2, OneMore
      <4>4. QED
        BY <1>9, <3>2, <4>2, <4>3 DEF InHold
    <3>5. QED
      BY <1>7, <1>8, <1>9, <3>1, <3>2, <3>3, <3>4 DEF Settles
  \* One that is played once, and is not over.
  <2>7. CASE ~Pet!Loops(base, t) /\ u = s /\ s.baseAge < Pet!BaseLength(t)
    <3>1. /\ action' = "" /\ override' = override /\ baseAge' = Pet!Older(baseAge)
          /\ Pet!Older(baseAge) < Pet!BaseLength(t)
      BY <1>8, <2>1, <2>7
    <3>2. Pet!Older(settling) <= L + Pet!Older(baseAge)
      BY <1>9, <1>12, <2>3, <2>7 DEF InTrack
    <3>3. Pet!BaseLength(t) \in 1..L /\ Pet!Older(baseAge) < L
      BY <1>9, <1>10, <3>1, OneMore
    <3>4. /\ Pet!Older(settling) < 2 * L /\ Pet!Older(settling) <= 2 * L + Pet!Older(baseAge)
          /\ Pet!Older(settling) <= 2 * L + HoldFailed
      BY <1>9, <3>2, <3>3, Clocks
    <3>5. InTrack(settling, baseAge)' /\ InHold(settling, baseAge)'
      BY <1>9, <3>1, <3>2, <3>4 DEF InTrack, InHold
    <3>6. package.webm => override' = ""
      BY <2>3, <3>1
    <3>7. QED
      BY <1>7, <1>8, <1>9, <3>1, <3>4, <3>5, <3>6 DEF Settles
  \* It is over, and what follows it repeats.
  <2>8. CASE /\ ~Pet!Loops(base, t)
             /\ package.webm => s.base \notin Pet!Finished
             /\ u.action = "" /\ u.baseAge = 0 /\ u.override = Pet!NextIn(package, s.base, t)
    <3>1. /\ ~package.webm /\ u.action = "" /\ u.baseAge = 0
          /\ u.override = Pet!NextIn(package, base, t)
      BY <1>3, <1>7, <2>8
    <3>2. action' = "" /\ baseAge' = 0 /\ override' = Pet!NextIn(package, base, t)
      BY <1>8, <3>1
    <3>3. Pet!LoopsIn(package, base, u.override)
      BY <1>4, <1>7, <2>4, <2>8, <3>1 DEF Pet!CanSettle, Pet!Loops
    <3>4. Pet!BaseTrack(base, u.override) = u.override
      <4>1. base \in Pet!Bases
        BY <1>2 DEF RuntimeTyped
      <4>2. u.override \in package.tracks
        BY <1>2, <1>4, <3>1, <4>1, TracksDeclared
      <4>3. QED
        BY <1>2, <4>1, <4>2, TracksDeclared
    <3>5. Pet!Loops(base, Pet!BaseTrack(base, override))'
      BY <1>11, <3>3, <3>4
    <3>6. Pet!Older(settling) <= 2 * L
      BY <1>9, <2>3, <2>8, OneMore DEF InTrack
    <3>7. InHold(settling, baseAge)' /\ settling' <= 2 * L + HoldFailed
      BY <1>9, <3>2, <3>6, OneMore DEF InHold
    <3>8. QED
      BY <1>7, <1>8, <1>9, <3>1, <3>2, <3>5, <3>7 DEF Settles
  <2>9. QED
    BY <1>1, <1>3, <1>4, <1>7, <2>1, <2>6, <2>7, <2>8
<1>16. QED
  BY <1>13, <1>14, <1>15

LEMMA TickSteps ==
    ASSUME RuntimeInv, Pet!Tick
    PROVE  RuntimeInv'
<1> DEFINE s == Pet!FinishTransient
<1>1. RuntimeTyped /\ s \in Shown /\ package' = package /\ package \in Packages
      /\ UNCHANGED <<hidden, reduced>>
  <2>1. RuntimeTyped
    BY DEF RuntimeInv
  <2>2. Pet!FinishAction(Pet!Playing) \in Shown
    BY <2>1, ActionEnds
  <2>3. Pet!FinishBase(Pet!FinishAction(Pet!Playing)) \in Shown
    BY <2>1, <2>2, TrackEnds
  <2>4. s \in Shown
    BY <2>1, <2>3, HoldEnds DEF Pet!FinishTransient
  <2>5. QED
    BY <2>1, <2>4 DEF Pet!Tick, RuntimeTyped
<1>2. /\ Pet!Older(baseAge) \in 0..MaxAge /\ Pet!Older(actionAge) \in 0..MaxAge
      /\ Pet!Older(settling) \in 0..MaxAge
  BY <1>1, Ages DEF RuntimeTyped
<1>3. /\ base' = IF hidden THEN base ELSE s.base
      /\ settling' = IF ~hidden /\ base' \in Pet!Finished THEN Pet!Older(settling) ELSE 0
  BY DEF Pet!Tick
<1> HIDE DEF s
<1>4. /\ s.base \in Pet!Bases /\ s.override \in package.tracks \cup {""}
      /\ s.action \in Pet!Playable(package) \cup {""} /\ s.playful \in BOOLEAN
      /\ s.baseAge \in 0..MaxAge
  BY <1>1 DEF Shown
<1>5. settling' \in 0..MaxAge
  BY <1>2, <1>3, Clocks
<1>6. CASE hidden
  <2>1. /\ baseAge' = Pet!Older(baseAge) /\ actionAge' = Pet!Older(actionAge)
        /\ UNCHANGED <<override, action, playful>> /\ base' = base /\ settling' = 0
    BY <1>3, <1>6 DEF Pet!Tick
  <2>2. RuntimeTyped'
    BY <1>1, <1>2, <1>5, <2>1, PackageKept DEF RuntimeTyped
  <2>3. QED
    BY <1>1, <2>1, <2>2, Restarted DEF RuntimeInv, Settles
<1>7. CASE ~hidden /\ ~reduced /\ s.base = "idle" /\ s.action = ""
  <2>1. Pet!IdleVariation(s) /\ base' = "idle" /\ settling' = 0
    BY <1>3, <1>7 DEF Pet!Tick, Pet!Finished, s
  <2>2. /\ override' \in package.tracks \cup {""}
        /\ action' \in Pet!Playable(package) \cup {""} /\ playful' \in BOOLEAN
        /\ baseAge' \in 0..MaxAge /\ actionAge' \in 0..MaxAge
    BY <1>1, <2>1, VariationTyped
  <2>3. RuntimeTyped'
    BY <1>1, <1>4, <1>5, <1>7, <2>1, <2>2, PackageKept DEF RuntimeTyped
  <2>4. QED
    BY <1>1, <2>1, <2>3, Restarted DEF Pet!Finished
<1>8. CASE ~hidden /\ ~(~reduced /\ s.base = "idle" /\ s.action = "")
  <2>1. /\ override' = s.override /\ action' = s.action /\ playful' = s.playful
        /\ baseAge' = s.baseAge /\ actionAge' = Pet!Older(actionAge) /\ base' = s.base
    BY <1>3, <1>8 DEF Pet!Tick, s
  <2>2. RuntimeTyped'
    BY <1>1, <1>2, <1>4, <1>5, <2>1, PackageKept DEF RuntimeTyped
  <2>3. CASE base' \in Pet!Finished
    <3>1. Settles'
      BY <1>1, <1>3, <1>8, <2>1, <2>3, PollSettles DEF s
    <3>2. QED
      BY <2>2, <3>1 DEF RuntimeInv
  <2>4. CASE base' \notin Pet!Finished
    BY <1>1, <1>3, <2>2, <2>4, Restarted
  <2>5. QED
    BY <2>3, <2>4
<1>9. QED
  BY <1>6, <1>7, <1>8

LEMMA RuntimeSteps ==
    ASSUME RuntimeInv, [Pet!Next]_petVars
    PROVE  RuntimeInv'
<1>1. CASE UNCHANGED petVars \/ Pet!SetReducedMotion
  <2>1. /\ UNCHANGED <<package, base, override, action, playful, hidden, baseAge, actionAge,
                       settling>>
        /\ reduced' \in BOOLEAN
    BY <1>1 DEF petVars, Pet!SetReducedMotion, RuntimeInv, RuntimeTyped
  <2>2. RuntimeTyped'
    BY <2>1, PackageKept DEF RuntimeInv, RuntimeTyped
  <2>3. Pet!Loops(base, Pet!BaseTrack(base, override))' = Pet!Loops(base, Pet!BaseTrack(base, override))
    BY <2>1 DEF Pet!Loops, Pet!LoopsIn, Pet!OfState, Pet!BaseTrack
  <2>4. QED
    BY <2>1, <2>2, <2>3, PackageKept DEF RuntimeInv, Settles, InAction, InTrack, InHold
<1>2. CASE Pet!Next /\ ~Pet!SetReducedMotion
  BY <1>2, EventSteps, ClickSteps, HiddenSteps, TickSteps DEF Pet!Next
<1>3. QED
  BY <1>1, <1>2

\* The invariant gives what the runtime promises.
LEMMA RuntimeTruth == ASSUME RuntimeInv PROVE Pet!FinishedSettles
BY DEF RuntimeInv, Settles, L, Pet!FinishedSettles
-----------------------------------------------------------------------------
(* The composition                                                         *)

\* The part that runs is one of the two throughout, or neither.
LEMMA PetPartSteps ==
    ASSUME [ServicesNext]_ServicesVars
    PROVE  /\ part' = part
           /\ part = "pet" => [Pet!Next]_petVars
           /\ part = "pets" => [Pets!Next]_petsVars
<1>1. CASE ServicesNext
  BY <1>1 DEF ServicesNext, AutoNext, BrowserNext, GateNext, ComputerNext, CatalogNext, PetNext,
              PetsNext
<1>2. CASE UNCHANGED ServicesVars
  BY <1>2 DEF ServicesVars
<1>3. QED
  BY <1>1, <1>2

\* Every state of the composed services satisfies the invariants of the Pet's two parts.
LEMMA PetInvariant == ServicesSpec => [](/\ part = "pet" => RuntimeInv
                                         /\ part = "pets" => PetsInv)
<1> DEFINE Inv == (part = "pet" => RuntimeInv) /\ (part = "pets" => PetsInv)
<1>1. ServicesInit => Inv
  BY RuntimeStart, PetsStart DEF ServicesInit
<1>2. Inv /\ [ServicesNext]_ServicesVars => Inv'
  BY PetPartSteps, RuntimeSteps, PetsSteps
<1>3. QED
  BY <1>1, <1>2, PTL DEF ServicesSpec

\* For every package that can settle, and whatever is dispatched, clicked, hidden, scanned,
\* selected and shut down: a finished task goes back to idle within its action, its track and
\* its hold; the list shown is the one resolved; window, panel and loaded Pet agree, on the
\* Host's generation; and after the shut-down there is neither Pet nor window
\* (runtime.go:640-719, catalog.go:171-247, pet_settings_service.go:900-1222).
THEOREM PetIsTruthful == ServicesSpec => []PetIsTrue
<1>1. (part = "pet" => RuntimeInv) /\ (part = "pets" => PetsInv) => PetIsTrue
  BY RuntimeTruth, PetsTruth DEF PetIsTrue
<1>2. QED
  BY <1>1, PetInvariant, PTL
=============================================================================
