------------------------------ MODULE FileWatch ------------------------------
(***************************************************************************)
(* The coordinator that tells the parts of jaco when files they depend on  *)
(* changed (app/jaco/src/app/file_watch.rs).  A registration has a target; *)
(* the coordinator keeps native watches on directories, shared by all the  *)
(* registrations, and moves them as directories appear and vanish.         *)
(*   - Changes of the disk that a native watch sees reach, some time       *)
(*     later, a callback on a thread of the debouncer, which puts them in  *)
(*     an inbox and wakes the pump.                                        *)
(*   - The pump, on the foreground thread, unregisters what was dropped,   *)
(*     takes the inbox, brings the watches up to date and tells the        *)
(*     registrations.  Nothing else happens on that thread meanwhile; the  *)
(*     disk goes on changing, and the callback goes on reporting.          *)
(*                                                                         *)
(* The disk is one chain of entries: k+1 lies in k, 0 is always there, the *)
(* last one is a file, and the others are directories.  A target is an     *)
(* entry: one file, or all that lies under a directory.                    *)
(*                                                                         *)
(* An operator Name_Variant is Name with a plausible slip; the runs that   *)
(* use this module are checked to tell the two apart.                      *)
(***************************************************************************)
EXTENDS Naturals, FiniteSets

CONSTANTS
  Deepest,           \* the file at the end of the chain
  Targets,           \* the targets that may be registered
  MaxPending,        \* MAX_PENDING_PATHS
  MaxRegistrations,  \* bound
  MaxChanges,        \* bound: changes of the disk
  MaxFaults          \* bound: native failures and overflows

ASSUME BoundsAreNatural ==
  /\ Deepest \in Nat \ {0} /\ MaxPending \in Nat \ {0}
  /\ MaxRegistrations \in Nat /\ MaxChanges \in Nat /\ MaxFaults \in Nat
ASSUME TargetsAreEntries ==
  /\ Targets # {}
  /\ Targets \subseteq [kind : {"ExactFile", "DirectoryTree"}, path : 1..Deepest]

Entries == 0..Deepest
Dirs    == 0..(Deepest - 1)
Modes   == {"NonRecursive", "Recursive"}
Ids     == 1..MaxRegistrations
Roots   == Dirs \X Modes  \* a root with the mode a target requires of it

VARIABLES
  depth,    \* the deepest entry there is
  watches,  \* the native watch of each directory, or "None"
  native,   \* entries with changes the debouncer has not reported yet
  \* WatchInbox and the wake channel, which holds one message
  inbox, wake,
  \* FileWatchService and WatchRegistry
  next,     \* next_registration_id
  regs,     \* what became of each registration, its target, its actual_roots
  roots,    \* the RootEntry of each directory
  controls, \* the registrations to unregister
  pump,     \* where pump_once is, its batch, the plans it has not carried out
            \* yet, the roots there were before them, and the dirty ones
  stopped,
  warned,   \* a FileWatchProblem was reported
  \* history
  stale,    \* registrations whose target changed since they were told
  raced,    \* the disk changed while the watches were brought up to date
  \* the bounds used up
  changes, faults

diskVars     == <<depth, stale, raced, changes>>
inboxVars    == <<inbox, wake>>
registryVars == <<regs, roots, watches, warned>>

vars == <<diskVars, native, inboxVars, next, registryVars, controls, pump, stopped, faults>>

NoBatch == [paths |-> {}, rescan |-> FALSE, problem |-> FALSE]
Idle    == [step |-> "Idle", batch |-> NoBatch, plans |-> [id \in {} |-> {}],
            before |-> {}, dirty |-> {}]
NoReg   == [state |-> "Unused", target |-> CHOOSE t \in Targets : TRUE, roots |-> {}]

-----------------------------------------------------------------------------
(* Roots and their entries *)

\* actual_roots: the parent of the target and, to notice that it vanishes, the
\* directory above; or else the deepest directory on the way there.
ActualRoots(target) ==
  LET desired == target.path - 1
      mode    == IF target.kind = "ExactFile" THEN "NonRecursive" ELSE "Recursive"
  IN IF desired > depth THEN {<<depth, "NonRecursive">>}
     ELSE {<<desired, mode>>} \cup {<<d, "NonRecursive">> : d \in {desired - 1} \cap Dirs}

NoEntry == [NonRecursive |-> 0, Recursive |-> 0, active |-> "None"]

RequiredMode(entry) == IF entry.Recursive > 0 THEN "Recursive" ELSE "NonRecursive"
TotalRefs(entry)    == entry.NonRecursive + entry.Recursive
Added(entry, mode)   == [entry EXCEPT ![mode] = @ + 1]
Removed(entry, mode) == [entry EXCEPT ![mode] = IF @ = 0 THEN 0 ELSE @ - 1]

\* target_is_related.
Related(target, path) ==
  path <= target.path \/ (target.kind = "DirectoryTree" /\ path >= target.path)

-----------------------------------------------------------------------------
(* The registry at work: w has its roots, the native watches, the calls of  *)
(* the native watcher that fail, whether a problem came up, and whether the *)
(* last acquisition was a success.                                          *)

At(bad) == [roots |-> roots, watches |-> watches, bad |-> bad,
            problem |-> FALSE, ok |-> TRUE]

CanWatch(w, d, mode) == d <= depth /\ <<d, mode>> \notin w.bad
CanUnwatch(w, d)     == <<d, "Unwatch">> \notin w.bad

Watched(w, d, mode) == [w EXCEPT !.watches[d] = mode]
Entry(w, d, entry)  == [w EXCEPT !.roots[d] = [entry EXCEPT !.active = RequiredMode(entry)]]
Failed(w)           == [w EXCEPT !.problem = TRUE, !.ok = FALSE]

\* switch_mode: stop, start, and when that fails start as it was.
SwitchMode(w, d, old, new) ==
  IF ~CanUnwatch(w, d) THEN Failed(w)
  ELSE IF CanWatch(w, d, new) THEN Watched([w EXCEPT !.ok = TRUE], d, new)
  ELSE IF CanWatch(w, d, old) THEN Failed(Watched(w, d, old))
  ELSE Failed([Watched(w, d, "None") EXCEPT !.roots[d] = NoEntry])

\* add_requirement.
AddRequirement(w, root) ==
  LET d       == root[1]
      current == w.roots[d]
      added   == Added(current, root[2])
      s       == SwitchMode(w, d, current.active, RequiredMode(added))
  IN
  IF current = NoEntry
  THEN IF CanWatch(w, d, root[2]) THEN Entry(Watched(w, d, root[2]), d, added) ELSE Failed(w)
  ELSE IF RequiredMode(added) = current.active THEN Entry(w, d, added)
  ELSE IF s.ok THEN Entry(s, d, added) ELSE s

\* remove_requirement.  It cannot fail, but a problem may come up.
RemoveRequirement(w, root) ==
  LET d       == root[1]
      current == w.roots[d]
      left    == Removed(current, root[2])
      gone    == [w EXCEPT !.roots[d] = NoEntry]
      s       == SwitchMode(w, d, current.active, RequiredMode(left))
      t       == IF s.ok THEN Entry(s, d, left)
                 ELSE IF s.roots[d] = NoEntry THEN s
                 ELSE [s EXCEPT !.roots[d] = left]
  IN
  IF current = NoEntry THEN w
  ELSE IF TotalRefs(left) = 0
  THEN IF CanUnwatch(w, d) THEN Watched(gone, d, "None") ELSE [gone EXCEPT !.problem = TRUE]
  ELSE IF RequiredMode(left) = current.active THEN Entry(w, d, left)
  ELSE [t EXCEPT !.ok = w.ok]

\* The roots of a target, two at most, are gone through from the outer one.
Outer(rs) == CHOOSE root \in rs : \A other \in rs : root[1] <= other[1]
Inner(rs) == rs \ {Outer(rs)}

RemoveAll(w, rs) ==
  IF rs = {} THEN w
  ELSE LET s == RemoveRequirement(w, Outer(rs))
       IN  IF Inner(rs) = {} THEN s ELSE RemoveRequirement(s, Outer(Inner(rs)))

Acquire_NoRollback(w, rs) ==
  IF rs = {} THEN w
  ELSE LET s == AddRequirement(w, Outer(rs))
       IN  IF ~s.ok \/ Inner(rs) = {} THEN s ELSE AddRequirement(s, Outer(Inner(rs)))
\* They are acquired all or none.
Acquire(w, rs) ==
  IF rs = {} THEN w
  ELSE LET s == AddRequirement(w, Outer(rs))
           t == AddRequirement(s, Outer(Inner(rs)))
       IN  IF ~s.ok \/ Inner(rs) = {} THEN s
           ELSE IF t.ok THEN t ELSE RemoveRequirement(t, Outer(rs))

\* What the registrations rs require of a directory, counted.
Needs(rs, d, mode) ==
  Cardinality({id \in Ids : <<d, mode>> \in rs[id].roots})
NeededEntry(rs, d) ==
  [NonRecursive |-> Needs(rs, d, "NonRecursive"), Recursive |-> Needs(rs, d, "Recursive"),
   active |-> "None"]

\* repair_missing_roots.
Repair(w, rs) ==
  LET missing == {d \in Dirs : w.roots[d] = NoEntry /\ NeededEntry(rs, d) # NoEntry}
      mode(d) == RequiredMode(NeededEntry(rs, d))
      mended  == {d \in missing : CanWatch(w, d, mode(d))}
  IN [w EXCEPT
       !.watches = [d \in Dirs |-> IF d \in mended THEN mode(d) ELSE @[d]],
       !.roots   = [d \in Dirs |->
                      IF d \in mended
                      THEN [NeededEntry(rs, d) EXCEPT !.active = mode(d)] ELSE @[d]],
       !.problem = @ \/ mended # missing]

Reattach_RescanOnly(w, before, batch) ==
  LET lost == {d \in before : batch.rescan /\ ~CanWatch(w, d, w.roots[d].active)}
  IN [w EXCEPT !.watches = [d \in Dirs |-> IF batch.rescan /\ d \in before \ lost
                                           THEN w.roots[d].active ELSE @[d]],
               !.roots = [d \in Dirs |-> IF d \in lost THEN NoEntry ELSE @[d]]]
\* reattach_stable_affected_roots: a root that was there before may have lost
\* its native watch with its directory, when that or one above it changed.
Reattach(w, before, batch) ==
  LET affected == {d \in before : /\ w.roots[d] # NoEntry
                                  /\ batch.rescan \/ \E p \in batch.paths : p <= d}
      released == {d \in affected : CanUnwatch(w, d)}
      lost     == {d \in released : ~CanWatch(w, d, w.roots[d].active)}
  IN [w EXCEPT
       !.watches = [d \in Dirs |->
                      CASE d \in lost            -> "None"
                        [] d \in released \ lost -> w.roots[d].active
                        [] OTHER                 -> @[d]],
       !.roots   = [d \in Dirs |-> IF d \in lost THEN NoEntry ELSE @[d]],
       !.problem = @ \/ released # affected \/ lost # {}]

\* What may go wrong in one foreground step: nothing, one call, or both modes
\* of a directory.
Calls == Dirs \X (Modes \cup {"Unwatch"})
FaultSets == {{}} \cup {{call} : call \in Calls} \cup {{d} \X Modes : d \in Dirs}

Faulty(bad) ==
  /\ bad # {} => faults < MaxFaults
  /\ faults' = IF bad = {} THEN faults ELSE faults + 1

Settles(w) ==
  /\ roots' = w.roots /\ watches' = w.watches /\ warned' = (warned \/ w.problem)

-----------------------------------------------------------------------------
(* The disk *)

\* What a native watch sees of a change: in its directory, of its directory
\* itself, and anywhere under a recursive one.
Seen(path) ==
  \/ \E d \in Dirs : d \in {path - 1, path} /\ watches[d] # "None"
  \/ \E d \in Dirs : d < path /\ watches[d] = "Recursive"

\* What a target depends on.
Concerns(path, target) == target.kind = "ExactFile" => path <= target.path

Changes(path) ==
  /\ changes < MaxChanges /\ changes' = changes + 1
  /\ native' = IF Seen(path) /\ ~stopped THEN native \cup {path} ELSE native
  /\ stale' = stale \cup {id \in Ids : regs[id].state = "Bound" /\ Concerns(path, regs[id].target)}
  /\ raced' = (raced \/ pump.step = "Replace")
  /\ UNCHANGED <<inboxVars, next, regs, roots, warned, controls, pump, stopped, faults>>

Create ==
  /\ depth < Deepest
  /\ depth' = depth + 1
  /\ Changes(depth')
  /\ UNCHANGED watches

\* A native watch goes with its directory.
Delete ==
  /\ depth > 0
  /\ depth' = depth - 1
  /\ Changes(depth)
  /\ watches' = [d \in Dirs |-> IF d = depth THEN "None" ELSE watches[d]]

Modify ==
  /\ depth = Deepest
  /\ Changes(depth)
  /\ UNCHANGED <<depth, watches>>

-----------------------------------------------------------------------------
(* The callback of the debouncer: record_native_result *)

\* The wake channel is full when a message waits there: the registrations are
\* then all told.
Wakes(paths, rescan, problem) ==
  /\ inbox' = [paths |-> paths, rescan |-> rescan \/ (wake /\ ~stopped), problem |-> problem]
  /\ wake' = ~stopped

CallbackFrame ==
  UNCHANGED <<diskVars, next, registryVars, controls, pump, stopped>>

Report_Uncapped(ps, error) ==
  /\ ps # {} /\ ps \subseteq native /\ native' = native \ ps
  /\ Wakes(inbox.paths \cup ps, inbox.rescan, inbox.problem \/ error)
  /\ error => faults < MaxFaults
  /\ faults' = IF error THEN faults + 1 ELSE faults
  /\ CallbackFrame
\* Changes of the entries in ps are reported.  With the inbox full, the rest of
\* them is not kept; the last place may go before one that is there already.
Report(ps, error) ==
  /\ ps # {} /\ ps \subseteq native /\ native' = native \ ps
  /\ \E kept \in SUBSET (inbox.paths \cup ps), full \in BOOLEAN :
       LET all == inbox.paths \cup ps IN
       /\ inbox.paths \subseteq kept
       /\ Cardinality(kept) = IF Cardinality(all) > MaxPending THEN MaxPending
                              ELSE Cardinality(all)
       /\ full => Cardinality(kept) = MaxPending
       /\ kept # all \/ Cardinality(inbox.paths) = MaxPending => full
       /\ Wakes(kept, inbox.rescan \/ full, inbox.problem \/ error)
  /\ error => faults < MaxFaults
  /\ faults' = IF error THEN faults + 1 ELSE faults
  /\ CallbackFrame

\* The native queue overflowed, or an error has no path.
NeedRescan(ps, error) ==
  /\ faults < MaxFaults /\ faults' = faults + 1
  /\ ps \subseteq native /\ native' = native \ ps
  /\ Wakes(inbox.paths, TRUE, inbox.problem \/ error)
  /\ CallbackFrame

-----------------------------------------------------------------------------
(* The foreground *)

Foreground == ~stopped /\ pump.step = "Idle"

\* bind and register: a registration that is not served is not kept.
Register(target) ==
  /\ Foreground /\ next <= MaxRegistrations
  /\ \E bad \in FaultSets :
       LET w == Acquire(At(bad), ActualRoots(target)) IN
       /\ Faulty(bad)
       /\ Settles(w)
       /\ regs' = [regs EXCEPT ![next] =
                     IF w.ok THEN [state |-> "Bound", target |-> target,
                                   roots |-> ActualRoots(target)]
                     ELSE [NoReg EXCEPT !.state = "Gone"]]
  /\ next' = next + 1
  /\ UNCHANGED <<diskVars, native, inboxVars, controls, pump, stopped>>

\* The owner drops the binding: it hears no more.
Unbind(id) ==
  /\ Foreground
  /\ regs[id].state = "Bound"
  /\ regs' = [regs EXCEPT ![id].state = "Dropped"]
  /\ controls' = controls \cup {id}
  /\ wake' = TRUE
  /\ stale' = stale \ {id}
  /\ UNCHANGED <<depth, raced, changes, native, inbox, next, roots, watches, warned, pump,
                 stopped, faults>>

Live(rs) == {id \in Ids : rs[id].state \in {"Bound", "Dropped"}}

\* pump_once, from the message that wakes it.
StartPump ==
  /\ Foreground
  /\ wake /\ wake' = FALSE
  /\ pump' = [pump EXCEPT !.step = "Unregister"]
  /\ UNCHANGED <<diskVars, native, inbox, next, registryVars, controls, stopped, faults>>

\* unregister, for each control.
Unregister(id) ==
  /\ pump.step = "Unregister"
  /\ id \in controls /\ controls' = controls \ {id}
  /\ \E bad \in FaultSets :
       /\ Faulty(bad)
       /\ Settles(RemoveAll(At(bad), regs[id].roots))
  /\ regs' = [regs EXCEPT ![id] = [NoReg EXCEPT !.state = "Gone"]]
  /\ UNCHANGED <<diskVars, native, inboxVars, next, pump, stopped>>

\* The inbox is taken, and reconcile looks at the directories.
Plan ==
  /\ pump.step = "Unregister" /\ controls = {}
  /\ pump' = [step   |-> "Replace", batch |-> inbox,
              plans  |-> [id \in Live(regs) |-> ActualRoots(regs[id].target)],
              before |-> {d \in Dirs : roots[d] # NoEntry}, dirty |-> {}]
  /\ inbox' = NoBatch
  /\ UNCHANGED <<diskVars, native, wake, next, registryVars, controls, stopped, faults>>

\* A plan, in any order: nothing, or replace_roots.
Replace(id) ==
  LET old == regs[id].roots
      new == pump.plans[id]
  IN
  /\ pump.step = "Replace" /\ id \in DOMAIN pump.plans
  /\ \E bad \in FaultSets :
       LET w == Acquire(At(bad), new \ old)
           done == old # new /\ w.ok
       IN
       /\ Faulty(bad)
       /\ Settles(IF done THEN RemoveAll(w, old \ new) ELSE w)
       /\ regs' = IF done THEN [regs EXCEPT ![id].roots = new] ELSE regs
       /\ pump' = [pump EXCEPT
                     !.plans = [other \in DOMAIN @ \ {id} |-> @[other]],
                     !.dirty = IF done THEN @ \cup {id} ELSE @]
  /\ UNCHANGED <<diskVars, native, inboxVars, next, controls, stopped>>

\* The rest of reconcile and of pump_once: the registrations are told.
Told ==
  IF pump.batch.rescan THEN Live(regs)
  ELSE {id \in Live(regs) : \/ id \in pump.dirty
                            \/ \E p \in pump.batch.paths : Related(regs[id].target, p)}
Finish ==
  /\ pump.step = "Replace" /\ DOMAIN pump.plans = {}
  /\ \E bad \in FaultSets :
       LET w == Reattach(Repair(At(bad), regs), pump.before, pump.batch) IN
       /\ Faulty(bad)
       /\ Settles([w EXCEPT !.problem = @ \/ pump.batch.problem])
  /\ stale' = stale \ Told
  /\ pump' = Idle
  /\ UNCHANGED <<depth, raced, changes, native, inboxVars, next, regs, controls, stopped>>

Shutdown ==
  /\ Foreground
  /\ stopped' = TRUE
  /\ regs' = [id \in Ids |-> IF id \in Live(regs) THEN [NoReg EXCEPT !.state = "Gone"]
                             ELSE regs[id]]
  /\ roots' = [d \in Dirs |-> NoEntry]
  /\ watches' = [d \in Dirs |-> "None"]
  /\ wake' = FALSE /\ controls' = {} /\ inbox' = NoBatch
  /\ stale' = {}
  /\ UNCHANGED <<depth, raced, changes, native, next, pump, warned, faults>>

Init ==
  /\ depth \in Entries
  /\ watches = [d \in Dirs |-> "None"] /\ roots = [d \in Dirs |-> NoEntry]
  /\ native = {} /\ inbox = NoBatch /\ wake = FALSE
  /\ next = 1 /\ regs = [id \in Ids |-> NoReg] /\ controls = {}
  /\ pump = Idle /\ stopped = FALSE /\ warned = FALSE
  /\ stale = {} /\ raced = FALSE
  /\ changes = 0 /\ faults = 0

Next ==
  \/ Create \/ Delete \/ Modify
  \/ \E ps \in SUBSET native, error \in BOOLEAN : Report(ps, error) \/ NeedRescan(ps, error)
  \/ \E target \in Targets : Register(target)
  \/ \E id \in Ids : Unbind(id) \/ Unregister(id) \/ Replace(id)
  \/ StartPump \/ Plan \/ Finish \/ Shutdown

Spec == Init /\ [][Next]_vars

-----------------------------------------------------------------------------
(* Properties *)

RootEntries == [NonRecursive : Nat, Recursive : Nat, active : Modes \cup {"None"}]
Batches == [paths : SUBSET Entries, rescan : BOOLEAN, problem : BOOLEAN]

\* The variables have the values the code gives them, and the inbox its limit.
TypeOK ==
  /\ depth \in Entries /\ native \subseteq Entries
  /\ \A d \in Dirs : watches[d] \in Modes \cup {"None"} /\ roots[d] \in RootEntries
  /\ inbox \in Batches /\ Cardinality(inbox.paths) <= MaxPending
  /\ wake \in BOOLEAN /\ controls \subseteq Ids
  /\ \A id \in Ids : regs[id].target \in Targets /\ regs[id].roots \subseteq Roots
  /\ pump.step \in {"Idle", "Unregister", "Replace"} /\ pump.batch \in Batches

\* A shared root never has a reference that no registration stands for, and as
\* long as no problem was reported it has all of them, is watched in the mode
\* they need, and nothing else is watched: however registrations come and go,
\* acquisitions fail halfway, and directories appear and vanish.
RootsAnswerNeeds ==
  \A d \in Dirs :
    /\ \A mode \in Modes : roots[d][mode] <= Needs(regs, d, mode)
    /\ ~warned => /\ \A mode \in Modes : roots[d][mode] = Needs(regs, d, mode)
                  /\ roots[d] # NoEntry => roots[d].active = RequiredMode(roots[d])
                  /\ watches[d] \in {roots[d].active, "None"}

Tells(batch, target) == batch.rescan \/ \E p \in batch.paths : Related(target, p)

\* A registration whose target changed is about to be told: the change, or one
\* that matters to it as well, is with the debouncer, in the inbox with the
\* pump woken, or in the pump's hands.  Two things are excepted: what the user
\* was warned of, and a disk that changed in the middle of a pump, between the
\* look at the directories and the native watches.
NoChangeIsLost ==
  ~warned /\ ~raced =>
    \A id \in stale :
      \/ \E p \in native : Related(regs[id].target, p)
      \/ (wake \/ pump.step = "Unregister") /\ Tells(inbox, regs[id].target)
      \/ Tells(pump.batch, regs[id].target)

=============================================================================
