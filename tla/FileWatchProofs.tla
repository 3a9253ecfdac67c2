-------------------------- MODULE FileWatchProofs --------------------------
(***************************************************************************)
(* Three facts about the file watch, whatever the chain of directories,    *)
(* the targets, the number of registrations and the bounds are: the        *)
(* variables keep their types and the inbox its limit; the shared roots    *)
(* answer what the registrations need; and no change is lost.              *)
(*                                                                         *)
(* First, what one call of the registry does to one directory, and from    *)
(* that what acquisitions, releases and repairs do: the roots answer the   *)
(* needs afterwards too (Answers), and no watch is lost without a problem  *)
(* (Goes).  Then WatchInv with the order of the pump's steps (PumpInOrder),*)
(* and on top of both what the registrations can count on hearing (Heard). *)
(***************************************************************************)
EXTENDS FileWatch, FiniteSetTheorems, TLAPS

-----------------------------------------------------------------------------
(* Entries *)

Natives == Modes \cup {"None"}

LEMMA EntryFields ==
  ASSUME NEW e \in RootEntries
  PROVE  /\ e.NonRecursive \in Nat /\ e.Recursive \in Nat /\ e.active \in Natives
         /\ e["NonRecursive"] = e.NonRecursive /\ e["Recursive"] = e.Recursive
         /\ \A mode \in Modes : e[mode] \in Nat
         /\ RequiredMode(e) \in Modes
BY DEF RootEntries, Natives, Modes, RequiredMode

LEMMA NoEntryFields ==
  /\ NoEntry \in RootEntries
  /\ \A mode \in Modes : NoEntry[mode] = 0
  /\ NoEntry.active = "None"
BY DEF NoEntry, RootEntries, Modes

LEMMA AddedFields ==
  ASSUME NEW e \in RootEntries, NEW mode \in Modes
  PROVE  /\ Added(e, mode) \in RootEntries
         /\ Added(e, mode).active = e.active
         /\ \A m \in Modes : Added(e, mode)[m] = e[m] + (IF m = mode THEN 1 ELSE 0)
<1>1. CASE mode = "NonRecursive"
  BY <1>1 DEF Added, RootEntries, Modes
<1>2. CASE mode = "Recursive"
  BY <1>2 DEF Added, RootEntries, Modes
<1> QED BY <1>1, <1>2 DEF Modes

LEMMA RemovedFields ==
  ASSUME NEW e \in RootEntries, NEW mode \in Modes
  PROVE  /\ Removed(e, mode) \in RootEntries
         /\ Removed(e, mode).active = e.active
         /\ \A m \in Modes :
              Removed(e, mode)[m] = IF m = mode /\ e[m] # 0 THEN e[m] - 1 ELSE e[m]
<1>1. CASE mode = "NonRecursive"
  BY <1>1 DEF Removed, RootEntries, Modes
<1>2. CASE mode = "Recursive"
  BY <1>2 DEF Removed, RootEntries, Modes
<1> QED BY <1>1, <1>2 DEF Modes

\* An entry as it is put back.
Fresh(e) == [e EXCEPT !.active = RequiredMode(e)]

LEMMA FreshFields ==
  ASSUME NEW e \in RootEntries
  PROVE  /\ Fresh(e) \in RootEntries /\ Fresh(e) # NoEntry
         /\ Fresh(e).active = RequiredMode(e) /\ RequiredMode(Fresh(e)) = RequiredMode(e)
         /\ \A m \in Modes : Fresh(e)[m] = e[m]
BY DEF Fresh, RootEntries, NoEntry, Modes, RequiredMode

-----------------------------------------------------------------------------
(* Calls of the registry change one directory *)

Registries == [roots : [Dirs -> RootEntries], watches : [Dirs -> Natives],
               bad : SUBSET Calls, problem : BOOLEAN, ok : BOOLEAN]

Touches(w, v, d) ==
  /\ w \in Registries /\ v \in Registries
  /\ \A x \in Dirs \ {d} : v.roots[x] = w.roots[x] /\ v.watches[x] = w.watches[x]

LEMMA RegistryFields ==
  ASSUME NEW w \in Registries, NEW d \in Dirs
  PROVE  /\ w.roots[d] \in RootEntries /\ w.watches[d] \in Natives
         /\ w.problem \in BOOLEAN /\ w.ok \in BOOLEAN
         /\ Touches(w, w, d)
BY DEF Registries, Touches

LEMMA TouchesAgain ==
  ASSUME NEW d, NEW w, NEW u, NEW v, Touches(w, u, d), Touches(u, v, d)
  PROVE  Touches(w, v, d)
BY DEF Touches

LEMMA WatchedDoes ==
  ASSUME NEW w \in Registries, NEW d \in Dirs, NEW mode \in Natives
  PROVE  LET v == Watched(w, d, mode) IN
         /\ Touches(w, v, d) /\ v \in Registries
         /\ v.roots[d] = w.roots[d] /\ v.watches[d] = mode
         /\ v.problem = w.problem /\ v.ok = w.ok
BY DEF Registries, Touches, Watched

Put(w, d, e) == [w EXCEPT !.roots[d] = e]

LEMMA PutDoes ==
  ASSUME NEW w \in Registries, NEW d \in Dirs, NEW e \in RootEntries
  PROVE  LET v == Put(w, d, e) IN
         /\ Touches(w, v, d) /\ v \in Registries
         /\ v.roots[d] = e /\ v.watches[d] = w.watches[d]
         /\ v.problem = w.problem /\ v.ok = w.ok
BY DEF Registries, Touches, Put

LEMMA EntryDoes ==
  ASSUME NEW w \in Registries, NEW d \in Dirs, NEW e \in RootEntries
  PROVE  LET v == Entry(w, d, e) IN
         /\ Touches(w, v, d) /\ v \in Registries
         /\ v.roots[d] = Fresh(e) /\ v.watches[d] = w.watches[d]
         /\ v.problem = w.problem /\ v.ok = w.ok
<1>1. Fresh(e) \in RootEntries
  BY FreshFields
<1>2. Entry(w, d, e) = Put(w, d, Fresh(e))
  BY DEF Entry, Put, Fresh
<1> QED BY <1>1, <1>2, PutDoes

SetOk(w, o) == [w EXCEPT !.ok = o]

LEMMA SetOkDoes ==
  ASSUME NEW w \in Registries, NEW d \in Dirs, NEW o \in BOOLEAN
  PROVE  LET v == SetOk(w, o) IN
         /\ Touches(w, v, d) /\ v \in Registries
         /\ v.roots[d] = w.roots[d] /\ v.watches[d] = w.watches[d]
         /\ v.problem = w.problem /\ v.ok = o
BY DEF Registries, Touches, SetOk

Warn(w, p) == [w EXCEPT !.problem = p]

LEMMA WarnDoes ==
  ASSUME NEW w \in Registries, NEW d \in Dirs, NEW p \in BOOLEAN
  PROVE  LET v == Warn(w, p) IN
         /\ Touches(w, v, d) /\ v \in Registries
         /\ v.roots[d] = w.roots[d] /\ v.watches[d] = w.watches[d]
         /\ v.problem = p /\ v.ok = w.ok
BY DEF Registries, Touches, Warn

LEMMA FailedDoes ==
  ASSUME NEW w \in Registries, NEW d \in Dirs
  PROVE  LET v == Failed(w) IN
         /\ Touches(w, v, d) /\ v \in Registries
         /\ v.roots[d] = w.roots[d] /\ v.watches[d] = w.watches[d]
         /\ v.problem /\ ~v.ok
<1> DEFINE u == Warn(w, TRUE)
           v == SetOk(u, FALSE)
<1>1. Failed(w) = v
  BY DEF Failed, Warn, SetOk
<1>2. TRUE \in BOOLEAN /\ FALSE \in BOOLEAN
  OBVIOUS
<1>3. /\ Touches(w, u, d) /\ u \in Registries
      /\ u.roots[d] = w.roots[d] /\ u.watches[d] = w.watches[d] /\ u.problem = TRUE
  BY <1>2, WarnDoes
<1>4. /\ Touches(u, v, d) /\ v \in Registries
      /\ v.roots[d] = u.roots[d] /\ v.watches[d] = u.watches[d]
      /\ v.problem = u.problem /\ v.ok = FALSE
  BY <1>2, <1>3, SetOkDoes
<1>5. Touches(w, v, d)
  BY <1>3, <1>4, TouchesAgain
<1> HIDE DEF u, v
<1> QED BY <1>1, <1>3, <1>4, <1>5

LEMMA SwitchDoes ==
  ASSUME NEW w \in Registries, NEW d \in Dirs, NEW old \in Natives, NEW mode \in Modes
  PROVE  LET s == SwitchMode(w, d, old, mode) IN
         /\ Touches(w, s, d) /\ s \in Registries
         /\ s.ok => /\ s.roots[d] = w.roots[d] /\ s.watches[d] = mode /\ s.problem = w.problem
         /\ ~s.ok => s.problem /\ s.roots[d] \in {w.roots[d], NoEntry}
<1> DEFINE s == SwitchMode(w, d, old, mode)
<1>0. mode \in Natives /\ "None" \in Natives /\ NoEntry \in RootEntries
      /\ TRUE \in BOOLEAN
  BY NoEntryFields DEF Natives
<1>1. CASE ~CanUnwatch(w, d)
  <2>1. s = Failed(w)
    BY <1>1 DEF SwitchMode
  <2> QED BY <2>1, FailedDoes
<1>2. CASE CanUnwatch(w, d) /\ CanWatch(w, d, mode)
  <2> DEFINE u == SetOk(w, TRUE)
             v == Watched(u, d, mode)
  <2>1. s = v
    BY <1>2 DEF SwitchMode, SetOk
  <2>2. /\ Touches(w, u, d) /\ u \in Registries
        /\ u.roots[d] = w.roots[d] /\ u.problem = w.problem /\ u.ok = TRUE
    BY <1>0, SetOkDoes
  <2> HIDE DEF u
  <2>3. /\ Touches(u, v, d) /\ v \in Registries
        /\ v.roots[d] = u.roots[d] /\ v.watches[d] = mode
        /\ v.problem = u.problem /\ v.ok = u.ok
    BY <1>0, <2>2, WatchedDoes
  <2>4. Touches(w, v, d)
    BY <2>2, <2>3, TouchesAgain
  <2> HIDE DEF v
  <2> QED BY <2>1, <2>2, <2>3, <2>4
<1>3. CASE CanUnwatch(w, d) /\ ~CanWatch(w, d, mode) /\ CanWatch(w, d, old)
  <2> DEFINE u == Watched(w, d, old)
             v == Failed(u)
  <2>1. s = v
    BY <1>3 DEF SwitchMode
  <2>2. Touches(w, u, d) /\ u \in Registries /\ u.roots[d] = w.roots[d]
    BY WatchedDoes
  <2> HIDE DEF u
  <2>3. Touches(u, v, d) /\ v \in Registries /\ v.roots[d] = u.roots[d] /\ v.problem /\ ~v.ok
    BY <2>2, FailedDoes
  <2>4. Touches(w, v, d)
    BY <2>2, <2>3, TouchesAgain
  <2> HIDE DEF v
  <2> QED BY <2>1, <2>2, <2>3, <2>4
<1>4. CASE CanUnwatch(w, d) /\ ~CanWatch(w, d, mode) /\ ~CanWatch(w, d, old)
  <2> DEFINE t == Watched(w, d, "None")
             u == Put(t, d, NoEntry)
             v == Failed(u)
  <2>1. s = v
    BY <1>4 DEF SwitchMode, Put
  <2>2. Touches(w, t, d) /\ t \in Registries
    BY <1>0, WatchedDoes
  <2> HIDE DEF t
  <2>3. Touches(t, u, d) /\ u \in Registries /\ u.roots[d] = NoEntry
    BY <1>0, <2>2, PutDoes
  <2> HIDE DEF u
  <2>4. Touches(u, v, d) /\ v \in Registries /\ v.roots[d] = u.roots[d] /\ v.problem /\ ~v.ok
    BY <2>3, FailedDoes
  <2>5. Touches(w, v, d)
    BY <2>2, <2>3, <2>4, TouchesAgain
  <2> HIDE DEF v
  <2> QED BY <2>1, <2>3, <2>4, <2>5
<1> QED BY <1>1, <1>2, <1>3, <1>4

LEMMA AddDoes ==
  ASSUME NEW w \in Registries, w.ok, NEW root \in Roots
  PROVE  LET d     == root[1]
             added == Added(w.roots[d], root[2])
             v     == AddRequirement(w, root)
         IN
         /\ Touches(w, v, d) /\ v \in Registries
         /\ v.ok => /\ v.problem = w.problem /\ v.roots[d] = Fresh(added)
                    /\ \/ v.watches[d] = RequiredMode(added)
                       \/ /\ w.roots[d] # NoEntry /\ v.watches[d] = w.watches[d]
                          /\ RequiredMode(added) = w.roots[d].active
         /\ ~v.ok => v.problem /\ v.roots[d] \in {w.roots[d], NoEntry}
<1> DEFINE d     == root[1]
           current == w.roots[d]
           added == Added(current, root[2])
           v     == AddRequirement(w, root)
<1>0. /\ d \in Dirs /\ root[2] \in Modes /\ current \in RootEntries /\ w.watches[d] \in Natives
      /\ root[2] \in Natives
  BY RegistryFields DEF Roots, Natives
<1>1. added \in RootEntries /\ RequiredMode(added) \in Modes /\ current.active \in Natives
  BY <1>0, AddedFields, EntryFields
<1>2. CASE current = NoEntry /\ CanWatch(w, d, root[2])
  <2> DEFINE u == Watched(w, d, root[2])
             x == Entry(u, d, added)
  <2>1. v = x
    BY <1>2 DEF AddRequirement
  <2>2. /\ Touches(w, u, d) /\ u \in Registries
        /\ u.watches[d] = root[2] /\ u.problem = w.problem /\ u.ok = w.ok
    BY <1>0, WatchedDoes
  <2> HIDE DEF u
  <2>3. /\ Touches(u, x, d) /\ x \in Registries
        /\ x.roots[d] = Fresh(added) /\ x.watches[d] = u.watches[d]
        /\ x.problem = u.problem /\ x.ok = u.ok
    BY <1>0, <1>1, <2>2, EntryDoes
  <2>4. Touches(w, x, d)
    BY <2>2, <2>3, TouchesAgain
  <2>5. root[2] = RequiredMode(added)
    <3>1. added.Recursive = IF root[2] = "Recursive" THEN 1 ELSE 0
      BY <1>0, <1>2 DEF NoEntry, Added, Modes
    <3> QED BY <1>0, <3>1 DEF RequiredMode, Modes
  <2> HIDE DEF x, added, v, d
  <2>6. v.ok /\ v.problem = w.problem /\ v.roots[d] = Fresh(added)
        /\ v.watches[d] = RequiredMode(added)
    BY <2>1, <2>2, <2>3, <2>5
  <2> QED BY <2>1, <2>3, <2>4, <2>6 DEF d, added, v
<1>3. CASE current = NoEntry /\ ~CanWatch(w, d, root[2])
  <2>1. v = Failed(w)
    BY <1>3 DEF AddRequirement
  <2> QED BY <1>0, <2>1, FailedDoes
<1>4. CASE current # NoEntry /\ RequiredMode(added) = current.active
  <2> DEFINE x == Entry(w, d, added)
  <2>1. v = x
    BY <1>4 DEF AddRequirement
  <2>2. /\ Touches(w, x, d) /\ x \in Registries
        /\ x.roots[d] = Fresh(added) /\ x.watches[d] = w.watches[d]
        /\ x.problem = w.problem /\ x.ok = w.ok
    BY <1>0, <1>1, EntryDoes
  <2> HIDE DEF x, v, added, d
  <2> QED BY <1>4, <2>1, <2>2 DEF v, added, d
<1>5. CASE current # NoEntry /\ RequiredMode(added) # current.active
  <2> DEFINE s == SwitchMode(w, d, current.active, RequiredMode(added))
             x == Entry(s, d, added)
  <2>1. v = IF s.ok THEN x ELSE s
    BY <1>5 DEF AddRequirement
  <2>2. /\ Touches(w, s, d) /\ s \in Registries
        /\ s.ok => /\ s.watches[d] = RequiredMode(added) /\ s.problem = w.problem
        /\ ~s.ok => s.problem /\ s.roots[d] \in {current, NoEntry}
    BY <1>0, <1>1, SwitchDoes
  <2> HIDE DEF s
  <2>3. /\ Touches(s, x, d) /\ x \in Registries
        /\ x.roots[d] = Fresh(added) /\ x.watches[d] = s.watches[d]
        /\ x.problem = s.problem /\ x.ok = s.ok
    BY <1>0, <1>1, <2>2, EntryDoes
  <2>4. Touches(w, x, d)
    BY <2>2, <2>3, TouchesAgain
  <2> HIDE DEF x, added, v, d
  <2>5. CASE s.ok
    <3>1. /\ v = x /\ v.ok /\ v.problem = w.problem /\ v.roots[d] = Fresh(added)
          /\ v.watches[d] = RequiredMode(added)
      BY <2>1, <2>2, <2>3, <2>5
    <3> QED BY <2>3, <2>4, <3>1 DEF d, added, v
  <2>6. CASE ~s.ok
    <3>1. v = s
      BY <2>1, <2>6
    <3> QED BY <2>2, <2>6, <3>1 DEF d, added, v
  <2> QED BY <2>5, <2>6
<1> QED BY <1>2, <1>3, <1>4, <1>5

LEMMA RemoveDoes ==
  ASSUME NEW w \in Registries, NEW root \in Roots
  PROVE  LET d    == root[1]
             left == Removed(w.roots[d], root[2])
             v    == RemoveRequirement(w, root)
         IN
         /\ Touches(w, v, d) /\ v \in Registries /\ v.ok = w.ok
         /\ \/ w.roots[d] = NoEntry /\ v = w
            \/ v.problem /\ v.roots[d] \in {left, NoEntry}
            \/ /\ v.problem = w.problem /\ TotalRefs(left) = 0
               /\ v.roots[d] = NoEntry /\ v.watches[d] = "None"
            \/ /\ v.problem = w.problem /\ w.roots[d] # NoEntry /\ v.roots[d] = Fresh(left)
               /\ \/ v.watches[d] = RequiredMode(left)
                  \/ v.watches[d] = w.watches[d] /\ RequiredMode(left) = w.roots[d].active
<1> DEFINE d     == root[1]
           current == w.roots[d]
           left == Removed(current, root[2])
           v     == RemoveRequirement(w, root)
<1>0. /\ d \in Dirs /\ root[2] \in Modes /\ current \in RootEntries /\ "None" \in Natives
      /\ NoEntry \in RootEntries /\ TRUE \in BOOLEAN /\ w.ok \in BOOLEAN
  BY RegistryFields, NoEntryFields DEF Roots, Natives
<1>1. left \in RootEntries /\ RequiredMode(left) \in Modes /\ current.active \in Natives
  BY <1>0, RemovedFields, EntryFields
<1>3. CASE current = NoEntry
  <2>1. v = w
    BY <1>3 DEF RemoveRequirement
  <2> QED BY <1>0, <1>3, <2>1, RegistryFields
<1> DEFINE gone == Put(w, d, NoEntry)
<1>4. /\ Touches(w, gone, d) /\ gone \in Registries /\ gone.roots[d] = NoEntry
      /\ gone.problem = w.problem /\ gone.ok = w.ok
  BY <1>0, PutDoes
<1>5. CASE current # NoEntry /\ TotalRefs(left) = 0
  <2> DEFINE x == Watched(gone, d, "None")
             y == Warn(gone, TRUE)
  <2>1. v = IF CanUnwatch(w, d) THEN x ELSE y
    BY <1>5 DEF RemoveRequirement, Put, Warn
  <2> HIDE DEF gone
  <2>2. /\ Touches(gone, x, d) /\ x \in Registries /\ x.roots[d] = gone.roots[d]
        /\ x.watches[d] = "None" /\ x.problem = gone.problem /\ x.ok = gone.ok
    BY <1>0, <1>4, WatchedDoes
  <2>3. /\ Touches(gone, y, d) /\ y \in Registries /\ y.roots[d] = gone.roots[d]
        /\ y.problem = TRUE /\ y.ok = gone.ok
    BY <1>0, <1>4, WarnDoes
  <2>4. Touches(w, x, d) /\ Touches(w, y, d)
    BY <1>4, <2>2, <2>3, TouchesAgain
  <2> HIDE DEF x, y, left, v, d
  <2>5. CASE v = x
    <3>1. /\ v.problem = w.problem /\ v.roots[d] = NoEntry /\ v.watches[d] = "None"
          /\ v.ok = w.ok
      BY <1>4, <2>2, <2>5
    <3> QED BY <1>5, <2>2, <2>4, <2>5, <3>1 DEF left, v, d
  <2>6. CASE v = y
    <3>1. /\ v.problem /\ v.roots[d] = NoEntry /\ v.ok = w.ok
      BY <1>4, <2>3, <2>6
    <3> QED BY <2>3, <2>4, <2>6, <3>1 DEF left, v, d
  <2> QED BY <2>1, <2>5, <2>6
<1>7. CASE current # NoEntry /\ TotalRefs(left) # 0 /\ RequiredMode(left) = current.active
  <2>1. v = Entry(w, d, left)
    BY <1>7 DEF RemoveRequirement
  <2>2. /\ Touches(w, v, d) /\ v \in Registries
        /\ v.roots[d] = Fresh(left) /\ v.watches[d] = w.watches[d]
        /\ v.problem = w.problem /\ v.ok = w.ok
    BY <1>0, <1>1, <2>1, EntryDoes
  <2> HIDE DEF v, left, d
  <2> QED BY <1>7, <2>2 DEF v, left, d
<1>8. CASE current # NoEntry /\ TotalRefs(left) # 0 /\ RequiredMode(left) # current.active
  <2> DEFINE s == SwitchMode(w, d, current.active, RequiredMode(left))
             x == Entry(s, d, left)
             y == Put(s, d, left)
             t == IF s.ok THEN x ELSE IF s.roots[d] = NoEntry THEN s ELSE y
             z == SetOk(t, w.ok)
  <2>1. v = z
    BY <1>8 DEF RemoveRequirement, Put, SetOk
  <2>2. /\ Touches(w, s, d) /\ s \in Registries
        /\ s.ok => /\ s.watches[d] = RequiredMode(left) /\ s.problem = w.problem
        /\ ~s.ok => s.problem /\ s.roots[d] \in {current, NoEntry}
    BY <1>0, <1>1, SwitchDoes
  <2> HIDE DEF s
  <2>3. /\ Touches(s, x, d) /\ x \in Registries
        /\ x.roots[d] = Fresh(left) /\ x.watches[d] = s.watches[d] /\ x.problem = s.problem
    BY <1>0, <1>1, <2>2, EntryDoes
  <2>4. Touches(s, y, d) /\ y \in Registries /\ y.roots[d] = left /\ y.problem = s.problem
    BY <1>0, <1>1, <2>2, PutDoes
  <2>5. Touches(w, x, d) /\ Touches(w, y, d)
    BY <2>2, <2>3, <2>4, TouchesAgain
  <2> HIDE DEF x, y
  <2>6. /\ t \in Registries /\ Touches(w, t, d)
        /\ \/ /\ t.problem = w.problem /\ t.roots[d] = Fresh(left)
              /\ t.watches[d] = RequiredMode(left)
           \/ t.problem /\ t.roots[d] \in {left, NoEntry}
    <3>1. CASE s.ok
      BY <3>1, <2>2, <2>3, <2>5
    <3>2. CASE ~s.ok /\ s.roots[d] = NoEntry
      BY <3>2, <2>2
    <3>3. CASE ~s.ok /\ s.roots[d] # NoEntry
      BY <3>3, <2>2, <2>4, <2>5
    <3> QED BY <3>1, <3>2, <3>3
  <2> HIDE DEF t
  <2>7. /\ Touches(t, z, d) /\ z \in Registries
         /\ z.roots[d] = t.roots[d] /\ z.watches[d] = t.watches[d]
         /\ z.problem = t.problem /\ z.ok = w.ok
    BY <1>0, <2>6, SetOkDoes
  <2>8. Touches(w, z, d)
    BY <2>6, <2>7, TouchesAgain
  <2> HIDE DEF z, left, v, d
  <2>9. /\ v.ok = w.ok
        /\ \/ /\ v.problem = w.problem /\ v.roots[d] = Fresh(left)
              /\ v.watches[d] = RequiredMode(left)
           \/ v.problem /\ v.roots[d] \in {left, NoEntry}
    BY <2>1, <2>6, <2>7
  <2> QED BY <1>8, <2>1, <2>7, <2>8, <2>9 DEF left, v, d
<1> QED BY <1>3, <1>5, <1>7, <1>8

-----------------------------------------------------------------------------
(* Roots that answer needs *)

Needing == [Roots -> Nat]
Plus(n, rs)  == [r \in Roots |-> IF r \in rs THEN n[r] + 1 ELSE n[r]]
Minus(n, rs) == [r \in Roots |-> IF r \in rs THEN n[r] - 1 ELSE n[r]]

\* The entry e and the watch m of a directory that is needed x and y times.
Fits(e, m, x, y, clean) ==
  /\ e.NonRecursive <= x /\ e.Recursive <= y
  /\ clean => /\ e.NonRecursive = x /\ e.Recursive = y
              /\ e # NoEntry => e.active = RequiredMode(e)
              /\ m \in {e.active, "None"}
Answering(rts, wts, n, clean) ==
  \A d \in Dirs :
    Fits(rts[d], wts[d], n[<<d, "NonRecursive">>], n[<<d, "Recursive">>], clean)
Answers(w, n, clean) == Answering(w.roots, w.watches, n, clean /\ ~w.problem)

LEMMA NeedsOf ==
  ASSUME NEW n \in Needing, NEW d \in Dirs
  PROVE  n[<<d, "NonRecursive">>] \in Nat /\ n[<<d, "Recursive">>] \in Nat
BY DEF Needing, Roots, Modes

LEMMA PlusOne ==
  ASSUME NEW n \in Needing, NEW root \in Roots
  PROVE  /\ Plus(n, {root}) \in Needing
         /\ \A d \in Dirs, mode \in Modes :
              Plus(n, {root})[<<d, mode>>]
              = n[<<d, mode>>] + (IF d = root[1] /\ mode = root[2] THEN 1 ELSE 0)
BY DEF Needing, Roots, Plus

LEMMA MinusOne ==
  ASSUME NEW n \in Needing, NEW root \in Roots, n[root] > 0
  PROVE  /\ Minus(n, {root}) \in Needing
         /\ \A d \in Dirs, mode \in Modes :
              Minus(n, {root})[<<d, mode>>]
              = n[<<d, mode>>] - (IF d = root[1] /\ mode = root[2] THEN 1 ELSE 0)
BY DEF Needing, Roots, Minus

Lost(rts, wts) == {d \in Dirs : rts[d] # NoEntry /\ wts[d] = "None"}

\* What may come of calls of the registry: a problem, or no watch is lost.
Goes(w, v) ==
  /\ w.problem => v.problem
  /\ v.problem \/ Lost(v.roots, v.watches) \subseteq Lost(w.roots, w.watches)

LEMMA GoesOn == ASSUME NEW w, NEW u, NEW v, Goes(w, u), Goes(u, v) PROVE Goes(w, v)
BY DEF Goes

LEMMA TouchedGoes ==
  ASSUME NEW w, NEW v, NEW d \in Dirs, Touches(w, v, d), w.problem => v.problem,
         \/ v.problem
         \/ v.roots[d] = NoEntry \/ v.watches[d] # "None"
         \/ w.roots[d] # NoEntry /\ v.watches[d] = w.watches[d]
  PROVE  Goes(w, v)
BY DEF Goes, Lost, Touches

\* Only the directory that was touched needs a look.
LEMMA TouchedAnswers ==
  ASSUME NEW w, NEW v, NEW d \in Dirs, Touches(w, v, d), NEW n, NEW k, NEW clean \in BOOLEAN,
         Answers(w, n, clean), w.problem => v.problem,
         \A x \in Dirs \ {d}, mode \in Modes : k[<<x, mode>>] = n[<<x, mode>>],
         Fits(v.roots[d], v.watches[d], k[<<d, "NonRecursive">>], k[<<d, "Recursive">>],
              clean /\ ~v.problem)
  PROVE  Answers(v, k, clean)
<1> SUFFICES ASSUME NEW x \in Dirs \ {d}
             PROVE  Fits(v.roots[x], v.watches[x], k[<<x, "NonRecursive">>],
                         k[<<x, "Recursive">>], clean /\ ~v.problem)
  BY DEF Answers, Answering
<1>1. Fits(w.roots[x], w.watches[x], n[<<x, "NonRecursive">>], n[<<x, "Recursive">>],
           clean /\ ~w.problem)
  BY DEF Answers, Answering
<1>2. k[<<x, "NonRecursive">>] = n[<<x, "NonRecursive">>]
      /\ k[<<x, "Recursive">>] = n[<<x, "Recursive">>]
  BY DEF Modes
<1>3. v.roots[x] = w.roots[x] /\ v.watches[x] = w.watches[x]
  BY DEF Touches
<1> QED BY <1>1, <1>2, <1>3 DEF Fits

LEMMA AddAnswers ==
  ASSUME NEW w \in Registries, w.ok, NEW root \in Roots, NEW n \in Needing,
         NEW clean \in BOOLEAN, Answers(w, n, clean)
  PROVE  LET v == AddRequirement(w, root) IN
         /\ v \in Registries /\ Goes(w, v)
         /\ v.ok => Answers(v, Plus(n, {root}), clean)
         /\ ~v.ok => v.problem /\ Answers(v, n, clean)
<1> DEFINE d     == root[1]
           added == Added(w.roots[d], root[2])
           v     == AddRequirement(w, root)
           k     == Plus(n, {root})
<1>0. /\ d \in Dirs /\ root[2] \in Modes /\ w.roots[d] \in RootEntries
      /\ w.problem \in BOOLEAN
  BY RegistryFields DEF Roots
<1>1. /\ Touches(w, v, d) /\ v \in Registries
      /\ v.ok => /\ v.problem = w.problem /\ v.roots[d] = Fresh(added)
                 /\ \/ v.watches[d] = RequiredMode(added)
                    \/ /\ w.roots[d] # NoEntry /\ v.watches[d] = w.watches[d]
                       /\ RequiredMode(added) = w.roots[d].active
      /\ ~v.ok => v.problem /\ v.roots[d] \in {w.roots[d], NoEntry}
  BY AddDoes
<1>2. /\ added \in RootEntries /\ RequiredMode(added) \in Modes
      /\ Fresh(added) \in RootEntries /\ Fresh(added) # NoEntry
      /\ Fresh(added).active = RequiredMode(added)
      /\ RequiredMode(Fresh(added)) = RequiredMode(added)
  BY <1>0, AddedFields, EntryFields, FreshFields
<1>3. /\ Fresh(added).NonRecursive
         = w.roots[d].NonRecursive + (IF root[2] = "NonRecursive" THEN 1 ELSE 0)
      /\ Fresh(added).Recursive
         = w.roots[d].Recursive + (IF root[2] = "Recursive" THEN 1 ELSE 0)
  BY <1>0, <1>2, AddedFields, EntryFields, FreshFields DEF Modes
<1>4. k \in Needing /\ \A x \in Dirs, mode \in Modes :
        k[<<x, mode>>] = n[<<x, mode>>] + (IF x = d /\ mode = root[2] THEN 1 ELSE 0)
  BY PlusOne
<1>5. Fits(w.roots[d], w.watches[d], n[<<d, "NonRecursive">>], n[<<d, "Recursive">>],
           clean /\ ~w.problem)
  BY <1>0 DEF Answers, Answering
<1>6. w.roots[d].NonRecursive \in Nat /\ w.roots[d].Recursive \in Nat
      /\ n[<<d, "NonRecursive">>] \in Nat /\ n[<<d, "Recursive">>] \in Nat
  BY <1>0, EntryFields, NeedsOf
<1> HIDE DEF d, v, k, added
<1>7. Goes(w, v)
  <2>1. "None" \notin Modes
    BY DEF Modes
  <2> QED BY <1>0, <1>1, <1>2, <2>1, TouchedGoes
<1>8. CASE v.ok
  <2>1. k[<<d, "NonRecursive">>]
        = n[<<d, "NonRecursive">>] + (IF root[2] = "NonRecursive" THEN 1 ELSE 0)
        /\ k[<<d, "Recursive">>]
        = n[<<d, "Recursive">>] + (IF root[2] = "Recursive" THEN 1 ELSE 0)
    BY <1>0, <1>4 DEF Modes
  <2>2. Fits(v.roots[d], v.watches[d], k[<<d, "NonRecursive">>], k[<<d, "Recursive">>],
             clean /\ ~v.problem)
    <3>1. v.roots[d].NonRecursive <= k[<<d, "NonRecursive">>]
          /\ v.roots[d].Recursive <= k[<<d, "Recursive">>]
      BY <1>1, <1>3, <1>5, <1>6, <1>8, <2>1 DEF Fits
    <3>2. ASSUME clean, ~v.problem
          PROVE  /\ v.roots[d].NonRecursive = k[<<d, "NonRecursive">>]
                 /\ v.roots[d].Recursive = k[<<d, "Recursive">>]
                 /\ v.roots[d].active = RequiredMode(v.roots[d])
                 /\ v.watches[d] \in {v.roots[d].active, "None"}
      <4>1. w.problem = FALSE /\ clean = TRUE
        BY <1>0, <1>1, <1>8, <3>2
      <4>2. v.roots[d].NonRecursive = k[<<d, "NonRecursive">>]
            /\ v.roots[d].Recursive = k[<<d, "Recursive">>]
        BY <1>1, <1>3, <1>5, <1>6, <1>8, <2>1, <4>1 DEF Fits
      <4>3. v.watches[d] \in {v.roots[d].active, "None"}
        BY <1>1, <1>2, <1>5, <1>8, <4>1 DEF Fits
      <4> QED BY <1>1, <1>2, <1>8, <4>2, <4>3
    <3> QED BY <3>1, <3>2 DEF Fits
  <2>3. \A x \in Dirs \ {d}, mode \in Modes : k[<<x, mode>>] = n[<<x, mode>>]
    <3> SUFFICES ASSUME NEW x \in Dirs \ {d}, NEW mode \in Modes
                 PROVE  k[<<x, mode>>] = n[<<x, mode>>]
      OBVIOUS
    <3>1. n[<<x, mode>>] \in Nat
      BY DEF Needing, Roots
    <3> QED BY <1>4, <3>1
  <2>4. Answers(v, k, clean)
    BY <1>0, <1>1, <1>8, <2>2, <2>3, TouchedAnswers
  <2> QED BY <1>1, <1>7, <1>8, <2>4 DEF v, k
<1>9. CASE ~v.ok
  <2>1. v.roots[d].NonRecursive <= n[<<d, "NonRecursive">>]
        /\ v.roots[d].Recursive <= n[<<d, "Recursive">>]
    BY <1>1, <1>5, <1>6, <1>9 DEF Fits, NoEntry
  <2>2. Fits(v.roots[d], v.watches[d], n[<<d, "NonRecursive">>], n[<<d, "Recursive">>],
             clean /\ ~v.problem)
    BY <1>1, <1>9, <2>1 DEF Fits
  <2>3. Answers(v, n, clean)
    BY <1>0, <1>1, <1>9, <2>2, TouchedAnswers
  <2> QED BY <1>1, <1>7, <1>9, <2>3 DEF v, k
<1> QED BY <1>8, <1>9

LEMMA RemoveAnswers ==
  ASSUME NEW w \in Registries, NEW root \in Roots, NEW n \in Needing, n[root] > 0,
         NEW clean \in BOOLEAN, Answers(w, n, clean)
  PROVE  LET v == RemoveRequirement(w, root) IN
         /\ v \in Registries /\ Goes(w, v) /\ v.ok = w.ok
         /\ Answers(v, Minus(n, {root}), clean)
<1> DEFINE d    == root[1]
           left == Removed(w.roots[d], root[2])
           v    == RemoveRequirement(w, root)
           k    == Minus(n, {root})
           lx == left.NonRecursive
           ly == left.Recursive
           kx == k[<<d, "NonRecursive">>]
           ky == k[<<d, "Recursive">>]
<1>0. /\ d \in Dirs /\ root[2] \in Modes /\ w.roots[d] \in RootEntries
      /\ w.problem \in BOOLEAN /\ root = <<d, root[2]>>
  BY RegistryFields DEF Roots
<1>1. /\ Touches(w, v, d) /\ v \in Registries /\ v.ok = w.ok
      /\ \/ w.roots[d] = NoEntry /\ v = w
         \/ v.problem /\ v.roots[d] \in {left, NoEntry}
         \/ /\ v.problem = w.problem /\ TotalRefs(left) = 0
            /\ v.roots[d] = NoEntry /\ v.watches[d] = "None"
         \/ /\ v.problem = w.problem /\ w.roots[d] # NoEntry /\ v.roots[d] = Fresh(left)
            /\ \/ v.watches[d] = RequiredMode(left)
               \/ v.watches[d] = w.watches[d] /\ RequiredMode(left) = w.roots[d].active
  BY RemoveDoes
<1>2. /\ left \in RootEntries /\ RequiredMode(left) \in Modes
      /\ Fresh(left).active = RequiredMode(left)
      /\ RequiredMode(Fresh(left)) = RequiredMode(left)
      /\ Fresh(left).NonRecursive = lx /\ Fresh(left).Recursive = ly
      /\ lx \in Nat /\ ly \in Nat
  BY <1>0, RemovedFields, EntryFields, FreshFields DEF Modes
<1>3. /\ lx = IF root[2] = "NonRecursive" /\ w.roots[d].NonRecursive # 0
              THEN w.roots[d].NonRecursive - 1 ELSE w.roots[d].NonRecursive
      /\ ly = IF root[2] = "Recursive" /\ w.roots[d].Recursive # 0
              THEN w.roots[d].Recursive - 1 ELSE w.roots[d].Recursive
  BY <1>0, <1>2, RemovedFields, EntryFields DEF Modes
<1>4. k \in Needing /\ \A x \in Dirs, mode \in Modes :
        k[<<x, mode>>] = n[<<x, mode>>] - (IF x = d /\ mode = root[2] THEN 1 ELSE 0)
  BY MinusOne
<1>5. Fits(w.roots[d], w.watches[d], n[<<d, "NonRecursive">>], n[<<d, "Recursive">>],
           clean /\ ~w.problem)
  BY <1>0 DEF Answers, Answering
<1>6. w.roots[d].NonRecursive \in Nat /\ w.roots[d].Recursive \in Nat
      /\ n[<<d, "NonRecursive">>] \in Nat /\ n[<<d, "Recursive">>] \in Nat
      /\ kx \in Nat /\ ky \in Nat
  BY <1>0, <1>4, EntryFields, NeedsOf
<1>7. /\ kx = n[<<d, "NonRecursive">>] - (IF root[2] = "NonRecursive" THEN 1 ELSE 0)
      /\ ky = n[<<d, "Recursive">>] - (IF root[2] = "Recursive" THEN 1 ELSE 0)
      /\ n[<<d, root[2]>>] > 0
  BY <1>0, <1>4 DEF Modes
<1>8. lx <= kx /\ ly <= ky
  BY <1>0, <1>3, <1>5, <1>6, <1>7 DEF Fits, Modes
<1>9. ASSUME clean, ~w.problem
      PROVE  /\ lx = kx /\ ly = ky /\ w.roots[d] # NoEntry
             /\ w.watches[d] \in {w.roots[d].active, "None"}
  <2>1. clean = TRUE /\ w.problem = FALSE
    BY <1>0, <1>9
  <2>2. /\ w.roots[d].NonRecursive = n[<<d, "NonRecursive">>]
        /\ w.roots[d].Recursive = n[<<d, "Recursive">>]
        /\ w.watches[d] \in {w.roots[d].active, "None"}
    BY <1>5, <2>1 DEF Fits
  <2>3. lx = kx /\ ly = ky
    BY <1>0, <1>3, <1>6, <1>7, <2>2 DEF Modes
  <2>4. w.roots[d] # NoEntry
    BY <1>0, <1>6, <1>7, <2>2 DEF Modes, NoEntry
  <2> QED BY <2>2, <2>3, <2>4
<1>10. w.problem => v.problem
  BY <1>1
<1>11. NoEntry.NonRecursive = 0 /\ NoEntry.Recursive = 0 /\ NoEntry.active = "None"
  BY DEF NoEntry
<1>14. TotalRefs(left) = 0 => lx = 0 /\ ly = 0
  BY <1>2 DEF TotalRefs
<1> HIDE DEF d, v, k, left
<1>12. Goes(w, v)
  <2>1. "None" \notin Modes
    BY DEF Modes
  <2>2. CASE v = w
    BY <2>2 DEF Goes
  <2>3. CASE v # w
    BY <1>0, <1>1, <1>2, <1>10, <2>1, <2>3, TouchedGoes
  <2> QED BY <2>2, <2>3
<1>13. Fits(v.roots[d], v.watches[d], kx, ky, clean /\ ~v.problem)
  <2>1. CASE w.roots[d] = NoEntry /\ v = w
    <3>1. ~(clean /\ ~w.problem)
      BY <1>9, <2>1
    <3> QED BY <1>6, <1>11, <2>1, <3>1 DEF Fits
  <2>2. CASE v.problem /\ v.roots[d] \in {left, NoEntry}
    BY <1>6, <1>8, <1>11, <2>2 DEF Fits
  <2>3. CASE v.problem = w.problem /\ TotalRefs(left) = 0
             /\ v.roots[d] = NoEntry /\ v.watches[d] = "None"
    <3>1. clean /\ ~v.problem => kx = 0 /\ ky = 0
      BY <1>9, <1>14, <2>3
    <3> QED BY <1>6, <1>11, <2>3, <3>1 DEF Fits
  <2>4. CASE /\ v.problem = w.problem /\ v.roots[d] = Fresh(left)
             /\ \/ v.watches[d] = RequiredMode(left)
                \/ v.watches[d] = w.watches[d] /\ RequiredMode(left) = w.roots[d].active
    <3>1. ASSUME clean, ~v.problem
          PROVE  lx = kx /\ ly = ky /\ v.watches[d] \in {RequiredMode(left), "None"}
      BY <1>9, <2>4, <3>1
    <3> QED BY <1>2, <1>8, <2>4, <3>1 DEF Fits
  <2> QED BY <1>1, <2>1, <2>2, <2>3, <2>4
<1>15. \A x \in Dirs \ {d}, mode \in Modes : k[<<x, mode>>] = n[<<x, mode>>]
  <2> SUFFICES ASSUME NEW x \in Dirs \ {d}, NEW mode \in Modes
               PROVE  k[<<x, mode>>] = n[<<x, mode>>]
    OBVIOUS
  <2>1. n[<<x, mode>>] \in Nat
    BY DEF Needing, Roots
  <2> QED BY <1>4, <2>1
<1>16. Answers(v, k, clean)
  BY <1>0, <1>1, <1>10, <1>13, <1>15, TouchedAnswers
<1> QED BY <1>1, <1>12, <1>16 DEF v, k

-----------------------------------------------------------------------------
(* Acquiring and releasing the roots of a target *)

\* A target has two roots at most.
Small(rs) == rs \subseteq Roots /\ \A r, s, t \in rs : r = s \/ s = t \/ r = t

LEMMA SmallIsInherited == ASSUME NEW rs, Small(rs), NEW ss, ss \subseteq rs PROVE Small(ss)
BY DEF Small

LEMMA OuterIsIn ==
  ASSUME NEW rs, Small(rs), rs # {}
  PROVE  Outer(rs) \in rs
<1>1. \A r \in rs : r[1] \in Nat
  BY BoundsAreNatural DEF Small, Roots, Dirs
<1>2. \E r \in rs : \A s \in rs : r[1] <= s[1]
  <2>1. PICK r \in rs : TRUE
    OBVIOUS
  <2>2. CASE \A s \in rs : r[1] <= s[1]
    BY <2>1, <2>2
  <2>3. CASE \E s \in rs : s[1] < r[1]
    <3>1. PICK s \in rs : s[1] < r[1]
      BY <2>3
    <3>2. \A t \in rs : t = r \/ t = s
      BY <1>1, <3>1 DEF Small
    <3>3. \A t \in rs : s[1] <= t[1]
      BY <1>1, <3>1, <3>2
    <3> QED BY <3>3
  <2> QED BY <1>1, <2>2, <2>3
<1> QED BY <1>2 DEF Outer

LEMMA OuterAndInner ==
  ASSUME NEW rs, Small(rs), rs # {}
  PROVE  /\ Outer(rs) \in Roots
         /\ Inner(rs) = {} => rs = {Outer(rs)}
         /\ Inner(rs) # {} => /\ Outer(Inner(rs)) \in Roots /\ Outer(Inner(rs)) # Outer(rs)
                              /\ rs = {Outer(rs), Outer(Inner(rs))}
<1>1. Outer(rs) \in rs
  BY OuterIsIn
<1>2. Inner(rs) # {} => Outer(Inner(rs)) \in Inner(rs)
  BY SmallIsInherited, OuterIsIn DEF Inner
<1> QED BY <1>1, <1>2 DEF Inner, Small

LEMMA PlusTwo ==
  ASSUME NEW n \in Needing, NEW a \in Roots, NEW b \in Roots, a # b
  PROVE  Plus(Plus(n, {a}), {b}) = Plus(n, {a, b})
BY DEF Needing, Plus

LEMMA MinusTwo ==
  ASSUME NEW n \in Needing, NEW a \in Roots, NEW b \in Roots, a # b
  PROVE  Minus(Minus(n, {a}), {b}) = Minus(n, {a, b})
BY DEF Needing, Minus

LEMMA PlusMinus ==
  ASSUME NEW n \in Needing, NEW a \in Roots
  PROVE  Minus(Plus(n, {a}), {a}) = n /\ Plus(n, {a})[a] > 0
BY DEF Needing, Plus, Minus

LEMMA NothingMore ==
  ASSUME NEW n \in Needing
  PROVE  Plus(n, {}) = n /\ Minus(n, {}) = n
BY DEF Needing, Plus, Minus

LEMMA AcquireAnswers ==
  ASSUME NEW w \in Registries, w.ok, NEW rs, Small(rs), NEW n \in Needing,
         NEW clean \in BOOLEAN, Answers(w, n, clean)
  PROVE  LET v == Acquire(w, rs) IN
         /\ v \in Registries /\ Goes(w, v)
         /\ v.ok => Answers(v, Plus(n, rs), clean)
         /\ ~v.ok => v.problem /\ Answers(v, n, clean)
<1> DEFINE v == Acquire(w, rs)
           a == Outer(rs)
           b == Outer(Inner(rs))
           s == AddRequirement(w, a)
           t == AddRequirement(s, b)
           u == RemoveRequirement(t, a)
           m == Plus(n, {a})
<1>1. CASE rs = {}
  <2>1. v = w
    BY <1>1 DEF Acquire
  <2>2. Goes(w, w)
    BY DEF Goes
  <2> HIDE DEF v
  <2> QED BY <1>1, <2>1, <2>2, NothingMore DEF v
<1>2. CASE rs # {}
  <2>1. /\ a \in Roots
        /\ Inner(rs) = {} => rs = {a}
        /\ Inner(rs) # {} => b \in Roots /\ b # a /\ rs = {a, b}
    BY <1>2, OuterAndInner
  <2>2. v = IF ~s.ok \/ Inner(rs) = {} THEN s ELSE IF t.ok THEN t ELSE u
    BY <1>2 DEF Acquire
  <2>3. /\ s \in Registries /\ Goes(w, s)
        /\ s.ok => Answers(s, m, clean)
        /\ ~s.ok => s.problem /\ Answers(s, n, clean)
    BY <2>1, AddAnswers
  <2>4. m \in Needing
    BY <2>1, PlusOne
  <2> HIDE DEF s, v, a, b, m
  <2>5. CASE ~s.ok
    <3>1. v = s
      BY <2>2, <2>5
    <3> QED BY <2>3, <2>5, <3>1 DEF v
  <2>6. CASE s.ok /\ Inner(rs) = {}
    <3>1. v = s /\ m = Plus(n, rs)
      BY <2>1, <2>2, <2>6 DEF m
    <3> QED BY <2>3, <2>6, <3>1 DEF v
  <2>7. CASE s.ok /\ Inner(rs) # {}
    <3>1. /\ t \in Registries /\ Goes(s, t)
          /\ t.ok => Answers(t, Plus(m, {b}), clean)
          /\ ~t.ok => t.problem /\ Answers(t, m, clean)
      BY <2>1, <2>3, <2>4, <2>7, AddAnswers
    <3>2. Goes(w, t)
      BY <2>3, <3>1, GoesOn
    <3>3. Plus(m, {b}) = Plus(n, rs)
      BY <2>1, <2>7, PlusTwo DEF m
    <3> HIDE DEF t
    <3>4. CASE t.ok
      <4>1. v = t
        BY <2>2, <2>7, <3>4
      <4> QED BY <3>1, <3>2, <3>3, <3>4, <4>1 DEF v
    <3>5. CASE ~t.ok
      <4>1. v = u
        BY <2>2, <2>7, <3>5
      <4>2. m[a] > 0 /\ Minus(m, {a}) = n
        BY <2>1, PlusMinus DEF m
      <4>3. /\ u \in Registries /\ Goes(t, u) /\ u.ok = t.ok
            /\ Answers(u, Minus(m, {a}), clean)
        BY <2>1, <2>4, <3>1, <3>5, <4>2, RemoveAnswers
      <4>4. Goes(w, u)
        BY <3>2, <4>3, GoesOn
      <4>5. u.problem /\ ~u.ok
        BY <3>1, <3>5, <4>3 DEF Goes
      <4> HIDE DEF u
      <4> QED BY <4>1, <4>2, <4>3, <4>4, <4>5 DEF v
    <3> QED BY <3>4, <3>5
  <2> QED BY <2>5, <2>6, <2>7
<1> QED BY <1>1, <1>2

LEMMA RemoveAllAnswers ==
  ASSUME NEW w \in Registries, NEW rs, Small(rs), NEW n \in Needing,
         \A r \in rs : n[r] > 0, NEW clean \in BOOLEAN, Answers(w, n, clean)
  PROVE  LET v == RemoveAll(w, rs) IN
         /\ v \in Registries /\ Goes(w, v)
         /\ Answers(v, Minus(n, rs), clean)
<1> DEFINE v == RemoveAll(w, rs)
           a == Outer(rs)
           b == Outer(Inner(rs))
           s == RemoveRequirement(w, a)
           t == RemoveRequirement(s, b)
           m == Minus(n, {a})
<1>1. CASE rs = {}
  <2>1. v = w
    BY <1>1 DEF RemoveAll
  <2>2. Goes(w, w)
    BY DEF Goes
  <2> HIDE DEF v
  <2> QED BY <1>1, <2>1, <2>2, NothingMore DEF v
<1>2. CASE rs # {}
  <2>1. /\ a \in Roots
        /\ Inner(rs) = {} => rs = {a}
        /\ Inner(rs) # {} => b \in Roots /\ b # a /\ rs = {a, b}
    BY <1>2, OuterAndInner
  <2>2. v = IF Inner(rs) = {} THEN s ELSE t
    BY <1>2 DEF RemoveAll
  <2>3. n[a] > 0
    BY <2>1
  <2>4. /\ s \in Registries /\ Goes(w, s) /\ Answers(s, m, clean)
    BY <2>1, <2>3, RemoveAnswers
  <2>5. m \in Needing
    BY <2>1, <2>3, MinusOne
  <2> HIDE DEF s, v, a, b
  <2>6. CASE Inner(rs) = {}
    <3>1. v = s /\ m = Minus(n, rs)
      BY <2>1, <2>2, <2>6 
    <3> QED BY <2>4, <3>1 DEF v
  <2>7. CASE Inner(rs) # {}
    <3>1. m[b] > 0
      BY <2>1, <2>7 DEF Minus
    <3>2. t \in Registries /\ Goes(s, t) /\ Answers(t, Minus(m, {b}), clean)
      BY <2>1, <2>4, <2>5, <2>7, <3>1, RemoveAnswers
    <3>3. Goes(w, t)
      BY <2>4, <3>2, GoesOn
    <3>4. Minus(m, {b}) = Minus(n, rs)
      BY <2>1, <2>7, MinusTwo
    <3>5. v = t
      BY <2>2, <2>7
    <3> HIDE DEF t, m
    <3> QED BY <3>2, <3>3, <3>4, <3>5 DEF v
  <2> QED BY <2>6, <2>7
<1> QED BY <1>1, <1>2

-----------------------------------------------------------------------------
(* Counting needs; repair and reattach *)

RegStates == {"Unused", "Bound", "Dropped", "Gone"}
Registrations == [state : RegStates, target : Targets, roots : SUBSET Roots]

NeedOf(rs) == [r \in Roots |-> Needs(rs, r[1], r[2])]
Needers(rs, r) == {id \in Ids : r \in rs[id].roots}

LEMMA IdsAreFinite == IsFiniteSet(Ids)
BY FS_Interval, BoundsAreNatural DEF Ids

LEMMA NeedIsCounted ==
  ASSUME NEW rs, NEW r \in Roots
  PROVE  /\ IsFiniteSet(Needers(rs, r)) /\ Cardinality(Needers(rs, r)) \in Nat
         /\ NeedOf(rs)[r] = Cardinality(Needers(rs, r))
<1>1. IsFiniteSet(Needers(rs, r))
  BY IdsAreFinite, FS_Subset DEF Needers
<1>2. r = <<r[1], r[2]>>
  BY DEF Roots
<1>3. Needs(rs, r[1], r[2]) = Cardinality(Needers(rs, r))
  BY <1>2 DEF Needs, Needers
<1> QED BY <1>1, <1>3, FS_CardinalityType DEF NeedOf

LEMMA NeedOfType == ASSUME NEW rs PROVE NeedOf(rs) \in Needing
<1>1. \A r \in Roots : Needs(rs, r[1], r[2]) \in Nat
  BY NeedIsCounted DEF NeedOf
<1> QED BY <1>1 DEF NeedOf, Needing

LEMMA WhoHasNeeds ==
  ASSUME NEW rs, NEW id \in Ids, NEW r \in Roots, r \in rs[id].roots
  PROVE  NeedOf(rs)[r] > 0
<1>1. Needers(rs, r) # {}
  BY DEF Needers
<1>2. Cardinality(Needers(rs, r)) # 0
  BY <1>1, NeedIsCounted, FS_EmptySet
<1> QED BY <1>2, NeedIsCounted

LEMMA NeedMoves ==
  ASSUME NEW rs, NEW ss, NEW id \in Ids,
         NEW old \in SUBSET Roots, NEW new \in SUBSET Roots,
         rs[id].roots = old, ss[id].roots = new,
         \A other \in Ids \ {id} : ss[other].roots = rs[other].roots
  PROVE  NeedOf(ss) = Minus(Plus(NeedOf(rs), new \ old), old \ new)
<1> SUFFICES ASSUME NEW r \in Roots
             PROVE  NeedOf(ss)[r] = IF r \in old \ new THEN NeedOf(rs)[r] - 1
                                    ELSE IF r \in new \ old THEN NeedOf(rs)[r] + 1
                                    ELSE NeedOf(rs)[r]
  <2>1. NeedOf(ss) \in Needing /\ NeedOf(rs) \in Needing
    BY NeedOfType
  <2>2. Minus(Plus(NeedOf(rs), new \ old), old \ new)
        = [r \in Roots |-> IF r \in old \ new THEN NeedOf(rs)[r] - 1
                           ELSE IF r \in new \ old THEN NeedOf(rs)[r] + 1
                           ELSE NeedOf(rs)[r]]
    BY DEF Minus, Plus
  <2>3. NeedOf(ss) = [r \in Roots |-> NeedOf(ss)[r]]
    BY <2>1 DEF Needing
  <2> QED BY <2>1, <2>2, <2>3
<1>1. /\ IsFiniteSet(Needers(rs, r)) /\ Cardinality(Needers(rs, r)) \in Nat
      /\ NeedOf(rs)[r] = Cardinality(Needers(rs, r))
      /\ IsFiniteSet(Needers(ss, r)) /\ Cardinality(Needers(ss, r)) \in Nat
      /\ NeedOf(ss)[r] = Cardinality(Needers(ss, r))
  BY NeedIsCounted
<1>2. CASE r \in old \ new
  <2>1. Needers(ss, r) = Needers(rs, r) \ {id} /\ id \in Needers(rs, r)
    BY <1>2 DEF Needers
  <2> QED BY <1>1, <1>2, <2>1, FS_RemoveElement
<1>3. CASE r \in new \ old
  <2>1. Needers(ss, r) = Needers(rs, r) \cup {id} /\ id \notin Needers(rs, r)
    BY <1>3 DEF Needers
  <2> QED BY <1>1, <1>3, <2>1, FS_AddElement
<1>4. CASE r \notin old \ new /\ r \notin new \ old
  <2>1. Needers(ss, r) = Needers(rs, r)
    BY <1>4 DEF Needers
  <2> QED BY <1>1, <1>4, <2>1
<1> QED BY <1>2, <1>3, <1>4

LEMMA NeedGrows ==
  ASSUME NEW rs, NEW ss, NEW id \in Ids, NEW new \in SUBSET Roots,
         rs[id].roots = {}, ss[id].roots = new,
         \A other \in Ids \ {id} : ss[other].roots = rs[other].roots
  PROVE  NeedOf(ss) = Plus(NeedOf(rs), new)
<1>1. PICK old \in SUBSET Roots : old = {}
  OBVIOUS
<1>0. /\ rs[id].roots = old /\ ss[id].roots = new
      /\ \A other \in Ids \ {id} : ss[other].roots = rs[other].roots
  BY <1>1
<1>2. NeedOf(ss) = Minus(Plus(NeedOf(rs), new \ old), old \ new)
  BY ONLY <1>0, NeedMoves
<1>3. new \ old = new /\ old \ new = {}
  BY <1>1
<1>4. Plus(NeedOf(rs), new) \in Needing
  BY NeedOfType DEF Needing, Plus
<1> QED BY <1>2, <1>3, <1>4, NothingMore

LEMMA NeedShrinks ==
  ASSUME NEW rs, NEW ss, NEW id \in Ids, NEW old \in SUBSET Roots,
         rs[id].roots = old, ss[id].roots = {},
         \A other \in Ids \ {id} : ss[other].roots = rs[other].roots
  PROVE  NeedOf(ss) = Minus(NeedOf(rs), old)
<1>1. PICK new \in SUBSET Roots : new = {}
  OBVIOUS
<1>2. NeedOf(ss) = Minus(Plus(NeedOf(rs), new \ old), old \ new)
  BY <1>1, NeedMoves
<1>3. new \ old = {} /\ old \ new = old
  BY <1>1
<1> QED BY <1>2, <1>3, NeedOfType, NothingMore

LEMMA NeedStays ==
  ASSUME NEW rs, NEW ss, \A id \in Ids : ss[id].roots = rs[id].roots
  PROVE  NeedOf(ss) = NeedOf(rs)
<1>1. \A r \in Roots : Needers(ss, r) = Needers(rs, r)
  BY DEF Needers
<1>2. \A r \in Roots : NeedOf(ss)[r] = NeedOf(rs)[r]
  BY <1>1, NeedIsCounted
<1> QED BY <1>2 DEF NeedOf

LEMMA NeededEntryFields ==
  ASSUME NEW rs, NEW d \in Dirs
  PROVE  /\ NeededEntry(rs, d) \in RootEntries
         /\ NeededEntry(rs, d).NonRecursive = NeedOf(rs)[<<d, "NonRecursive">>]
         /\ NeededEntry(rs, d).Recursive = NeedOf(rs)[<<d, "Recursive">>]
<1>1. NeedOf(rs) \in Needing
  BY NeedOfType
<1>2. /\ NeedOf(rs)[<<d, "NonRecursive">>] = Needs(rs, d, "NonRecursive")
      /\ NeedOf(rs)[<<d, "Recursive">>] = Needs(rs, d, "Recursive")
  BY DEF NeedOf, Roots, Modes
<1>3. Needs(rs, d, "NonRecursive") \in Nat /\ Needs(rs, d, "Recursive") \in Nat
  BY <1>1, <1>2, NeedsOf
<1> QED BY <1>2, <1>3 DEF NeededEntry, RootEntries

LEMMA RepairAnswers ==
  ASSUME NEW w \in Registries, NEW rs, NEW clean \in BOOLEAN, Answers(w, NeedOf(rs), clean)
  PROVE  LET v == Repair(w, rs) IN
         v \in Registries /\ Goes(w, v) /\ Answers(v, NeedOf(rs), clean)
<1> DEFINE v == Repair(w, rs)
           missing == {d \in Dirs : w.roots[d] = NoEntry /\ NeededEntry(rs, d) # NoEntry}
           mode(d) == RequiredMode(NeededEntry(rs, d))
           mended  == {d \in missing : CanWatch(w, d, mode(d))}
           p == w.problem \/ mended # missing
           rts == [d \in Dirs |-> IF d \in mended
                                  THEN [NeededEntry(rs, d) EXCEPT !.active = mode(d)]
                                  ELSE w.roots[d]]
           wts == [d \in Dirs |-> IF d \in mended THEN mode(d) ELSE w.watches[d]]
<1>1. v = [w EXCEPT !.watches = wts, !.roots = rts, !.problem = p]
  BY DEF Repair
<1>2. \A d \in Dirs : /\ NeededEntry(rs, d) \in RootEntries /\ mode(d) \in Modes
                      /\ [NeededEntry(rs, d) EXCEPT !.active = mode(d)] = Fresh(NeededEntry(rs, d))
                      /\ Fresh(NeededEntry(rs, d)) \in RootEntries
  BY NeededEntryFields, EntryFields, FreshFields DEF Fresh
<1>3. \A d \in Dirs : w.roots[d] \in RootEntries /\ w.watches[d] \in Natives
  BY RegistryFields
<1>4. mended \subseteq Dirs /\ p \in BOOLEAN
  OBVIOUS
<1>5. rts = [d \in Dirs |-> IF d \in mended THEN Fresh(NeededEntry(rs, d)) ELSE w.roots[d]]
  BY <1>2, <1>4
<1> HIDE DEF mode, mended, p
<1>6. rts \in [Dirs -> RootEntries]
  BY <1>2, <1>3, <1>5
<1>7. wts \in [Dirs -> Natives]
  BY <1>2, <1>3 DEF Natives
<1> DEFINE r1 == rts
           w1 == wts
<1> HIDE DEF r1, w1
<1>8. v \in Registries /\ v.roots = rts /\ v.watches = wts /\ v.problem = p
  <2>1. v = [w EXCEPT !.watches = w1, !.roots = r1, !.problem = p]
    BY <1>1 DEF r1, w1
  <2>2. r1 \in [Dirs -> RootEntries] /\ w1 \in [Dirs -> Natives]
    BY <1>6, <1>7 DEF r1, w1
  <2> HIDE DEF v
  <2>3. v \in Registries /\ v.roots = r1 /\ v.watches = w1 /\ v.problem = p
    BY <1>4, <2>1, <2>2 DEF Registries
  <2> QED BY <2>3 DEF r1, w1
<1> HIDE DEF v
<1>9. Goes(w, v)
  <2>1. w.problem => v.problem
    BY <1>8 DEF p
  <2>2. Lost(v.roots, v.watches) \subseteq Lost(w.roots, w.watches)
    <3>1. \A d \in mended : wts[d] # "None"
      BY <1>2, <1>4 DEF Modes
    <3>2. \A d \in Dirs \ mended : wts[d] = w.watches[d] /\ rts[d] = w.roots[d]
      OBVIOUS
    <3> QED BY <1>8, <3>1, <3>2 DEF Lost
  <2> QED BY <2>1, <2>2 DEF Goes
<1>10. Answers(v, NeedOf(rs), clean)
  <2> SUFFICES ASSUME NEW d \in Dirs
               PROVE  Fits(v.roots[d], v.watches[d], NeedOf(rs)[<<d, "NonRecursive">>],
                           NeedOf(rs)[<<d, "Recursive">>], clean /\ ~v.problem)
    BY DEF Answers, Answering
  <2>1. CASE d \in mended
    <3> DEFINE e == NeededEntry(rs, d)
    <3>1. v.roots[d] = Fresh(e) /\ v.watches[d] = mode(d)
      BY <1>5, <1>8, <2>1
    <3>2. /\ e \in RootEntries
          /\ e.NonRecursive = NeedOf(rs)[<<d, "NonRecursive">>]
          /\ e.Recursive = NeedOf(rs)[<<d, "Recursive">>]
      BY NeededEntryFields
    <3> HIDE DEF e
    <3>3. /\ Fresh(e).NonRecursive = e.NonRecursive /\ Fresh(e).Recursive = e.Recursive
          /\ Fresh(e).active = RequiredMode(e) /\ RequiredMode(Fresh(e)) = RequiredMode(e)
          /\ Fresh(e) \in RootEntries
      BY <3>2, FreshFields, EntryFields DEF Modes
    <3>4. mode(d) = RequiredMode(e)
      BY DEF mode, e
    <3>5. e.NonRecursive \in Nat /\ e.Recursive \in Nat
      BY <3>2, EntryFields
    <3> QED BY <3>1, <3>2, <3>3, <3>4, <3>5 DEF Fits
  <2>2. CASE d \notin mended
    <3>1. v.roots[d] = w.roots[d] /\ v.watches[d] = w.watches[d]
      BY <1>8, <2>2
    <3>2. Fits(w.roots[d], w.watches[d], NeedOf(rs)[<<d, "NonRecursive">>],
               NeedOf(rs)[<<d, "Recursive">>], clean /\ ~w.problem)
      BY DEF Answers, Answering
    <3>3. w.problem => v.problem
      BY <1>9 DEF Goes
    <3> QED BY <3>1, <3>2, <3>3 DEF Fits
  <2> QED BY <2>1, <2>2
<1> QED BY <1>8, <1>9, <1>10 DEF v

LEMMA ReattachAnswers ==
  ASSUME NEW w \in Registries, NEW before, NEW batch \in Batches, NEW n \in Needing,
         NEW clean \in BOOLEAN, Answers(w, n, clean)
  PROVE  LET v == Reattach(w, before, batch) IN
         /\ v \in Registries /\ Answers(v, n, clean)
         /\ w.problem => v.problem
         /\ clean /\ ~v.problem =>
              \A d \in Lost(v.roots, v.watches) :
                /\ d \in Lost(w.roots, w.watches)
                /\ d \in before => ~batch.rescan /\ \A q \in batch.paths : ~(q <= d)
<1> DEFINE v == Reattach(w, before, batch)
           affected == {d \in before : /\ w.roots[d] # NoEntry
                                       /\ batch.rescan \/ \E q \in batch.paths : q <= d}
           released == {d \in affected : CanUnwatch(w, d)}
           lost     == {d \in released : ~CanWatch(w, d, w.roots[d].active)}
           rts == [d \in Dirs |-> IF d \in lost THEN NoEntry ELSE w.roots[d]]
           wts == [d \in Dirs |-> CASE d \in lost            -> "None"
                                    [] d \in released \ lost -> w.roots[d].active
                                    [] OTHER                 -> w.watches[d]]
           p == w.problem \/ released # affected \/ lost # {}
<1>1. v = [w EXCEPT !.watches = wts, !.roots = rts, !.problem = p]
  BY DEF Reattach
<1>2. \A d \in Dirs : /\ w.roots[d] \in RootEntries /\ w.watches[d] \in Natives
                      /\ w.roots[d].active \in Natives
  BY RegistryFields, EntryFields
<1>3. p \in BOOLEAN /\ lost \subseteq released /\ released \subseteq affected
  OBVIOUS
<1>4. \A d \in Dirs : d \in affected <=>
        /\ d \in before /\ w.roots[d] # NoEntry
        /\ batch.rescan \/ \E q \in batch.paths : q <= d
  OBVIOUS
<1>5. w.problem => p
  OBVIOUS
<1>6. ~p => released = affected /\ lost = {}
  OBVIOUS
<1> HIDE DEF affected, released, lost
<1>7. rts \in [Dirs -> RootEntries]
  BY <1>2, NoEntryFields
<1>8. wts \in [Dirs -> Natives]
  BY <1>2 DEF Natives
<1> HIDE DEF p
<1>9. v \in Registries /\ v.roots = rts /\ v.watches = wts /\ v.problem = p
  <2> DEFINE r1 == rts
             w1 == wts
  <2>1. v = [w EXCEPT !.watches = w1, !.roots = r1, !.problem = p]
    BY <1>1
  <2>2. r1 \in [Dirs -> RootEntries] /\ w1 \in [Dirs -> Natives]
    BY <1>7, <1>8
  <2> HIDE DEF r1, w1, v
  <2>3. v \in Registries /\ v.roots = r1 /\ v.watches = w1 /\ v.problem = p
    BY <1>3, <2>1, <2>2 DEF Registries
  <2> QED BY <2>3 DEF r1, w1
<1> HIDE DEF v
<1>10. Answers(v, n, clean)
  <2> SUFFICES ASSUME NEW d \in Dirs
               PROVE  Fits(v.roots[d], v.watches[d], n[<<d, "NonRecursive">>],
                           n[<<d, "Recursive">>], clean /\ ~v.problem)
    BY DEF Answers, Answering
  <2>1. Fits(w.roots[d], w.watches[d], n[<<d, "NonRecursive">>],
             n[<<d, "Recursive">>], clean /\ ~w.problem)
    BY DEF Answers, Answering
  <2>2. v.roots[d] \in {w.roots[d], NoEntry}
    BY <1>9
  <2>3. n[<<d, "NonRecursive">>] \in Nat /\ n[<<d, "Recursive">>] \in Nat
    BY NeedsOf
  <2>4. v.roots[d].NonRecursive <= n[<<d, "NonRecursive">>]
        /\ v.roots[d].Recursive <= n[<<d, "Recursive">>]
    BY <2>1, <2>2, <2>3 DEF Fits, NoEntry
  <2>5. ASSUME clean, ~v.problem
        PROVE  /\ ~w.problem /\ v.roots[d] = w.roots[d]
               /\ v.watches[d] \in {w.watches[d], w.roots[d].active}
    <3>1. ~p /\ lost = {}
      BY <1>6, <1>9, <2>5
    <3> QED BY <1>5, <1>9, <3>1
  <2> QED BY <2>1, <2>4, <2>5 DEF Fits
<1>11. ASSUME clean, ~v.problem, NEW d \in Lost(v.roots, v.watches)
       PROVE  /\ d \in Lost(w.roots, w.watches)
              /\ d \in before => ~batch.rescan /\ \A q \in batch.paths : ~(q <= d)
  <2>1. ~p /\ lost = {} /\ released = affected /\ clean = TRUE /\ w.problem = FALSE
    BY <1>5, <1>6, <1>9, <1>11 DEF Registries
  <2>2. d \in Dirs /\ v.roots[d] # NoEntry /\ v.watches[d] = "None"
    BY <1>11 DEF Lost
  <2>3. v.roots[d] = w.roots[d]
    BY <1>9, <2>1, <2>2
  <2>4. w.roots[d].active # "None"
    <3>1. w.roots[d].active = RequiredMode(w.roots[d])
      BY <2>1, <2>2, <2>3 DEF Answers, Answering, Fits
    <3> QED BY <1>2, <2>2, <3>1, EntryFields DEF Modes
  <2>5. d \notin affected
    BY <1>9, <2>1, <2>2, <2>4
  <2>6. w.watches[d] = "None"
    BY <1>9, <2>1, <2>2, <2>5
  <2> QED BY <1>4, <2>2, <2>3, <2>5, <2>6 DEF Lost
<1> QED BY <1>5, <1>9, <1>10, <1>11 DEF v

-----------------------------------------------------------------------------
(* The steps that call the registry *)

Plans == UNION {[ids -> SUBSET Roots] : ids \in SUBSET Ids}
Pumps == [step : {"Idle", "Unregister", "Replace"}, batch : Batches, plans : Plans,
          before : SUBSET Dirs, dirty : SUBSET Ids]

Types ==
  /\ depth \in Entries /\ native \subseteq Entries
  /\ roots \in [Dirs -> RootEntries] /\ watches \in [Dirs -> Natives]
  /\ inbox \in Batches /\ Cardinality(inbox.paths) <= MaxPending
  /\ wake \in BOOLEAN /\ controls \subseteq Ids
  /\ next \in Nat \ {0} /\ regs \in [Ids -> Registrations]
  /\ pump \in Pumps
  /\ stopped \in BOOLEAN /\ warned \in BOOLEAN /\ raced \in BOOLEAN
  /\ stale \subseteq Ids

\* A registration has roots while it lives, and a plan while it is bound.
RegistrationsInOrder ==
  /\ \A id \in Ids :
       /\ id >= next => regs[id].state = "Unused"
       /\ regs[id].state \in {"Unused", "Gone"} => regs[id].roots = {}
       /\ Small(regs[id].roots)
  /\ \A id \in DOMAIN pump.plans : regs[id].state = "Bound" /\ Small(pump.plans[id])

RootsInv == Answering(roots, watches, NeedOf(regs), ~warned)

WatchInv == Types /\ RegistrationsInOrder /\ RootsInv

LEMMA PlanFields ==
  ASSUME NEW f \in Plans
  PROVE  DOMAIN f \subseteq Ids /\ \A id \in DOMAIN f : f[id] \subseteq Roots
BY DEF Plans

LEMMA ActualRootsAreSmall ==
  ASSUME NEW target \in Targets, depth \in Entries
  PROVE  Small(ActualRoots(target))
<1> DEFINE desired == target.path - 1
           mode == IF target.kind = "ExactFile" THEN "NonRecursive" ELSE "Recursive"
<1>1. desired \in Dirs /\ mode \in Modes /\ Deepest \in Nat
  BY TargetsAreEntries, BoundsAreNatural DEF Dirs, Modes
<1> HIDE DEF desired, mode
<1>2. CASE desired > depth
  <2>1. ActualRoots(target) = {<<depth, "NonRecursive">>}
    BY <1>2 DEF ActualRoots, desired
  <2>2. depth \in Dirs
    BY <1>1, <1>2 DEF Dirs, Entries
  <2> QED BY <2>1, <2>2 DEF Small, Roots, Modes
<1>3. CASE ~(desired > depth)
  <2>1. ActualRoots(target) = {<<desired, mode>>}
                              \cup {<<d, "NonRecursive">> : d \in {desired - 1} \cap Dirs}
    BY <1>3 DEF ActualRoots, desired, mode
  <2>2. CASE desired - 1 \in Dirs
    <3>1. ActualRoots(target) = {<<desired, mode>>, <<desired - 1, "NonRecursive">>}
      BY <2>1, <2>2
    <3> QED BY <1>1, <2>2, <3>1 DEF Small, Roots, Modes
  <2>3. CASE desired - 1 \notin Dirs
    <3>1. ActualRoots(target) = {<<desired, mode>>}
      BY <2>1, <2>3
    <3> QED BY <1>1, <3>1 DEF Small, Roots
  <2> QED BY <2>2, <2>3
<1> QED BY <1>2, <1>3

LEMMA AtIsRegistry ==
  ASSUME WatchInv, NEW bad \in FaultSets
  PROVE  /\ At(bad) \in Registries /\ At(bad).ok /\ ~At(bad).problem
         /\ Answers(At(bad), NeedOf(regs), ~warned)
         /\ Lost(At(bad).roots, At(bad).watches) = Lost(roots, watches)
<1>1. bad \subseteq Calls
  BY DEF FaultSets, Calls
<1>2. At(bad) \in Registries
  BY <1>1 DEF At, Registries, WatchInv, Types
<1>3. At(bad).ok /\ ~At(bad).problem /\ At(bad).roots = roots /\ At(bad).watches = watches
  BY DEF At
<1>4. Answers(At(bad), NeedOf(regs), ~warned)
  BY <1>3 DEF WatchInv, RootsInv, Answers, Answering, Fits
<1> QED BY <1>2, <1>3, <1>4

\* What a step that ends in v makes of the registry.
RegistryKept ==
  /\ roots' \in [Dirs -> RootEntries] /\ watches' \in [Dirs -> Natives] /\ warned' \in BOOLEAN
  /\ RootsInv'
  /\ ~warned' => ~warned /\ Lost(roots', watches') \subseteq Lost(roots, watches)

LEMMA SettledIsKept ==
  ASSUME WatchInv, NEW v \in Registries, Settles(v), Answers(v, NeedOf(regs'), ~warned),
         warned \/ v.problem \/ Lost(v.roots, v.watches) \subseteq Lost(roots, watches)
  PROVE  RegistryKept
<1>1. roots' = v.roots /\ watches' = v.watches /\ warned' = (warned \/ v.problem)
  BY DEF Settles
<1>2. v.roots \in [Dirs -> RootEntries] /\ v.watches \in [Dirs -> Natives]
      /\ v.problem \in BOOLEAN /\ warned \in BOOLEAN
  BY DEF Registries, WatchInv, Types
<1>3. Answering(v.roots, v.watches, NeedOf(regs'), ~warned /\ ~v.problem)
  BY DEF Answers
<1>4. Answering(roots', watches', NeedOf(regs'), ~warned')
  BY <1>1, <1>2, <1>3 DEF Answering, Fits
<1> QED BY <1>1, <1>2, <1>4 DEF RegistryKept, RootsInv

LEMMA RegisterKeeps ==
  ASSUME WatchInv, NEW target \in Targets, Register(target)
  PROVE  RegistryKept
<1> USE DEF WatchInv
<1>1. PICK bad \in FaultSets :
        /\ Settles(Acquire(At(bad), ActualRoots(target)))
        /\ regs' = [regs EXCEPT ![next] =
                     IF Acquire(At(bad), ActualRoots(target)).ok
                     THEN [state |-> "Bound", target |-> target, roots |-> ActualRoots(target)]
                     ELSE [NoReg EXCEPT !.state = "Gone"]]
  BY DEF Register
<1> DEFINE w == At(bad)
           rs == ActualRoots(target)
           v == Acquire(w, rs)
<1>2. next \in Ids /\ regs[next].roots = {}
  BY BoundsAreNatural DEF Register, Ids, Types, RegistrationsInOrder
<1>3. /\ w \in Registries /\ w.ok /\ ~w.problem /\ Answers(w, NeedOf(regs), ~warned)
      /\ Lost(w.roots, w.watches) = Lost(roots, watches)
  BY AtIsRegistry
<1>4. Small(rs)
  BY ActualRootsAreSmall DEF Types
<1>5. NeedOf(regs) \in Needing /\ (~warned) \in BOOLEAN
  BY NeedOfType
<1> HIDE DEF w, rs
<1>6. /\ v \in Registries /\ Goes(w, v)
      /\ v.ok => Answers(v, Plus(NeedOf(regs), rs), ~warned)
      /\ ~v.ok => v.problem /\ Answers(v, NeedOf(regs), ~warned)
  BY <1>3, <1>4, <1>5, AcquireAnswers
<1>7. /\ \A other \in Ids \ {next} : regs'[other].roots = regs[other].roots
      /\ regs'[next].roots = IF v.ok THEN rs ELSE {}
  BY <1>1, <1>2 DEF Types, NoReg, w, rs
<1> HIDE DEF v
<1>8. Answers(v, NeedOf(regs'), ~warned)
  <2>1. CASE v.ok
    <3>1. PICK id \in Ids : id = next
      BY <1>2
    <3>2. rs \in SUBSET Roots /\ regs[id].roots = {} /\ regs'[id].roots = rs
      BY <1>2, <1>4, <1>7, <2>1, <3>1 DEF Small
    <3>3. \A other \in Ids \ {id} : regs'[other].roots = regs[other].roots
      BY <1>7, <3>1
    <3>4. NeedOf(regs') = Plus(NeedOf(regs), rs)
      BY <3>2, <3>3, NeedGrows
    <3> QED BY <1>6, <2>1, <3>4
  <2>2. CASE ~v.ok
    <3>1. NeedOf(regs') = NeedOf(regs)
      BY <1>2, <1>7, <2>2, NeedStays
    <3> QED BY <1>6, <2>2, <3>1
  <2> QED BY <2>1, <2>2
<1>9. v.problem \/ Lost(v.roots, v.watches) \subseteq Lost(roots, watches)
  BY <1>3, <1>6 DEF Goes
<1>10. Settles(v)
  BY <1>1 DEF v, w, rs
<1> QED BY <1>6, <1>8, <1>9, <1>10, SettledIsKept

LEMMA UnregisterKeeps ==
  ASSUME WatchInv, NEW id \in Ids, Unregister(id)
  PROVE  RegistryKept
<1> USE DEF WatchInv
<1>1. PICK bad \in FaultSets : Settles(RemoveAll(At(bad), regs[id].roots))
  BY DEF Unregister
<1> DEFINE w == At(bad)
           rs == regs[id].roots
           v == RemoveAll(w, rs)
           n == NeedOf(regs)
<1>3. /\ w \in Registries /\ w.ok /\ ~w.problem /\ Answers(w, n, ~warned)
      /\ Lost(w.roots, w.watches) = Lost(roots, watches)
  BY AtIsRegistry
<1>4. Small(rs)
  BY DEF RegistrationsInOrder
<1>5. n \in Needing /\ (~warned) \in BOOLEAN
  BY NeedOfType
<1>6. \A r \in rs : n[r] > 0
  BY <1>4, WhoHasNeeds DEF Small
<1> HIDE DEF w
<1>7. v \in Registries /\ Goes(w, v) /\ Answers(v, Minus(n, rs), ~warned)
  BY <1>3, <1>4, <1>5, <1>6, RemoveAllAnswers
<1>8. /\ \A other \in Ids \ {id} : regs'[other].roots = regs[other].roots
      /\ regs'[id].roots = {}
  BY DEF Unregister, Types, NoReg
<1>9. NeedOf(regs') = Minus(n, rs)
  <2>1. rs \in SUBSET Roots
    BY <1>4 DEF Small
  <2> QED BY <1>8, <2>1, NeedShrinks
<1>10. v.problem \/ Lost(v.roots, v.watches) \subseteq Lost(roots, watches)
  BY <1>3, <1>7 DEF Goes
<1>11. Settles(v)
  BY <1>1 DEF w
<1> HIDE DEF v, n, rs
<1> QED BY <1>7, <1>9, <1>10, <1>11, SettledIsKept

LEMMA ReplaceKeeps ==
  ASSUME WatchInv, NEW id \in Ids, Replace(id)
  PROVE  /\ RegistryKept
         /\ ~warned' => regs'[id].roots = pump.plans[id]
<1> USE DEF WatchInv
<1> DEFINE old == regs[id].roots
           new == pump.plans[id]
           n == NeedOf(regs)
<1>1. PICK bad \in FaultSets :
        /\ Settles(IF old # new /\ Acquire(At(bad), new \ old).ok
                   THEN RemoveAll(Acquire(At(bad), new \ old), old \ new)
                   ELSE Acquire(At(bad), new \ old))
        /\ regs' = IF old # new /\ Acquire(At(bad), new \ old).ok
                   THEN [regs EXCEPT ![id].roots = new] ELSE regs
  BY DEF Replace
<1> DEFINE w == At(bad)
           v == Acquire(w, new \ old)
           u == RemoveAll(v, old \ new)
           m == Plus(n, new \ old)
<1>2. id \in DOMAIN pump.plans
  BY DEF Replace
<1>3. /\ w \in Registries /\ w.ok /\ ~w.problem /\ Answers(w, n, ~warned)
      /\ Lost(w.roots, w.watches) = Lost(roots, watches)
  BY AtIsRegistry
<1>4. Small(old) /\ Small(new) /\ old \subseteq Roots /\ new \subseteq Roots
  BY <1>2 DEF RegistrationsInOrder, Small
<1>5. n \in Needing /\ (~warned) \in BOOLEAN
  BY NeedOfType
<1>6. \A r \in old : n[r] > 0
  BY <1>4, WhoHasNeeds
<1> HIDE DEF w, n
<1>7. Small(new \ old) /\ Small(old \ new)
  BY <1>4, SmallIsInherited
<1> HIDE DEF new
<1>8. /\ v \in Registries /\ Goes(w, v)
      /\ v.ok => Answers(v, m, ~warned)
      /\ ~v.ok => v.problem /\ Answers(v, n, ~warned)
  BY <1>3, <1>5, <1>7, AcquireAnswers
<1>9. m \in Needing /\ \A r \in old \ new : m[r] > 0
  BY <1>4, <1>5, <1>6 DEF Needing, Plus
<1> HIDE DEF v, m, old
<1>10. CASE old # new /\ v.ok
  <2>1. u \in Registries /\ Goes(v, u) /\ Answers(u, Minus(m, old \ new), ~warned)
    BY <1>7, <1>8, <1>9, <1>10, RemoveAllAnswers
  <2>2. Goes(w, u)
    BY <1>8, <2>1, GoesOn
  <2>3. /\ Settles(u) /\ regs' = [regs EXCEPT ![id].roots = new]
    BY <1>1, <1>10 DEF v, w, old
  <2>4. NeedOf(regs') = Minus(m, old \ new)
    <3>1. /\ \A other \in Ids \ {id} : regs'[other].roots = regs[other].roots
          /\ regs'[id].roots = new
      BY <2>3 DEF Types, Registrations
    <3>2. NeedOf(regs') = Minus(Plus(NeedOf(regs), new \ old), old \ new)
      <4>1. regs[id].roots = old
        BY DEF old
      <4> QED BY <1>4, <3>1, <4>1, NeedMoves
    <3> QED BY <3>2 DEF m, n
  <2>5. u.problem \/ Lost(u.roots, u.watches) \subseteq Lost(roots, watches)
    BY <1>3, <2>2 DEF Goes
  <2>6. regs'[id].roots = pump.plans[id]
    BY <2>3 DEF Types, Registrations, new
  <2> HIDE DEF u
  <2> QED BY <2>1, <2>3, <2>4, <2>5, <2>6, SettledIsKept
<1>11. CASE ~(old # new /\ v.ok)
  <2>1. Settles(v) /\ regs' = regs
    BY <1>1, <1>11 DEF v, w, old
  <2>2. Answers(v, n, ~warned)
    <3>1. CASE old = new
      <4>1. m = n
        BY <1>5, <3>1, NothingMore DEF m
      <4> QED BY <1>8, <4>1
    <3>2. CASE ~v.ok
      BY <1>8, <3>2
    <3> QED BY <1>11, <3>1, <3>2
  <2>3. v.problem \/ Lost(v.roots, v.watches) \subseteq Lost(roots, watches)
    BY <1>3, <1>8 DEF Goes
  <2>4. Answers(v, NeedOf(regs'), ~warned)
    BY <2>1, <2>2 DEF n
  <2>5. ~warned' => regs'[id].roots = pump.plans[id]
    <3>1. warned' = (warned \/ v.problem)
      BY <2>1 DEF Settles
    <3>2. ~warned' => v.ok
      BY <1>8, <3>1
    <3> QED BY <1>11, <2>1, <3>2 DEF old, new
  <2> QED BY <1>8, <2>1, <2>3, <2>4, <2>5, SettledIsKept
<1> QED BY <1>10, <1>11

\* Besides, a root that was there before and that the batch is about is watched.
LEMMA FinishKeeps ==
  ASSUME WatchInv, Finish
  PROVE  /\ RegistryKept
         /\ ~warned' => \A d \in Lost(roots', watches') :
              d \in pump.before =>
                ~pump.batch.rescan /\ \A q \in pump.batch.paths : ~(q <= d)
<1> USE DEF WatchInv
<1> DEFINE n == NeedOf(regs)
<1>1. PICK bad \in FaultSets :
        Settles([Reattach(Repair(At(bad), regs), pump.before, pump.batch)
                 EXCEPT !.problem = @ \/ pump.batch.problem])
  BY DEF Finish
<1> DEFINE w == At(bad)
           u == Repair(w, regs)
           v == Reattach(u, pump.before, pump.batch)
           p == v.problem \/ pump.batch.problem
           x == Warn(v, p)
<1>2. /\ w \in Registries /\ Answers(w, n, ~warned)
      /\ Lost(w.roots, w.watches) = Lost(roots, watches)
  BY AtIsRegistry
<1>3. n \in Needing /\ (~warned) \in BOOLEAN /\ pump.batch \in Batches
  BY NeedOfType DEF Types, Pumps
<1>4. u \in Registries /\ Goes(w, u) /\ Answers(u, n, ~warned)
  <2> HIDE DEF w
  <2> QED BY <1>2, <1>3, RepairAnswers
<1> HIDE DEF w, u, n
<1>5. /\ v \in Registries /\ Answers(v, n, ~warned)
      /\ u.problem => v.problem
      /\ ~warned /\ ~v.problem =>
           \A d \in Lost(v.roots, v.watches) :
             /\ d \in Lost(u.roots, u.watches)
             /\ d \in pump.before =>
                  ~pump.batch.rescan /\ \A q \in pump.batch.paths : ~(q <= d)
  BY <1>3, <1>4, ReattachAnswers
<1>6. Settles(x)
  BY <1>1 DEF Warn, w, u
<1>7. p \in BOOLEAN
  OBVIOUS
<1> HIDE DEF v, p
<1>8. x \in Registries /\ x.roots = v.roots /\ x.watches = v.watches /\ x.problem = p
  BY <1>5, <1>7 DEF Warn, Registries
<1>9. v.problem => p
  BY DEF p
<1> HIDE DEF x
<1>10. Answers(x, n, ~warned)
  BY <1>5, <1>8, <1>9 DEF Answers, Answering, Fits
<1>11. regs' = regs
  BY DEF Finish
<1>12. Answers(x, NeedOf(regs'), ~warned)
  BY <1>10, <1>11 DEF n
<1>13. warned' = (warned \/ x.problem) /\ roots' = x.roots /\ watches' = x.watches
  BY <1>6 DEF Settles
<1>14. ~warned /\ ~x.problem => Lost(x.roots, x.watches) \subseteq Lost(roots, watches)
  BY <1>2, <1>4, <1>5, <1>8, <1>9 DEF Goes
<1>15. RegistryKept
  BY <1>6, <1>8, <1>12, <1>14, SettledIsKept
<1> QED BY <1>5, <1>8, <1>9, <1>13, <1>15

-----------------------------------------------------------------------------
(* Types, order and roots are kept *)

LEMMA IdleIsAPump == Idle \in Pumps /\ NoBatch \in Batches
<1>1. NoBatch \in Batches
  BY DEF NoBatch, Batches
<1>2. [id \in {} |-> {}] \in Plans
  BY DEF Plans
<1> QED BY <1>1, <1>2 DEF Idle, Pumps

LEMMA NoRegIsARegistration ==
  /\ NoReg \in Registrations /\ NoReg.roots = {}
  /\ [NoReg EXCEPT !.state = "Gone"] \in Registrations
  /\ [NoReg EXCEPT !.state = "Gone"].roots = {}
  /\ [NoReg EXCEPT !.state = "Gone"].state = "Gone"
<1>1. (CHOOSE t \in Targets : TRUE) \in Targets
  BY TargetsAreEntries
<1> QED BY <1>1 DEF NoReg, Registrations, RegStates

LEMMA BatchFields ==
  ASSUME NEW b \in Batches
  PROVE  b.paths \subseteq Entries /\ b.rescan \in BOOLEAN /\ b.problem \in BOOLEAN
BY DEF Batches

LEMMA NewBatch ==
  ASSUME NEW ps \in SUBSET Entries, NEW rescan \in BOOLEAN, NEW problem \in BOOLEAN
  PROVE  LET b == [paths |-> ps, rescan |-> rescan, problem |-> problem]
         IN  b \in Batches /\ b.paths = ps /\ b.rescan = rescan /\ b.problem = problem
BY DEF Batches

LEMMA EntriesAreFinite == IsFiniteSet(Entries)
BY FS_Interval, BoundsAreNatural DEF Entries

\* The disk and the callback leave the registrations and the pump alone.
Quiet ==
  /\ UNCHANGED <<regs, roots, warned, pump, controls, next, stopped>>

LEMMA DiskTypes ==
  ASSUME WatchInv, Create \/ Delete \/ Modify
  PROVE  Types' /\ Quiet
         /\ \A d \in Dirs : watches'[d] \in {watches[d], "None"}
<1> USE DEF WatchInv
<1>1. ASSUME NEW path \in Entries, Changes(path)
      PROVE  native' \subseteq Entries /\ raced' \in BOOLEAN /\ stale' \subseteq Ids
  BY <1>1 DEF Changes, Types
<1>2. ASSUME NEW path \in Entries, Changes(path)
      PROVE  Quiet /\ UNCHANGED <<inbox, wake>>
  BY <1>2 DEF Changes, Quiet, inboxVars
<1>3. depth \in Nat /\ Deepest \in Nat
  BY BoundsAreNatural DEF Types, Entries
<1>4. CASE Create
  <2>1. depth' \in Entries /\ Changes(depth') /\ watches' = watches
    BY <1>3, <1>4 DEF Create, Entries
  <2>2. PICK p \in Entries : p = depth'
    BY <2>1
  <2>3. Changes(p)
    BY <2>1, <2>2
  <2> QED BY <1>1, <1>2, <2>1, <2>3 DEF Types, Quiet
<1>5. CASE Delete
  <2>1. depth \in Entries /\ depth' \in Entries /\ Changes(depth)
        /\ watches' = [d \in Dirs |-> IF d = depth THEN "None" ELSE watches[d]]
    BY <1>3, <1>5 DEF Delete, Entries, Types
  <2>2. watches' \in [Dirs -> Natives]
    BY <2>1 DEF Types, Natives
  <2> QED BY <1>1, <1>2, <2>1, <2>2 DEF Types, Quiet
<1>6. CASE Modify
  <2>1. depth' = depth /\ depth \in Entries /\ Changes(depth) /\ watches' = watches
    BY <1>6 DEF Modify, Types
  <2> QED BY <1>1, <1>2, <2>1 DEF Types, Quiet
<1> QED BY <1>4, <1>5, <1>6

LEMMA CallbackTypes ==
  ASSUME WatchInv, NEW ps \in SUBSET native, NEW error \in BOOLEAN,
         Report(ps, error) \/ NeedRescan(ps, error)
  PROVE  Types' /\ Quiet /\ watches' = watches
<1> USE DEF WatchInv
<1>1. /\ native' = native \ ps
      /\ UNCHANGED <<depth, raced, stale, regs, roots, watches, warned, pump, controls, next,
                     stopped>>
  BY DEF Report, NeedRescan, CallbackFrame, diskVars, registryVars
<1>2. inbox.paths \subseteq Entries /\ inbox.rescan \in BOOLEAN /\ inbox.problem \in BOOLEAN
      /\ ps \subseteq Entries
  BY BatchFields DEF Types
<1>3. PICK paths, rescan, problem :
        /\ Wakes(paths, rescan, problem) /\ paths \subseteq Entries
        /\ rescan \in BOOLEAN /\ problem \in BOOLEAN /\ Cardinality(paths) <= MaxPending
  <2>1. CASE Report(ps, error)
    <3>1. PICK kept \in SUBSET (inbox.paths \cup ps), full \in BOOLEAN :
            /\ Cardinality(kept) = IF Cardinality(inbox.paths \cup ps) > MaxPending
                                   THEN MaxPending ELSE Cardinality(inbox.paths \cup ps)
            /\ Wakes(kept, inbox.rescan \/ full, inbox.problem \/ error)
      BY <2>1 DEF Report
    <3>2. Cardinality(inbox.paths \cup ps) \in Nat
      BY <1>2, EntriesAreFinite, FS_Subset, FS_CardinalityType
    <3>3. Cardinality(kept) <= MaxPending
      BY <3>1, <3>2, BoundsAreNatural
    <3>4. kept \subseteq Entries /\ (inbox.rescan \/ full) \in BOOLEAN
          /\ (inbox.problem \/ error) \in BOOLEAN
      BY <1>2
    <3> QED BY <3>1, <3>3, <3>4
  <2>2. CASE NeedRescan(ps, error)
    <3>1. Wakes(inbox.paths, TRUE, inbox.problem \/ error)
      BY <2>2 DEF NeedRescan
    <3>2. (inbox.problem \/ error) \in BOOLEAN /\ TRUE \in BOOLEAN
      BY <1>2
    <3> QED BY <1>2, <3>1, <3>2 DEF Types
  <2> QED BY <2>1, <2>2
<1>4. inbox' \in Batches /\ inbox'.paths = paths /\ wake' \in BOOLEAN
  <2>1. PICK r \in BOOLEAN : r = (rescan \/ (wake /\ ~stopped))
    OBVIOUS
  <2>2. inbox' = [paths |-> paths, rescan |-> r, problem |-> problem] /\ wake' = ~stopped
    BY <1>3, <2>1 DEF Wakes
  <2> QED BY <1>3, <2>2, NewBatch
<1> QED BY <1>1, <1>3, <1>4 DEF Types, Quiet

LEMMA QuietKeeps ==
  ASSUME WatchInv, Types', Quiet, \A d \in Dirs : watches'[d] \in {watches[d], "None"}
  PROVE  WatchInv'
<1>1. RegistrationsInOrder'
  BY DEF WatchInv, RegistrationsInOrder, Quiet
<1>2. RootsInv'
  <2>1. roots' = roots /\ regs' = regs /\ warned' = warned
    BY DEF Quiet
  <2>2. Answering(roots, watches', NeedOf(regs), ~warned)
    BY DEF WatchInv, RootsInv, Answering, Fits
  <2> QED BY <2>1, <2>2 DEF RootsInv
<1> QED BY <1>1, <1>2 DEF WatchInv

LEMMA RegisterTypes ==
  ASSUME WatchInv, NEW target \in Targets, Register(target)
  PROVE  WatchInv'
<1> USE DEF WatchInv
<1>1. RegistryKept
  BY RegisterKeeps
<1>2. PICK r : /\ regs' = [regs EXCEPT ![next] = r]
               /\ \/ r = [state |-> "Bound", target |-> target, roots |-> ActualRoots(target)]
                  \/ r = [NoReg EXCEPT !.state = "Gone"]
  BY DEF Register
<1>3. /\ next' = next + 1 /\ next \in Ids
      /\ UNCHANGED <<depth, stale, raced, changes, native, inbox, wake, controls, pump, stopped>>
  BY BoundsAreNatural DEF Register, diskVars, inboxVars, Ids, Types
<1>4. Small(ActualRoots(target))
  BY ActualRootsAreSmall DEF Types
<1>5. /\ r \in Registrations /\ Small(r.roots)
      /\ \/ r.state = "Bound"
         \/ r.state = "Gone" /\ r.roots = {}
  <2>1. CASE r = [state |-> "Bound", target |-> target, roots |-> ActualRoots(target)]
    <3>1. PICK rs \in SUBSET Roots : rs = ActualRoots(target)
      BY <1>4 DEF Small
    <3>2. r = [state |-> "Bound", target |-> target, roots |-> rs]
      BY <2>1, <3>1
    <3>3. r \in Registrations /\ r.roots = rs /\ r.state = "Bound"
      BY <3>2 DEF Registrations, RegStates
    <3>4. Small(r.roots)
      <4>1. r.roots = ActualRoots(target)
        BY <3>1, <3>3
      <4> QED BY ONLY <1>4, <4>1
    <3> QED BY <3>3, <3>4
  <2>2. CASE r = [NoReg EXCEPT !.state = "Gone"]
    BY <2>2, NoRegIsARegistration DEF Small
  <2> QED BY <1>2, <2>1, <2>2
<1>6. Types'
  <2>1. regs' \in [Ids -> Registrations]
    BY <1>2, <1>5 DEF Types
  <2>2. next' \in Nat \ {0}
    BY <1>3 DEF Types
  <2> QED BY <1>1, <1>3, <2>1, <2>2 DEF Types, RegistryKept
<1>7. RegistrationsInOrder'
  <2>1. regs[next].state = "Unused"
    BY <1>3 DEF RegistrationsInOrder, Types
  <2>2. next \notin DOMAIN pump.plans
    BY <2>1 DEF RegistrationsInOrder
  <2>3. /\ regs'[next] = r /\ \A id \in Ids \ {next} : regs'[id] = regs[id]
    BY <1>2, <1>3 DEF Types
  <2>4. ASSUME NEW id \in Ids
        PROVE  /\ id >= next' => regs'[id].state = "Unused"
               /\ regs'[id].state \in {"Unused", "Gone"} => regs'[id].roots = {}
               /\ Small(regs'[id].roots)
    <3>1. id >= next + 1 => id # next /\ id >= next
      BY <1>3 DEF Ids
    <3>2. CASE id = next
      BY <1>3, <1>5, <2>3, <3>1, <3>2
    <3>3. CASE id # next
      BY <1>3, <2>3, <3>1, <3>3 DEF RegistrationsInOrder
    <3> QED BY <3>2, <3>3
  <2>5. DOMAIN pump.plans \subseteq Ids
    BY PlanFields DEF Types, Pumps
  <2>6. \A id \in DOMAIN pump.plans : regs'[id] = regs[id]
    BY <2>2, <2>3, <2>5
  <2>7. \A id \in DOMAIN pump.plans : regs'[id].state = "Bound" /\ Small(pump.plans[id])
    BY <2>6 DEF RegistrationsInOrder
  <2> QED BY <1>3, <2>4, <2>7 DEF RegistrationsInOrder
<1> QED BY <1>1, <1>6, <1>7 DEF RegistryKept

LEMMA UnbindTypes ==
  ASSUME WatchInv, NEW id \in Ids, Unbind(id), pump.step = "Idle" => pump = Idle
  PROVE  WatchInv'
<1> USE DEF WatchInv
<1>1. /\ regs' = [regs EXCEPT ![id].state = "Dropped"] /\ regs[id].state = "Bound"
      /\ controls' = controls \cup {id} /\ wake' = TRUE /\ stale' = stale \ {id}
      /\ UNCHANGED <<depth, raced, native, inbox, next, roots, watches, warned, pump, stopped>>
      /\ pump = Idle
  BY DEF Unbind, Foreground
<1>2. /\ regs'[id] = [regs[id] EXCEPT !.state = "Dropped"]
      /\ \A other \in Ids \ {id} : regs'[other] = regs[other]
  BY <1>1 DEF Types
<1>3. /\ regs'[id] \in Registrations /\ regs'[id].roots = regs[id].roots
      /\ regs'[id].state = "Dropped"
  BY <1>2 DEF Types, Registrations, RegStates
<1>4. Types'
  <2>1. regs' \in [Ids -> Registrations]
    BY <1>1, <1>2, <1>3 DEF Types
  <2> QED BY <1>1, <2>1 DEF Types
<1>5. RegistrationsInOrder'
  <2>1. ASSUME NEW o \in Ids
        PROVE  /\ o >= next => regs'[o].state = "Unused"
               /\ regs'[o].state \in {"Unused", "Gone"} => regs'[o].roots = {}
               /\ Small(regs'[o].roots)
    BY <1>1, <1>2, <1>3 DEF RegistrationsInOrder
  <2>2. DOMAIN pump'.plans = {}
    BY <1>1 DEF Idle
  <2> QED BY <1>1, <2>1, <2>2 DEF RegistrationsInOrder
<1>6. RootsInv'
  <2>1. \A o \in Ids : regs'[o].roots = regs[o].roots
    BY <1>2, <1>3
  <2>2. NeedOf(regs') = NeedOf(regs)
    BY <2>1, NeedStays
  <2> QED BY <1>1, <2>2 DEF RootsInv
<1> QED BY <1>4, <1>5, <1>6

LEMMA StartPumpTypes ==
  ASSUME WatchInv, StartPump
  PROVE  WatchInv'
<1> USE DEF WatchInv
<1>1. /\ pump' = [pump EXCEPT !.step = "Unregister"] /\ wake' = FALSE
      /\ UNCHANGED <<depth, raced, stale, native, inbox, next, regs, roots, watches, warned,
                     controls, stopped>>
  BY DEF StartPump, diskVars, registryVars
<1>2. pump' \in Pumps /\ pump'.plans = pump.plans
  BY <1>1 DEF Types, Pumps
<1> QED BY <1>1, <1>2 DEF Types, RegistrationsInOrder, RootsInv

LEMMA UnregisterTypes ==
  ASSUME WatchInv, NEW id \in Ids, Unregister(id),
         pump.step = "Unregister" => DOMAIN pump.plans = {},
         id \in controls => regs[id].state = "Dropped"
  PROVE  WatchInv'
<1> USE DEF WatchInv
<1>1. RegistryKept
  BY UnregisterKeeps
<1>2. /\ regs' = [regs EXCEPT ![id] = [NoReg EXCEPT !.state = "Gone"]]
      /\ controls' = controls \ {id} /\ DOMAIN pump.plans = {}
      /\ regs[id].state = "Dropped"
      /\ UNCHANGED <<depth, raced, stale, native, inbox, wake, next, pump, stopped>>
  BY DEF Unregister, diskVars, inboxVars
<1>3. /\ regs'[id] = [NoReg EXCEPT !.state = "Gone"]
      /\ \A other \in Ids \ {id} : regs'[other] = regs[other]
      /\ regs' \in [Ids -> Registrations]
  BY <1>2, NoRegIsARegistration DEF Types
<1>4. Types'
  BY <1>1, <1>2, <1>3 DEF Types, RegistryKept
<1>5. RegistrationsInOrder'
  <2>1. ASSUME NEW o \in Ids
        PROVE  /\ o >= next => regs'[o].state = "Unused"
               /\ regs'[o].state \in {"Unused", "Gone"} => regs'[o].roots = {}
               /\ Small(regs'[o].roots)
    <3>1. CASE o = id
      BY <1>2, <1>3, <3>1, NoRegIsARegistration DEF RegistrationsInOrder, Small
    <3>2. CASE o # id
      BY <1>2, <1>3, <3>2 DEF RegistrationsInOrder
    <3> QED BY <3>1, <3>2
  <2> QED BY <1>2, <2>1 DEF RegistrationsInOrder
<1> QED BY <1>1, <1>4, <1>5 DEF RegistryKept

LEMMA PlanTypes ==
  ASSUME WatchInv, Plan, \A id \in Ids : regs[id].state = "Dropped" => id \in controls
  PROVE  WatchInv'
<1> USE DEF WatchInv
<1> DEFINE plans == [id \in Live(regs) |-> ActualRoots(regs[id].target)]
           before == {d \in Dirs : roots[d] # NoEntry}
<1>1. /\ pump' = [step |-> "Replace", batch |-> inbox, plans  |-> plans,
                  before |-> before, dirty |-> {}]
      /\ inbox' = NoBatch /\ controls = {}
      /\ UNCHANGED <<depth, raced, stale, native, wake, next, regs, roots, watches, warned,
                     controls, stopped>>
  BY DEF Plan, diskVars, registryVars
<1>2. \A id \in Live(regs) : /\ id \in Ids /\ regs[id].state = "Bound"
                             /\ regs[id].target \in Targets
  BY <1>1 DEF Live, Types, Registrations
<1>3. \A id \in Live(regs) : Small(ActualRoots(regs[id].target))
  BY <1>2, ActualRootsAreSmall DEF Types
<1>4. plans \in Plans
  <2>1. \A id \in Live(regs) : ActualRoots(regs[id].target) \in SUBSET Roots
    BY <1>3 DEF Small
  <2>2. plans \in [Live(regs) -> SUBSET Roots]
    BY <2>1
  <2>3. Live(regs) \in SUBSET Ids
    BY <1>2
  <2> QED BY <2>2, <2>3 DEF Plans
<1>5. DOMAIN plans = Live(regs) /\ \A id \in Live(regs) : plans[id] = ActualRoots(regs[id].target)
  OBVIOUS
<1>6. before \in SUBSET Dirs
  OBVIOUS
<1> HIDE DEF plans, before
<1>7. pump' \in Pumps /\ pump'.plans = plans
  BY <1>1, <1>4, <1>6 DEF Pumps, Types
<1>8. inbox' \in Batches /\ Cardinality(inbox'.paths) <= MaxPending
  <2>1. inbox'.paths = {} /\ Cardinality({}) = 0
    BY <1>1, FS_EmptySet DEF NoBatch
  <2> QED BY <1>1, <2>1, IdleIsAPump, BoundsAreNatural
<1>9. Types'
  BY <1>1, <1>7, <1>8 DEF Types
<1>10. RegistrationsInOrder'
  <2>1. \A id \in DOMAIN plans : regs[id].state = "Bound" /\ Small(plans[id])
    BY <1>2, <1>3, <1>5
  <2> QED BY <1>1, <1>7, <2>1 DEF RegistrationsInOrder
<1>11. RootsInv'
  BY <1>1 DEF RootsInv
<1> QED BY <1>9, <1>10, <1>11

LEMMA ReplaceTypes ==
  ASSUME WatchInv, NEW id \in Ids, Replace(id)
  PROVE  WatchInv'
<1> USE DEF WatchInv
<1>1. RegistryKept
  BY ReplaceKeeps
<1> DEFINE plans == [other \in DOMAIN pump.plans \ {id} |-> pump.plans[other]]
<1>2. PICK done \in BOOLEAN :
        /\ regs' = IF done THEN [regs EXCEPT ![id].roots = pump.plans[id]] ELSE regs
        /\ pump' = [pump EXCEPT !.plans = plans,
                                !.dirty = IF done THEN @ \cup {id} ELSE @]
  BY DEF Replace
<1>3. /\ id \in DOMAIN pump.plans
      /\ UNCHANGED <<depth, raced, stale, native, inbox, wake, next, controls, stopped>>
  BY DEF Replace, diskVars, inboxVars
<1>4. /\ Small(pump.plans[id]) /\ regs[id].state = "Bound"
  BY <1>3 DEF RegistrationsInOrder
<1>5. plans \in Plans /\ DOMAIN plans = DOMAIN pump.plans \ {id}
      /\ \A o \in DOMAIN plans : plans[o] = pump.plans[o]
  <2>1. pump.plans \in Plans
    BY DEF Types, Pumps
  <2>2. DOMAIN pump.plans \ {id} \in SUBSET Ids
        /\ \A o \in DOMAIN pump.plans \ {id} : pump.plans[o] \in SUBSET Roots
    BY <2>1, PlanFields
  <2>3. plans \in [DOMAIN pump.plans \ {id} -> SUBSET Roots]
    BY <2>2
  <2> QED BY <2>2, <2>3 DEF Plans
<1> HIDE DEF plans
<1>6. pump' \in Pumps /\ pump'.plans = plans
  <2>1. PICK ds \in SUBSET Ids : ds = IF done THEN pump.dirty \cup {id} ELSE pump.dirty
    BY DEF Types, Pumps
  <2>2. pump' = [pump EXCEPT !.plans = plans, !.dirty = ds]
    BY <1>2, <2>1
  <2> QED BY <1>5, <2>2 DEF Types, Pumps
<1>7. /\ regs' \in [Ids -> Registrations]
      /\ \A o \in Ids : regs'[o].state = regs[o].state
      /\ \A o \in Ids \ {id} : regs'[o] = regs[o]
      /\ regs'[id].roots \in {regs[id].roots, pump.plans[id]}
  <2>1. CASE done
    <3>1. regs' = [regs EXCEPT ![id].roots = pump.plans[id]]
      BY <1>2, <2>1
    <3>2. pump.plans[id] \in SUBSET Roots
      BY <1>4 DEF Small
    <3>3. regs'[id] = [regs[id] EXCEPT !.roots = pump.plans[id]]
      BY <3>1 DEF Types
    <3> QED BY <3>1, <3>2, <3>3 DEF Types, Registrations
  <2>2. CASE ~done
    BY <1>2, <2>2 DEF Types
  <2> QED BY <2>1, <2>2
<1>8. Types'
  BY <1>1, <1>3, <1>6, <1>7 DEF Types, RegistryKept
<1>9. RegistrationsInOrder'
  <2>1. ASSUME NEW o \in Ids
        PROVE  /\ o >= next => regs'[o].state = "Unused"
               /\ regs'[o].state \in {"Unused", "Gone"} => regs'[o].roots = {}
               /\ Small(regs'[o].roots)
    BY <1>4, <1>7 DEF RegistrationsInOrder
  <2>2. \A o \in DOMAIN plans : regs[o].state = "Bound" /\ Small(plans[o]) /\ o \in Ids
    BY <1>5, PlanFields DEF RegistrationsInOrder, Types, Pumps
  <2>3. \A o \in DOMAIN plans : regs'[o].state = "Bound" /\ Small(plans[o])
    BY <1>7, <2>2
  <2> QED BY <1>3, <1>6, <2>1, <2>3 DEF RegistrationsInOrder
<1> QED BY <1>1, <1>8, <1>9 DEF RegistryKept

LEMMA FinishTypes ==
  ASSUME WatchInv, Finish
  PROVE  WatchInv'
<1> USE DEF WatchInv
<1>1. RegistryKept
  BY FinishKeeps
<1>2. /\ pump' = Idle /\ stale' = stale \ Told
      /\ UNCHANGED <<depth, raced, native, inbox, wake, next, regs, controls, stopped>>
  BY DEF Finish, inboxVars
<1>3. Types'
  BY <1>1, <1>2, IdleIsAPump DEF Types, RegistryKept
<1>4. RegistrationsInOrder'
  <2>1. DOMAIN Idle.plans = {}
    BY DEF Idle
  <2> QED BY <1>2, <2>1 DEF RegistrationsInOrder
<1> QED BY <1>1, <1>3, <1>4 DEF RegistryKept

LEMMA ShutdownTypes ==
  ASSUME WatchInv, Shutdown, pump.step = "Idle" => pump = Idle
  PROVE  WatchInv'
<1> USE DEF WatchInv
<1> DEFINE gone == [NoReg EXCEPT !.state = "Gone"]
<1>1. /\ regs' = [id \in Ids |-> IF id \in Live(regs) THEN gone ELSE regs[id]]
      /\ roots' = [d \in Dirs |-> NoEntry] /\ watches' = [d \in Dirs |-> "None"]
      /\ wake' = FALSE /\ controls' = {} /\ inbox' = NoBatch /\ stale' = {} /\ stopped' = TRUE
      /\ UNCHANGED <<depth, raced, native, next, pump, warned>>
      /\ pump = Idle
  BY DEF Shutdown, Foreground
<1>2. gone \in Registrations /\ gone.roots = {} /\ gone.state = "Gone"
  BY NoRegIsARegistration
<1> HIDE DEF gone
<1>3. \A id \in Ids : /\ regs'[id] \in Registrations /\ regs'[id].roots = {}
                      /\ regs'[id].state \in {"Unused", "Gone"}
                      /\ id \notin Live(regs) => regs'[id] = regs[id]
                      /\ regs[id].state = "Unused" => id \notin Live(regs)
  BY <1>1, <1>2 DEF Live, Types, RegistrationsInOrder, Registrations, RegStates
<1>4. Types'
  <2>1. inbox' \in Batches /\ Cardinality(inbox'.paths) <= MaxPending
    <3>1. inbox'.paths = {} /\ Cardinality({}) = 0
      BY <1>1, FS_EmptySet DEF NoBatch
    <3> QED BY <1>1, <3>1, IdleIsAPump, BoundsAreNatural
  <2>2. roots' \in [Dirs -> RootEntries] /\ watches' \in [Dirs -> Natives]
    BY <1>1, NoEntryFields DEF Natives
  <2>3. regs' \in [Ids -> Registrations]
    BY <1>1, <1>3
  <2>4. stale' \subseteq Ids /\ controls' \subseteq Ids
    BY <1>1
  <2> QED BY <1>1, <2>1, <2>2, <2>3, <2>4 DEF Types
<1>5. RegistrationsInOrder'
  <2>1. DOMAIN pump'.plans = {}
    BY <1>1 DEF Idle
  <2>2. ASSUME NEW o \in Ids
        PROVE  /\ o >= next => regs'[o].state = "Unused"
               /\ regs'[o].roots = {} /\ Small(regs'[o].roots)
    BY <1>3 DEF RegistrationsInOrder, Small
  <2> QED BY <1>1, <2>1, <2>2 DEF RegistrationsInOrder
<1>6. RootsInv'
  <2>1. \A r \in Roots : Needers(regs', r) = {}
    BY <1>3 DEF Needers
  <2>2. \A r \in Roots : NeedOf(regs')[r] = 0
    BY <2>1, NeedIsCounted, FS_EmptySet
  <2>3. \A d \in Dirs : /\ NeedOf(regs')[<<d, "NonRecursive">>] = 0
                        /\ NeedOf(regs')[<<d, "Recursive">>] = 0
    BY <2>2 DEF Roots, Modes
  <2>4. \A d \in Dirs : roots'[d] = NoEntry /\ watches'[d] = "None"
    BY <1>1
  <2>5. NoEntry.NonRecursive = 0 /\ NoEntry.Recursive = 0 /\ NoEntry.active = "None"
    BY DEF NoEntry
  <2>6. \A d \in Dirs : Fits(NoEntry, "None", 0, 0, ~warned')
    BY <2>5 DEF Fits
  <2> QED BY <2>3, <2>4, <2>6 DEF RootsInv, Answering
<1> QED BY <1>4, <1>5, <1>6

-----------------------------------------------------------------------------
(* The order of the pump, and the first two facts *)

\* Where the pump is, the controls, and what is left after the end.
PumpInOrder ==
  /\ \A id \in Ids : regs[id].state = "Dropped" <=> id \in controls
  /\ \A id \in stale : regs[id].state = "Bound"
  /\ pump.step = "Replace" => controls = {}
  /\ pump.step = "Idle" => pump = Idle
  /\ pump.step = "Unregister" => pump.batch = NoBatch /\ DOMAIN pump.plans = {}
  /\ stopped => /\ pump.step = "Idle"
                /\ \A id \in Ids : regs[id].state \in {"Unused", "Gone"}
                /\ \A d \in Dirs : roots[d] = NoEntry

InOrder == WatchInv /\ PumpInOrder

LEMMA InitInOrder ==
  ASSUME Init
  PROVE  InOrder
<1>1. /\ depth \in Entries /\ watches = [d \in Dirs |-> "None"] /\ roots = [d \in Dirs |-> NoEntry]
      /\ native = {} /\ inbox = NoBatch /\ wake = FALSE /\ next = 1
      /\ regs = [id \in Ids |-> NoReg] /\ controls = {} /\ pump = Idle /\ stopped = FALSE
      /\ warned = FALSE /\ stale = {} /\ raced = FALSE
  BY DEF Init
<1>2. /\ NoReg \in Registrations /\ NoReg.roots = {} /\ NoReg.state = "Unused"
  BY NoRegIsARegistration DEF NoReg
<1>3. Types
  <2>1. Cardinality(inbox.paths) <= MaxPending
    <3>1. inbox.paths = {} /\ Cardinality({}) = 0
      BY <1>1, FS_EmptySet DEF NoBatch
    <3> QED BY <3>1, BoundsAreNatural
  <2>2. roots \in [Dirs -> RootEntries] /\ watches \in [Dirs -> Natives]
    BY <1>1, NoEntryFields DEF Natives
  <2>3. inbox \in Batches /\ pump \in Pumps
    BY <1>1, IdleIsAPump
  <2>4. next \in Nat \ {0} /\ regs \in [Ids -> Registrations]
    BY <1>1, <1>2
  <2>5. wake \in BOOLEAN /\ stopped \in BOOLEAN /\ warned \in BOOLEAN /\ raced \in BOOLEAN
    BY <1>1
  <2>6. native \subseteq Entries /\ controls \subseteq Ids /\ stale \subseteq Ids
    BY <1>1
  <2> QED BY <1>1, <2>1, <2>2, <2>3, <2>4, <2>5, <2>6 DEF Types
<1>4. \A id \in Ids : regs[id] = NoReg
  BY <1>1
<1>5. RegistrationsInOrder
  <2>1. DOMAIN pump.plans = {}
    BY <1>1 DEF Idle
  <2> QED BY <1>2, <1>4, <2>1 DEF RegistrationsInOrder, Small
<1>6. RootsInv
  <2>1. \A r \in Roots : Needers(regs, r) = {}
    BY <1>2, <1>4 DEF Needers
  <2>2. \A r \in Roots : NeedOf(regs)[r] = 0
    BY <2>1, NeedIsCounted, FS_EmptySet
  <2>3. \A d \in Dirs : /\ NeedOf(regs)[<<d, "NonRecursive">>] = 0
                        /\ NeedOf(regs)[<<d, "Recursive">>] = 0
    BY <2>2 DEF Roots, Modes
  <2>4. \A d \in Dirs : roots[d] = NoEntry /\ watches[d] = "None"
    BY <1>1
  <2>5. NoEntry.NonRecursive = 0 /\ NoEntry.Recursive = 0 /\ NoEntry.active = "None"
    BY DEF NoEntry
  <2>6. \A d \in Dirs : Fits(NoEntry, "None", 0, 0, ~warned)
    BY <2>5 DEF Fits
  <2> QED BY <2>3, <2>4, <2>6 DEF RootsInv, Answering
<1>7. PumpInOrder
  BY <1>1, <1>2, <1>4 DEF PumpInOrder, Idle
<1> QED BY <1>3, <1>5, <1>6, <1>7 DEF InOrder, WatchInv

LEMMA DiskInOrder ==
  ASSUME InOrder, Create \/ Delete \/ Modify
  PROVE  InOrder'
<1> USE DEF InOrder
<1>1. Types' /\ Quiet /\ \A d \in Dirs : watches'[d] \in {watches[d], "None"}
  BY DiskTypes
<1>2. WatchInv'
  BY <1>1, QuietKeeps
<1>3. PICK path : Changes(path)
  BY DEF Create, Delete, Modify
<1>4. \A id \in stale' : regs[id].state = "Bound"
  BY <1>3 DEF Changes, PumpInOrder
<1> QED BY <1>1, <1>2, <1>4 DEF PumpInOrder, Quiet

LEMMA CallbackInOrder ==
  ASSUME InOrder, NEW ps \in SUBSET native, NEW error \in BOOLEAN,
         Report(ps, error) \/ NeedRescan(ps, error)
  PROVE  InOrder'
<1> USE DEF InOrder
<1>1. Types' /\ Quiet /\ watches' = watches
  BY CallbackTypes
<1>2. WatchInv'
  BY <1>1, QuietKeeps
<1>3. stale' = stale
  BY DEF Report, NeedRescan, CallbackFrame, diskVars
<1> QED BY <1>1, <1>2, <1>3 DEF PumpInOrder, Quiet

LEMMA RegisterInOrder ==
  ASSUME InOrder, NEW target \in Targets, Register(target)
  PROVE  InOrder'
<1> USE DEF InOrder
<1>1. WatchInv'
  BY RegisterTypes
<1>2. PICK r : /\ regs' = [regs EXCEPT ![next] = r]
               /\ \/ r = [state |-> "Bound", target |-> target, roots |-> ActualRoots(target)]
                  \/ r = [NoReg EXCEPT !.state = "Gone"]
  BY DEF Register
<1>3. /\ ~stopped /\ pump.step = "Idle" /\ next \in Ids
      /\ UNCHANGED <<stale, controls, pump, stopped>>
  BY BoundsAreNatural DEF Register, Foreground, diskVars, Ids, WatchInv, Types
<1>4. r.state \in {"Bound", "Gone"}
  <2>1. CASE r = [state |-> "Bound", target |-> target, roots |-> ActualRoots(target)]
    BY <2>1
  <2>2. CASE r = [NoReg EXCEPT !.state = "Gone"]
    BY <2>2, NoRegIsARegistration
  <2> QED BY <1>2, <2>1, <2>2
<1>5. regs[next].state = "Unused"
  BY <1>3 DEF WatchInv, RegistrationsInOrder, Types
<1>6. regs'[next] = r /\ \A id \in Ids \ {next} : regs'[id] = regs[id]
  BY <1>2, <1>3 DEF WatchInv, Types
<1>7. stale \subseteq Ids /\ next \notin stale /\ next \notin controls
  BY <1>3, <1>5 DEF PumpInOrder, WatchInv, Types
<1> QED BY <1>1, <1>3, <1>4, <1>6, <1>7 DEF PumpInOrder

LEMMA UnbindInOrder ==
  ASSUME InOrder, NEW id \in Ids, Unbind(id)
  PROVE  InOrder'
<1> USE DEF InOrder
<1>1. WatchInv'
  BY UnbindTypes DEF PumpInOrder
<1>2. /\ regs' = [regs EXCEPT ![id].state = "Dropped"]
      /\ controls' = controls \cup {id} /\ stale' = stale \ {id}
      /\ pump' = pump /\ pump.step = "Idle" /\ ~stopped /\ stopped' = stopped
  BY DEF Unbind, Foreground
<1>3. /\ regs'[id].state = "Dropped" /\ \A other \in Ids \ {id} : regs'[other] = regs[other]
  BY <1>2 DEF WatchInv, Types, Registrations
<1>4. stale \subseteq Ids
  BY DEF WatchInv, Types
<1> QED BY <1>1, <1>2, <1>3, <1>4 DEF PumpInOrder

LEMMA StartPumpInOrder ==
  ASSUME InOrder, StartPump
  PROVE  InOrder'
<1> USE DEF InOrder
<1>1. WatchInv'
  BY StartPumpTypes
<1>2. /\ pump' = [pump EXCEPT !.step = "Unregister"] /\ pump = Idle /\ ~stopped
      /\ UNCHANGED <<stale, regs, controls, stopped>>
  BY DEF StartPump, Foreground, diskVars, registryVars, PumpInOrder
<1>3. /\ pump'.step = "Unregister" /\ pump'.batch = NoBatch /\ DOMAIN pump'.plans = {}
  BY <1>2 DEF Idle
<1> QED BY <1>1, <1>2, <1>3 DEF PumpInOrder

LEMMA UnregisterInOrder ==
  ASSUME InOrder, NEW id \in Ids, Unregister(id)
  PROVE  InOrder'
<1> USE DEF InOrder
<1>1. WatchInv'
  BY UnregisterTypes DEF PumpInOrder
<1>2. /\ regs' = [regs EXCEPT ![id] = [NoReg EXCEPT !.state = "Gone"]]
      /\ controls' = controls \ {id} /\ pump.step = "Unregister"
      /\ regs[id].state = "Dropped"
      /\ UNCHANGED <<stale, pump, stopped>>
  BY DEF Unregister, diskVars, inboxVars, PumpInOrder
<1>3. regs'[id].state = "Gone" /\ \A other \in Ids \ {id} : regs'[other] = regs[other]
  BY <1>2, NoRegIsARegistration DEF WatchInv, Types
<1>4. stale \subseteq Ids
  BY DEF WatchInv, Types
<1> QED BY <1>1, <1>2, <1>3, <1>4 DEF PumpInOrder

LEMMA PlanInOrder ==
  ASSUME InOrder, Plan
  PROVE  InOrder'
<1> USE DEF InOrder
<1>1. WatchInv'
  BY PlanTypes DEF PumpInOrder
<1>2. /\ pump.step = "Unregister" /\ controls = {} /\ pump'.step = "Replace"
      /\ UNCHANGED <<stale, regs, controls, stopped>>
  BY DEF Plan, diskVars, registryVars
<1> QED BY <1>1, <1>2 DEF PumpInOrder

LEMMA ReplaceInOrder ==
  ASSUME InOrder, NEW id \in Ids, Replace(id)
  PROVE  InOrder'
<1> USE DEF InOrder
<1>1. WatchInv'
  BY ReplaceTypes
<1>2. /\ pump.step = "Replace" /\ id \in DOMAIN pump.plans
      /\ UNCHANGED <<stale, controls, stopped>>
  BY DEF Replace, diskVars, inboxVars
<1>3. pump'.step = "Replace"
  <2>1. PICK plans, dirty : pump' = [pump EXCEPT !.plans = plans, !.dirty = dirty]
    BY DEF Replace
  <2> QED BY <1>2, <2>1 DEF WatchInv, Types, Pumps
<1>4. \A o \in Ids : regs'[o].state = regs[o].state
  <2>1. regs' = regs \/ \E rs : regs' = [regs EXCEPT ![id].roots = rs]
    BY DEF Replace
  <2> QED BY <2>1 DEF WatchInv, Types, Registrations
<1>5. stale \subseteq Ids
  BY DEF WatchInv, Types
<1> QED BY <1>1, <1>2, <1>3, <1>4, <1>5 DEF PumpInOrder

LEMMA FinishInOrder ==
  ASSUME InOrder, Finish
  PROVE  InOrder'
<1> USE DEF InOrder
<1>1. WatchInv'
  BY FinishTypes
<1>2. /\ pump' = Idle /\ stale' = stale \ Told /\ pump.step = "Replace"
      /\ UNCHANGED <<regs, controls, stopped>>
  BY DEF Finish, inboxVars
<1>3. Idle.step = "Idle"
  BY DEF Idle
<1> QED BY <1>1, <1>2, <1>3 DEF PumpInOrder

LEMMA ShutdownInOrder ==
  ASSUME InOrder, Shutdown
  PROVE  InOrder'
<1> USE DEF InOrder
<1>1. WatchInv'
  BY ShutdownTypes DEF PumpInOrder
<1>2. /\ regs' = [id \in Ids |-> IF id \in Live(regs) THEN [NoReg EXCEPT !.state = "Gone"]
                                 ELSE regs[id]]
      /\ roots' = [d \in Dirs |-> NoEntry]
      /\ controls' = {} /\ stale' = {} /\ pump' = pump /\ pump.step = "Idle"
  BY DEF Shutdown, Foreground
<1>3. \A id \in Ids : regs'[id].state \in {"Unused", "Gone"}
  BY <1>2, NoRegIsARegistration DEF Live, WatchInv, Types, Registrations, RegStates
<1> QED BY <1>1, <1>2, <1>3 DEF PumpInOrder

LEMMA StutterInOrder ==
  ASSUME InOrder, UNCHANGED vars
  PROVE  InOrder'
BY DEF InOrder, WatchInv, Types, RegistrationsInOrder, RootsInv, PumpInOrder, vars, diskVars,
       inboxVars, registryVars, Live

LEMMA NextInOrder ==
  ASSUME InOrder, [Next]_vars
  PROVE  InOrder'
<1>1. CASE Create \/ Delete \/ Modify
  BY <1>1, DiskInOrder
<1>2. ASSUME NEW ps \in SUBSET native, NEW error \in BOOLEAN,
             Report(ps, error) \/ NeedRescan(ps, error)
      PROVE  InOrder'
  BY <1>2, CallbackInOrder
<1>3. ASSUME NEW target \in Targets, Register(target)
      PROVE  InOrder'
  BY <1>3, RegisterInOrder
<1>4. ASSUME NEW id \in Ids, Unbind(id) \/ Unregister(id) \/ Replace(id)
      PROVE  InOrder'
  BY <1>4, UnbindInOrder, UnregisterInOrder, ReplaceInOrder
<1>5. CASE StartPump \/ Plan \/ Finish \/ Shutdown
  BY <1>5, StartPumpInOrder, PlanInOrder, FinishInOrder, ShutdownInOrder
<1>6. CASE UNCHANGED vars
  BY <1>6, StutterInOrder
<1> QED BY <1>1, <1>2, <1>3, <1>4, <1>5, <1>6 DEF Next

LEMMA AlwaysInOrder == Spec => []InOrder
BY InitInOrder, NextInOrder, PTL DEF Spec

\* Every variable of the coordinator keeps its type, and the inbox never holds
\* more than MAX_PENDING_PATHS paths (WatchInbox::record_paths).
THEOREM TypeCorrect == Spec => []TypeOK
<1>1. InOrder => TypeOK
  <2> SUFFICES ASSUME InOrder PROVE TypeOK
    OBVIOUS
  <2> USE DEF InOrder, WatchInv, Types
  <2>1. \A d \in Dirs : watches[d] \in Modes \cup {"None"} /\ roots[d] \in RootEntries
    BY DEF Natives
  <2>2. \A id \in Ids : regs[id].target \in Targets /\ regs[id].roots \subseteq Roots
    BY DEF Registrations
  <2>3. pump.step \in {"Idle", "Unregister", "Replace"} /\ pump.batch \in Batches
    BY DEF Pumps
  <2> QED BY <2>1, <2>2, <2>3 DEF TypeOK
<1> QED BY <1>1, AlwaysInOrder, PTL

\* A shared root never counts a reference no registration stands for, and until
\* a problem is reported it counts them all, asks for the mode they need, and
\* nothing else is watched: acquire_roots and its rollback, replace_roots,
\* unregister, repair_missing_roots and reattach_stable_affected_roots.
THEOREM RootsAnswer == Spec => []RootsAnswerNeeds
<1>1. InOrder => RootsAnswerNeeds
  <2> SUFFICES ASSUME InOrder, NEW d \in Dirs
               PROVE  /\ \A mode \in Modes : roots[d][mode] <= Needs(regs, d, mode)
                      /\ ~warned => /\ \A mode \in Modes : roots[d][mode] = Needs(regs, d, mode)
                                    /\ roots[d] # NoEntry =>
                                         roots[d].active = RequiredMode(roots[d])
                                    /\ watches[d] \in {roots[d].active, "None"}
    BY DEF RootsAnswerNeeds
  <2>1. Fits(roots[d], watches[d], NeedOf(regs)[<<d, "NonRecursive">>],
             NeedOf(regs)[<<d, "Recursive">>], ~warned)
    BY DEF InOrder, WatchInv, RootsInv, Answering
  <2>2. \A mode \in Modes : NeedOf(regs)[<<d, mode>>] = Needs(regs, d, mode)
    BY DEF NeedOf, Roots
  <2>3. roots[d] \in RootEntries
    BY DEF InOrder, WatchInv, Types
  <2>4. /\ roots[d]["NonRecursive"] = roots[d].NonRecursive
        /\ roots[d]["Recursive"] = roots[d].Recursive
    OBVIOUS
  <2> QED BY <2>1, <2>2, <2>3, <2>4 DEF Fits, Modes
<1> QED BY <1>1, AlwaysInOrder, PTL

-----------------------------------------------------------------------------
(* What is heard of *)

\* All that a batch announces; a rescan announces everything.
Announces(batch) == IF batch.rescan THEN Entries ELSE batch.paths

\* The changes the pump will hear of, or has heard of and not yet dealt with.
OnItsWay ==
  UNION {native, IF wake \/ pump.step = "Unregister" THEN Announces(inbox) ELSE {},
         Announces(pump.batch)}

Hears(target) == \E p \in OnItsWay : Related(target, p)

\* A lost watch is about to be noticed.
LossesAreNoticed == \A d \in Lost(roots, watches) : \E p \in OnItsWay : p <= d
\* A registration has its actual roots or is about to be looked at.
RootsAreActual ==
  \A id \in Ids : regs[id].state = "Bound" =>
    Hears(regs[id].target) \/ regs[id].roots = ActualRoots(regs[id].target)
StaleOnesHear == \A id \in stale : Hears(regs[id].target)
PlansAreActual ==
  pump.step = "Replace" =>
    /\ \A id \in Ids : regs[id].state = "Bound" =>
         IF id \in DOMAIN pump.plans THEN pump.plans[id] = ActualRoots(regs[id].target)
         ELSE regs[id].roots = ActualRoots(regs[id].target)
    /\ Lost(roots, watches) \subseteq pump.before

Heard ==
  ~warned /\ ~raced =>
    LossesAreNoticed /\ RootsAreActual /\ StaleOnesHear /\ PlansAreActual

LEMMA AnnouncesEntries ==
  ASSUME NEW b \in Batches
  PROVE  /\ Announces(b) \subseteq Entries /\ b.paths \subseteq Announces(b)
         /\ Announces(NoBatch) = {}
BY DEF Batches, Announces, NoBatch

LEMMA OnItsWayAreEntries ==
  ASSUME Types
  PROVE  OnItsWay \subseteq Entries
<1>1. pump.batch \in Batches /\ inbox \in Batches
  BY DEF Types, Pumps
<1> QED BY <1>1, AnnouncesEntries DEF OnItsWay, Types

\* A step that moves nothing but the registry, and keeps what is on its way.
LEMMA NothingNewToHear ==
  ASSUME InOrder, Heard, InOrder',
         warned => warned', raced => raced', depth' = depth,
         ~warned' => Lost(roots', watches') \subseteq Lost(roots, watches),
         OnItsWay \subseteq OnItsWay', stale' \subseteq stale,
         \A id \in stale' : regs'[id].target = regs[id].target,
         ~warned' => \A id \in Ids : regs'[id].state = "Bound" =>
                      \/ regs'[id] = regs[id]
                      \/ regs'[id].roots = ActualRoots(regs'[id].target),
         Heard /\ ~warned' /\ ~raced' => PlansAreActual'
  PROVE  Heard'
<1> SUFFICES ASSUME ~warned', ~raced'
             PROVE  (LossesAreNoticed /\ RootsAreActual /\ StaleOnesHear /\ PlansAreActual)'
  BY DEF Heard
<1>1. LossesAreNoticed /\ RootsAreActual /\ StaleOnesHear /\ PlansAreActual
  BY DEF Heard
<1>2. \A t \in Targets : ActualRoots(t)' = ActualRoots(t)
  BY DEF ActualRoots
<1>3. \A t \in Targets : Hears(t) => Hears(t)'
  BY DEF Hears, Related
<1>4. \A id \in Ids : regs[id].target \in Targets /\ regs'[id].target \in Targets
  BY DEF InOrder, WatchInv, Types, Registrations
<1>5. stale' \subseteq Ids
  BY DEF InOrder, WatchInv, Types
<1>6. LossesAreNoticed'
  BY <1>1 DEF LossesAreNoticed
<1>7. RootsAreActual'
  <2> SUFFICES ASSUME NEW id \in Ids, regs'[id].state = "Bound"
               PROVE  (Hears(regs[id].target) \/ regs[id].roots = ActualRoots(regs[id].target))'
    BY DEF RootsAreActual
  <2>1. PICK t \in Targets : t = regs'[id].target
    BY <1>4
  <2>2. CASE regs'[id] = regs[id]
    <3>1. Hears(t) \/ regs[id].roots = ActualRoots(t)
      BY <1>1, <2>1, <2>2 DEF RootsAreActual
    <3>2. Hears(t)' \/ regs'[id].roots = ActualRoots(t)'
      BY <1>2, <1>3, <2>2, <3>1
    <3> QED BY <2>1, <3>2 DEF Hears, ActualRoots
  <2>3. CASE regs'[id].roots = ActualRoots(regs'[id].target)
    <3>1. regs'[id].roots = ActualRoots(t)'
      BY <1>2, <2>1, <2>3
    <3> QED BY <2>1, <3>1 DEF ActualRoots
  <2> QED BY <2>2, <2>3
<1>8. StaleOnesHear'
  <2> SUFFICES ASSUME NEW id \in stale'
               PROVE  Hears(regs[id].target)'
    BY DEF StaleOnesHear
  <2>1. PICK t \in Targets : t = regs[id].target /\ t = regs'[id].target
    BY <1>4, <1>5
  <2>2. Hears(t)
    BY <1>1, <2>1 DEF StaleOnesHear
  <2>3. Hears(t)'
    BY <1>3, <2>2
  <2> QED BY <2>1, <2>3 DEF Hears
<1>9. PlansAreActual'
  OBVIOUS
<1> QED BY <1>6, <1>7, <1>8, <1>9

LEMMA CallbackHeard ==
  ASSUME InOrder, Heard, InOrder', NEW ps \in SUBSET native, NEW error \in BOOLEAN,
         Report(ps, error) \/ NeedRescan(ps, error)
  PROVE  Heard'
<1>1. Quiet /\ watches' = watches
  BY CallbackTypes DEF InOrder
<1>2. UNCHANGED <<depth, raced, stale>> /\ native' = native \ ps
  BY DEF Report, NeedRescan, CallbackFrame, diskVars
<1>3. CASE stopped
  <2>1. /\ \A id \in Ids : regs'[id].state # "Bound" /\ regs'[id] = regs[id]
        /\ \A d \in Dirs : roots'[d] = NoEntry
        /\ pump'.step = "Idle" /\ stale' \subseteq Ids
    BY <1>1, <1>2, <1>3 DEF Quiet, InOrder, PumpInOrder, WatchInv, Types
  <2>2. Lost(roots', watches') = {} /\ stale' = {}
    BY <1>1, <1>2, <2>1 DEF Lost, InOrder, PumpInOrder, Quiet
  <2> QED BY <2>1, <2>2 DEF Heard, LossesAreNoticed, RootsAreActual, StaleOnesHear, PlansAreActual
<1>4. CASE ~stopped
  <2>1. inbox \in Batches /\ inbox.paths \subseteq Entries /\ inbox.rescan \in BOOLEAN
        /\ native \subseteq Entries
    BY BatchFields DEF InOrder, WatchInv, Types
  <2>2. wake' = TRUE /\ Announces(inbox) \cup ps \subseteq Announces(inbox')
    <3>1. CASE Report(ps, error)
      <4>1. PICK kept \in SUBSET (inbox.paths \cup ps), full \in BOOLEAN :
              /\ inbox.paths \subseteq kept
              /\ kept # inbox.paths \cup ps \/ Cardinality(inbox.paths) = MaxPending => full
              /\ Wakes(kept, inbox.rescan \/ full, inbox.problem \/ error)
        BY <3>1 DEF Report
      <4>2. /\ inbox'.paths = kept /\ wake' = ~stopped
            /\ inbox'.rescan = (inbox.rescan \/ full \/ (wake /\ ~stopped))
        BY <4>1 DEF Wakes
      <4> QED BY <1>4, <2>1, <4>1, <4>2 DEF Announces
    <3>2. CASE NeedRescan(ps, error)
      <4>1. inbox'.rescan /\ wake' = ~stopped
        BY <3>2 DEF NeedRescan, Wakes
      <4> QED BY <1>4, <2>1, <4>1 DEF Announces
    <3> QED BY <3>1, <3>2
  <2>3. OnItsWay \subseteq OnItsWay'
    BY <1>1, <1>2, <2>2 DEF OnItsWay, Quiet
  <2>4. regs' = regs /\ pump' = pump /\ roots' = roots /\ watches' = watches /\ stale' = stale
        /\ warned' = warned /\ raced' = raced /\ depth' = depth /\ stale \subseteq Ids
    BY <1>1, <1>2 DEF Quiet, InOrder, WatchInv, Types
  <2>5. Heard /\ ~warned' /\ ~raced' => PlansAreActual'
    BY <2>4 DEF Heard, PlansAreActual, ActualRoots
  <2> QED BY <2>3, <2>4, <2>5, NothingNewToHear
<1> QED BY <1>3, <1>4
LEMMA RegisterHeard ==
  ASSUME InOrder, Heard, InOrder', NEW target \in Targets, Register(target)
  PROVE  Heard'
<1>1. RegistryKept
  BY RegisterKeeps DEF InOrder
<1>2. PICK r : /\ regs' = [regs EXCEPT ![next] = r]
               /\ \/ r = [state |-> "Bound", target |-> target, roots |-> ActualRoots(target)]
                  \/ r = [NoReg EXCEPT !.state = "Gone"]
  BY DEF Register
<1>3. /\ pump.step = "Idle" /\ next \in Ids
      /\ UNCHANGED <<depth, raced, stale, native, inbox, wake, pump>>
  BY BoundsAreNatural DEF Register, Foreground, diskVars, inboxVars, Ids, InOrder, WatchInv, Types
<1>4. regs'[next] = r /\ \A id \in Ids \ {next} : regs'[id] = regs[id]
  BY <1>2, <1>3 DEF InOrder, WatchInv, Types
<1>5. regs[next].state = "Unused" /\ stale \subseteq Ids \ {next}
  BY <1>3 DEF InOrder, WatchInv, RegistrationsInOrder, Types, PumpInOrder
<1>6. r.state = "Bound" => r.roots = ActualRoots(r.target)
  <2>1. CASE r = [state |-> "Bound", target |-> target, roots |-> ActualRoots(target)]
    BY <2>1
  <2>2. CASE r = [NoReg EXCEPT !.state = "Gone"]
    BY <2>2, NoRegIsARegistration
  <2> QED BY <1>2, <2>1, <2>2
<1>7. OnItsWay' = OnItsWay
  BY <1>3 DEF OnItsWay
<1>8. /\ warned => warned'
      /\ ~warned' => Lost(roots', watches') \subseteq Lost(roots, watches)
  BY <1>1 DEF RegistryKept
<1>9. PlansAreActual'
  BY <1>3 DEF PlansAreActual
<1>10. \A id \in stale' : regs'[id].target = regs[id].target
  BY <1>3, <1>4, <1>5
<1>11. \A id \in Ids : regs'[id].state = "Bound" =>
         regs'[id] = regs[id] \/ regs'[id].roots = ActualRoots(regs'[id].target)
  BY <1>4, <1>6
<1> QED BY <1>3, <1>7, <1>8, <1>9, <1>10, <1>11, NothingNewToHear

LEMMA UnbindHeard ==
  ASSUME InOrder, Heard, InOrder', NEW id \in Ids, Unbind(id)
  PROVE  Heard'
<1>1. /\ regs' = [regs EXCEPT ![id].state = "Dropped"]
      /\ wake' = TRUE /\ stale' = stale \ {id} /\ pump.step = "Idle"
      /\ UNCHANGED <<depth, raced, native, inbox, roots, watches, warned, pump>>
  BY DEF Unbind, Foreground
<1>2. /\ regs'[id].state = "Dropped" /\ \A other \in Ids \ {id} : regs'[other] = regs[other]
      /\ stale \subseteq Ids
  BY <1>1 DEF InOrder, WatchInv, Types, Registrations
<1>3. OnItsWay \subseteq OnItsWay'
  BY <1>1 DEF OnItsWay
<1>4. PlansAreActual'
  BY <1>1 DEF PlansAreActual
<1>5. \A o \in stale' : regs'[o].target = regs[o].target
  BY <1>1, <1>2
<1>6. \A o \in Ids : regs'[o].state = "Bound" => regs'[o] = regs[o]
  BY <1>2
<1> QED BY <1>1, <1>3, <1>4, <1>5, <1>6, NothingNewToHear

LEMMA StartPumpHeard ==
  ASSUME InOrder, Heard, InOrder', StartPump
  PROVE  Heard'
<1>1. /\ pump' = [pump EXCEPT !.step = "Unregister"] /\ pump = Idle
      /\ UNCHANGED <<depth, raced, stale, native, inbox, regs, roots, watches, warned>>
  BY DEF StartPump, Foreground, diskVars, registryVars, InOrder, PumpInOrder
<1>2. pump'.step = "Unregister" /\ pump'.batch = pump.batch
  BY <1>1 DEF Idle
<1>3. OnItsWay \subseteq OnItsWay'
  BY <1>1, <1>2 DEF OnItsWay
<1>4. PlansAreActual'
  BY <1>2 DEF PlansAreActual
<1> QED BY <1>1, <1>3, <1>4, NothingNewToHear

LEMMA UnregisterHeard ==
  ASSUME InOrder, Heard, InOrder', NEW id \in Ids, Unregister(id)
  PROVE  Heard'
<1>1. RegistryKept
  BY UnregisterKeeps DEF InOrder
<1>2. /\ regs' = [regs EXCEPT ![id] = [NoReg EXCEPT !.state = "Gone"]]
      /\ pump.step = "Unregister" /\ regs[id].state = "Dropped"
      /\ UNCHANGED <<depth, raced, stale, native, inbox, wake, pump>>
  BY DEF Unregister, diskVars, inboxVars, InOrder, PumpInOrder
<1>3. /\ regs'[id].state = "Gone" /\ \A other \in Ids \ {id} : regs'[other] = regs[other]
      /\ stale \subseteq Ids /\ id \notin stale
  BY <1>2, NoRegIsARegistration DEF InOrder, WatchInv, Types, PumpInOrder
<1>4. OnItsWay' = OnItsWay
  BY <1>2 DEF OnItsWay
<1>5. /\ warned => warned'
      /\ ~warned' => Lost(roots', watches') \subseteq Lost(roots, watches)
  BY <1>1 DEF RegistryKept
<1>6. PlansAreActual'
  BY <1>2 DEF PlansAreActual
<1>7. \A o \in stale' : regs'[o].target = regs[o].target
  BY <1>2, <1>3
<1>8. \A o \in Ids : regs'[o].state = "Bound" => regs'[o] = regs[o]
  BY <1>3
<1> QED BY <1>2, <1>4, <1>5, <1>6, <1>7, <1>8, NothingNewToHear

LEMMA PlanHeard ==
  ASSUME InOrder, Heard, InOrder', Plan
  PROVE  Heard'
<1>1. /\ pump'.step = "Replace" /\ pump'.batch = inbox
      /\ pump'.plans = [id \in Live(regs) |-> ActualRoots(regs[id].target)]
      /\ pump'.before = {d \in Dirs : roots[d] # NoEntry}
      /\ inbox' = NoBatch /\ controls = {} /\ pump.step = "Unregister"
      /\ UNCHANGED <<depth, raced, stale, native, wake, regs, roots, watches, warned>>
  BY DEF Plan, diskVars, registryVars
<1>2. pump.batch = NoBatch /\ \A id \in Ids : regs[id].state # "Dropped"
  BY <1>1 DEF InOrder, PumpInOrder
<1>3. OnItsWay \subseteq OnItsWay'
  BY <1>1, <1>2 DEF OnItsWay, Announces, NoBatch
<1>4. PlansAreActual'
  <2>1. \A id \in Ids : regs[id].state = "Bound" =>
          id \in DOMAIN pump'.plans /\ pump'.plans[id] = ActualRoots(regs[id].target)
    BY <1>1 DEF Live
  <2>2. Lost(roots', watches') \subseteq pump'.before
    BY <1>1 DEF Lost
  <2>3. (\A id \in Ids : regs[id].state = "Bound" =>
           id \in DOMAIN pump.plans /\ pump.plans[id] = ActualRoots(regs[id].target))'
    BY <1>1, <2>1 DEF ActualRoots
  <2> QED BY <2>2, <2>3 DEF PlansAreActual
<1> QED BY <1>1, <1>3, <1>4, NothingNewToHear

LEMMA ReplaceHeard ==
  ASSUME InOrder, Heard, InOrder', NEW id \in Ids, Replace(id)
  PROVE  Heard'
<1>1. RegistryKept /\ (~warned' => regs'[id].roots = pump.plans[id])
  BY ReplaceKeeps DEF InOrder
<1>2. /\ pump.step = "Replace" /\ id \in DOMAIN pump.plans
      /\ UNCHANGED <<depth, raced, stale, native, inbox, wake>>
  BY DEF Replace, diskVars, inboxVars
<1>3. /\ pump'.step = "Replace" /\ pump'.batch = pump.batch /\ pump'.before = pump.before
      /\ DOMAIN pump'.plans = DOMAIN pump.plans \ {id}
      /\ \A o \in DOMAIN pump'.plans : pump'.plans[o] = pump.plans[o]
  <2>1. PICK dirty :
          pump' = [pump EXCEPT
                     !.plans = [other \in DOMAIN pump.plans \ {id} |-> pump.plans[other]],
                     !.dirty = dirty]
    BY DEF Replace
  <2> QED BY <1>2, <2>1 DEF InOrder, WatchInv, Types, Pumps
<1>4. /\ \A o \in Ids : regs'[o].state = regs[o].state /\ regs'[o].target = regs[o].target
      /\ \A o \in Ids \ {id} : regs'[o] = regs[o]
  <2>1. regs' = regs \/ \E rs : regs' = [regs EXCEPT ![id].roots = rs]
    BY DEF Replace
  <2> QED BY <2>1 DEF InOrder, WatchInv, Types, Registrations
<1>5. OnItsWay' = OnItsWay
  BY <1>2, <1>3 DEF OnItsWay
<1>6. /\ warned => warned'
      /\ ~warned' => Lost(roots', watches') \subseteq Lost(roots, watches)
  BY <1>1 DEF RegistryKept
<1>7. \A t \in Targets : ActualRoots(t)' = ActualRoots(t)
  BY <1>2 DEF ActualRoots
<1>8. regs[id].state = "Bound" /\ regs[id].target \in Targets /\ stale \subseteq Ids
  BY <1>2 DEF InOrder, WatchInv, RegistrationsInOrder, Types, Registrations
<1>9. CASE warned' \/ raced'
  BY <1>9 DEF Heard
<1>10. CASE ~warned' /\ ~raced'
  <2>1. PlansAreActual
    BY <1>2, <1>6, <1>10 DEF Heard
  <2>2. regs'[id].roots = ActualRoots(regs[id].target)
    BY <1>1, <1>2, <1>8, <1>10, <2>1 DEF PlansAreActual
  <2>3. \A o \in Ids : regs'[o].state = "Bound" =>
          \/ regs'[o] = regs[o]
          \/ regs'[o].roots = ActualRoots(regs'[o].target)
    BY <1>4, <2>2
  <2>4. \A o \in Ids : regs[o].state = "Bound" =>
          IF o \in DOMAIN pump'.plans THEN pump'.plans[o] = ActualRoots(regs[o].target)
          ELSE regs'[o].roots = ActualRoots(regs[o].target)
    <3> SUFFICES ASSUME NEW o \in Ids, regs[o].state = "Bound"
                 PROVE  IF o \in DOMAIN pump'.plans
                        THEN pump'.plans[o] = ActualRoots(regs[o].target)
                        ELSE regs'[o].roots = ActualRoots(regs[o].target)
      OBVIOUS
    <3>1. CASE o = id
      BY <1>3, <2>2, <3>1
    <3>2. CASE o # id
      BY <1>2, <1>3, <1>4, <2>1, <3>2 DEF PlansAreActual
    <3> QED BY <3>1, <3>2
  <2>5. Lost(roots', watches') \subseteq pump'.before
    BY <1>2, <1>3, <1>6, <1>10, <2>1 DEF PlansAreActual
  <2>6. PlansAreActual'
    BY <1>2, <1>4, <2>4, <2>5 DEF PlansAreActual, ActualRoots
  <2> QED BY <1>2, <1>4, <1>5, <1>6, <1>8, <2>3, <2>6, NothingNewToHear
<1> QED BY <1>9, <1>10

LEMMA FinishHeard ==
  ASSUME InOrder, Heard, InOrder', Finish
  PROVE  Heard'
<1>1. /\ RegistryKept
      /\ ~warned' => \A d \in Lost(roots', watches') :
           d \in pump.before =>
             ~pump.batch.rescan /\ \A q \in pump.batch.paths : ~(q <= d)
  BY FinishKeeps DEF InOrder
<1>2. /\ pump' = Idle /\ stale' = stale \ Told /\ pump.step = "Replace"
      /\ DOMAIN pump.plans = {}
      /\ UNCHANGED <<depth, raced, native, inbox, wake, regs>>
  BY DEF Finish, inboxVars
<1>3. CASE warned' \/ raced'
  BY <1>3 DEF Heard
<1>4. CASE ~warned' /\ ~raced'
  <2>1. /\ LossesAreNoticed /\ RootsAreActual /\ StaleOnesHear /\ PlansAreActual
        /\ Lost(roots', watches') \subseteq Lost(roots, watches)
    BY <1>1, <1>2, <1>4 DEF Heard, RegistryKept
  <2>2. OnItsWay \ Announces(pump.batch) \subseteq OnItsWay'
    BY <1>2 DEF OnItsWay, Idle
  <2>3. pump'.step = "Idle"
    BY <1>2 DEF Idle
  <2>4. LossesAreNoticed'
    <3> SUFFICES ASSUME NEW d \in Lost(roots', watches')
                 PROVE  \E p \in OnItsWay' : p <= d
      BY DEF LossesAreNoticed
    <3>1. PICK p \in OnItsWay : p <= d
      BY <2>1 DEF LossesAreNoticed
    <3>2. d \in pump.before
      BY <1>2, <2>1 DEF PlansAreActual
    <3>3. p \notin Announces(pump.batch)
      BY <1>1, <1>4, <3>1, <3>2 DEF Announces
    <3> QED BY <2>2, <3>1, <3>3
  <2>5. RootsAreActual'
    BY <1>2, <2>1 DEF RootsAreActual, PlansAreActual, ActualRoots
  <2>6. StaleOnesHear'
    <3> SUFFICES ASSUME NEW id \in stale, id \notin Told
                 PROVE  Hears(regs[id].target)'
      BY <1>2 DEF StaleOnesHear
    <3>1. PICK t \in Targets : t = regs[id].target
      BY DEF InOrder, WatchInv, Types, Registrations
    <3>2. PICK p \in OnItsWay : Related(t, p)
      BY <2>1, <3>1 DEF StaleOnesHear, Hears
    <3>3. id \in Live(regs)
      BY DEF InOrder, WatchInv, Types, PumpInOrder, Live
    <3>4. p \notin Announces(pump.batch)
      BY <3>1, <3>2, <3>3 DEF Told, Announces
    <3>5. p \in OnItsWay'
      BY <2>2, <3>2, <3>4
    <3>6. t = regs'[id].target
      BY <1>2, <3>1
    <3> QED BY <3>2, <3>5, <3>6 DEF Hears, Related
  <2>7. PlansAreActual'
    BY <2>3 DEF PlansAreActual
  <2> QED BY <2>4, <2>5, <2>6, <2>7 DEF Heard
<1> QED BY <1>3, <1>4

LEMMA ShutdownHeard ==
  ASSUME InOrder, Heard, InOrder', Shutdown
  PROVE  Heard'
<1>1. /\ stopped' = TRUE /\ stale' = {} /\ pump' = pump /\ pump.step = "Idle"
  BY DEF Shutdown, Foreground
<1>2. /\ \A id \in Ids : regs'[id].state # "Bound"
      /\ \A d \in Dirs : roots'[d] = NoEntry
  BY <1>1 DEF InOrder, PumpInOrder
<1> QED BY <1>1, <1>2 DEF Heard, LossesAreNoticed, RootsAreActual, StaleOnesHear, PlansAreActual,
                       Lost
\* The roots of a target see a change it depends on, or one of them is lost.
LEMMA RootsSee ==
  ASSUME InOrder, ~warned, NEW id \in Ids, NEW t \in Targets, t = regs[id].target,
         regs[id].roots = ActualRoots(t), NEW path \in Entries,
         path \in {depth, depth + 1}, Concerns(path, t)
  PROVE  Seen(path) \/ \E d \in Lost(roots, watches) : d < t.path
<1> DEFINE desired == t.path - 1
<1>1. /\ t.path \in Entries /\ t.path \in Nat /\ desired \in Dirs
      /\ t.kind \in {"ExactFile", "DirectoryTree"}
      /\ depth \in Nat /\ path \in Nat /\ Deepest \in Nat
  BY TargetsAreEntries, BoundsAreNatural DEF Dirs, Entries, InOrder, WatchInv, Types
<1>2. ASSUME NEW d \in Dirs, NEW mode \in Modes, <<d, mode>> \in regs[id].roots, d < t.path,
             d \in {path - 1, path} \/ (mode = "Recursive" /\ d < path)
      PROVE  Seen(path) \/ \E x \in Lost(roots, watches) : x < t.path
  <2>1. <<d, mode>> \in Roots
    BY DEF Roots
  <2>2. NeedOf(regs)[<<d, mode>>] > 0
    BY <1>2, <2>1, WhoHasNeeds
  <2>3. Fits(roots[d], watches[d], NeedOf(regs)[<<d, "NonRecursive">>],
             NeedOf(regs)[<<d, "Recursive">>], ~warned)
    BY DEF InOrder, WatchInv, RootsInv, Answering
  <2>4. NeedOf(regs)[<<d, "NonRecursive">>] \in Nat /\ NeedOf(regs)[<<d, "Recursive">>] \in Nat
    BY NeedOfType, NeedsOf
  <2>5. /\ roots[d] # NoEntry /\ watches[d] \in {roots[d].active, "None"}
        /\ mode = "Recursive" => roots[d].active = "Recursive"
    BY <2>2, <2>3, <2>4 DEF Fits, Modes, NoEntry, RequiredMode
  <2>6. CASE watches[d] = "None"
    BY <1>2, <2>5, <2>6 DEF Lost
  <2>7. CASE watches[d] # "None"
    BY <1>2, <2>5, <2>7 DEF Seen
  <2> QED BY <2>6, <2>7
<1>3. CASE desired > depth
  <2>1. ActualRoots(t) = {<<depth, "NonRecursive">>}
    BY <1>3 DEF ActualRoots
  <2>2. depth \in Dirs /\ depth < t.path /\ depth \in {path - 1, path}
    BY <1>1, <1>3 DEF Dirs
  <2>3. PICK d \in Dirs : d = depth
    BY <2>2
  <2> QED BY <1>2, <2>1, <2>2, <2>3 DEF Modes
<1>4. CASE ~(desired > depth)
  <2>1. PICK mode \in Modes :
          /\ mode = IF t.kind = "ExactFile" THEN "NonRecursive" ELSE "Recursive"
          /\ <<desired, mode>> \in ActualRoots(t)
    BY <1>4 DEF ActualRoots, Modes
  <2>2. desired < t.path /\ path >= desired
    BY <1>1, <1>4 DEF Dirs
  <2>3. desired \in {path - 1, path} \/ (mode = "Recursive" /\ desired < path)
    BY <1>1, <2>1, <2>2 DEF Concerns, Dirs
  <2>4. PICK d \in Dirs : d = desired
    BY <1>1
  <2> QED BY <1>2, <2>1, <2>2, <2>3, <2>4
<1> QED BY <1>3, <1>4

LEMMA DiskSteps ==
  ASSUME Types, Create \/ Delete \/ Modify
  PROVE  \E path \in Entries :
           /\ Changes(path) /\ path \in {depth, depth + 1}
           /\ depth' \in Entries
           /\ \/ depth' = depth
              \/ depth < path /\ depth' = path
              \/ depth = path /\ depth' = path - 1
           /\ \A d \in Dirs \ {path} : watches'[d] = watches[d]
<1>1. depth \in Nat /\ Deepest \in Nat /\ depth <= Deepest /\ watches \in [Dirs -> Natives]
  BY BoundsAreNatural DEF Types, Entries
<1>2. CASE Create
  <2>1. depth < Deepest /\ depth' = depth + 1 /\ Changes(depth') /\ watches' = watches
    BY <1>2 DEF Create
  <2>2. PICK path \in Entries : path = depth'
    BY <1>1, <2>1 DEF Entries
  <2>3. Changes(path)
    BY <2>1, <2>2
  <2> QED BY <1>1, <2>1, <2>2, <2>3
<1>3. CASE Delete
  <2>1. /\ depth > 0 /\ depth' = depth - 1 /\ Changes(depth)
        /\ watches' = [d \in Dirs |-> IF d = depth THEN "None" ELSE watches[d]]
    BY <1>3 DEF Delete
  <2>2. depth \in Entries /\ depth' \in Entries
    BY <1>1, <2>1 DEF Entries
  <2>3. \A d \in Dirs \ {depth} : watches'[d] = watches[d]
    BY <2>1
  <2> QED BY <2>1, <2>2, <2>3
<1>4. CASE Modify
  <2>1. depth' = depth /\ Changes(depth) /\ watches' = watches /\ depth \in Entries
    BY <1>4 DEF Modify, Types
  <2> QED BY <2>1
<1> QED BY <1>2, <1>3, <1>4

LEMMA DiskHeard ==
  ASSUME InOrder, Heard, InOrder', Create \/ Delete \/ Modify
  PROVE  Heard'
<1>1. Quiet
  BY DiskTypes DEF InOrder
<1>2. PICK path \in Entries :
        /\ Changes(path) /\ path \in {depth, depth + 1}
        /\ depth' \in Entries
        /\ \/ depth' = depth
           \/ depth < path /\ depth' = path
           \/ depth = path /\ depth' = path - 1
        /\ \A d \in Dirs \ {path} : watches'[d] = watches[d]
  BY DiskSteps DEF InOrder, WatchInv
<1>3. /\ native' = IF Seen(path) /\ ~stopped THEN native \cup {path} ELSE native
      /\ stale' = stale \cup {id \in Ids : /\ regs[id].state = "Bound"
                                          /\ Concerns(path, regs[id].target)}
      /\ raced' = (raced \/ pump.step = "Replace") /\ UNCHANGED <<inbox, wake>>
  BY <1>2 DEF Changes, inboxVars
<1>4. CASE stopped
  <2>1. /\ \A id \in Ids : regs'[id].state # "Bound" /\ regs[id].state # "Bound"
        /\ \A d \in Dirs : roots'[d] = NoEntry
        /\ pump'.step = "Idle" /\ stale \subseteq Ids
    BY <1>1, <1>4 DEF Quiet, InOrder, PumpInOrder, WatchInv, Types
  <2>2. Lost(roots', watches') = {} /\ stale' = {}
    BY <1>3, <2>1 DEF Lost, InOrder, PumpInOrder
  <2> QED BY <2>1, <2>2 DEF Heard, LossesAreNoticed, RootsAreActual, StaleOnesHear, PlansAreActual
<1>5. CASE warned' \/ raced'
  BY <1>5 DEF Heard
<1>6. CASE ~stopped /\ ~warned' /\ ~raced'
  <2>1. /\ ~warned /\ pump.step # "Replace"
        /\ LossesAreNoticed /\ RootsAreActual /\ StaleOnesHear
    BY <1>1, <1>3, <1>6 DEF Heard, Quiet
  <2>2. /\ OnItsWay \subseteq OnItsWay'
        /\ Seen(path) => path \in OnItsWay'
    BY <1>1, <1>3, <1>6 DEF OnItsWay, Quiet
  <2>3. OnItsWay \subseteq Entries /\ \A t \in Targets : t.path \in Nat
    BY OnItsWayAreEntries, TargetsAreEntries DEF InOrder, WatchInv
  <2>4. LossesAreNoticed'
    <3> SUFFICES ASSUME NEW d \in Lost(roots', watches')
                 PROVE  \E p \in OnItsWay' : p <= d
      BY DEF LossesAreNoticed
    <3>1. CASE d \in Lost(roots, watches)
      BY <2>1, <2>2, <3>1 DEF LossesAreNoticed
    <3>2. CASE d \notin Lost(roots, watches)
      <4>1. d = path /\ d \in Dirs /\ watches[d] # "None"
        BY <1>1, <1>2, <3>2 DEF Lost, Quiet
      <4>2. Seen(path) /\ path <= d
        BY <4>1, BoundsAreNatural DEF Seen, Dirs
      <4> QED BY <2>2, <4>2
    <3> QED BY <3>1, <3>2
  <2>5. \A t \in Targets : Hears(t) => Hears(t)'
    BY <2>2 DEF Hears, Related
  <2>6. ASSUME NEW id \in Ids, NEW t \in Targets, t = regs[id].target,
               regs[id].state = "Bound", Concerns(path, t)
        PROVE  Hears(t)'
    <3>1. CASE Hears(t)
      BY <2>5, <3>1
    <3>2. CASE regs[id].roots = ActualRoots(t)
      <4>1. Seen(path) \/ \E d \in Lost(roots, watches) : d < t.path
        BY <1>2, <2>1, <2>6, <3>2, RootsSee
      <4>2. CASE Seen(path)
        <5>1. Related(t, path)
          BY <2>6, TargetsAreEntries DEF Related, Concerns, Entries
        <5> QED BY <2>2, <4>2, <5>1 DEF Hears, Related
      <4>3. CASE \E d \in Lost(roots, watches) : d < t.path
        <5>1. PICK d \in Lost(roots, watches) : d < t.path
          BY <4>3
        <5>2. PICK p \in OnItsWay : p <= d
          BY <2>1, <5>1 DEF LossesAreNoticed
        <5>3. p \in Nat /\ d \in Nat /\ t.path \in Nat
          BY <2>3, <5>1, <5>2, BoundsAreNatural DEF Lost, Dirs, Entries
        <5>4. p <= t.path
          BY <5>1, <5>2, <5>3
        <5> QED BY <2>2, <5>2, <5>4 DEF Hears, Related
      <4> QED BY <4>1, <4>2, <4>3
    <3> QED BY <2>1, <2>6, <3>1, <3>2 DEF RootsAreActual
  <2>7. ASSUME NEW t \in Targets, ~Concerns(path, t)
        PROVE  ActualRoots(t)' = ActualRoots(t)
    <3>1. /\ t.path \in Nat /\ path > t.path /\ path \in Nat
          /\ depth \in Nat /\ depth' \in Nat
      BY <1>2, <2>7, TargetsAreEntries DEF Concerns, Entries, InOrder, WatchInv, Types
    <3>2. ~(t.path - 1 > depth) /\ ~(t.path - 1 > depth')
      BY <1>2, <3>1
    <3> QED BY <3>2 DEF ActualRoots
  <2>8. RootsAreActual'
    <3> SUFFICES ASSUME NEW id \in Ids, regs[id].state = "Bound"
                 PROVE  (Hears(regs[id].target) \/ regs[id].roots = ActualRoots(regs[id].target))'
      BY <1>1 DEF RootsAreActual, Quiet
    <3>1. PICK t \in Targets : t = regs[id].target
      BY DEF InOrder, WatchInv, Types, Registrations
    <3>2. Hears(t)' \/ regs[id].roots = ActualRoots(t)'
      <4>1. CASE Concerns(path, t)
        BY <2>6, <3>1, <4>1
      <4>2. CASE ~Concerns(path, t)
        BY <2>1, <2>5, <2>7, <3>1, <4>2 DEF RootsAreActual
      <4> QED BY <4>1, <4>2
    <3>3. regs' = regs
      BY <1>1 DEF Quiet
    <3> QED BY <3>1, <3>2, <3>3 DEF Hears, ActualRoots
  <2>9. StaleOnesHear'
    <3> SUFFICES ASSUME NEW id \in stale'
                 PROVE  Hears(regs[id].target)'
      BY DEF StaleOnesHear
    <3>1. id \in Ids
      BY DEF InOrder, WatchInv, Types
    <3>2. PICK t \in Targets : t = regs[id].target
      BY <3>1 DEF InOrder, WatchInv, Types, Registrations
    <3>3. Hears(t)'
      <4>1. CASE id \in stale
        BY <2>1, <2>5, <3>2, <4>1 DEF StaleOnesHear
      <4>2. CASE id \notin stale
        BY <1>3, <2>6, <3>2, <4>2
      <4> QED BY <4>1, <4>2
    <3>4. regs' = regs
      BY <1>1 DEF Quiet
    <3> QED BY <3>2, <3>3, <3>4 DEF Hears
  <2>10. PlansAreActual'
    BY <1>1, <2>1 DEF PlansAreActual, Quiet
  <2> QED BY <2>4, <2>8, <2>9, <2>10 DEF Heard
<1> QED BY <1>4, <1>5, <1>6

LEMMA NextHeard ==
  ASSUME InOrder, Heard, InOrder', [Next]_vars
  PROVE  Heard'
<1>1. CASE Create \/ Delete \/ Modify
  BY <1>1, DiskHeard
<1>2. ASSUME NEW ps \in SUBSET native, NEW error \in BOOLEAN,
             Report(ps, error) \/ NeedRescan(ps, error)
      PROVE  Heard'
  BY <1>2, CallbackHeard
<1>3. ASSUME NEW target \in Targets, Register(target)
      PROVE  Heard'
  BY <1>3, RegisterHeard
<1>4. ASSUME NEW id \in Ids, Unbind(id) \/ Unregister(id) \/ Replace(id)
      PROVE  Heard'
  BY <1>4, UnbindHeard, UnregisterHeard, ReplaceHeard
<1>5. CASE StartPump \/ Plan \/ Finish \/ Shutdown
  BY <1>5, StartPumpHeard, PlanHeard, FinishHeard, ShutdownHeard
<1>6. CASE UNCHANGED vars
  BY <1>6 DEF Heard, LossesAreNoticed, RootsAreActual, StaleOnesHear, PlansAreActual, Hears,
              OnItsWay, ActualRoots, vars, diskVars, inboxVars, registryVars
<1> QED BY <1>1, <1>2, <1>3, <1>4, <1>5, <1>6 DEF Next

\* A registration whose target changed is about to be told, as long as the user
\* was not warned and no pump raced the disk: record_native_result, pump_once
\* and reconcile between them drop no change.
THEOREM ChangesAreHeard == Spec => []NoChangeIsLost
<1>1. Init => Heard
  <2> SUFFICES ASSUME Init PROVE Heard
    OBVIOUS
  <2>1. /\ \A id \in Ids : regs[id].state = "Unused"
        /\ \A d \in Dirs : roots[d] = NoEntry
        /\ stale = {} /\ pump.step = "Idle"
    BY DEF Init, NoReg, Idle
  <2> QED BY <2>1 DEF Heard, LossesAreNoticed, RootsAreActual, StaleOnesHear, PlansAreActual, Lost
<1>2. Spec => []Heard
  BY <1>1, NextHeard, AlwaysInOrder, PTL DEF Spec
<1>3. InOrder /\ Heard => NoChangeIsLost
  <2> SUFFICES ASSUME InOrder, Heard, ~warned, ~raced, NEW id \in stale
               PROVE  \/ \E p \in native : Related(regs[id].target, p)
                      \/ (wake \/ pump.step = "Unregister") /\ Tells(inbox, regs[id].target)
                      \/ Tells(pump.batch, regs[id].target)
    BY DEF NoChangeIsLost
  <2>1. PICK p \in OnItsWay : Related(regs[id].target, p)
    BY DEF Heard, StaleOnesHear, Hears
  <2>2. CASE p \in native
    BY <2>1, <2>2
  <2>3. CASE (wake \/ pump.step = "Unregister") /\ p \in Announces(inbox)
    BY <2>1, <2>3 DEF Announces, Tells
  <2>4. CASE p \in Announces(pump.batch)
    BY <2>1, <2>4 DEF Announces, Tells
  <2> QED BY <2>1, <2>2, <2>3, <2>4 DEF OnItsWay
<1> QED BY <1>2, <1>3, AlwaysInOrder, PTL
=============================================================================
