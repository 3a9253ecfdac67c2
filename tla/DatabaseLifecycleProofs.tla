----------------------- MODULE DatabaseLifecycleProofs -----------------------
(***************************************************************************)
(* Proofs about DatabaseLifecycle, for every finite set of commands, every *)
(* set of sessions and every number of starts: its invariants, and that    *)
(* the database file changes only while no command runs on it.             *)
(***************************************************************************)
EXTENDS DatabaseLifecycle, FiniteSetTheorems, TLAPS

-----------------------------------------------------------------------------
(* The inductive invariant.  What the properties need besides themselves is  *)
(* that the count is exact, so that a zero means that nobody is inside.      *)

Inside == {"Counted", "Withdrawing", "Running"}

\* The workers that are counted in session s.
Holders(s) == {w \in Workers : job[w] \in Inside /\ jobSession[w] = s}

Types ==
  /\ starts \in 0..MaxStarts
  /\ process \in {"Up", "Down"}
  /\ phase \in Phases
  /\ session \in Sessions \cup {None}
  /\ session # None <=> phase \in {"Ready", "Refreshing"}
  /\ problem \in Problems \cup {None}
  /\ problem # None <=> phase \in {"Retiring", "Unavailable", "Repairing"}
  /\ active \in [Sessions -> Owners]
  /\ accepting \in [Sessions -> BOOLEAN]
  /\ activeJobs \in [Sessions -> Int]
  /\ empty \subseteq Sessions
  /\ job \in [Workers -> JobSteps]
  /\ jobSession \in [Workers -> Sessions \cup {None}]
  /\ driver \in Drivers
  /\ driver # "None" <=> phase = "Repairing"
  /\ outcome \in Problems \cup {"Opened", None}
  /\ quitting \in {"No", "AwaitRuntime", "Draining"}
  /\ quitSession \in Sessions \cup {None}
  /\ lock \in Sessions \cup {None, "Repair", "Other"}
  /\ file \in {"Old", "None", "Fresh"}
  /\ saved \in BOOLEAN

\* Nothing runs in a process that is down, and a repair that returns has a result.
Rest ==
  /\ process = "Down" => phase = "Idle" /\ lock \in {None, "Other"}
  /\ driver = "Returned" => outcome # None

\* The count of a session is the number of the workers inside.
CountsAreExact == \A s \in Sessions : activeJobs[s] = Cardinality(Holders(s))

\* A worker on its way uses a session; the validation is one only in Refreshing.
WorkersHaveSessions ==
  /\ \A w \in Workers : job[w] \in {"Queued", "Checked"} \cup Inside =>
       jobSession[w] \in Sessions
  /\ job[Validation] # "Idle" => phase = "Refreshing"

\* Whoever holds an active session holds the lock, and so does a repair.
OwnersHoldTheLock ==
  /\ \A s \in Sessions : active[s] \in {"Session", "Retire", "Quit"} => lock = s
  /\ driver \in {"Reopen", "BackUp", "RemoveOld", "Rename"} => lock = "Repair"
  /\ driver = "Returned" /\ outcome = "Opened" => lock = "Repair"

\* Only a session nobody took admits jobs; one seen empty stays empty.
TakenSessionsAdmitNobody ==
  /\ \A s \in Sessions : accepting[s] => active[s] = "Session"
  /\ \A s \in empty : active[s] \notin {"Unused", "Session"}
  /\ \A w \in Workers : job[w] = "Running" =>
       /\ jobSession[w] \notin empty
       /\ active[jobSession[w]] \in {"Session", "Retire", "Quit"}

\* Without a quit, the operation and the owner of its session go together.
PhaseHasItsOwner ==
  quitting = "No" =>
    /\ phase \in {"Ready", "Refreshing"} =>
         active[session] = "Session" /\ accepting[session]
    /\ phase = "Retiring" => \E s \in Sessions : active[s] = "Retire"
    /\ phase \in {"Unavailable", "Repairing"} => lock \notin Sessions
    /\ phase = "Unavailable" => lock # "Repair"

\* The old file goes only after its backup.
BackUpComesFirst ==
  /\ file = "Old" \/ saved
  /\ driver \in {"RemoveOld", "Rename"} => saved

Inv ==
  /\ Types /\ Rest
  /\ CountsAreExact /\ WorkersHaveSessions
  /\ OwnersHoldTheLock /\ TakenSessionsAdmitNobody
  /\ PhaseHasItsOwner /\ BackUpComesFirst

-----------------------------------------------------------------------------
(* The counts *)

\* The workers are finitely many, and so are those inside a session.
LEMMA WorkersAreFinite ==
  /\ IsFiniteSet(Workers)
  /\ \A s : IsFiniteSet(Holders(s)) /\ Cardinality(Holders(s)) \in 0..Cardinality(Workers)
<1>1. IsFiniteSet(Workers)
  BY JobsAreFinite, FS_AddElement DEF Workers
<1>2. ASSUME NEW s
      PROVE  IsFiniteSet(Holders(s)) /\ Cardinality(Holders(s)) \in 0..Cardinality(Workers)
  <2>1. Holders(s) \subseteq Workers
    BY DEF Holders
  <2>2. IsFiniteSet(Holders(s)) /\ Cardinality(Holders(s)) <= Cardinality(Workers)
    BY <1>1, <2>1, FS_Subset
  <2> QED BY <1>1, <2>2, FS_CardinalityType
<1> QED BY <1>1, <1>2

\* A count of zero means that nobody is inside.
LEMMA ZeroMeansEmpty ==
  ASSUME Inv, NEW s \in Sessions, activeJobs[s] = 0
  PROVE  Holders(s) = {}
  BY WorkersAreFinite, FS_EmptySet DEF Inv, CountsAreExact

\* Nobody is inside who was not, and nobody has left: the counts stay exact.
LEMMA SameHolders ==
  ASSUME Inv, activeJobs' = activeJobs, \A s \in Sessions : Holders(s)' = Holders(s)
  PROVE  CountsAreExact'
  BY DEF Inv, CountsAreExact

\* A worker outside its session's count enters it.
LEMMA OneEnters ==
  ASSUME Inv, NEW w \in Workers, job[w] \notin Inside, jobSession[w] \in Sessions,
         NEW step \in Inside, job' = [job EXCEPT ![w] = step],
         jobSession' = jobSession,
         activeJobs' = [activeJobs EXCEPT ![jobSession[w]] = @ + 1]
  PROVE  CountsAreExact'
<1> DEFINE s == jobSession[w]
<1>1. Holders(s)' = Holders(s) \cup {w} /\ w \notin Holders(s)
  BY DEF Holders, Inv, Types
<1>2. \A r \in Sessions : r # s => Holders(r)' = Holders(r)
  BY DEF Holders, Inv, Types
<1>3. Cardinality(Holders(s)') = Cardinality(Holders(s)) + 1
  BY <1>1, WorkersAreFinite, FS_AddElement
<1>4. activeJobs'[s] = activeJobs[s] + 1 /\ \A r \in Sessions : r # s => activeJobs'[r] = activeJobs[r]
  BY DEF Inv, Types
<1> QED BY <1>2, <1>3, <1>4 DEF Inv, CountsAreExact

\* A worker in its session's count leaves it.
LEMMA OneLeaves ==
  ASSUME Inv, NEW w \in Workers, job[w] \in Inside, jobSession[w] \in Sessions,
         NEW step, step \notin Inside, job' = [job EXCEPT ![w] = step],
         jobSession' = jobSession,
         activeJobs' = [activeJobs EXCEPT ![jobSession[w]] = @ - 1]
  PROVE  CountsAreExact'
<1> DEFINE s == jobSession[w]
<1>1. Holders(s)' = Holders(s) \ {w} /\ w \in Holders(s)
  BY DEF Holders, Inv, Types
<1>2. \A r \in Sessions : r # s => Holders(r)' = Holders(r)
  BY DEF Holders, Inv, Types
<1>3. Cardinality(Holders(s)') = Cardinality(Holders(s)) - 1
  BY <1>1, WorkersAreFinite, FS_RemoveElement
<1>4. activeJobs'[s] = activeJobs[s] - 1 /\ \A r \in Sessions : r # s => activeJobs'[r] = activeJobs[r]
  BY DEF Inv, Types
<1> QED BY <1>2, <1>3, <1>4 DEF Inv, CountsAreExact

\* With the process ends every count and everybody inside.
LEMMA StoppedCounts ==
  ASSUME ProcessEnds
  PROVE  CountsAreExact'
<1>1. \A s \in Sessions : Holders(s)' = {}
  BY DEF ProcessEnds, Holders, Inside
<1>2. \A s \in Sessions : activeJobs'[s] = 0
  BY DEF ProcessEnds
<1> QED BY <1>1, <1>2, FS_EmptySet DEF CountsAreExact

\* Every step keeps the counts exact.
LEMMA CountsStep ==
  ASSUME Inv, [Next]_vars
  PROVE  CountsAreExact'
<1>1. ASSUME NEW w \in Jobs, NEW s \in Sessions, StartJob(w, s)
      PROVE  CountsAreExact'
  <2>1. \A r \in Sessions : Holders(r)' = Holders(r)
    BY <1>1 DEF StartJob, HandedOut, Holders, Inside, Inv, Types, WorkersHaveSessions, workerVars, Workers
  <2> QED BY <1>1, <2>1, SameHolders DEF StartJob, HandedOut, sessionVars
<1>2. ASSUME NEW w \in Workers, CheckAccepting(w)
      PROVE  CountsAreExact'
  <2>1. \A r \in Sessions : Holders(r)' = Holders(r)
    BY <1>2 DEF CheckAccepting, Goes, Ended, JobFrame, Holders, Inside, Inv, Types, WorkersHaveSessions, workerVars, Workers
  <2> QED BY <1>2, <2>1, SameHolders DEF CheckAccepting, Goes, Ended, JobFrame, sessionVars
<1>3. ASSUME NEW w \in Workers, Count(w)
      PROVE  CountsAreExact'
  BY <1>3, OneEnters DEF Count, Goes, JobFrame, Inside, Inv, WorkersHaveSessions
<1>4. ASSUME NEW w \in Workers, CheckAgain(w)
      PROVE  CountsAreExact'
  <2>1. \A r \in Sessions : Holders(r)' = Holders(r)
    BY <1>4 DEF CheckAgain, Goes, JobFrame, Holders, Inside, Inv, Types, WorkersHaveSessions, workerVars, Workers
  <2> QED BY <1>4, <2>1, SameHolders DEF CheckAgain, Goes, JobFrame, sessionVars
<1>5. ASSUME NEW w \in Workers, Withdraw(w)
      PROVE  CountsAreExact'
  <2>1. Ended(w, FALSE) \notin Inside
    BY DEF Ended, Inside
  <2> QED BY <1>5, <2>1, OneLeaves DEF Withdraw, Goes, JobFrame, Inside, Inv, WorkersHaveSessions
<1>6. ASSUME NEW w \in Workers, NEW passed \in BOOLEAN, JobEnds(w, passed)
      PROVE  CountsAreExact'
  <2>1. Ended(w, passed) \notin Inside
    BY DEF Ended, Inside
  <2> QED BY <1>6, <2>1, OneLeaves DEF JobEnds, Goes, JobFrame, Inside, Inv, WorkersHaveSessions
<1>7. ASSUME NEW s \in Sessions, SeeEmpty(s)
      PROVE  CountsAreExact'
  BY <1>7, SameHolders DEF SeeEmpty, Holders, sessionVars, workerVars
<1>8. CASE RequestRefresh
  <2>1. \A r \in Sessions : Holders(r)' = Holders(r)
    BY <1>8 DEF RequestRefresh, Holders, Inside, Inv, Types, WorkersHaveSessions, workerVars, Workers
  <2> QED BY <1>8, <2>1, SameHolders DEF RequestRefresh, sessionVars
<1>9. CASE RefreshPasses
  <2>1. \A r \in Sessions : Holders(r)' = Holders(r)
    BY <1>9 DEF RefreshPasses, Goes, Holders, Inside, Inv, Types, WorkersHaveSessions, workerVars, Workers
  <2> QED BY <1>9, <2>1, SameHolders DEF RefreshPasses, Goes, sessionVars
<1>10. CASE RefreshFails
  <2>1. \A r \in Sessions : Holders(r)' = Holders(r)
    BY <1>10 DEF RefreshFails, TakeActive, Goes, Holders, Inside, Inv, Types, WorkersHaveSessions, workerVars, Workers
  <2> QED BY <1>10, <2>1, SameHolders DEF RefreshFails, TakeActive, Goes, sessionVars
<1>11. CASE Retire
  BY <1>11, SameHolders DEF Retire, Drained, DropActive, Holders, sessionVars,
      workerVars
<1>12. CASE RequestReopen
  BY <1>12, SameHolders DEF RequestReopen, Holders, sessionVars, workerVars
<1>13. CASE RequestFresh
  BY <1>13, SameHolders DEF RequestFresh, Holders, sessionVars, workerVars
<1>14. CASE AcquireLock
  BY <1>14, SameHolders DEF AcquireLock, Returns, DriverFrame, Holders,
      sessionVars, workerVars
<1>15. CASE Reopen
  BY <1>15, SameHolders DEF Reopen, Returns, DriverFrame, Holders,
      sessionVars, workerVars
<1>16. CASE BackUp
  BY <1>16, SameHolders DEF BackUp, Returns, DriverFrame, Holders,
      sessionVars, workerVars
<1>17. CASE RemoveOld
  BY <1>17, SameHolders DEF RemoveOld, Returns, DriverFrame, Holders,
      sessionVars, workerVars
<1>18. CASE Rename
  BY <1>18, SameHolders DEF Rename, Returns, DriverFrame, Holders,
      sessionVars, workerVars
<1>19. CASE RepairDone
  BY <1>19, SameHolders DEF RepairDone, OpenSession, Unused, Holders,
      sessionVars, workerVars
<1>20. CASE RequestQuit
  BY <1>20, SameHolders DEF RequestQuit, Holders, sessionVars, workerVars
<1>21. CASE QuitTakes
  BY <1>21, SameHolders DEF QuitTakes, TakeActive, Holders, sessionVars,
      workerVars
<1>22. CASE QuitDone
  BY <1>22, StoppedCounts DEF QuitDone
<1>23. CASE Crash
  BY <1>23, StoppedCounts DEF Crash
<1>24. CASE Start
  BY <1>24, SameHolders DEF Start, OpenSession, Unused, Holders, sessionVars,
      workerVars
<1>25. CASE OtherLocks
  BY <1>25, SameHolders DEF OtherLocks, Holders, sessionVars, workerVars
<1>26. CASE OtherUnlocks
  BY <1>26, SameHolders DEF OtherUnlocks, Holders, sessionVars, workerVars
<1>27. CASE UNCHANGED vars
  BY <1>27, SameHolders DEF vars, Holders, sessionVars, workerVars
<1> QED BY <1>1, <1>2, <1>3, <1>4, <1>5, <1>6, <1>7, <1>8, <1>9, <1>10, <1>11,
    <1>12, <1>13, <1>14, <1>15, <1>16, <1>17, <1>18, <1>19, <1>20, <1>21,
    <1>22, <1>23, <1>24, <1>25, <1>26, <1>27 DEF Next, Works, TaskRuns

-----------------------------------------------------------------------------
(* The other parts of the invariant, one step of each lemma per action *)

\* Every step keeps the types.
LEMMA TypesStep ==
  ASSUME Inv, [Next]_vars
  PROVE  Types'
<1> USE NamesAreApart DEF Inv, Types, Rest, WorkersHaveSessions,
    operationVars, sessionVars, workerVars, driverVars, quitVars, diskVars,
    Phases, Problems, Owners, JobSteps, Drivers, Workers, None, Validation,
    Inside
<1>1. ASSUME NEW w \in Jobs, NEW s \in Sessions, StartJob(w, s)
      PROVE  Types'
  BY <1>1 DEF StartJob, HandedOut
<1>2. ASSUME NEW w \in Workers, CheckAccepting(w)
      PROVE  Types'
  BY <1>2 DEF CheckAccepting, Goes, Ended, JobFrame
<1>3. ASSUME NEW w \in Workers, Count(w)
      PROVE  Types'
  BY <1>3 DEF Count, Goes, JobFrame
<1>4. ASSUME NEW w \in Workers, CheckAgain(w)
      PROVE  Types'
  BY <1>4 DEF CheckAgain, Goes, JobFrame
<1>5. ASSUME NEW w \in Workers, Withdraw(w)
      PROVE  Types'
  BY <1>5 DEF Withdraw, Goes, Ended, JobFrame
<1>6. ASSUME NEW w \in Workers, NEW passed \in BOOLEAN, JobEnds(w, passed)
      PROVE  Types'
  BY <1>6 DEF JobEnds, Goes, Ended, JobFrame
<1>7. ASSUME NEW s \in Sessions, SeeEmpty(s)
      PROVE  Types'
  BY <1>7 DEF SeeEmpty
<1>8. CASE RequestRefresh BY <1>8 DEF RequestRefresh
<1>9. CASE RefreshPasses BY <1>9 DEF RefreshPasses, Goes
<1>10. CASE RefreshFails
  <2>1. /\ active' \in [Sessions -> Owners] /\ accepting' \in [Sessions -> BOOLEAN]
        /\ activeJobs' \in [Sessions -> Int] /\ empty' \subseteq Sessions
    BY <1>10 DEF RefreshFails, TakeActive
  <2>2. job' \in [Workers -> JobSteps]
    BY <1>10 DEF RefreshFails, Goes
  <2> QED BY <1>10, <2>1, <2>2 DEF RefreshFails
<1>11. CASE Retire BY <1>11 DEF Retire, Drained, DropActive
<1>12. CASE RequestReopen BY <1>12 DEF RequestReopen
<1>13. CASE RequestFresh BY <1>13 DEF RequestFresh
<1>14. CASE AcquireLock BY <1>14 DEF AcquireLock, Returns, DriverFrame
<1>15. CASE Reopen BY <1>15 DEF Reopen, Returns, DriverFrame
<1>16. CASE BackUp
  <2>1. saved' \in BOOLEAN BY <1>16 DEF BackUp
  <2> QED BY <1>16, <2>1 DEF BackUp, Returns, DriverFrame
<1>17. CASE RemoveOld BY <1>17 DEF RemoveOld, Returns, DriverFrame
<1>18. CASE Rename BY <1>18 DEF Rename, Returns, DriverFrame
<1>19. CASE RepairDone
  <2>1. /\ active' \in [Sessions -> Owners] /\ accepting' \in [Sessions -> BOOLEAN]
        /\ activeJobs' \in [Sessions -> Int] /\ empty' \subseteq Sessions
    BY <1>19 DEF RepairDone, OpenSession, Unused
  <2> QED BY <1>19, <2>1 DEF RepairDone, OpenSession, Unused
<1>20. CASE RequestQuit BY <1>20 DEF RequestQuit
<1>21. CASE QuitTakes
  <2>1. /\ active' \in [Sessions -> Owners] /\ accepting' \in [Sessions -> BOOLEAN]
        /\ activeJobs' \in [Sessions -> Int] /\ empty' \subseteq Sessions
    BY <1>21 DEF QuitTakes, TakeActive
  <2> QED BY <1>21, <2>1 DEF QuitTakes
<1>22. CASE QuitDone BY <1>22 DEF QuitDone, ProcessEnds
<1>23. CASE Crash BY <1>23 DEF Crash, ProcessEnds
<1>24. CASE Start
  <2>1. /\ active' \in [Sessions -> Owners] /\ accepting' \in [Sessions -> BOOLEAN]
        /\ activeJobs' \in [Sessions -> Int] /\ empty' \subseteq Sessions
    <3>1. CASE \E s \in Unused : OpenSession(s) BY <3>1 DEF OpenSession, Unused
    <3>2. CASE UNCHANGED sessionVars BY <3>2
    <3> QED BY <1>24, <3>1, <3>2 DEF Start
  <2>2. starts' \in 0..MaxStarts
    BY <1>24, MaxStartsIsNatural DEF Start
  <2> QED BY <1>24, <2>1, <2>2 DEF Start, OpenSession, Unused
<1>25. CASE OtherLocks BY <1>25 DEF OtherLocks
<1>26. CASE OtherUnlocks BY <1>26 DEF OtherUnlocks
<1>27. CASE UNCHANGED vars BY <1>27 DEF vars
<1> QED BY <1>1, <1>2, <1>3, <1>4, <1>5, <1>6, <1>7, <1>8, <1>9, <1>10, <1>11,
    <1>12, <1>13, <1>14, <1>15, <1>16, <1>17, <1>18, <1>19, <1>20, <1>21,
    <1>22, <1>23, <1>24, <1>25, <1>26, <1>27 DEF Next, Works, TaskRuns

\* A stopped process holds nothing, and a repair returns with a result.
LEMMA RestStep ==
  ASSUME Inv, [Next]_vars
  PROVE  Rest'
<1> USE NamesAreApart DEF Inv, Rest, Types, operationVars, sessionVars,
    workerVars, driverVars, quitVars, diskVars, None, Problems
<1>1. ASSUME NEW w \in Jobs, NEW s \in Sessions, StartJob(w, s)
      PROVE  Rest'
  BY <1>1 DEF StartJob, HandedOut
<1>2. ASSUME NEW w \in Workers, CheckAccepting(w)
      PROVE  Rest'
  BY <1>2 DEF CheckAccepting, Goes, Ended, JobFrame
<1>3. ASSUME NEW w \in Workers, Count(w)
      PROVE  Rest'
  BY <1>3 DEF Count, Goes, JobFrame
<1>4. ASSUME NEW w \in Workers, CheckAgain(w)
      PROVE  Rest'
  BY <1>4 DEF CheckAgain, Goes, JobFrame
<1>5. ASSUME NEW w \in Workers, Withdraw(w)
      PROVE  Rest'
  BY <1>5 DEF Withdraw, Goes, Ended, JobFrame
<1>6. ASSUME NEW w \in Workers, NEW passed \in BOOLEAN, JobEnds(w, passed)
      PROVE  Rest'
  BY <1>6 DEF JobEnds, Goes, Ended, JobFrame
<1>7. ASSUME NEW s \in Sessions, SeeEmpty(s)
      PROVE  Rest'
  BY <1>7 DEF SeeEmpty
<1>8. CASE RequestRefresh BY <1>8 DEF RequestRefresh
<1>9. CASE RefreshPasses BY <1>9 DEF RefreshPasses, Goes
<1>10. CASE RefreshFails BY <1>10 DEF RefreshFails, TakeActive, Goes
<1>11. CASE Retire BY <1>11 DEF Retire, Drained, DropActive
<1>12. CASE RequestReopen BY <1>12 DEF RequestReopen
<1>13. CASE RequestFresh BY <1>13 DEF RequestFresh
<1>14. CASE AcquireLock BY <1>14 DEF AcquireLock, Returns, DriverFrame
<1>15. CASE Reopen BY <1>15 DEF Reopen, Returns, DriverFrame
<1>16. CASE BackUp BY <1>16 DEF BackUp, Returns, DriverFrame
<1>17. CASE RemoveOld BY <1>17 DEF RemoveOld, Returns, DriverFrame
<1>18. CASE Rename BY <1>18 DEF Rename, Returns, DriverFrame
<1>19. CASE RepairDone BY <1>19 DEF RepairDone, OpenSession, Unused
<1>20. CASE RequestQuit BY <1>20 DEF RequestQuit
<1>21. CASE QuitTakes BY <1>21 DEF QuitTakes, TakeActive
<1>22. CASE QuitDone BY <1>22 DEF QuitDone, ProcessEnds
<1>23. CASE Crash BY <1>23 DEF Crash, ProcessEnds
<1>24. CASE Start BY <1>24 DEF Start, OpenSession, Unused
<1>25. CASE OtherLocks BY <1>25 DEF OtherLocks
<1>26. CASE OtherUnlocks BY <1>26 DEF OtherUnlocks
<1>27. CASE UNCHANGED vars BY <1>27 DEF vars
<1> QED BY <1>1, <1>2, <1>3, <1>4, <1>5, <1>6, <1>7, <1>8, <1>9, <1>10, <1>11,
    <1>12, <1>13, <1>14, <1>15, <1>16, <1>17, <1>18, <1>19, <1>20, <1>21,
    <1>22, <1>23, <1>24, <1>25, <1>26, <1>27 DEF Next, Works, TaskRuns

\* A worker on its way keeps its session, and the validation ends before the
\* refresh does.
LEMMA WorkersStep ==
  ASSUME Inv, [Next]_vars
  PROVE  WorkersHaveSessions'
<1> USE NamesAreApart DEF Inv, WorkersHaveSessions, Types, Rest,
    operationVars, sessionVars, workerVars, driverVars, quitVars, diskVars,
    Inside, Workers, JobSteps
<1>1. ASSUME NEW w \in Jobs, NEW s \in Sessions, StartJob(w, s)
      PROVE  WorkersHaveSessions'
  BY <1>1 DEF StartJob, HandedOut
<1>2. ASSUME NEW w \in Workers, CheckAccepting(w)
      PROVE  WorkersHaveSessions'
  BY <1>2 DEF CheckAccepting, Goes, Ended, JobFrame
<1>3. ASSUME NEW w \in Workers, Count(w)
      PROVE  WorkersHaveSessions'
  BY <1>3 DEF Count, Goes, JobFrame
<1>4. ASSUME NEW w \in Workers, CheckAgain(w)
      PROVE  WorkersHaveSessions'
  BY <1>4 DEF CheckAgain, Goes, JobFrame
<1>5. ASSUME NEW w \in Workers, Withdraw(w)
      PROVE  WorkersHaveSessions'
  BY <1>5 DEF Withdraw, Goes, Ended, JobFrame
<1>6. ASSUME NEW w \in Workers, NEW passed \in BOOLEAN, JobEnds(w, passed)
      PROVE  WorkersHaveSessions'
  BY <1>6 DEF JobEnds, Goes, Ended, JobFrame
<1>7. ASSUME NEW s \in Sessions, SeeEmpty(s)
      PROVE  WorkersHaveSessions'
  BY <1>7 DEF SeeEmpty
<1>8. CASE RequestRefresh BY <1>8 DEF RequestRefresh
<1>9. CASE RefreshPasses BY <1>9 DEF RefreshPasses, Goes
<1>10. CASE RefreshFails BY <1>10 DEF RefreshFails, TakeActive, Goes
<1>11. CASE Retire BY <1>11 DEF Retire, Drained, DropActive
<1>12. CASE RequestReopen BY <1>12 DEF RequestReopen
<1>13. CASE RequestFresh BY <1>13 DEF RequestFresh
<1>14. CASE AcquireLock BY <1>14 DEF AcquireLock, Returns, DriverFrame
<1>15. CASE Reopen BY <1>15 DEF Reopen, Returns, DriverFrame
<1>16. CASE BackUp BY <1>16 DEF BackUp, Returns, DriverFrame
<1>17. CASE RemoveOld BY <1>17 DEF RemoveOld, Returns, DriverFrame
<1>18. CASE Rename BY <1>18 DEF Rename, Returns, DriverFrame
<1>19. CASE RepairDone BY <1>19 DEF RepairDone, OpenSession, Unused
<1>20. CASE RequestQuit BY <1>20 DEF RequestQuit
<1>21. CASE QuitTakes BY <1>21 DEF QuitTakes, TakeActive
<1>22. CASE QuitDone BY <1>22 DEF QuitDone, ProcessEnds
<1>23. CASE Crash BY <1>23 DEF Crash, ProcessEnds
<1>24. CASE Start BY <1>24 DEF Start, OpenSession, Unused
<1>25. CASE OtherLocks BY <1>25 DEF OtherLocks
<1>26. CASE OtherUnlocks BY <1>26 DEF OtherUnlocks
<1>27. CASE UNCHANGED vars BY <1>27 DEF vars
<1> QED BY <1>1, <1>2, <1>3, <1>4, <1>5, <1>6, <1>7, <1>8, <1>9, <1>10, <1>11,
    <1>12, <1>13, <1>14, <1>15, <1>16, <1>17, <1>18, <1>19, <1>20, <1>21,
    <1>22, <1>23, <1>24, <1>25, <1>26, <1>27 DEF Next, Works, TaskRuns

\* No step takes the lock from its holder, and the holder drops it last.
LEMMA LocksStep ==
  ASSUME Inv, [Next]_vars
  PROVE  OwnersHoldTheLock'
<1> USE NamesAreApart DEF Inv, OwnersHoldTheLock, Types, Rest, operationVars,
    sessionVars, workerVars, driverVars, quitVars, diskVars, Owners, None
<1>1. ASSUME NEW w \in Jobs, NEW s \in Sessions, StartJob(w, s)
      PROVE  OwnersHoldTheLock'
  BY <1>1 DEF StartJob, HandedOut
<1>2. ASSUME NEW w \in Workers, CheckAccepting(w)
      PROVE  OwnersHoldTheLock'
  BY <1>2 DEF CheckAccepting, Goes, Ended, JobFrame
<1>3. ASSUME NEW w \in Workers, Count(w)
      PROVE  OwnersHoldTheLock'
  BY <1>3 DEF Count, Goes, JobFrame
<1>4. ASSUME NEW w \in Workers, CheckAgain(w)
      PROVE  OwnersHoldTheLock'
  BY <1>4 DEF CheckAgain, Goes, JobFrame
<1>5. ASSUME NEW w \in Workers, Withdraw(w)
      PROVE  OwnersHoldTheLock'
  BY <1>5 DEF Withdraw, Goes, Ended, JobFrame
<1>6. ASSUME NEW w \in Workers, NEW passed \in BOOLEAN, JobEnds(w, passed)
      PROVE  OwnersHoldTheLock'
  BY <1>6 DEF JobEnds, Goes, Ended, JobFrame
<1>7. ASSUME NEW s \in Sessions, SeeEmpty(s)
      PROVE  OwnersHoldTheLock'
  BY <1>7 DEF SeeEmpty
<1>8. CASE RequestRefresh BY <1>8 DEF RequestRefresh
<1>9. CASE RefreshPasses BY <1>9 DEF RefreshPasses, Goes
<1>10. CASE RefreshFails BY <1>10 DEF RefreshFails, TakeActive, Goes
<1>11. CASE Retire BY <1>11 DEF Retire, Drained, DropActive
<1>12. CASE RequestReopen BY <1>12 DEF RequestReopen
<1>13. CASE RequestFresh BY <1>13 DEF RequestFresh
<1>14. CASE AcquireLock BY <1>14 DEF AcquireLock, Returns, DriverFrame
<1>15. CASE Reopen BY <1>15 DEF Reopen, Returns, DriverFrame
<1>16. CASE BackUp BY <1>16 DEF BackUp, Returns, DriverFrame
<1>17. CASE RemoveOld BY <1>17 DEF RemoveOld, Returns, DriverFrame
<1>18. CASE Rename BY <1>18 DEF Rename, Returns, DriverFrame
<1>19. CASE RepairDone BY <1>19 DEF RepairDone, OpenSession, Unused
<1>20. CASE RequestQuit BY <1>20 DEF RequestQuit
<1>21. CASE QuitTakes BY <1>21 DEF QuitTakes, TakeActive
<1>22. CASE QuitDone BY <1>22 DEF QuitDone, ProcessEnds
<1>23. CASE Crash BY <1>23 DEF Crash, ProcessEnds
<1>24. CASE Start BY <1>24 DEF Start, OpenSession, Unused
<1>25. CASE OtherLocks BY <1>25 DEF OtherLocks
<1>26. CASE OtherUnlocks BY <1>26 DEF OtherUnlocks
<1>27. CASE UNCHANGED vars BY <1>27 DEF vars
<1> QED BY <1>1, <1>2, <1>3, <1>4, <1>5, <1>6, <1>7, <1>8, <1>9, <1>10, <1>11,
    <1>12, <1>13, <1>14, <1>15, <1>16, <1>17, <1>18, <1>19, <1>20, <1>21,
    <1>22, <1>23, <1>24, <1>25, <1>26, <1>27 DEF Next, Works, TaskRuns

\* Nobody gets into a session that was taken: the second look at accepting
\* turns away whoever counted itself too late, and a count of zero is exact.
LEMMA AdmissionStep ==
  ASSUME Inv, [Next]_vars
  PROVE  TakenSessionsAdmitNobody'
<1> USE NamesAreApart DEF Inv, TakenSessionsAdmitNobody, Types,
    OwnersHoldTheLock, WorkersHaveSessions, operationVars, sessionVars,
    workerVars, driverVars, quitVars, diskVars, Owners, None, Inside, Workers,
    JobSteps
<1>1. ASSUME NEW w \in Jobs, NEW s \in Sessions, StartJob(w, s)
      PROVE  TakenSessionsAdmitNobody'
  BY <1>1 DEF StartJob, HandedOut
<1>2. ASSUME NEW w \in Workers, CheckAccepting(w)
      PROVE  TakenSessionsAdmitNobody'
  BY <1>2 DEF CheckAccepting, Goes, Ended, JobFrame
<1>3. ASSUME NEW w \in Workers, Count(w)
      PROVE  TakenSessionsAdmitNobody'
  BY <1>3 DEF Count, Goes, JobFrame
<1>4. ASSUME NEW w \in Workers, CheckAgain(w)
      PROVE  TakenSessionsAdmitNobody'
  BY <1>4 DEF CheckAgain, Goes, JobFrame
<1>5. ASSUME NEW w \in Workers, Withdraw(w)
      PROVE  TakenSessionsAdmitNobody'
  BY <1>5 DEF Withdraw, Goes, Ended, JobFrame
<1>6. ASSUME NEW w \in Workers, NEW passed \in BOOLEAN, JobEnds(w, passed)
      PROVE  TakenSessionsAdmitNobody'
  BY <1>6 DEF JobEnds, Goes, Ended, JobFrame
<1>7. ASSUME NEW s \in Sessions, SeeEmpty(s)
      PROVE  TakenSessionsAdmitNobody'
  <2>1. Holders(s) = {}
    BY <1>7, ZeroMeansEmpty DEF SeeEmpty
  <2>2. \A w \in Workers : job[w] = "Running" => jobSession[w] # s
    BY <2>1 DEF Holders
  <2> QED BY <1>7, <2>2 DEF SeeEmpty
<1>8. CASE RequestRefresh BY <1>8 DEF RequestRefresh
<1>9. CASE RefreshPasses BY <1>9 DEF RefreshPasses, Goes
<1>10. CASE RefreshFails BY <1>10 DEF RefreshFails, TakeActive, Goes
<1>11. CASE Retire BY <1>11 DEF Retire, Drained, DropActive
<1>12. CASE RequestReopen BY <1>12 DEF RequestReopen
<1>13. CASE RequestFresh BY <1>13 DEF RequestFresh
<1>14. CASE AcquireLock BY <1>14 DEF AcquireLock, Returns, DriverFrame
<1>15. CASE Reopen BY <1>15 DEF Reopen, Returns, DriverFrame
<1>16. CASE BackUp BY <1>16 DEF BackUp, Returns, DriverFrame
<1>17. CASE RemoveOld BY <1>17 DEF RemoveOld, Returns, DriverFrame
<1>18. CASE Rename BY <1>18 DEF Rename, Returns, DriverFrame
<1>19. CASE RepairDone BY <1>19 DEF RepairDone, OpenSession, Unused
<1>20. CASE RequestQuit BY <1>20 DEF RequestQuit
<1>21. CASE QuitTakes BY <1>21 DEF QuitTakes, TakeActive
<1>22. CASE QuitDone BY <1>22 DEF QuitDone, ProcessEnds
<1>23. CASE Crash BY <1>23 DEF Crash, ProcessEnds
<1>24. CASE Start BY <1>24 DEF Start, OpenSession, Unused
<1>25. CASE OtherLocks BY <1>25 DEF OtherLocks
<1>26. CASE OtherUnlocks BY <1>26 DEF OtherUnlocks
<1>27. CASE UNCHANGED vars BY <1>27 DEF vars
<1> QED BY <1>1, <1>2, <1>3, <1>4, <1>5, <1>6, <1>7, <1>8, <1>9, <1>10, <1>11,
    <1>12, <1>13, <1>14, <1>15, <1>16, <1>17, <1>18, <1>19, <1>20, <1>21,
    <1>22, <1>23, <1>24, <1>25, <1>26, <1>27 DEF Next, Works, TaskRuns

\* Until a quit begins the operation's session is the one that serves.
LEMMA PhaseStep ==
  ASSUME Inv, [Next]_vars
  PROVE  PhaseHasItsOwner'
<1> USE NamesAreApart DEF Inv, PhaseHasItsOwner, Types, Rest,
    OwnersHoldTheLock, TakenSessionsAdmitNobody, operationVars, sessionVars,
    workerVars, driverVars, quitVars, diskVars, None
<1>1. ASSUME NEW w \in Jobs, NEW s \in Sessions, StartJob(w, s)
      PROVE  PhaseHasItsOwner'
  BY <1>1 DEF StartJob, HandedOut
<1>2. ASSUME NEW w \in Workers, CheckAccepting(w)
      PROVE  PhaseHasItsOwner'
  BY <1>2 DEF CheckAccepting, Goes, Ended, JobFrame
<1>3. ASSUME NEW w \in Workers, Count(w)
      PROVE  PhaseHasItsOwner'
  BY <1>3 DEF Count, Goes, JobFrame
<1>4. ASSUME NEW w \in Workers, CheckAgain(w)
      PROVE  PhaseHasItsOwner'
  BY <1>4 DEF CheckAgain, Goes, JobFrame
<1>5. ASSUME NEW w \in Workers, Withdraw(w)
      PROVE  PhaseHasItsOwner'
  BY <1>5 DEF Withdraw, Goes, Ended, JobFrame
<1>6. ASSUME NEW w \in Workers, NEW passed \in BOOLEAN, JobEnds(w, passed)
      PROVE  PhaseHasItsOwner'
  BY <1>6 DEF JobEnds, Goes, Ended, JobFrame
<1>7. ASSUME NEW s \in Sessions, SeeEmpty(s)
      PROVE  PhaseHasItsOwner'
  BY <1>7 DEF SeeEmpty
<1>8. CASE RequestRefresh BY <1>8 DEF RequestRefresh
<1>9. CASE RefreshPasses BY <1>9 DEF RefreshPasses, Goes
<1>10. CASE RefreshFails BY <1>10 DEF RefreshFails, TakeActive, Goes
<1>11. CASE Retire BY <1>11 DEF Retire, Drained, DropActive
<1>12. CASE RequestReopen BY <1>12 DEF RequestReopen
<1>13. CASE RequestFresh BY <1>13 DEF RequestFresh
<1>14. CASE AcquireLock BY <1>14 DEF AcquireLock, Returns, DriverFrame
<1>15. CASE Reopen BY <1>15 DEF Reopen, Returns, DriverFrame
<1>16. CASE BackUp BY <1>16 DEF BackUp, Returns, DriverFrame
<1>17. CASE RemoveOld BY <1>17 DEF RemoveOld, Returns, DriverFrame
<1>18. CASE Rename BY <1>18 DEF Rename, Returns, DriverFrame
<1>19. CASE RepairDone BY <1>19 DEF RepairDone, OpenSession, Unused
<1>20. CASE RequestQuit BY <1>20 DEF RequestQuit
<1>21. CASE QuitTakes BY <1>21 DEF QuitTakes, TakeActive
<1>22. CASE QuitDone BY <1>22 DEF QuitDone, ProcessEnds
<1>23. CASE Crash BY <1>23 DEF Crash, ProcessEnds
<1>24. CASE Start BY <1>24 DEF Start, OpenSession, Unused
<1>25. CASE OtherLocks BY <1>25 DEF OtherLocks
<1>26. CASE OtherUnlocks BY <1>26 DEF OtherUnlocks
<1>27. CASE UNCHANGED vars BY <1>27 DEF vars
<1> QED BY <1>1, <1>2, <1>3, <1>4, <1>5, <1>6, <1>7, <1>8, <1>9, <1>10, <1>11,
    <1>12, <1>13, <1>14, <1>15, <1>16, <1>17, <1>18, <1>19, <1>20, <1>21,
    <1>22, <1>23, <1>24, <1>25, <1>26, <1>27 DEF Next, Works, TaskRuns

\* The old file is removed only after its backup.
LEMMA SavedStep ==
  ASSUME Inv, [Next]_vars
  PROVE  BackUpComesFirst'
<1> USE NamesAreApart DEF Inv, BackUpComesFirst, Types, operationVars,
    sessionVars, workerVars, driverVars, quitVars, diskVars
<1>1. ASSUME NEW w \in Jobs, NEW s \in Sessions, StartJob(w, s)
      PROVE  BackUpComesFirst'
  BY <1>1 DEF StartJob, HandedOut
<1>2. ASSUME NEW w \in Workers, CheckAccepting(w)
      PROVE  BackUpComesFirst'
  BY <1>2 DEF CheckAccepting, Goes, Ended, JobFrame
<1>3. ASSUME NEW w \in Workers, Count(w)
      PROVE  BackUpComesFirst'
  BY <1>3 DEF Count, Goes, JobFrame
<1>4. ASSUME NEW w \in Workers, CheckAgain(w)
      PROVE  BackUpComesFirst'
  BY <1>4 DEF CheckAgain, Goes, JobFrame
<1>5. ASSUME NEW w \in Workers, Withdraw(w)
      PROVE  BackUpComesFirst'
  BY <1>5 DEF Withdraw, Goes, Ended, JobFrame
<1>6. ASSUME NEW w \in Workers, NEW passed \in BOOLEAN, JobEnds(w, passed)
      PROVE  BackUpComesFirst'
  BY <1>6 DEF JobEnds, Goes, Ended, JobFrame
<1>7. ASSUME NEW s \in Sessions, SeeEmpty(s)
      PROVE  BackUpComesFirst'
  BY <1>7 DEF SeeEmpty
<1>8. CASE RequestRefresh BY <1>8 DEF RequestRefresh
<1>9. CASE RefreshPasses BY <1>9 DEF RefreshPasses, Goes
<1>10. CASE RefreshFails BY <1>10 DEF RefreshFails, TakeActive, Goes
<1>11. CASE Retire BY <1>11 DEF Retire, Drained, DropActive
<1>12. CASE RequestReopen BY <1>12 DEF RequestReopen
<1>13. CASE RequestFresh BY <1>13 DEF RequestFresh
<1>14. CASE AcquireLock BY <1>14 DEF AcquireLock, Returns, DriverFrame
<1>15. CASE Reopen BY <1>15 DEF Reopen, Returns, DriverFrame
<1>16. CASE BackUp BY <1>16 DEF BackUp, Returns, DriverFrame
<1>17. CASE RemoveOld BY <1>17 DEF RemoveOld, Returns, DriverFrame
<1>18. CASE Rename BY <1>18 DEF Rename, Returns, DriverFrame
<1>19. CASE RepairDone BY <1>19 DEF RepairDone, OpenSession, Unused
<1>20. CASE RequestQuit BY <1>20 DEF RequestQuit
<1>21. CASE QuitTakes BY <1>21 DEF QuitTakes, TakeActive
<1>22. CASE QuitDone BY <1>22 DEF QuitDone, ProcessEnds
<1>23. CASE Crash BY <1>23 DEF Crash, ProcessEnds
<1>24. CASE Start BY <1>24 DEF Start, OpenSession, Unused
<1>25. CASE OtherLocks BY <1>25 DEF OtherLocks
<1>26. CASE OtherUnlocks BY <1>26 DEF OtherUnlocks
<1>27. CASE UNCHANGED vars BY <1>27 DEF vars
<1> QED BY <1>1, <1>2, <1>3, <1>4, <1>5, <1>6, <1>7, <1>8, <1>9, <1>10, <1>11,
    <1>12, <1>13, <1>14, <1>15, <1>16, <1>17, <1>18, <1>19, <1>20, <1>21,
    <1>22, <1>23, <1>24, <1>25, <1>26, <1>27 DEF Next, Works, TaskRuns

-----------------------------------------------------------------------------
(* Theorems *)

\* The invariant holds at first.
LEMMA InitInv == Init => Inv
<1> SUFFICES ASSUME Init PROVE Inv
  OBVIOUS
<1>1. \A s \in Sessions : Holders(s) = {}
  BY DEF Init, Holders, Inside
<1>2. CountsAreExact
  BY <1>1, FS_EmptySet DEF Init, CountsAreExact
<1>3. Types
  <2>1. /\ active \in [Sessions -> Owners] /\ accepting \in [Sessions -> BOOLEAN]
        /\ activeJobs \in [Sessions -> Int] /\ job \in [Workers -> JobSteps]
        /\ jobSession \in [Workers -> Sessions \cup {None}]
    BY DEF Init, Owners, JobSteps
  <2>2. starts \in 0..MaxStarts /\ empty \subseteq Sessions
    BY MaxStartsIsNatural DEF Init
  <2> QED BY <2>1, <2>2 DEF Init, Types, Phases, Problems, Drivers, None
<1>4. Rest /\ OwnersHoldTheLock /\ TakenSessionsAdmitNobody
  BY DEF Init, Rest, OwnersHoldTheLock, TakenSessionsAdmitNobody, None
<1>5. WorkersHaveSessions /\ PhaseHasItsOwner /\ BackUpComesFirst
  BY DEF Init, WorkersHaveSessions, PhaseHasItsOwner, BackUpComesFirst, Inside, Workers
<1> QED BY <1>2, <1>3, <1>4, <1>5 DEF Inv

\* Every step keeps it.
LEMMA NextInv == Inv /\ [Next]_vars => Inv'
<1> SUFFICES ASSUME Inv, [Next]_vars PROVE Inv'
  OBVIOUS
<1> QED BY TypesStep, RestStep, CountsStep, WorkersStep, LocksStep, AdmissionStep,
           PhaseStep, SavedStep DEF Inv

LEMMA InvHolds == Spec => []Inv
  BY InitInv, NextInv, PTL DEF Spec

\* TypeOK at every moment (DatabaseOperation and the sessions beside it); the
\* bound on the counters is what the exact count gives.
THEOREM TypeCorrect == Spec => []TypeOK
<1>1. Inv => TypeOK
  BY WorkersAreFinite DEF Inv, Types, CountsAreExact, TypeOK
<1> QED BY <1>1, InvHolds, PTL

\* No command runs on a database whose lock its session does not hold,
\* however many commands race the retirement, the quit and the repairs.
THEOREM JobsAreProtected == Spec => []JobsRunUnderTheLock
<1>1. Inv => JobsRunUnderTheLock
  BY DEF Inv, WorkersHaveSessions, OwnersHoldTheLock, TakenSessionsAdmitNobody,
         JobsRunUnderTheLock, Inside
<1> QED BY <1>1, InvHolds, PTL

\* The operation shows a ready database only over a session that serves it.
THEOREM ReadyTellsTheTruth == Spec => []ReadySessionServes
<1>1. Inv => ReadySessionServes
  BY DEF Inv, Types, PhaseHasItsOwner, OwnersHoldTheLock, ReadySessionServes
<1> QED BY <1>1, InvHolds, PTL

\* A retry never meets a lock that the application holds itself.
THEOREM RetryMeetsNoOwnLock == Spec => []UnavailableHoldsNoLock
<1>1. Inv => UnavailableHoldsNoLock
  BY DEF Inv, Types, PhaseHasItsOwner, OwnersHoldTheLock, UnavailableHoldsNoLock
<1> QED BY <1>1, InvHolds, PTL

\* The user's data survives every failure and every crash of the replacement.
THEOREM DataSurvives == Spec => []NothingIsLost
<1>1. Inv => NothingIsLost
  BY DEF Inv, BackUpComesFirst, NothingIsLost
<1> QED BY <1>1, InvHolds, PTL

\* The database file is never replaced beneath a running command.
THEOREM ReplacementIsAlone == Spec => FileChangesAlone
<1>1. ASSUME Inv, [Next]_vars, file' # file, NEW w \in Workers
      PROVE  job[w] # "Running"
  <2>1. lock \in {None, "Repair"}
    <3>1. CASE AcquireLock BY <1>1, <3>1 DEF AcquireLock, diskVars
    <3>2. CASE Reopen BY <1>1, <3>2 DEF Reopen, diskVars
    <3>3. CASE BackUp BY <1>1, <3>3 DEF BackUp
    <3>4. CASE RemoveOld BY <1>1, <3>4 DEF RemoveOld, Inv, OwnersHoldTheLock
    <3>5. CASE Rename BY <1>1, <3>5 DEF Rename, Inv, OwnersHoldTheLock
    <3>6. CASE Start BY <1>1, <3>6 DEF Start
    <3>7. CASE RefreshPasses \/ RefreshFails \/ Retire \/ RepairDone
      BY <1>1, <3>7 DEF RefreshPasses, RefreshFails, Retire, RepairDone, diskVars
    <3>8. CASE \E w_1 \in Jobs, s \in Sessions : StartJob(w_1, s)
      BY <1>1, <3>8 DEF StartJob, diskVars
    <3>9. CASE \E w_1 \in Workers : Works(w_1)
      BY <1>1, <3>9
      DEF Works, CheckAccepting, Count, CheckAgain, Withdraw, JobEnds, JobFrame, diskVars
    <3>10. CASE \E s \in Sessions : SeeEmpty(s)
      BY <1>1, <3>10 DEF SeeEmpty, diskVars
    <3>11. CASE RequestRefresh \/ RequestReopen \/ RequestFresh
      BY <1>1, <3>11 DEF RequestRefresh, RequestReopen, RequestFresh, diskVars
    <3>12. CASE RequestQuit \/ QuitTakes \/ QuitDone \/ Crash
      BY <1>1, <3>12 DEF RequestQuit, QuitTakes, QuitDone, Crash, ProcessEnds, diskVars
    <3>13. CASE OtherLocks \/ OtherUnlocks
      BY <1>1, <3>13 DEF OtherLocks, OtherUnlocks, diskVars
    <3>14. CASE UNCHANGED vars
      BY <1>1, <3>14 DEF vars, diskVars
    <3> QED BY <1>1, <3>1, <3>2, <3>3, <3>4, <3>5, <3>6, <3>7, <3>8, <3>9, <3>10,
               <3>11, <3>12, <3>13, <3>14 DEF Next, TaskRuns
  <2>2. lock \notin Sessions
    BY <2>1, NamesAreApart
  <2> QED BY <1>1, <2>2 DEF Inv, WorkersHaveSessions, OwnersHoldTheLock,
                            TakenSessionsAdmitNobody, Inside
<1>2. Inv /\ [Next]_vars => [file' # file => \A w \in Workers : job[w] # "Running"]_vars
  BY <1>1
<1> QED BY <1>2, InvHolds, PTL DEF Spec, FileChangesAlone
=============================================================================
