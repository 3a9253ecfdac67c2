------------------------- MODULE FormRuntimeProofs -------------------------
(***************************************************************************)
(* Three facts about a form and its controls, whatever the fields, the     *)
(* controls, the values and the bounds are: asynchronous validation speaks *)
(* of the present; a binding that owes its control a value has exactly one *)
(* drain on its way; and when the queue is empty, each living control      *)
(* shows what the form holds.                                              *)
(*                                                                         *)
(* The third rests on what every control waits for (FollowInv), which in   *)
(* turn rests on the order of the queue (QueueInv).                        *)
(***************************************************************************)
EXTENDS FormRuntime, FiniteSetTheorems, TLAPS

\* The functions the actions update are functions on Paths.
FunctionsOnPaths ==
  /\ value      = [p \in Paths |-> value[p]]
  /\ validating = [p \in Paths |-> validating[p]]
  /\ asyncIssue = [p \in Paths |-> asyncIssue[p]]

AnswersInv == FunctionsOnPaths /\ AnswersAreAboutThePresent

USE DEF AnswersInv, FunctionsOnPaths

-----------------------------------------------------------------------------

\* The variables the invariant reads.
answerVars == <<value, revision, occurrence, validating, asyncIssue>>

\* What reads none of them changes nothing about it.
LEMMA AnswersUnread ==
  ASSUME AnswersInv, UNCHANGED answerVars
  PROVE  AnswersInv'
  BY DEF answerVars, AnswersAreAboutThePresent, Occurrence

LEMMA AnswersInit ==
  ASSUME Init
  PROVE  AnswersInv
  <1>1. FunctionsOnPaths
    BY DEF Init, Models
  <1>2. AnswersAreAboutThePresent
    BY DEF Init, AnswersAreAboutThePresent
  <1> QED
    BY <1>1, <1>2

\* Answers that are all withdrawn, at one path or at every path whose value or
\* occurrence changes, leave only answers that still hold.
LEMMA AnswersWithdrawn ==
  ASSUME AnswersInv,
         value' = [p \in Paths |-> value'[p]],
         validating' = [p \in Paths |-> None],
         asyncIssue' = [p \in Paths |-> asyncIssue'[p]],
         \A p \in Paths :
           \/ asyncIssue'[p] = None
           \/ /\ asyncIssue'[p] = asyncIssue[p]
              /\ value'[p] = value[p] /\ Occurrence(p)' = Occurrence(p)
  PROVE  AnswersInv'
  <1>1. FunctionsOnPaths'
    OBVIOUS
  <1>2. ASSUME NEW p \in Paths
        PROVE  /\ asyncIssue'[p] # None =>
                    asyncIssue'[p] = [value |-> value'[p], occurrence |-> Occurrence(p)']
               /\ validating'[p] = None
    BY <1>2 DEF AnswersAreAboutThePresent
  <1> QED
    BY <1>1, <1>2 DEF AnswersAreAboutThePresent

LEMMA CommitKeepsAnswers ==
  ASSUME AnswersInv, NEW path, NEW v, NEW origin, NEW queue,
         Commit(path, v, origin, queue)
  PROVE  AnswersInv'
  <1>1. /\ value' = [value EXCEPT ![path] = v]
        /\ asyncIssue' = [asyncIssue EXCEPT ![path] = None]
        /\ validating' = [p \in Paths |-> None]
        /\ UNCHANGED occurrence
    BY DEF Commit
  <1>2. \A p \in Paths :
          \/ asyncIssue'[p] = None
          \/ /\ asyncIssue'[p] = asyncIssue[p]
             /\ value'[p] = value[p] /\ Occurrence(p)' = Occurrence(p)
    BY <1>1 DEF Occurrence
  <1> QED
    BY <1>1, <1>2, AnswersWithdrawn

LEMMA SetOptionalKeepsAnswers ==
  ASSUME AnswersInv, NEW v, SetOptional(v)
  PROVE  AnswersInv'
  <1>1. /\ value' = [value EXCEPT ![Details] = v]
        /\ asyncIssue' = [asyncIssue EXCEPT ![Details] = None]
        /\ validating' = [p \in Paths |-> None]
    BY DEF SetOptional
  <1>2. \A p \in Paths :
          \/ asyncIssue'[p] = None
          \/ /\ asyncIssue'[p] = asyncIssue[p]
             /\ value'[p] = value[p] /\ Occurrence(p)' = Occurrence(p)
    BY <1>1 DEF Occurrence
  <1> QED
    BY <1>1, <1>2, AnswersWithdrawn

LEMMA InstallKeepsAnswers ==
  ASSUME AnswersInv, NEW model \in Models, Install(model)
  PROVE  AnswersInv'
  <1>1. /\ value' = model
        /\ validating' = [p \in Paths |-> None]
        /\ asyncIssue' = [p \in Paths |-> None]
    BY DEF Install
  <1>2. model = [p \in Paths |-> model[p]]
    BY DEF Models
  <1> QED
    BY <1>1, <1>2, AnswersWithdrawn

LEMMA StartKeepsAnswers ==
  ASSUME AnswersInv, NEW path \in Paths, StartValidation(path)
  PROVE  AnswersInv'
  BY DEF StartValidation, AnswersAreAboutThePresent, Occurrence

LEMMA CompleteKeepsAnswers ==
  ASSUME AnswersInv, NEW path \in Paths, NEW hasIssue \in BOOLEAN,
         CompleteValidation(path, hasIssue)
  PROVE  AnswersInv'
  <1> DEFINE v == validating[path]
  <1>1. v = [value |-> value[path], revision |-> revision, occurrence |-> Occurrence(path)]
    BY DEF CompleteValidation, AnswersAreAboutThePresent
  <1>2. /\ validating' = [validating EXCEPT ![path] = None]
        /\ UNCHANGED <<value, revision, occurrence>>
    BY DEF CompleteValidation
  <1>3. asyncIssue' = [asyncIssue EXCEPT
          ![path] = IF hasIssue THEN [value |-> v.value, occurrence |-> v.occurrence]
                    ELSE None]
    BY <1>1 DEF CompleteValidation
  <1>4. FunctionsOnPaths'
    BY <1>2, <1>3
  <1>5. ASSUME NEW p \in Paths
        PROVE  /\ asyncIssue'[p] # None =>
                    asyncIssue'[p] = [value |-> value[p], occurrence |-> Occurrence(p)]
               /\ validating'[p] # None =>
                    validating'[p] = [value |-> value[p], revision |-> revision,
                                      occurrence |-> Occurrence(p)]
    <2>1. CASE p = path
      BY <1>1, <1>2, <1>3, <2>1
    <2>2. CASE p # path
      BY <1>2, <1>3, <2>2 DEF AnswersAreAboutThePresent
    <2> QED
      BY <2>1, <2>2
  <1> QED
    BY <1>2, <1>4, <1>5 DEF AnswersAreAboutThePresent, Occurrence

-----------------------------------------------------------------------------

LEMMA AnswersNext ==
  ASSUME AnswersInv, [Next]_vars
  PROVE  AnswersInv'
  <1>1. ASSUME NEW p \in Paths, NEW v \in Values, Set(p, v)
        PROVE  AnswersInv'
    BY <1>1, CommitKeepsAnswers DEF Set
  <1>2. ASSUME NEW v \in Values \cup {None}, SetOptional(v)
        PROVE  AnswersInv'
    BY <1>2, SetOptionalKeepsAnswers
  <1>3. ASSUME NEW m \in Models, Install(m)
        PROVE  AnswersInv'
    BY <1>3, InstallKeepsAnswers
  <1>4. ASSUME NEW p \in Paths, StartValidation(p)
        PROVE  AnswersInv'
    BY <1>4, StartKeepsAnswers
  <1>5. ASSUME NEW p \in Paths, NEW hasIssue \in BOOLEAN, CompleteValidation(p, hasIssue)
        PROVE  AnswersInv'
    BY <1>5, CompleteKeepsAnswers
  <1>6. CASE ReplaceValidator
    BY <1>6 DEF ReplaceValidator, AnswersAreAboutThePresent
  <1>7. ASSUME NEW c \in Controls, NEW v \in Values \cup {Invalid}, NativeEdit(c, v)
        PROVE  AnswersInv'
    BY <1>7, AnswersUnread DEF NativeEdit, formVars, answerVars
  <1>8. ASSUME NEW c \in Controls, Drop(c)
        PROVE  AnswersInv'
    BY <1>8, AnswersUnread DEF Drop, answerVars
  <1>9. CASE RunSet
    <2> DEFINE c == First.control
    <2>1. CASE UNCHANGED answerVars
      BY <2>1, AnswersUnread
    <2>2. CASE Commit(Bound[c], First.value,
                      [control |-> c, generation |-> binding[c].generation], Rest)
      BY <2>2, CommitKeepsAnswers
    <2> QED
      BY <1>9, <2>1, <2>2 DEF RunSet, NothingComesOfIt, formVars, answerVars
  <1>10. CASE RunEvent
    BY <1>10, AnswersUnread DEF RunEvent, formVars, answerVars
  <1>11. CASE RunDrain
    BY <1>11, AnswersUnread DEF RunDrain, answerVars
  <1>12. CASE UNCHANGED vars
    BY <1>12, AnswersUnread DEF vars, formVars, answerVars
  <1> QED
    BY <1>1, <1>2, <1>3, <1>4, <1>5, <1>6, <1>7, <1>8, <1>9, <1>10, <1>11, <1>12 DEF Next

\* An asynchronous validation that is pending was started on the value that is
\* there now, in this revision and at this occurrence, and the issue one left
\* behind is about the value that is there now: no write, retirement,
\* replacement or late completion makes a validation speak of the past
\* (start_async_core and complete_async_validation).
THEOREM AnswersAreCurrent == Spec => []AnswersAreAboutThePresent
  <1>1. Init => AnswersInv
    BY AnswersInit
  <1>2. AnswersInv /\ [Next]_vars => AnswersInv'
    BY AnswersNext
  <1>3. AnswersInv => AnswersAreAboutThePresent
    OBVIOUS
  <1> QED
    BY <1>1, <1>2, <1>3, PTL DEF Spec

HIDE DEF AnswersInv, FunctionsOnPaths

-----------------------------------------------------------------------------
(* Types *)

Sets    == [kind : {"Set"}, control : Controls, value : Values \cup {Invalid},
            generation : Nat]
Drains  == [kind : {"Drain"}, control : Controls]
Origins == [control : Controls \cup {None}, generation : Nat]
Changes == [kind : {"Event"}, whole : BOOLEAN, path : Paths \cup {None},
            retired : SUBSET (Nat \ {0}), revision : Nat, origin : Origins]
Effects == Sets \cup Drains \cup Changes

Bindings == [life : {"Active", "Retired", "Dropped"}, generation : Nat, occurrence : Nat,
             pending : {"None", "Value", "Retired"}, pendingRevision : Nat,
             drain : BOOLEAN, upTo : Nat]

FormTypes ==
  /\ value \in Models /\ revision \in 0..MaxRevision
  /\ occurrence \in Nat /\ occurrences \in Nat
  /\ occurrence <= occurrences /\ 1 <= occurrences /\ occurrences <= revision + 1
  /\ (value[Details] = None) = (occurrence = 0)
  /\ validating \in [Paths -> Validations \cup {None}]
  /\ asyncIssue \in [Paths -> AsyncIssues \cup {None}]
  /\ issue \subseteq Controls

BoundTo(c) == IF Bound[c] = Details THEN 1 ELSE 0

BindingTypes ==
  /\ binding \in [Controls -> Bindings]
  /\ \A c \in Controls : binding[c].occurrence = BoundTo(c) /\ 1 <= binding[c].generation
  /\ shown \in [Controls -> Values \cup {Invalid}]

Types == FormTypes /\ BindingTypes /\ effects \in Seq(Effects)

\* What a binding keeps whatever it hears: its path's occurrence; and its
\* generation never goes back.
Follows(b, n) ==
  n \in Bindings /\ n.occurrence = b.occurrence /\ b.generation <= n.generation

LEMMA QuietType ==
  ASSUME NEW b \in Bindings, NEW cleared \in BOOLEAN
  PROVE  /\ Follows(b, Quiet(b, cleared))
         /\ Quiet(b, cleared).life = b.life
         /\ Quiet(b, cleared).generation = b.generation
         /\ Quiet(b, cleared).drain = b.drain
         /\ Quiet(b, cleared).upTo = b.upTo
         /\ Quiet(b, cleared).pending = IF cleared THEN "None" ELSE b.pending
         /\ Quiet(b, cleared).pendingRevision = IF cleared THEN 0 ELSE b.pendingRevision
  <1>1. Quiet(b, cleared) \in Bindings
    BY DEF Bindings, Quiet
  <1>2. b.generation <= b.generation
    BY DEF Bindings
  <1> QED
    BY <1>1, <1>2 DEF Bindings, Quiet, Follows

LEMMA SuppressType ==
  ASSUME NEW b \in Bindings, NEW rev \in Nat
  PROVE  LET n == SuppressThrough(b, rev)
             hit == b.pending = "Value" /\ b.pendingRevision <= rev
         IN
         /\ Follows(b, n)
         /\ n.life = b.life /\ n.generation = b.generation /\ n.drain = b.drain
         /\ n.upTo = IF rev > b.upTo THEN rev ELSE b.upTo
         /\ n.pending = IF hit THEN "None" ELSE b.pending
         /\ n.pendingRevision = IF hit THEN 0 ELSE b.pendingRevision
  <1> DEFINE hit == b.pending = "Value" /\ b.pendingRevision <= rev
             q   == Quiet(b, hit)
             n   == SuppressThrough(b, rev)
  <1>1. /\ q \in Bindings /\ Follows(b, q)
        /\ q.life = b.life /\ q.generation = b.generation /\ q.drain = b.drain
        /\ q.upTo = b.upTo
        /\ q.pending = IF hit THEN "None" ELSE b.pending
        /\ q.pendingRevision = IF hit THEN 0 ELSE b.pendingRevision
    BY QuietType DEF Follows
  <1>2. n = [q EXCEPT !.upTo = IF rev > q.upTo THEN rev ELSE q.upTo]
    BY <1>1 DEF SuppressThrough, Bindings
  <1> HIDE DEF hit, q, n
  <1>3. n \in Bindings
    BY <1>1, <1>2 DEF Bindings
  <1>4. /\ n.life = q.life /\ n.generation = q.generation /\ n.drain = q.drain
        /\ n.pending = q.pending /\ n.pendingRevision = q.pendingRevision
        /\ n.occurrence = q.occurrence
        /\ n.upTo = IF rev > q.upTo THEN rev ELSE q.upTo
    BY <1>1, <1>2 DEF Bindings
  <1> QED
    BY <1>1, <1>3, <1>4 DEF hit, n, Follows

LEMMA QueueValueType ==
  ASSUME NEW b \in Bindings, NEW rev \in Nat
  PROVE  LET n == QueueValue(b, rev) IN
         /\ Follows(b, n)
         /\ n.life = b.life /\ n.generation = b.generation /\ n.upTo = b.upTo
         /\ b.life # "Active" \/ rev <= b.upTo => n = b
         /\ b.life = "Active" /\ b.upTo < rev =>
              n.pending = "Value" /\ n.pendingRevision = rev /\ n.drain
  <1>1. QueueValue(b, rev) \in Bindings
    BY DEF Bindings, QueueValue
  <1>2. b.generation <= b.generation
    BY DEF Bindings
  <1>3. CASE b.life # "Active" \/ rev <= b.upTo
    BY <1>2, <1>3 DEF QueueValue, Follows, Bindings
  <1>4. CASE b.life = "Active" /\ ~(rev <= b.upTo)
    <2> DEFINE n == QueueValue(b, rev)
    <2>1. n = [b EXCEPT !.pending = "Value", !.pendingRevision = rev, !.drain = TRUE]
      BY <1>4 DEF QueueValue
    <2>2. /\ n.life = b.life /\ n.generation = b.generation /\ n.upTo = b.upTo
          /\ n.occurrence = b.occurrence
          /\ n.pending = "Value" /\ n.pendingRevision = rev /\ n.drain
      BY <2>1 DEF Bindings
    <2> QED
      BY <1>1, <1>2, <1>4, <2>2 DEF Follows
  <1> QED
    BY <1>3, <1>4

LEMMA RetireType ==
  ASSUME NEW b \in Bindings
  PROVE  /\ Follows(b, Retire(b))
         /\ b.life # "Active" => Retire(b) = b
         /\ b.life = "Active" =>
              /\ Retire(b).life = "Retired" /\ Retire(b).drain
              /\ Retire(b).pending = "Retired" /\ Retire(b).pendingRevision = 0
              /\ Retire(b).upTo = b.upTo
  <1>1. Retire(b) \in Bindings
    <2>1. b.generation + 1 \in Nat
      BY DEF Bindings
    <2>2. [b EXCEPT !.life = "Retired", !.generation = b.generation + 1,
                    !.pending = "Retired", !.pendingRevision = 0, !.drain = TRUE] \in Bindings
      BY <2>1 DEF Bindings
    <2> QED
      BY <2>2 DEF Retire, Bindings
  <1>2. b.generation <= b.generation /\ b.generation <= b.generation + 1
    BY DEF Bindings
  <1>3. Retire(b).occurrence = b.occurrence /\ b.generation <= Retire(b).generation
    BY <1>2 DEF Bindings, Retire
  <1>4. b.life = "Active" => Retire(b) = [b EXCEPT !.life = "Retired", !.generation = @ + 1,
                 !.pending = "Retired", !.pendingRevision = 0, !.drain = TRUE]
    BY DEF Retire
  <1> QED
    BY <1>1, <1>3, <1>4 DEF Bindings, Retire, Follows

LEMMA DrainedType ==
  ASSUME NEW b \in Bindings
  PROVE  /\ Follows(b, Drained(b))
         /\ Drained(b).life = b.life /\ Drained(b).generation = b.generation
         /\ Drained(b).upTo = b.upTo
         /\ ~Drained(b).drain /\ Drained(b).pending = "None" /\ Drained(b).pendingRevision = 0
         /\ Follows(b, Dropped(b))
         /\ Dropped(b).life = "Dropped" /\ ~Dropped(b).drain
         /\ Dropped(b).pending = "None" /\ Dropped(b).pendingRevision = 0
         /\ Dropped(b).upTo = b.upTo
  <1> DEFINE d == Drained(b)
             n == Dropped(b)
  <1>1. d = [b EXCEPT !.pending = "None", !.pendingRevision = 0, !.drain = FALSE]
    BY DEF Drained, Quiet, Bindings
  <1>2. n = [d EXCEPT !.life = "Dropped", !.generation = d.generation + 1]
    BY <1>1 DEF Dropped, Bindings
  <1> HIDE DEF d, n
  <1>3. /\ d \in Bindings
        /\ d.life = b.life /\ d.generation = b.generation /\ d.occurrence = b.occurrence
        /\ d.upTo = b.upTo
        /\ ~d.drain /\ d.pending = "None" /\ d.pendingRevision = 0
    BY <1>1 DEF Bindings
  <1>6. d.generation + 1 \in Nat
    BY <1>3 DEF Bindings
  <1>7. n \in Bindings
    BY <1>2, <1>3, <1>6 DEF Bindings
  <1>4. /\ n.life = "Dropped" /\ n.generation = d.generation + 1
        /\ n.occurrence = d.occurrence /\ n.upTo = d.upTo
        /\ n.drain = d.drain /\ n.pending = d.pending /\ n.pendingRevision = d.pendingRevision
    BY <1>2, <1>3, <1>6 DEF Bindings
  <1>5. b.generation <= b.generation /\ b.generation <= b.generation + 1
    BY DEF Bindings
  <1> QED
    BY <1>3, <1>4, <1>5, <1>7 DEF Follows, d, n

\* What a binding does with a change, by cases.
Heard(c, e, n) ==
  LET b == binding[c] IN
  \/ ~Active(c) /\ n = b
  \/ /\ Active(c) /\ Bound[c] = Details
     /\ ~IsCurrent(c) \/ b.occurrence \in e.retired
     /\ n = Retire(b)
  \/ /\ Active(c) /\ IsCurrent(c) /\ e.whole
     /\ n = QueueValue([b EXCEPT !.generation = @ + 1], e.revision)
  \/ Active(c) /\ IsCurrent(c) /\ ~e.whole /\ e.path # Bound[c] /\ n = b
  \/ /\ Active(c) /\ IsCurrent(c) /\ ~e.whole /\ e.path = Bound[c] /\ OwnWrite(c, e)
     /\ n = SuppressThrough(b, e.revision)
  \/ /\ Active(c) /\ IsCurrent(c) /\ ~e.whole /\ e.path = Bound[c] /\ ~OwnWrite(c, e)
     /\ n = QueueValue(b, e.revision)

LEMMA NotifiedCases ==
  ASSUME BindingTypes, NEW c \in Controls, NEW e \in Changes
  PROVE  Heard(c, e, Notified(c, e))
  <1> DEFINE b == binding[c]
  <1>1. Bound[c] # Details => IsCurrent(c) /\ b.occurrence \notin e.retired
    BY DEF BindingTypes, BoundTo, Changes, IsCurrent
  <1>2. CASE ~Active(c)
    BY <1>2 DEF Heard, Notified, Active
  <1>3. CASE Active(c) /\ Bound[c] = Details /\ (~IsCurrent(c) \/ b.occurrence \in e.retired)
    <2>1. Notified(c, e) = Retire(b)
      BY <1>3 DEF Notified, Active
    <2> QED
      BY <1>3, <2>1 DEF Heard
  <1>4. CASE Active(c) /\ IsCurrent(c) /\ b.occurrence \notin e.retired /\ e.whole
    <2>1. Notified(c, e) = QueueValue([b EXCEPT !.generation = @ + 1], e.revision)
      BY <1>4 DEF Notified, Active
    <2> QED
      BY <1>4, <2>1 DEF Heard
  <1>5. CASE Active(c) /\ IsCurrent(c) /\ b.occurrence \notin e.retired /\ ~e.whole
    <2> DEFINE n == CASE e.path # Bound[c] -> b
                      [] e.path = Bound[c] /\ OwnWrite(c, e)  -> SuppressThrough(b, e.revision)
                      [] e.path = Bound[c] /\ ~OwnWrite(c, e) -> QueueValue(b, e.revision)
    <2>1. Notified(c, e) = n
      BY <1>5 DEF Notified, Active
    <2> HIDE DEF n
    <2>2. CASE e.path # Bound[c]
      BY <1>5, <2>1, <2>2 DEF Heard, n
    <2>3. CASE e.path = Bound[c] /\ OwnWrite(c, e)
      <3>1. n = SuppressThrough(b, e.revision)
        BY <2>3 DEF n
      <3> QED
        BY <1>5, <2>1, <2>3, <3>1 DEF Heard
    <2>4. CASE e.path = Bound[c] /\ ~OwnWrite(c, e)
      <3>1. n = QueueValue(b, e.revision)
        BY <2>4 DEF n
      <3> QED
        BY <1>5, <2>1, <2>4, <3>1 DEF Heard
    <2> QED
      BY <2>2, <2>3, <2>4
  <1> QED
    BY <1>1, <1>2, <1>3, <1>4, <1>5

LEMMA ListOfASet ==
  ASSUME NEW S, IsFiniteSet(S)
  PROVE  /\ Cardinality(S) \in Nat
         /\ SetToSeq(S) \in [1..Cardinality(S) -> S]
         /\ \A i, j \in 1..Cardinality(S) : SetToSeq(S)[i] = SetToSeq(S)[j] => i = j
         /\ \A x \in S : \E i \in 1..Cardinality(S) : SetToSeq(S)[i] = x
  <1> DEFINE n == Cardinality(S)
             L == SetToSeq(S)
  <1>1. n \in Nat /\ ExistsBijection(1..n, S)
    BY FS_CardinalityType
  <1>2. \E f \in [1..n -> S] : IsInjective(f)
    BY <1>1 DEF ExistsBijection, Bijection, Injection
  <1>3. L \in [1..n -> S] /\ IsInjective(L)
    BY <1>2 DEF SetToSeq
  <1>4. L \in Injection(1..n, S)
    BY <1>3 DEF Injection
  <1>5. IsFiniteSet(1..n) /\ Cardinality(1..n) = n
    BY <1>1, FS_Interval
  <1>6. L \in Surjection(1..n, S)
    BY <1>4, <1>5, FS_Injection
  <1> QED
    BY <1>1, <1>3, <1>6 DEF IsInjective, Surjection

-----------------------------------------------------------------------------
(* The queue *)

LEMMA RestOfTheQueue ==
  ASSUME effects \in Seq(Effects), effects # <<>>
  PROVE  /\ First \in Effects /\ First = effects[1]
         /\ Rest \in Seq(Effects) /\ Len(effects) \in Nat /\ Len(effects) >= 1
         /\ Len(Rest) = Len(effects) - 1
         /\ \A i \in 1..Len(Rest) : Rest[i] = effects[i + 1]
  BY DEF First, Rest

LEMMA AtTheHead ==
  ASSUME effects \in Seq(Effects)
  PROVE  /\ At("Set") => First \in Sets
         /\ At("Drain") => First \in Drains
         /\ At("Event") => First \in Changes
  BY RestOfTheQueue DEF At, Effects, Sets, Drains, Changes

LEMMA AppendedToTheQueue ==
  ASSUME NEW q \in Seq(Effects), NEW e \in Effects
  PROVE  /\ Append(q, e) \in Seq(Effects) /\ Len(q) \in Nat
         /\ Len(Append(q, e)) = Len(q) + 1
         /\ \A i \in 1..Len(q) : Append(q, e)[i] = q[i]
         /\ Append(q, e)[Len(q) + 1] = e
  OBVIOUS

-----------------------------------------------------------------------------
(* Type correctness *)

LEMMA PathsOfControls ==
  ASSUME NEW c \in Controls
  PROVE  Bound[c] \in Paths
  BY BoundIsAPath

LEMMA TypesInit ==
  ASSUME Init
  PROVE  Types
  <1>1. FormTypes
    BY BoundsAreNatural DEF Init, FormTypes, Models
  <1>2. ASSUME NEW c \in Controls
        PROVE  /\ NewBinding(BoundTo(c)) \in Bindings
               /\ NewBinding(BoundTo(c)).occurrence = BoundTo(c)
               /\ NewBinding(BoundTo(c)).generation = 1
               /\ value[Bound[c]] \in Values \cup {None}
               /\ Bound[c] \in Fields => value[Bound[c]] \in Values
               /\ value[Details] \in Values
    BY <1>2, PathsOfControls DEF Init, Models, NewBinding, BoundTo, Bindings, Paths
  <1>3. BindingTypes
    <2>1. binding = [c \in Controls |-> NewBinding(BoundTo(c))]
      BY DEF Init, BoundTo
    <2>2. shown = [c \in Controls |-> value[Bound[c]]]
      BY DEF Init
    <2>3. ASSUME NEW c \in Controls
          PROVE  value[Bound[c]] \in Values
      BY <1>2, <2>3, PathsOfControls DEF Paths
    <2> QED
      BY <1>2, <2>1, <2>2, <2>3 DEF BindingTypes
  <1> QED
    BY <1>1, <1>3 DEF Types, Init

\* A change of the model, whichever operation makes it: what it does to the
\* form is typed if the new value and occurrence fit each other.
LEMMA ChangeTypes ==
  ASSUME FormTypes, value' \in Models,
         revision < MaxRevision, revision' = revision + 1,
         \/ UNCHANGED <<occurrence, occurrences>>
         \/ /\ occurrence' = IF value'[Details] = None THEN 0 ELSE occurrences + 1
            /\ occurrences' = IF value'[Details] = None THEN occurrences ELSE occurrences + 1,
         (value'[Details] = None) = (occurrence' = 0),
         validating' = [p \in Paths |-> None],
         asyncIssue' \in [Paths -> AsyncIssues \cup {None}],
         issue' \subseteq issue
  PROVE  FormTypes'
  BY BoundsAreNatural DEF FormTypes

LEMMA NewChangeType ==
  ASSUME FormTypes, NEW whole \in BOOLEAN, NEW path \in Paths \cup {None},
         NEW origin \in Origins, NEW retired \in {{}, {occurrence} \ {0}},
         revision' = revision + 1
  PROVE  Change(whole, path, retired, revision', origin) \in Changes
  BY BoundsAreNatural DEF Change, Changes, FormTypes

LEMMA NoOriginType ==
  NoOrigin \in Origins
  BY DEF NoOrigin, Origins

LEMMA DetailsIsAPath == Details \in Paths
  BY DEF Paths

LEMMA AsyncIssueWithdrawn ==
  ASSUME FormTypes, NEW path \in Paths,
         asyncIssue' = [asyncIssue EXCEPT ![path] = None]
  PROVE  asyncIssue' \in [Paths -> AsyncIssues \cup {None}]
  BY DEF FormTypes

LEMMA CommitTypes ==
  ASSUME Types, NEW path \in Paths, NEW v \in Values, NEW origin \in Origins,
         NEW queue \in Seq(Effects),
         Resolves(path), Commit(path, v, origin, queue), UNCHANGED bindVars
  PROVE  Types'
  <1>1. value' \in Models
    <2>1. value' = [value EXCEPT ![path] = v]
      BY DEF Commit
    <2>2. v # None
      BY ConstantsAreApart
    <2> QED
      BY <2>1, <2>2, ConstantsAreApart DEF Types, FormTypes, Models, Paths
  <1>2. (value'[Details] = None) = (occurrence' = 0)
    <2>1. value' = [value EXCEPT ![path] = v] /\ occurrence' = occurrence
      BY DEF Commit
    <2>2. v # None
      BY ConstantsAreApart
    <2>3. CASE path = Details
      BY <2>1, <2>2, <2>3, DetailsIsAPath DEF Types, FormTypes, Models, Resolves
    <2>4. CASE path # Details
      BY <2>1, <2>4, DetailsIsAPath DEF Types, FormTypes, Models
    <2> QED
      BY <2>3, <2>4
  <1>3. FormTypes'
    <2>1. asyncIssue' \in [Paths -> AsyncIssues \cup {None}]
      BY AsyncIssueWithdrawn DEF Types, Commit
    <2> QED
      BY <1>1, <1>2, <2>1, ChangeTypes DEF Types, Commit
  <1>4. effects' \in Seq(Effects)
    <2>1. Change(FALSE, path, {}, revision', origin) \in Effects
      BY NewChangeType DEF Types, Commit, Effects
    <2> QED
      BY <2>1, AppendedToTheQueue DEF Commit
  <1>5. BindingTypes'
    BY DEF Types, BindingTypes, bindVars
  <1> QED
    BY <1>3, <1>4, <1>5 DEF Types

LEMMA SetOptionalTypes ==
  ASSUME Types, NEW v \in Values \cup {None}, SetOptional(v)
  PROVE  Types'
  <1>1. value' \in Models /\ value'[Details] = v
    BY DetailsIsAPath, ConstantsAreApart DEF SetOptional, Types, FormTypes, Models, Paths
  <1>2. (value'[Details] = None) = (occurrence' = 0)
    BY <1>1 DEF SetOptional, Types, FormTypes
  <1>3. FormTypes'
    <2>1. asyncIssue' \in [Paths -> AsyncIssues \cup {None}]
      BY AsyncIssueWithdrawn, DetailsIsAPath DEF Types, SetOptional
    <2> QED
      BY <1>1, <1>2, <2>1, ChangeTypes DEF Types, SetOptional
  <1>4. effects' \in Seq(Effects)
    <2>1. Change(FALSE, Details, {occurrence} \ {0}, revision', NoOrigin) \in Effects
      BY NewChangeType, NoOriginType, DetailsIsAPath DEF Types, SetOptional, Effects
    <2> QED
      BY <2>1, AppendedToTheQueue DEF SetOptional, Types
  <1>5. BindingTypes'
    BY DEF Types, BindingTypes, SetOptional, bindVars
  <1> QED
    BY <1>3, <1>4, <1>5 DEF Types

LEMMA InstallTypes ==
  ASSUME Types, NEW m \in Models, Install(m)
  PROVE  Types'
  <1>1. value' = m
    BY DEF Install
  <1>2. (value'[Details] = None) = (occurrence' = 0)
    BY <1>1 DEF Install, Types, FormTypes
  <1>3. FormTypes'
    <2>1. asyncIssue' \in [Paths -> AsyncIssues \cup {None}] /\ issue' \subseteq issue
      BY DEF Install
    <2>2. FormTypes
      BY DEF Types
    <2> QED
      BY <1>1, <1>2, <2>1, <2>2, ChangeTypes DEF Install
  <1>4. effects' \in Seq(Effects)
    <2>1. Change(TRUE, None, {occurrence} \ {0}, revision', NoOrigin) \in Effects
      BY NewChangeType, NoOriginType DEF Types, Install, Effects
    <2> QED
      BY <2>1, AppendedToTheQueue DEF Install, Types
  <1>5. BindingTypes'
    BY DEF Types, BindingTypes, Install, bindVars
  <1> QED
    BY <1>3, <1>4, <1>5 DEF Types

LEMMA ValidationTypes ==
  ASSUME Types,
         \/ \E p \in Paths : StartValidation(p)
         \/ \E p \in Paths, hasIssue \in BOOLEAN : CompleteValidation(p, hasIssue)
         \/ ReplaceValidator
  PROVE  Types'
  <1>1. UNCHANGED <<value, revision, occurrence, occurrences, issue, bindVars, effects>>
    BY DEF StartValidation, CompleteValidation, ReplaceValidator
  <1>2. /\ validating' \in [Paths -> Validations \cup {None}]
        /\ asyncIssue' \in [Paths -> AsyncIssues \cup {None}]
    <2>1. ASSUME NEW p \in Paths
          PROVE  Occurrence(p) \in Occurrences /\ value[p] \in Values \cup {None}
      BY BoundsAreNatural DEF Types, FormTypes, Models, Occurrence, Occurrences
    <2>2. ASSUME NEW p \in Paths, StartValidation(p)
          PROVE  <1>2!1 /\ <1>2!2
      <3>1. [value |-> value[p], revision |-> revision, occurrence |-> Occurrence(p)]
              \in Validations
        BY <2>1 DEF Validations, Types, FormTypes
      <3> QED
        BY <2>2, <3>1 DEF StartValidation, Types, FormTypes
    <2>3. ASSUME NEW p \in Paths, NEW hasIssue \in BOOLEAN, CompleteValidation(p, hasIssue)
          PROVE  <1>2!1 /\ <1>2!2
      <3> DEFINE v == validating[p]
      <3>1. v \in Validations
        BY <2>3 DEF CompleteValidation, Types, FormTypes
      <3>2. [value |-> v.value, occurrence |-> v.occurrence] \in AsyncIssues
        BY <3>1 DEF Validations, AsyncIssues
      <3> QED
        BY <2>3, <3>2 DEF CompleteValidation, Types, FormTypes
    <2>4. CASE ReplaceValidator
      BY <2>4 DEF ReplaceValidator
    <2> QED
      BY <2>2, <2>3, <2>4
  <1> QED
    BY <1>1, <1>2 DEF Types, FormTypes, BindingTypes, bindVars

LEMMA FollowsOn ==
  ASSUME NEW a \in Bindings, NEW b, NEW c, NEW d, Follows(a, b), Follows(b, c), Follows(c, d)
  PROVE  Follows(a, c) /\ Follows(a, d)
  BY DEF Follows, Bindings

\* One binding goes on.
LEMMA BindingGoesOn ==
  ASSUME BindingTypes, NEW c \in Controls, NEW n, Follows(binding[c], n),
         binding' = [binding EXCEPT ![c] = n],
         shown' \in [Controls -> Values \cup {Invalid}]
  PROVE  BindingTypes'
  <1>1. binding' \in [Controls -> Bindings]
    BY DEF BindingTypes, Follows
  <1>2. ASSUME NEW d \in Controls
        PROVE  binding'[d].occurrence = BoundTo(d) /\ 1 <= binding'[d].generation
    <2>1. CASE d = c
      <3>1. binding'[d] = n
        BY <2>1 DEF BindingTypes
      <3> QED
        BY <2>1, <3>1 DEF BindingTypes, Follows, Bindings
    <2>2. CASE d # c
      <3>1. binding'[d] = binding[d]
        BY <2>2 DEF BindingTypes
      <3> QED
        BY <3>1 DEF BindingTypes
    <2> QED
      BY <2>1, <2>2
  <1> QED
    BY <1>1, <1>2 DEF BindingTypes, BoundTo

LEMMA NativeEditTypes ==
  ASSUME Types, NEW c \in Controls, NEW v \in Values \cup {Invalid}, NativeEdit(c, v)
  PROVE  Types'
  <1>1. Follows(binding[c], SuppressThrough(binding[c], revision))
    BY SuppressType, BoundsAreNatural DEF Types, FormTypes, BindingTypes
  <1>2. BindingTypes'
    BY <1>1 DEF NativeEdit, Types, BindingTypes, Follows, Bindings
  <1>3. SetEffect(c, v) \in Effects
    BY DEF Types, BindingTypes, SetEffect, Effects, Sets, Bindings
  <1>4. effects' \in Seq(Effects)
    BY <1>3, AppendedToTheQueue DEF NativeEdit, Types
  <1> QED
    BY <1>2, <1>4 DEF Types, FormTypes, NativeEdit, formVars

LEMMA DropTypes ==
  ASSUME Types, NEW c \in Controls, Drop(c)
  PROVE  Types'
  <1>1. Follows(binding[c], Dropped(binding[c]))
    BY DrainedType DEF Types, BindingTypes
  <1>2. BindingTypes'
    BY <1>1 DEF Drop, Types, BindingTypes, Follows, Bindings
  <1> QED
    BY <1>2 DEF Types, FormTypes, Drop

LEMMA RunSetTypes ==
  ASSUME Types, RunSet
  PROVE  Types'
  <1> DEFINE c == First.control
  <1>1. First \in Sets /\ c \in Controls /\ Rest \in Seq(Effects)
    BY AtTheHead, RestOfTheQueue DEF RunSet, At, Types, Sets
  <1>2. BindingTypes'
    BY DEF RunSet, NothingComesOfIt, Types, BindingTypes, bindVars
  <1>3. CASE Active(c) /\ IsCurrent(c) /\ First.value \in Values
             /\ Commit(Bound[c], First.value,
                       [control |-> c, generation |-> binding[c].generation], Rest)
    <2>1. [control |-> c, generation |-> binding[c].generation] \in Origins
      BY <1>1 DEF Types, BindingTypes, Bindings, Origins
    <2>2. Resolves(Bound[c])
      BY <1>1, <1>3 DEF Types, BindingTypes, BoundTo, IsCurrent, Resolves
    <2>3. UNCHANGED bindVars
      BY DEF RunSet, NothingComesOfIt
    <2> QED
      BY <1>1, <1>3, <2>1, <2>2, <2>3, PathsOfControls, CommitTypes
  <1>4. CASE effects' = Rest /\ issue' \subseteq issue \cup {c}
             /\ UNCHANGED <<value, revision, occurrence, occurrences, validating, asyncIssue>>
    BY <1>1, <1>2, <1>4 DEF Types, FormTypes
  <1>5. First.value \in Values \cup {Invalid}
    BY <1>1 DEF Sets
  <1> QED
    BY <1>3, <1>4, <1>5 DEF RunSet, NothingComesOfIt, formVars

LEMMA RunDrainTypes ==
  ASSUME Types, RunDrain
  PROVE  Types'
  <1> DEFINE c == First.control
             b == binding[c]
  <1>1. First \in Drains /\ c \in Controls /\ Rest \in Seq(Effects)
    BY AtTheHead, RestOfTheQueue DEF RunDrain, At, Types, Drains
  <1>2. /\ Follows(b, Drained(b)) /\ Follows(b, Drained(Retire(Drained(b))))
    <2>1. b \in Bindings
      BY <1>1 DEF Types, BindingTypes
    <2>2. Follows(b, Drained(b)) /\ Follows(Drained(b), Retire(Drained(b)))
          /\ Follows(Retire(Drained(b)), Drained(Retire(Drained(b))))
      BY <2>1, DrainedType, RetireType DEF Follows
    <2> QED
      BY <2>1, <2>2, FollowsOn
  <1>3. shown' \in [Controls -> Values \cup {Invalid}]
    <2>1. CASE UNCHANGED shown
      BY <2>1 DEF Types, BindingTypes
    <2>2. CASE IsCurrent(c) /\ shown' = [shown EXCEPT ![c] = value[Bound[c]]]
      <3>1. value[Bound[c]] \in Values
        BY <1>1, <2>2, PathsOfControls
           DEF Types, FormTypes, BindingTypes, BoundTo, IsCurrent, Models, Paths
      <3> QED
        BY <2>2, <3>1 DEF Types, BindingTypes
    <2> QED
      BY <2>1, <2>2 DEF RunDrain
  <1>4. BindingTypes'
    <2>1. \/ binding' = [binding EXCEPT ![c] = Drained(b)]
          \/ binding' = [binding EXCEPT ![c] = Drained(Retire(Drained(b)))]
      BY DEF RunDrain
    <2> QED
      BY <1>1, <1>2, <1>3, <2>1, BindingGoesOn DEF Types
  <1>5. issue' \subseteq issue
    BY DEF RunDrain
  <1> QED
    BY <1>1, <1>4, <1>5 DEF RunDrain, Types, FormTypes

\* A binding that heard of a change is the binding it was, further on.
LEMMA HeardType ==
  ASSUME BindingTypes, NEW c \in Controls, NEW e \in Changes, NEW n, Heard(c, e, n)
  PROVE  Follows(binding[c], n)
  <1> DEFINE b == binding[c]
             up == [b EXCEPT !.generation = @ + 1]
  <1>1. b \in Bindings /\ e.revision \in Nat
    BY DEF BindingTypes, Changes
  <1>2. Follows(b, b)
    BY <1>1 DEF Follows, Bindings
  <1>3. Follows(b, up)
    <2>1. b.generation + 1 \in Nat /\ b.generation <= b.generation + 1
      BY <1>1 DEF Bindings
    <2> QED
      BY <1>1, <2>1 DEF Follows, Bindings
  <1>4. Follows(b, QueueValue(up, e.revision))
    <2>1. Follows(up, QueueValue(up, e.revision))
      BY <1>1, <1>3, QueueValueType DEF Follows
    <2> QED
      BY <1>1, <1>3, <2>1 DEF Follows, Bindings
  <1>5. Follows(b, Retire(b)) /\ Follows(b, SuppressThrough(b, e.revision))
        /\ Follows(b, QueueValue(b, e.revision))
    BY <1>1, RetireType, SuppressType, QueueValueType
  <1> QED
    BY <1>2, <1>4, <1>5 DEF Heard

\* The bindings that need a drain after the change at the head, and the drains
\* that join the queue for them.
Thirsty == {c \in Controls : binding'[c].drain /\ ~binding[c].drain}

LEMMA DrainsForTheThirsty ==
  ASSUME Types, RunEvent
  PROVE  /\ effects' \in Seq(Effects) /\ Len(Rest) \in Nat /\ Len(effects') \in Nat
         /\ Len(Rest) <= Len(effects')
         /\ \A i \in 1..Len(Rest) : effects'[i] = Rest[i]
         /\ \A i \in 1..Len(effects') : i > Len(Rest) =>
              \E c \in Thirsty : effects'[i] = DrainEffect(c)
         /\ \A c \in Thirsty : \E i \in 1..Len(effects') :
              i > Len(Rest) /\ effects'[i] = DrainEffect(c)
         /\ \A i, j \in 1..Len(effects') :
              i > Len(Rest) /\ j > Len(Rest) /\ effects'[i] = effects'[j] => i = j
  <1> DEFINE n == Cardinality(Thirsty)
             L == SetToSeq(Thirsty)
             drains == [i \in 1..n |-> DrainEffect(L[i])]
  <1>1. effects' = Rest \o drains
    BY DEF RunEvent, Thirsty
  <1>2. IsFiniteSet(Thirsty)
    BY ControlsAreFinite, FS_Subset DEF Thirsty
  <1>3. /\ n \in Nat /\ L \in [1..n -> Thirsty]
        /\ \A i, j \in 1..n : L[i] = L[j] => i = j
        /\ \A x \in Thirsty : \E i \in 1..n : L[i] = x
    BY <1>2, ListOfASet
  <1> HIDE DEF n, L
  <1>4. \A c, d : DrainEffect(c) = DrainEffect(d) => c = d
    BY DEF DrainEffect
  <1>5. \A c \in Thirsty : DrainEffect(c) \in Effects
    BY DEF DrainEffect, Thirsty, Effects, Drains
  <1>6. drains \in Seq(Effects) /\ Len(drains) = n /\ \A i \in 1..n : drains[i] = DrainEffect(L[i])
    BY <1>3, <1>5
  <1>7. Rest \in Seq(Effects)
    BY RestOfTheQueue DEF RunEvent, At, Types
  <1> HIDE DEF drains
  <1>8. /\ effects' \in Seq(Effects) /\ Len(Rest) \in Nat /\ Len(effects') = Len(Rest) + n
        /\ \A i \in 1..Len(Rest) : effects'[i] = Rest[i]
        /\ \A i \in 1..n : effects'[Len(Rest) + i] = drains[i]
        /\ \A i \in 1..Len(effects') : i > Len(Rest) => effects'[i] = drains[i - Len(Rest)]
    BY <1>1, <1>3, <1>6, <1>7
  <1>9. \A i \in 1..Len(effects') : i > Len(Rest) =>
          i - Len(Rest) \in 1..n /\ effects'[i] = DrainEffect(L[i - Len(Rest)])
    BY <1>3, <1>6, <1>8
  <1>10. \A i \in 1..Len(effects') : i > Len(Rest) =>
           \E c \in Thirsty : effects'[i] = DrainEffect(c)
    BY <1>3, <1>9
  <1>11. ASSUME NEW c \in Thirsty
         PROVE  \E i \in 1..Len(effects') : i > Len(Rest) /\ effects'[i] = DrainEffect(c)
    <2>1. PICK k \in 1..n : L[k] = c
      BY <1>3
    <2>2. Len(Rest) + k \in 1..Len(effects') /\ effects'[Len(Rest) + k] = DrainEffect(c)
          /\ Len(Rest) + k > Len(Rest)
      BY <1>3, <1>6, <1>8, <2>1
    <2> QED
      BY <2>2
  <1>12. ASSUME NEW i \in 1..Len(effects'), NEW j \in 1..Len(effects'),
                i > Len(Rest), j > Len(Rest), effects'[i] = effects'[j]
         PROVE  i = j
    <2>1. L[i - Len(Rest)] = L[j - Len(Rest)]
      BY <1>4, <1>9, <1>12
    <2>2. i - Len(Rest) = j - Len(Rest)
      BY <1>3, <1>9, <1>12, <2>1
    <2> QED
      BY <1>8, <1>3, <2>2
  <1>13. Len(effects') \in Nat /\ Len(Rest) <= Len(effects')
    BY <1>3, <1>8
  <1>14. \A c \in Thirsty : \E i \in 1..Len(effects') :
           i > Len(Rest) /\ effects'[i] = DrainEffect(c)
    BY <1>11
  <1>15. \A i, j \in 1..Len(effects') :
           i > Len(Rest) /\ j > Len(Rest) /\ effects'[i] = effects'[j] => i = j
    BY <1>12
  <1> HIDE DEF Thirsty
  <1> QED
    BY <1>8, <1>10, <1>13, <1>14, <1>15

LEMMA RunEventTypes ==
  ASSUME Types, RunEvent
  PROVE  Types'
  <1>1. First \in Changes
    BY AtTheHead DEF RunEvent, Types
  <1>2. BindingTypes'
    <2>1. ASSUME NEW c \in Controls
          PROVE  Follows(binding[c], Notified(c, First))
      BY <1>1, <2>1, NotifiedCases, HeardType DEF Types
    <2>2. binding' = [c \in Controls |-> Notified(c, First)]
      BY DEF RunEvent
    <2> QED
      BY <2>1, <2>2 DEF RunEvent, Types, BindingTypes, Follows, Bindings
  <1> QED
    BY <1>2, DrainsForTheThirsty DEF RunEvent, Types, FormTypes, formVars

LEMMA TypesNext ==
  ASSUME Types, [Next]_vars
  PROVE  Types'
  <1>1. ASSUME NEW p \in Paths, NEW v \in Values, Set(p, v)
        PROVE  Types'
    BY <1>1, CommitTypes, NoOriginType DEF Set, Types
  <1>2. ASSUME NEW v \in Values \cup {None}, SetOptional(v)
        PROVE  Types'
    BY <1>2, SetOptionalTypes
  <1>3. ASSUME NEW m \in Models, Install(m)
        PROVE  Types'
    BY <1>3, InstallTypes
  <1>4. ASSUME \/ \E p \in Paths : StartValidation(p)
               \/ \E p \in Paths, hasIssue \in BOOLEAN : CompleteValidation(p, hasIssue)
               \/ ReplaceValidator
        PROVE  Types'
    BY <1>4, ValidationTypes
  <1>5. ASSUME NEW c \in Controls, NEW v \in Values \cup {Invalid}, NativeEdit(c, v)
        PROVE  Types'
    BY <1>5, NativeEditTypes
  <1>6. ASSUME NEW c \in Controls, Drop(c)
        PROVE  Types'
    BY <1>6, DropTypes
  <1>7. CASE RunSet \/ RunEvent \/ RunDrain
    BY <1>7, RunSetTypes, RunEventTypes, RunDrainTypes
  <1>8. CASE UNCHANGED vars
    BY <1>8 DEF vars, formVars, bindVars, Types, FormTypes, BindingTypes
  <1> QED
    BY <1>1, <1>2, <1>3, <1>4, <1>5, <1>6, <1>7, <1>8 DEF Next

-----------------------------------------------------------------------------
(* What is in the queue *)

Positions == 1..Len(effects)

IsEvent(i)  == effects[i].kind = "Event"
SetOf(c, i) == effects[i].kind = "Set" /\ effects[i].control = c
Own(c, i)   == IsEvent(i) /\ OwnWrite(c, effects[i])

\* Changes are heard in the order they were made.
EventsInOrder ==
  \A i \in Positions : IsEvent(i) =>
    /\ effects[i].revision <= revision
    /\ \A j \in Positions : IsEvent(j) /\ i < j => effects[i].revision < effects[j].revision

\* The origin of a change is a write of that control to its own path.
OriginsAreWrites ==
  \A i \in Positions : IsEvent(i) =>
    LET o == effects[i].origin IN
    \/ o = NoOrigin
    \/ /\ o.control \in Controls
       /\ ~effects[i].whole /\ effects[i].path = Bound[o.control]
       /\ o.generation <= binding[o.control].generation

\* A drain is on its way exactly if the binding says so, and only one.
DrainsAreOwed ==
  \A c \in Controls : binding[c].life # "Dropped" =>
    /\ binding[c].drain => \E i \in Positions : effects[i] = DrainEffect(c)
    /\ \A i \in Positions : effects[i] = DrainEffect(c) =>
         binding[c].drain /\ \A j \in Positions : effects[j] = DrainEffect(c) => i = j

\* What waits for a drain has one, and stems from a change that was made.
PendingIsDrained ==
  \A c \in Controls :
    /\ binding[c].pending # "None" => binding[c].drain
    /\ Active(c) => binding[c].pending # "Retired"
    /\ binding[c].upTo <= revision /\ binding[c].pendingRevision <= revision

QueueInv == Types /\ EventsInOrder /\ OriginsAreWrites /\ DrainsAreOwed /\ PendingIsDrained

-----------------------------------------------------------------------------
(* Steps of the queue *)

\* The first s effects are gone, the others are still there in their order.
Shifts(s) ==
  /\ Len(effects) \in Nat /\ Len(effects') \in Nat
  /\ s <= Len(effects) /\ Len(effects) - s <= Len(effects')
  /\ \A i \in 1..Len(effects) : s < i =>
       i - s \in 1..Len(effects') /\ effects'[i - s] = effects[i]
  /\ \A k \in 1..Len(effects') : k <= Len(effects) - s =>
       k + s \in 1..Len(effects) /\ effects'[k] = effects[k + s]

\* The effects behind them are new.
IsNew(s, k) == Len(effects) - s < k

\* One effect joins the queue.
Joins(s, e) ==
  /\ Len(effects') = Len(effects) - s + 1 /\ Len(effects') \in 1..Len(effects')
  /\ \A k \in 1..Len(effects') : IsNew(s, k) <=> k = Len(effects')
  /\ effects'[Len(effects')] = e

NoneJoins(s) == \A k \in 1..Len(effects') : ~IsNew(s, k)

LEMMA QueueStays ==
  ASSUME effects \in Seq(Effects), UNCHANGED effects
  PROVE  Shifts(0) /\ NoneJoins(0)
  BY DEF Shifts, NoneJoins, IsNew

LEMMA OneJoins ==
  ASSUME effects \in Seq(Effects), NEW e \in Effects, effects' = Append(effects, e)
  PROVE  Shifts(0) /\ Joins(0, e)
  <1>1. /\ Len(effects) \in Nat /\ Len(effects') = Len(effects) + 1
        /\ \A i \in 1..Len(effects) : effects'[i] = effects[i]
        /\ effects'[Len(effects) + 1] = e
    BY AppendedToTheQueue
  <1> QED
    BY <1>1 DEF Shifts, Joins, IsNew

LEMMA OneLeaves ==
  ASSUME effects \in Seq(Effects), effects # <<>>, effects' = Rest
  PROVE  Shifts(1) /\ NoneJoins(1)
  BY RestOfTheQueue DEF Shifts, NoneJoins, IsNew

LEMMA OneLeavesOneJoins ==
  ASSUME effects \in Seq(Effects), effects # <<>>, NEW e \in Effects,
         effects' = Append(Rest, e)
  PROVE  Shifts(1) /\ Joins(1, e)
  <1>1. /\ Rest \in Seq(Effects) /\ Len(effects) \in Nat /\ Len(effects) >= 1
        /\ Len(Rest) = Len(effects) - 1
        /\ \A i \in 1..Len(Rest) : Rest[i] = effects[i + 1]
    BY RestOfTheQueue
  <1>2. /\ Len(effects') = Len(Rest) + 1
        /\ \A i \in 1..Len(Rest) : effects'[i] = Rest[i]
        /\ effects'[Len(Rest) + 1] = e
    BY <1>1, AppendedToTheQueue
  <1> QED
    BY <1>1, <1>2 DEF Shifts, Joins, IsNew

LEMMA DrainsJoin ==
  ASSUME Types, RunEvent
  PROVE  /\ Shifts(1)
         /\ \A k \in 1..Len(effects') : IsNew(1, k) =>
              \E c \in Thirsty : effects'[k] = DrainEffect(c)
         /\ \A c \in Thirsty : \E k \in 1..Len(effects') :
              IsNew(1, k) /\ effects'[k] = DrainEffect(c)
         /\ \A k, l \in 1..Len(effects') :
              IsNew(1, k) /\ IsNew(1, l) /\ effects'[k] = effects'[l] => k = l
  <1>1. /\ Len(effects) \in Nat /\ Len(effects) >= 1
        /\ Len(Rest) = Len(effects) - 1
        /\ \A i \in 1..Len(Rest) : Rest[i] = effects[i + 1]
    BY RestOfTheQueue DEF RunEvent, At, Types
  <1>2. /\ Len(effects') \in Nat /\ Len(Rest) <= Len(effects')
        /\ \A i \in 1..Len(Rest) : effects'[i] = Rest[i]
    BY DrainsForTheThirsty
  <1>3. Shifts(1)
    BY <1>1, <1>2 DEF Shifts
  <1>4. \A k \in 1..Len(effects') : IsNew(1, k) <=> k > Len(Rest)
    BY <1>1, <1>2 DEF IsNew
  <1> QED
    BY <1>3, <1>4, DrainsForTheThirsty

-----------------------------------------------------------------------------
(* The order and the origins of the changes *)

\* No change joins.
LEMMA OrderKept ==
  ASSUME QueueInv, NEW s \in {0, 1}, Shifts(s), revision' = revision,
         \A k \in 1..Len(effects') : IsNew(s, k) => effects'[k].kind # "Event",
         \A c \in Controls : binding[c].generation <= binding'[c].generation,
         binding' \in [Controls -> Bindings]
  PROVE  EventsInOrder' /\ OriginsAreWrites'
  <1>1. ASSUME NEW k \in 1..Len(effects'), effects'[k].kind = "Event"
        PROVE  /\ k + s \in Positions /\ effects'[k] = effects[k + s]
    BY <1>1 DEF Shifts, IsNew, Positions
  <1>2. EventsInOrder'
    <2>1. ASSUME NEW k \in 1..Len(effects'), effects'[k].kind = "Event",
                 NEW l \in 1..Len(effects'), effects'[l].kind = "Event", k < l
          PROVE  effects'[k].revision < effects'[l].revision
      <3>1. k + s < l + s
        BY <2>1
      <3> QED
        BY <1>1, <2>1, <3>1 DEF QueueInv, EventsInOrder, IsEvent
    <2>2. ASSUME NEW k \in 1..Len(effects'), effects'[k].kind = "Event"
          PROVE  effects'[k].revision <= revision'
      BY <1>1, <2>2 DEF QueueInv, EventsInOrder, IsEvent
    <2> QED
      BY <2>1, <2>2 DEF EventsInOrder, Positions, IsEvent
  <1>3. OriginsAreWrites'
    <2>1. ASSUME NEW k \in 1..Len(effects'), effects'[k].kind = "Event",
                 effects'[k].origin # NoOrigin
          PROVE  LET o == effects'[k].origin IN
                 /\ o.control \in Controls
                 /\ ~effects'[k].whole /\ effects'[k].path = Bound[o.control]
                 /\ o.generation <= binding'[o.control].generation
      <3> DEFINE e == effects[k + s]
                 o == e.origin
      <3>1. k + s \in Positions /\ effects'[k] = e /\ IsEvent(k + s)
        BY <1>1, <2>1 DEF IsEvent
      <3>2. e \in Changes
        BY <3>1 DEF QueueInv, Types, Effects, Sets, Drains, IsEvent, Positions
      <3>3. /\ o.control \in Controls /\ o.generation <= binding[o.control].generation
            /\ ~e.whole /\ e.path = Bound[o.control]
        BY <2>1, <3>1 DEF QueueInv, OriginsAreWrites
      <3>4. /\ o.generation \in Nat /\ binding[o.control].generation \in Nat
            /\ binding'[o.control].generation \in Nat
        BY <3>2, <3>3 DEF Changes, Origins, Bindings, QueueInv, Types, BindingTypes
      <3> QED
        BY <3>1, <3>3, <3>4
    <2> QED
      BY <2>1 DEF OriginsAreWrites, Positions, IsEvent, NoOrigin
  <1> QED
    BY <1>2, <1>3

\* The newest change joins.
LEMMA OrderGrows ==
  ASSUME QueueInv, NEW s \in {0, 1}, NEW e \in Changes, Shifts(s), Joins(s, e),
         revision' = revision + 1, e.revision = revision', UNCHANGED binding,
         \/ e.origin = NoOrigin
         \/ /\ e.origin.control \in Controls /\ ~e.whole
            /\ e.path = Bound[e.origin.control]
            /\ e.origin.generation = binding[e.origin.control].generation
  PROVE  EventsInOrder' /\ OriginsAreWrites'
  <1>1. ASSUME NEW k \in 1..Len(effects'), k # Len(effects')
        PROVE  /\ k + s \in Positions /\ effects'[k] = effects[k + s]
    BY <1>1 DEF Shifts, Joins, IsNew, Positions
  <1>2. ASSUME NEW k \in 1..Len(effects'), effects'[k].kind = "Event", k # Len(effects')
        PROVE  effects'[k].revision <= revision /\ effects'[k] \in Changes
    BY <1>1, <1>2 DEF QueueInv, EventsInOrder, IsEvent, Types, Effects, Sets, Drains, Positions
  <1>3. revision \in Nat /\ effects'[Len(effects')] = e /\ Len(effects') \in Nat
    BY BoundsAreNatural DEF QueueInv, Types, FormTypes, Joins, Shifts
  <1>4. EventsInOrder'
    <2>1. ASSUME NEW k \in 1..Len(effects'), effects'[k].kind = "Event",
                 NEW l \in 1..Len(effects'), effects'[l].kind = "Event", k < l
          PROVE  effects'[k].revision < effects'[l].revision
      <3>1. CASE l = Len(effects')
        BY <1>2, <1>3, <2>1, <3>1 DEF Changes
      <3>2. CASE l # Len(effects')
        <4>1. k + s < l + s /\ k # Len(effects')
          BY <2>1, <3>2, <1>3
        <4> QED
          BY <1>1, <2>1, <3>2, <4>1 DEF QueueInv, EventsInOrder, IsEvent
      <3> QED
        BY <3>1, <3>2
    <2>2. ASSUME NEW k \in 1..Len(effects'), effects'[k].kind = "Event"
          PROVE  effects'[k].revision <= revision'
      BY <1>2, <1>3, <2>2 DEF Changes
    <2> QED
      BY <2>1, <2>2 DEF EventsInOrder, Positions, IsEvent
  <1>5. OriginsAreWrites'
    <2>1. ASSUME NEW k \in 1..Len(effects'), effects'[k].kind = "Event",
                 effects'[k].origin # NoOrigin
          PROVE  LET o == effects'[k].origin IN
                 /\ o.control \in Controls
                 /\ ~effects'[k].whole /\ effects'[k].path = Bound[o.control]
                 /\ o.generation <= binding[o.control].generation
      <3>1. CASE k = Len(effects')
        BY <1>3, <2>1, <3>1 DEF QueueInv, Types, BindingTypes, Bindings
      <3>2. CASE k # Len(effects')
        BY <1>1, <2>1, <3>2 DEF QueueInv, OriginsAreWrites, IsEvent
      <3> QED
        BY <3>1, <3>2
    <2> QED
      BY <2>1 DEF OriginsAreWrites, Positions, IsEvent, NoOrigin
  <1> QED
    BY <1>4, <1>5

-----------------------------------------------------------------------------
(* The steps, by what they do to the queue *)

\* The newest change joins the queue.  A control whose path it does not touch
\* sees the form it saw before.
ChangeStep(s, e) ==
  /\ Shifts(s) /\ Joins(s, e) /\ e \in Changes
  /\ revision' = revision + 1 /\ e.revision = revision'
  /\ UNCHANGED bindVars
  /\ \A c \in Controls :
       /\ IsCurrent(c)' => IsCurrent(c)
       /\ e.whole \/ e.path = Bound[c] \/
            /\ value'[Bound[c]] = value[Bound[c]] /\ (c \in issue' <=> c \in issue)
            /\ IsCurrent(c) => IsCurrent(c)'

\* The occurrence a binding was made for is handed out once.
LEMMA OccurrenceGone ==
  ASSUME Types, NEW c \in Controls,
         \/ UNCHANGED <<occurrence, occurrences>>
         \/ /\ occurrence' = IF value'[Details] = None THEN 0 ELSE occurrences + 1
            /\ occurrences' = IF value'[Details] = None THEN occurrences ELSE occurrences + 1,
         UNCHANGED binding
  PROVE  IsCurrent(c)' => IsCurrent(c)
  BY DEF Types, FormTypes, BindingTypes, BoundTo, IsCurrent

LEMMA ChangesByTheProgram ==
  ASSUME Types,
         \/ \E p \in Paths, v \in Values : Set(p, v)
         \/ \E v \in Values \cup {None} : SetOptional(v)
         \/ \E m \in Models : Install(m)
  PROVE  \E e \in Changes : ChangeStep(0, e) /\ e.origin = NoOrigin
  <1>1. effects \in Seq(Effects) /\ FormTypes /\ BindingTypes
    BY DEF Types
  <1>2. ASSUME NEW p \in Paths, NEW v \in Values, Set(p, v)
        PROVE  \E e \in Changes : ChangeStep(0, e) /\ e.origin = NoOrigin
    <2> DEFINE e == Change(FALSE, p, {}, revision', NoOrigin)
    <2>1. /\ revision' = revision + 1 /\ effects' = Append(effects, e)
          /\ value' = [value EXCEPT ![p] = v] /\ issue' = issue \ Touched(p)
          /\ UNCHANGED <<occurrence, occurrences>> /\ UNCHANGED bindVars
      BY <1>2 DEF Set, Commit
    <2>2. e \in Changes
      BY <1>1, <2>1, NewChangeType, NoOriginType
    <2>3. e.revision = revision' /\ e.origin = NoOrigin /\ e.path = p
      BY DEF Change
    <2> HIDE DEF e
    <2>4. Shifts(0) /\ Joins(0, e)
      BY <1>1, <2>1, <2>2, OneJoins DEF Effects
    <2>5. ASSUME NEW c \in Controls
          PROVE  /\ IsCurrent(c)' <=> IsCurrent(c)
                 /\ p # Bound[c] =>
                      value'[Bound[c]] = value[Bound[c]] /\ (c \in issue' <=> c \in issue)
      BY <1>1, <2>1, PathsOfControls DEF FormTypes, Models, Touched, IsCurrent, bindVars
    <2> QED
      BY <2>1, <2>2, <2>3, <2>4, <2>5 DEF ChangeStep
  <1>3. ASSUME NEW v \in Values \cup {None}, SetOptional(v)
        PROVE  \E e \in Changes : ChangeStep(0, e) /\ e.origin = NoOrigin
    <2> DEFINE e == Change(FALSE, Details, {occurrence} \ {0}, revision', NoOrigin)
    <2>1. /\ revision' = revision + 1 /\ effects' = Append(effects, e)
          /\ value' = [value EXCEPT ![Details] = v] /\ issue' = issue \ Touched(Details)
          /\ value'[Details] = v
          /\ occurrence' = IF v = None THEN 0 ELSE occurrences + 1
          /\ occurrences' = IF v = None THEN occurrences ELSE occurrences + 1
          /\ UNCHANGED bindVars
      BY <1>1, <1>3, DetailsIsAPath DEF SetOptional, FormTypes, Models
    <2>2. e \in Changes
      BY <1>1, <2>1, NewChangeType, NoOriginType, DetailsIsAPath
    <2>3. e.revision = revision' /\ e.origin = NoOrigin /\ e.path = Details
      BY DEF Change
    <2> HIDE DEF e
    <2>4. Shifts(0) /\ Joins(0, e)
      BY <1>1, <2>1, <2>2, OneJoins DEF Effects
    <2>5. ASSUME NEW c \in Controls
          PROVE  /\ IsCurrent(c)' => IsCurrent(c)
                 /\ Details # Bound[c] =>
                      /\ value'[Bound[c]] = value[Bound[c]] /\ (c \in issue' <=> c \in issue)
                      /\ IsCurrent(c) => IsCurrent(c)'
      <3>1. IsCurrent(c)' => IsCurrent(c)
        BY <2>1, OccurrenceGone DEF bindVars
      <3>2. Details # Bound[c] =>
              /\ value'[Bound[c]] = value[Bound[c]] /\ (c \in issue' <=> c \in issue)
              /\ IsCurrent(c)'
        BY <1>1, <2>1, PathsOfControls DEF FormTypes, Models, Touched, IsCurrent
      <3> QED
        BY <3>1, <3>2
    <2> QED
      BY <2>1, <2>2, <2>3, <2>4, <2>5 DEF ChangeStep
  <1>4. ASSUME NEW m \in Models, Install(m)
        PROVE  \E e \in Changes : ChangeStep(0, e) /\ e.origin = NoOrigin
    <2> DEFINE e == Change(TRUE, None, {occurrence} \ {0}, revision', NoOrigin)
    <2>1. /\ revision' = revision + 1 /\ effects' = Append(effects, e)
          /\ value' = m
          /\ occurrence' = IF m[Details] = None THEN 0 ELSE occurrences + 1
          /\ occurrences' = IF m[Details] = None THEN occurrences ELSE occurrences + 1
          /\ UNCHANGED bindVars
      BY <1>4 DEF Install
    <2>2. e \in Changes
      BY <1>1, <2>1, NewChangeType, NoOriginType
    <2>3. e.revision = revision' /\ e.origin = NoOrigin /\ e.whole
      BY DEF Change
    <2> HIDE DEF e
    <2>4. Shifts(0) /\ Joins(0, e)
      BY <1>1, <2>1, <2>2, OneJoins DEF Effects
    <2>5. ASSUME NEW c \in Controls
          PROVE  IsCurrent(c)' => IsCurrent(c)
      BY <2>1, OccurrenceGone DEF bindVars
    <2> QED
      BY <2>1, <2>2, <2>3, <2>4, <2>5 DEF ChangeStep
  <1> QED
    BY <1>2, <1>3, <1>4

\* A deferred write is dropped, changes the issue of its control, or commits.
SetDropped(c) ==
  /\ ~Active(c) \/ effects[1].generation # binding[c].generation \/ ~IsCurrent(c)
  /\ UNCHANGED <<formVars, bindVars>> /\ Shifts(1) /\ NoneJoins(1)

SetIsNoChange(c) ==
  /\ Active(c) /\ IsCurrent(c)
  /\ UNCHANGED <<value, revision, occurrence, occurrences, bindVars>>
  /\ Shifts(1) /\ NoneJoins(1)
  /\ \/ effects[1].value = Invalid /\ issue' = issue \cup {c}
     \/ effects[1].value = value[Bound[c]] /\ issue' = issue \ {c}

SetCommits(c) ==
  /\ Active(c) /\ IsCurrent(c) /\ effects[1].value \in Values
  /\ \E e \in Changes :
       /\ ChangeStep(1, e) /\ ~e.whole /\ e.path = Bound[c]
       /\ e.origin = [control |-> c, generation |-> binding[c].generation]
  /\ value'[Bound[c]] = effects[1].value
  /\ \A d \in Controls : IsCurrent(d)' <=> IsCurrent(d)

LEMMA RunSetCases ==
  ASSUME Types, RunSet
  PROVE  \E c \in Controls : /\ effects # <<>> /\ SetOf(c, 1) /\ effects[1] \in Sets
                             /\ SetDropped(c) \/ SetIsNoChange(c) \/ SetCommits(c)
  <1> DEFINE c == First.control
  <1>1. /\ effects \in Seq(Effects) /\ FormTypes /\ BindingTypes
        /\ effects # <<>> /\ First \in Sets /\ First = effects[1]
        /\ c \in Controls /\ SetOf(c, 1)
    BY AtTheHead, RestOfTheQueue DEF RunSet, At, Types, Sets, SetOf
  <1>3. CASE NothingComesOfIt /\
             (~Active(c) \/ First.generation # binding[c].generation \/ ~IsCurrent(c))
    BY <1>1, <1>3, OneLeaves DEF NothingComesOfIt, SetDropped
  <1>4. CASE /\ Active(c) /\ IsCurrent(c) /\ effects' = Rest
             /\ UNCHANGED <<value, revision, occurrence, occurrences, bindVars>>
             /\ \/ First.value = Invalid /\ issue' = issue \cup {c}
                \/ First.value = value[Bound[c]] /\ issue' = issue \ {c}
    <2>1. SetIsNoChange(c)
      BY <1>1, <1>4, OneLeaves DEF SetIsNoChange
    <2> QED
      BY <1>1, <2>1
  <1>5. CASE /\ Active(c) /\ IsCurrent(c) /\ First.value \notin {Invalid, value[Bound[c]]}
             /\ Commit(Bound[c], First.value,
                       [control |-> c, generation |-> binding[c].generation], Rest)
             /\ UNCHANGED bindVars
    <2> DEFINE o == [control |-> c, generation |-> binding[c].generation]
               p == Bound[c]
               e == Change(FALSE, p, {}, revision', o)
    <2>1. /\ revision' = revision + 1 /\ effects' = Append(Rest, e)
          /\ value' = [value EXCEPT ![p] = First.value] /\ issue' = issue \ Touched(p)
          /\ UNCHANGED <<occurrence, occurrences>> /\ UNCHANGED bindVars
      BY <1>5 DEF Commit
    <2>2. o \in Origins /\ p \in Paths
      BY <1>1, PathsOfControls DEF BindingTypes, Bindings, Origins
    <2>3. e \in Changes
      BY <1>1, <2>1, <2>2, NewChangeType
    <2>4. e.revision = revision' /\ e.origin = o /\ e.path = p /\ ~e.whole
      BY DEF Change
    <2> HIDE DEF e, o
    <2>5. Shifts(1) /\ Joins(1, e)
      BY <1>1, <2>1, <2>3, OneLeavesOneJoins DEF Effects
    <2>6. ASSUME NEW d \in Controls
          PROVE  /\ IsCurrent(d)' <=> IsCurrent(d)
                 /\ p # Bound[d] =>
                      value'[Bound[d]] = value[Bound[d]] /\ (d \in issue' <=> d \in issue)
      BY <1>1, <2>1, PathsOfControls DEF FormTypes, Models, Touched, IsCurrent, bindVars
    <2>7. ChangeStep(1, e)
      BY <2>1, <2>3, <2>4, <2>5, <2>6 DEF ChangeStep
    <2>8. value'[p] = First.value /\ First.value \in Values
      BY <1>1, <1>5, <2>1, <2>2 DEF FormTypes, Models, Sets
    <2>9. SetCommits(c)
      BY <1>1, <1>5, <2>3, <2>4, <2>6, <2>7, <2>8 DEF SetCommits, o
    <2> QED
      BY <1>1, <2>9
  <1>6. UNCHANGED bindVars
    BY DEF RunSet, NothingComesOfIt
  <1> QED
    BY <1>3, <1>4, <1>5, <1>6 DEF RunSet

-----------------------------------------------------------------------------
(* Every step keeps the queue in order *)

LEMMA DrainsKept ==
  ASSUME DrainsAreOwed, NEW s \in {0, 1}, Shifts(s),
         s = 1 => effects[1].kind # "Drain",
         \A k \in 1..Len(effects') : IsNew(s, k) => effects'[k].kind # "Drain",
         \A c \in Controls : binding'[c].life # "Dropped" =>
           binding[c].life # "Dropped" /\ binding'[c].drain = binding[c].drain
  PROVE  DrainsAreOwed'
  <1> SUFFICES ASSUME NEW c \in Controls, binding'[c].life # "Dropped"
               PROVE  /\ binding'[c].drain => \E k \in 1..Len(effects') : effects'[k] = DrainEffect(c)
                      /\ \A k \in 1..Len(effects') : effects'[k] = DrainEffect(c) =>
                           binding'[c].drain /\
                           \A l \in 1..Len(effects') : effects'[l] = DrainEffect(c) => k = l
    BY DEF DrainsAreOwed, Positions, DrainEffect
  <1>1. /\ binding[c].life # "Dropped" /\ binding'[c].drain = binding[c].drain
        /\ DrainEffect(c).kind = "Drain"
    BY DEF DrainEffect
  <1>2. ASSUME NEW k \in 1..Len(effects'), effects'[k] = DrainEffect(c)
        PROVE  /\ k + s \in Positions /\ effects[k + s] = DrainEffect(c)
    BY <1>1, <1>2 DEF Shifts, IsNew, Positions
  <1>3. ASSUME binding'[c].drain
        PROVE  \E k \in 1..Len(effects') : effects'[k] = DrainEffect(c)
    <2>1. PICK i \in Positions : effects[i] = DrainEffect(c)
      BY <1>1, <1>3 DEF DrainsAreOwed
    <2>2. s < i
      BY <1>1, <2>1 DEF Positions
    <2> QED
      BY <2>1, <2>2 DEF Shifts, Positions
  <1>4. ASSUME NEW k \in 1..Len(effects'), effects'[k] = DrainEffect(c),
               NEW l \in 1..Len(effects'), effects'[l] = DrainEffect(c)
        PROVE  binding'[c].drain /\ k = l
    <2>1. binding[c].drain /\ k + s = l + s
      BY <1>1, <1>2, <1>4 DEF DrainsAreOwed
    <2> QED
      BY <1>1, <2>1
  <1> QED
    BY <1>3, <1>4

\* A binding that did not move keeps what waits for it.
LEMMA PendingKept ==
  ASSUME Types, PendingIsDrained, revision' \in Nat, revision <= revision',
         \A c \in Controls :
           \/ binding'[c] = binding[c]
           \/ /\ binding'[c].pending # "None" => binding'[c].drain
              /\ binding'[c].life = "Active" => binding'[c].pending # "Retired"
              /\ binding'[c].upTo <= revision /\ binding'[c].pendingRevision <= revision
              /\ binding'[c] \in Bindings
  PROVE  PendingIsDrained'
  BY BoundsAreNatural DEF Types, FormTypes, BindingTypes, Bindings, PendingIsDrained, Active

LEMMA ChangeKeepsQueue ==
  ASSUME QueueInv, Types', NEW s \in {0, 1}, NEW e \in Changes, ChangeStep(s, e),
         s = 1 => effects[1].kind # "Drain",
         \/ e.origin = NoOrigin
         \/ \E c \in Controls : /\ ~e.whole /\ e.path = Bound[c]
                                /\ e.origin = [control |-> c, generation |-> binding[c].generation]
  PROVE  QueueInv'
  <1>1. EventsInOrder' /\ OriginsAreWrites'
    <2>1. \/ e.origin = NoOrigin
          \/ /\ e.origin.control \in Controls /\ ~e.whole
             /\ e.path = Bound[e.origin.control]
             /\ e.origin.generation = binding[e.origin.control].generation
      <3>1. ASSUME NEW c \in Controls, ~e.whole, e.path = Bound[c],
                   e.origin = [control |-> c, generation |-> binding[c].generation]
            PROVE  <2>1!2
        <4>1. e.origin.control = c /\ e.origin.generation = binding[c].generation
          BY <3>1
        <4> QED
          BY <3>1, <4>1
      <3> QED
        BY <3>1
    <2> QED
      BY <2>1, OrderGrows DEF ChangeStep, bindVars
  <1>2. DrainsAreOwed'
    BY DrainsKept DEF ChangeStep, bindVars, Joins, QueueInv, Changes
  <1>3. PendingIsDrained'
    BY PendingKept, BoundsAreNatural DEF ChangeStep, bindVars, QueueInv, Types, FormTypes
  <1> QED
    BY <1>1, <1>2, <1>3 DEF QueueInv

\* The form stays as it is, no change joins the queue and no drain leaves or
\* joins it, and the bindings stay or are dropped or suppressed.
LEMMA NoChangeKeepsQueue ==
  ASSUME QueueInv, Types', NEW s \in {0, 1}, Shifts(s), revision' = revision,
         \A k \in 1..Len(effects') : IsNew(s, k) => effects'[k].kind = "Set",
         s = 1 => effects[1].kind # "Drain",
         \A c \in Controls :
           \/ binding'[c] = binding[c]
           \/ binding'[c] = Dropped(binding[c])
           \/ binding'[c] = SuppressThrough(binding[c], revision)
  PROVE  QueueInv'
  <1>1. revision \in Nat /\ binding \in [Controls -> Bindings] /\ binding' \in [Controls -> Bindings]
    BY BoundsAreNatural DEF QueueInv, Types, FormTypes, BindingTypes
  <1>2. ASSUME NEW c \in Controls
        PROVE  /\ binding[c].generation <= binding'[c].generation
               /\ binding'[c].life # "Dropped" =>
                    binding[c].life # "Dropped" /\ binding'[c].drain = binding[c].drain
               /\ \/ binding'[c] = binding[c]
                  \/ /\ binding'[c].pending # "None" => binding'[c].drain
                     /\ binding'[c].life = "Active" => binding'[c].pending # "Retired"
                     /\ binding'[c].upTo <= revision /\ binding'[c].pendingRevision <= revision
    <2>1. CASE binding'[c] = binding[c]
      BY <1>1, <2>1 DEF Bindings
    <2>2. CASE binding'[c] = Dropped(binding[c])
      BY <1>1, <2>2, DrainedType DEF Follows, QueueInv, PendingIsDrained, Bindings
    <2>3. CASE binding'[c] = SuppressThrough(binding[c], revision)
      <3> DEFINE b == binding[c]
                 n == binding'[c]
      <3>1. /\ b \in Bindings /\ n \in Bindings
            /\ b.pending # "None" => b.drain
            /\ b.life = "Active" => b.pending # "Retired"
            /\ b.upTo <= revision /\ b.pendingRevision <= revision
        BY <1>1 DEF QueueInv, PendingIsDrained, Active
      <3>2. /\ n.life = b.life /\ n.generation = b.generation /\ n.drain = b.drain
            /\ n.upTo = b.upTo \/ n.upTo = revision
            /\ \/ n.pending = "None" /\ n.pendingRevision = 0
               \/ n.pending = b.pending /\ n.pendingRevision = b.pendingRevision
        BY <1>1, <2>3, <3>1, SuppressType
      <3>3. b.generation <= n.generation /\ n.upTo <= revision /\ n.pendingRevision <= revision
        BY <1>1, <3>1, <3>2 DEF Bindings
      <3> QED
        BY <3>1, <3>2, <3>3
    <2> QED
      BY <2>1, <2>2, <2>3
  <1>3. EventsInOrder' /\ OriginsAreWrites'
    BY <1>1, <1>2, OrderKept
  <1>4. DrainsAreOwed'
    BY <1>2, DrainsKept DEF QueueInv
  <1>5. PendingIsDrained'
    BY <1>1, <1>2, PendingKept DEF QueueInv
  <1> QED
    BY <1>3, <1>4, <1>5 DEF QueueInv

LEMMA RunSetKeepsQueue ==
  ASSUME QueueInv, Types', RunSet
  PROVE  QueueInv'
  <1>1. PICK c \in Controls : /\ effects # <<>> /\ SetOf(c, 1) /\ effects[1] \in Sets
                              /\ SetDropped(c) \/ SetIsNoChange(c) \/ SetCommits(c)
    BY RunSetCases DEF QueueInv
  <1>2. effects[1].kind # "Drain"
    BY <1>1 DEF Sets
  <1>3. CASE SetDropped(c) \/ SetIsNoChange(c)
    <2>1. /\ Shifts(1) /\ NoneJoins(1) /\ UNCHANGED <<revision, binding>>
      BY <1>3 DEF SetDropped, SetIsNoChange, formVars, bindVars
    <2> QED
      BY <1>2, <2>1, NoChangeKeepsQueue DEF NoneJoins
  <1>4. CASE SetCommits(c)
    BY <1>2, <1>4, ChangeKeepsQueue DEF SetCommits
  <1> QED
    BY <1>1, <1>3, <1>4

\* What a binding that heard of the change at the head holds afterwards.
LEMMA HeardKeeps ==
  ASSUME QueueInv, NEW c \in Controls, NEW e \in Changes, e.revision <= revision,
         NEW n, Heard(c, e, n)
  PROVE  /\ n.pending # "None" => n.drain
         /\ n.life = "Active" => n.pending # "Retired"
         /\ n.upTo <= revision /\ n.pendingRevision <= revision
         /\ n.life = "Dropped" <=> binding[c].life = "Dropped"
         /\ binding[c].drain => n.drain
         /\ binding[c].life = "Dropped" => n = binding[c]
  <1> DEFINE b == binding[c]
             up == [b EXCEPT !.generation = @ + 1]
             r == e.revision
  <1>1. /\ b \in Bindings /\ r \in Nat /\ revision \in Nat /\ r <= revision
        /\ b.pending # "None" => b.drain
        /\ b.life = "Active" => b.pending # "Retired"
        /\ b.upTo <= revision /\ b.pendingRevision <= revision
    BY BoundsAreNatural
       DEF QueueInv, Types, FormTypes, BindingTypes, PendingIsDrained, Active, Changes
  <1>2. /\ up \in Bindings /\ up.life = b.life /\ up.pending = b.pending /\ up.drain = b.drain
        /\ up.upTo = b.upTo /\ up.pendingRevision = b.pendingRevision
    <2>1. b.generation + 1 \in Nat
      BY <1>1 DEF Bindings
    <2> QED
      BY <1>1, <2>1 DEF Bindings
  <1> HIDE DEF b, up, r
  <1>3. CASE n = b
    BY <1>1, <1>3 DEF b
  <1>4. CASE b.life = "Active" /\ n = Retire(b)
    BY <1>1, <1>4, RetireType DEF b
  <1>5. CASE b.life = "Active" /\ n = QueueValue(up, r)
    BY <1>1, <1>2, <1>5, QueueValueType DEF b, Bindings
  <1>6. CASE b.life = "Active" /\ n = QueueValue(b, r)
    BY <1>1, <1>6, QueueValueType DEF b, Bindings
  <1>7. CASE b.life = "Active" /\ n = SuppressThrough(b, r)
    BY <1>1, <1>7, SuppressType DEF b, Bindings
  <1> QED
    BY <1>3, <1>4, <1>5, <1>6, <1>7 DEF Heard, Active, b, up, r

LEMMA RunEventKeepsQueue ==
  ASSUME QueueInv, Types', RunEvent
  PROVE  QueueInv'
  <1> DEFINE e == First
  <1>1. /\ Types /\ e \in Changes /\ e = effects[1] /\ 1 \in Positions
    BY AtTheHead, RestOfTheQueue DEF RunEvent, At, Types, QueueInv, Positions
  <1>2. e.revision <= revision
    BY <1>1 DEF QueueInv, EventsInOrder, IsEvent, Changes
  <1>3. ASSUME NEW c \in Controls
        PROVE  Heard(c, e, binding'[c])
    BY <1>1, <1>3, NotifiedCases DEF RunEvent, Types
  <1> HIDE DEF e
  <1>4. ASSUME NEW c \in Controls
        PROVE  /\ binding'[c].pending # "None" => binding'[c].drain
               /\ binding'[c].life = "Active" => binding'[c].pending # "Retired"
               /\ binding'[c].upTo <= revision /\ binding'[c].pendingRevision <= revision
               /\ binding'[c].life = "Dropped" <=> binding[c].life = "Dropped"
               /\ binding[c].drain => binding'[c].drain
               /\ binding'[c] \in Bindings
               /\ binding[c].generation <= binding'[c].generation
               /\ binding[c].life = "Dropped" => binding'[c] = binding[c]
    BY <1>1, <1>2, <1>3, <1>4, HeardKeeps, HeardType DEF Follows, Types
  <1>5. /\ Shifts(1)
        /\ \A k \in 1..Len(effects') : IsNew(1, k) =>
             \E c \in Thirsty : effects'[k] = DrainEffect(c)
        /\ \A c \in Thirsty : \E k \in 1..Len(effects') :
             IsNew(1, k) /\ effects'[k] = DrainEffect(c)
        /\ \A k, l \in 1..Len(effects') :
             IsNew(1, k) /\ IsNew(1, l) /\ effects'[k] = effects'[l] => k = l
    BY <1>1, DrainsJoin
  <1>6. EventsInOrder' /\ OriginsAreWrites'
    <2>1. \A k \in 1..Len(effects') : IsNew(1, k) => effects'[k].kind # "Event"
      <3>1. \A c : DrainEffect(c).kind # "Event"
        BY DEF DrainEffect
      <3> QED
        BY <1>5, <3>1
    <2>2. revision' = revision /\ binding' \in [Controls -> Bindings]
      BY DEF RunEvent, formVars, Types, BindingTypes
    <2> QED
      BY <1>4, <1>5, <2>1, <2>2, OrderKept
  <1>7. PendingIsDrained'
    BY <1>1, <1>4, PendingKept, BoundsAreNatural DEF RunEvent, formVars, QueueInv, Types, FormTypes
  <1>8. DrainsAreOwed'
    <2> SUFFICES ASSUME NEW c \in Controls, binding'[c].life # "Dropped"
                 PROVE  /\ binding'[c].drain => \E k \in 1..Len(effects') : effects'[k] = DrainEffect(c)
                        /\ \A k \in 1..Len(effects') : effects'[k] = DrainEffect(c) =>
                             binding'[c].drain /\
                             \A l \in 1..Len(effects') : effects'[l] = DrainEffect(c) => k = l
      BY DEF DrainsAreOwed, Positions, DrainEffect
    <2>1. binding[c].life # "Dropped"
      BY <1>4
    <2>2. DrainsAreOwed
      BY DEF QueueInv
    <2>3. ASSUME NEW k \in 1..Len(effects'), effects'[k] = DrainEffect(c)
          PROVE  \/ /\ ~IsNew(1, k) /\ k + 1 \in Positions
                    /\ effects[k + 1] = DrainEffect(c) /\ binding[c].drain
                 \/ IsNew(1, k) /\ c \in Thirsty
      <3>1. CASE IsNew(1, k)
        <4>1. PICK d \in Thirsty : effects'[k] = DrainEffect(d)
          BY <1>5, <3>1
        <4>2. d = c
          BY <2>3, <4>1 DEF DrainEffect
        <4> QED
          BY <3>1, <4>1, <4>2
      <3>2. CASE ~IsNew(1, k)
        <4>1. k + 1 \in Positions /\ effects[k + 1] = DrainEffect(c)
          BY <1>5, <2>3, <3>2 DEF Shifts, IsNew, Positions
        <4> QED
          BY <2>1, <2>2, <3>2, <4>1 DEF DrainsAreOwed
      <3> QED
        BY <3>1, <3>2
    <2>4. ASSUME binding'[c].drain
          PROVE  \E k \in 1..Len(effects') : effects'[k] = DrainEffect(c)
      <3>1. CASE binding[c].drain
        <4>1. PICK i \in Positions : effects[i] = DrainEffect(c)
          BY <2>1, <2>2, <3>1 DEF DrainsAreOwed
        <4>2. 1 < i
          BY <1>1, <4>1 DEF Changes, DrainEffect, Positions, e
        <4> QED
          BY <1>5, <4>1, <4>2 DEF Shifts, Positions
      <3>2. CASE ~binding[c].drain
        BY <1>5, <2>4, <3>2 DEF Thirsty
      <3> QED
        BY <3>1, <3>2
    <2>5. ASSUME NEW k \in 1..Len(effects'), effects'[k] = DrainEffect(c),
                 NEW l \in 1..Len(effects'), effects'[l] = DrainEffect(c)
          PROVE  binding'[c].drain /\ k = l
      <3>1. CASE c \in Thirsty
        BY <1>5, <2>3, <2>5, <3>1 DEF Thirsty
      <3>2. CASE c \notin Thirsty
        <4>1. k + 1 = l + 1 /\ binding[c].drain
          BY <2>1, <2>2, <2>3, <2>5, <3>2 DEF DrainsAreOwed
        <4> QED
          BY <1>4, <4>1
      <3> QED
        BY <3>1, <3>2
    <2> QED
      BY <2>4, <2>5
  <1> QED
    BY <1>6, <1>7, <1>8 DEF QueueInv

LEMMA RunDrainKeepsQueue ==
  ASSUME QueueInv, Types', RunDrain
  PROVE  QueueInv'
  <1> DEFINE c == First.control
             b == binding[c]
  <1>1. /\ Types /\ First \in Drains /\ First = effects[1] /\ c \in Controls /\ b \in Bindings
        /\ Len(effects) \in Nat /\ Len(effects) >= 1
    BY AtTheHead, RestOfTheQueue DEF RunDrain, At, Types, BindingTypes, QueueInv, Drains
  <1>2. Shifts(1) /\ NoneJoins(1)
    BY <1>1, OneLeaves DEF RunDrain, At, Types
  <1>3. /\ ~binding'[c].drain /\ binding'[c].pending = "None"
        /\ binding'[c].pendingRevision = 0 /\ binding'[c].upTo = b.upTo
        /\ Follows(b, binding'[c])
        /\ \A d \in Controls : d # c => binding'[d] = binding[d]
        /\ b.life = "Dropped" => binding'[c].life = "Dropped"
    <2>1. CASE binding' = [binding EXCEPT ![c] = Drained(b)]
      BY <1>1, <2>1, DrainedType DEF Types, BindingTypes
    <2>2. CASE binding' = [binding EXCEPT ![c] = Drained(Retire(Drained(b)))]
      <3> DEFINE d == Drained(b)
                 r == Retire(d)
                 n == Drained(r)
      <3>1. /\ d \in Bindings /\ Follows(b, d) /\ d.upTo = b.upTo /\ d.life = b.life
        BY <1>1, DrainedType DEF Follows
      <3>2. /\ r \in Bindings /\ Follows(d, r) /\ r.upTo = d.upTo
            /\ d.life = "Dropped" => r.life = "Dropped"
        BY <3>1, RetireType DEF Follows
      <3>3. /\ n \in Bindings /\ Follows(r, n) /\ n.upTo = r.upTo /\ n.life = r.life
            /\ ~n.drain /\ n.pending = "None" /\ n.pendingRevision = 0
        BY <3>2, DrainedType DEF Follows
      <3> HIDE DEF d, r, n
      <3>4. Follows(b, n)
        BY <1>1, <3>1, <3>2, <3>3, FollowsOn
      <3>5. binding' = [binding EXCEPT ![c] = n]
        BY <2>2 DEF d, r, n
      <3> QED
        BY <1>1, <3>1, <3>2, <3>3, <3>4, <3>5 DEF Types, BindingTypes
    <2> QED
      BY <2>1, <2>2 DEF RunDrain
  <1>4. revision' = revision /\ revision \in Nat /\ binding' \in [Controls -> Bindings]
    BY BoundsAreNatural DEF RunDrain, Types, FormTypes, BindingTypes, QueueInv
  <1> HIDE DEF b
  <1>5. EventsInOrder' /\ OriginsAreWrites'
    <2>1. \A d \in Controls : binding[d].generation <= binding'[d].generation
      <3>1. ASSUME NEW d \in Controls
            PROVE  binding[d].generation <= binding'[d].generation
        <4>1. CASE d = c
          BY <1>3, <4>1 DEF Follows, b
        <4>2. CASE d # c
          <5>1. binding[d].generation \in Nat
            BY <1>1 DEF Bindings, Types, BindingTypes
          <5> QED
            BY <1>3, <4>2, <5>1
        <4> QED
          BY <4>1, <4>2
      <3> QED
        BY <3>1
    <2> QED
      BY <1>2, <1>4, <2>1, OrderKept DEF NoneJoins
  <1>6. PendingIsDrained'
    <2>1. b.upTo <= revision
      BY <1>1 DEF QueueInv, PendingIsDrained, b
    <2> QED
      BY <1>1, <1>3, <1>4, <2>1, PendingKept DEF Follows, QueueInv
  <1>7. DrainsAreOwed'
    <2> SUFFICES ASSUME NEW d \in Controls, binding'[d].life # "Dropped"
                 PROVE  /\ binding'[d].drain => \E k \in 1..Len(effects') : effects'[k] = DrainEffect(d)
                        /\ \A k \in 1..Len(effects') : effects'[k] = DrainEffect(d) =>
                             binding'[d].drain /\
                             \A l \in 1..Len(effects') : effects'[l] = DrainEffect(d) => k = l
      BY DEF DrainsAreOwed, Positions, DrainEffect
    <2>1. binding[d].life # "Dropped" /\ DrainsAreOwed
      BY <1>3 DEF QueueInv, b
    <2>2. ASSUME NEW k \in 1..Len(effects'), effects'[k] = DrainEffect(d)
          PROVE  k + 1 \in Positions /\ effects[k + 1] = DrainEffect(d)
      BY <1>2, <2>2 DEF Shifts, NoneJoins, IsNew, Positions
    <2>3. effects[1] = DrainEffect(c) /\ 1 \in Positions
      BY <1>1 DEF Drains, DrainEffect, Positions
    <2>4. CASE d = c
      <3>1. \A k \in 1..Len(effects') : effects'[k] # DrainEffect(d)
        <4>1. ASSUME NEW k \in 1..Len(effects'), effects'[k] = DrainEffect(d)
              PROVE  FALSE
          <5>1. 1 = k + 1
            BY <2>1, <2>2, <2>3, <2>4, <4>1 DEF DrainsAreOwed
          <5> QED
            BY <5>1
        <4> QED
          BY <4>1
      <3> QED
        BY <1>3, <2>4, <3>1
    <2>5. CASE d # c
      <3>1. binding'[d] = binding[d]
        BY <1>3, <2>5
      <3>2. ASSUME binding'[d].drain
            PROVE  \E k \in 1..Len(effects') : effects'[k] = DrainEffect(d)
        <4>1. PICK i \in Positions : effects[i] = DrainEffect(d)
          BY <2>1, <3>1, <3>2 DEF DrainsAreOwed
        <4>2. i # 1
          BY <2>3, <2>5, <4>1 DEF DrainEffect
        <4>3. 1 < i
          BY <4>2 DEF Positions
        <4> QED
          BY <1>2, <4>1, <4>3 DEF Shifts, Positions
      <3>3. ASSUME NEW k \in 1..Len(effects'), effects'[k] = DrainEffect(d),
                   NEW l \in 1..Len(effects'), effects'[l] = DrainEffect(d)
            PROVE  binding'[d].drain /\ k = l
        <4>1. binding[d].drain /\ k + 1 = l + 1
          BY <2>1, <2>2, <3>3 DEF DrainsAreOwed
        <4> QED
          BY <3>1, <4>1
      <3> QED
        BY <3>2, <3>3
    <2> QED
      BY <2>4, <2>5
  <1> QED
    BY <1>5, <1>6, <1>7 DEF QueueInv

LEMMA QueueNext ==
  ASSUME QueueInv, [Next]_vars
  PROVE  QueueInv'
  <1>1. Types'
    BY TypesNext DEF QueueInv
  <1>2. CASE \/ \E p \in Paths, v \in Values : Set(p, v)
             \/ \E v \in Values \cup {None} : SetOptional(v)
             \/ \E m \in Models : Install(m)
    BY <1>1, <1>2, ChangesByTheProgram, ChangeKeepsQueue DEF QueueInv
  <1>3. CASE UNCHANGED <<revision, effects, binding>>
    <2>1. Shifts(0) /\ NoneJoins(0)
      BY <1>3, QueueStays DEF QueueInv, Types
    <2> QED
      BY <1>1, <1>3, <2>1, NoChangeKeepsQueue DEF NoneJoins
  <1>4. ASSUME NEW c \in Controls, NEW v \in Values \cup {Invalid}, NativeEdit(c, v)
        PROVE  QueueInv'
    <2>1. SetEffect(c, v) \in Effects /\ SetEffect(c, v).kind = "Set"
      BY DEF QueueInv, Types, BindingTypes, SetEffect, Effects, Sets, Bindings
    <2>2. Shifts(0) /\ Joins(0, SetEffect(c, v))
      BY <1>4, <2>1, OneJoins DEF NativeEdit, QueueInv, Types
    <2>3. \A d \in Controls : \/ binding'[d] = binding[d]
                              \/ binding'[d] = SuppressThrough(binding[d], revision)
      BY <1>4 DEF NativeEdit, QueueInv, Types, BindingTypes
    <2> QED
      BY <1>1, <1>4, <2>1, <2>2, <2>3, NoChangeKeepsQueue DEF NativeEdit, formVars, Joins
  <1>5. ASSUME NEW c \in Controls, Drop(c)
        PROVE  QueueInv'
    <2>1. Shifts(0) /\ NoneJoins(0)
      BY <1>5, QueueStays DEF Drop, QueueInv, Types
    <2>2. \A d \in Controls : \/ binding'[d] = binding[d]
                              \/ binding'[d] = Dropped(binding[d])
      BY <1>5 DEF Drop, QueueInv, Types, BindingTypes
    <2> QED
      BY <1>1, <1>5, <2>1, <2>2, NoChangeKeepsQueue DEF Drop, NoneJoins
  <1>6. CASE RunSet \/ RunEvent \/ RunDrain
    BY <1>1, <1>6, RunSetKeepsQueue, RunEventKeepsQueue, RunDrainKeepsQueue
  <1> QED
    BY <1>2, <1>3, <1>4, <1>5, <1>6
       DEF Next, StartValidation, CompleteValidation, ReplaceValidator, bindVars, vars, formVars

LEMMA QueueInit ==
  ASSUME Init
  PROVE  QueueInv
  <1>1. Types
    BY TypesInit
  <1>2. effects = <<>> /\ Positions = {}
    BY DEF Init, Positions
  <1>3. \A c \in Controls : ~binding[c].drain /\ binding[c].pending = "None"
           /\ binding[c].upTo = 0 /\ binding[c].pendingRevision = 0
    BY DEF Init, NewBinding
  <1>4. revision = 0
    BY DEF Init
  <1> QED
    BY <1>1, <1>2, <1>3, <1>4
       DEF QueueInv, EventsInOrder, OriginsAreWrites, DrainsAreOwed, PendingIsDrained

\* A count of one or none.
LEMMA DrainsCounted ==
  ASSUME QueueInv, NEW c \in Controls, binding[c].life # "Dropped"
  PROVE  Cardinality(DrainsOf(c)) = IF binding[c].drain THEN 1 ELSE 0
  <1>1. CASE ~binding[c].drain
    <2>1. DrainsOf(c) = {}
      BY <1>1 DEF DrainsOf, QueueInv, DrainsAreOwed, Positions
    <2> QED
      BY <1>1, <2>1, FS_EmptySet
  <1>2. CASE binding[c].drain
    <2>1. PICK i \in Positions : effects[i] = DrainEffect(c)
      BY <1>2 DEF QueueInv, DrainsAreOwed
    <2>2. DrainsOf(c) = {i}
      BY <1>2, <2>1 DEF DrainsOf, QueueInv, DrainsAreOwed, Positions
    <2> QED
      BY <1>2, <2>2, FS_Singleton
  <1>3. binding[c].drain \in BOOLEAN
    BY DEF QueueInv, Types, BindingTypes, Bindings
  <1> QED
    BY <1>1, <1>2, <1>3

\* The variables of a form and of its bindings have the values the code gives
\* them, and a binding whose control is owed a value has exactly one drain on
\* its way: no change, edit, retirement or drain loses one or schedules a
\* second (BindingShared and schedule_drain).
THEOREM TypeCorrect == Spec => []TypeOK
  <1>1. Init => QueueInv
    BY QueueInit
  <1>2. QueueInv /\ [Next]_vars => QueueInv'
    BY QueueNext
  <1>3. QueueInv => TypeOK
    <2> HAVE QueueInv
    <2>1. occurrence \in Occurrences /\ occurrences \in Occurrences
      BY BoundsAreNatural DEF QueueInv, Types, FormTypes, Occurrences
    <2>2. \A c \in Controls :
            /\ binding[c].life \in {"Active", "Retired", "Dropped"}
            /\ binding[c].pending \in {"None", "Value", "Retired"}
            /\ binding[c].pending # "None" => binding[c].drain
      BY DEF QueueInv, Types, BindingTypes, Bindings, PendingIsDrained
    <2>3. \A c \in Controls : binding[c].life # "Dropped" =>
            Cardinality(DrainsOf(c)) = IF binding[c].drain THEN 1 ELSE 0
      BY DrainsCounted
    <2> QED
      BY <2>1, <2>2, <2>3 DEF TypeOK, QueueInv, Types, FormTypes, BindingTypes
  <1> QED
    BY <1>1, <1>2, <1>3, PTL DEF Spec

-----------------------------------------------------------------------------
(* Controls and what they wait for *)

\* A control whose path is gone will hear of it.
LostPathIsHeard(c) ==
  Active(c) /\ ~IsCurrent(c) => \E i \in Positions : IsEvent(i)

\* While a write of the control waits, nothing takes its word away: it is of
\* this generation, the changes before it are suppressed and of one path, no
\* value waits to be shown, and the last one is what the control shows.
EditIsUndisturbed(c) ==
  Active(c) => \A i \in Positions : SetOf(c, i) =>
    /\ effects[i].generation = binding[c].generation
    /\ \A j \in Positions : IsEvent(j) /\ j < i =>
         ~effects[j].whole /\ effects[j].revision <= binding[c].upTo
    /\ binding[c].pending # "Value"
    /\ (\A j \in Positions : SetOf(c, j) => j <= i) => effects[i].value = shown[c]

\* What waits to be shown is older than every change still in the queue.
PendingIsHeard(c) ==
  Active(c) /\ binding[c].pending = "Value" =>
    \A i \in Positions : IsEvent(i) => binding[c].pendingRevision < effects[i].revision

Settled(c) == IF shown[c] = Invalid THEN c \in issue ELSE shown[c] = value[Bound[c]]

\* A change the control will take up, made by another, after all of its own.
Refreshes(c, i) ==
  /\ IsEvent(i) /\ ~Own(c, i)
  /\ effects[i].whole \/ effects[i].path = Bound[c]
  /\ binding[c].upTo < effects[i].revision
  /\ \A j \in Positions : Own(c, j) => j < i

\* The control shows what the form holds, or will: its write is on its way, or
\* the value waits for a drain, or a change that it will take up is coming.
ShowsOrWill(c) ==
  Active(c) /\ IsCurrent(c) =>
    \/ \E i \in Positions : SetOf(c, i)
    \/ Settled(c)
    \/ binding[c].pending = "Value" /\ \A i \in Positions : ~Own(c, i)
    \/ \E i \in Positions : Refreshes(c, i)

Follow(c) == LostPathIsHeard(c) /\ EditIsUndisturbed(c) /\ PendingIsHeard(c) /\ ShowsOrWill(c)

FollowInv == QueueInv /\ \A c \in Controls : Follow(c)

-----------------------------------------------------------------------------
(* Steps that do not concern the control *)

LEMMA EditKept ==
  ASSUME NEW c \in Controls, EditIsUndisturbed(c), NEW s \in {0, 1}, Shifts(s),
         binding'[c].life = "Active" => Active(c),
         binding'[c].generation = binding[c].generation, binding'[c].upTo = binding[c].upTo,
         binding'[c].pending = "Value" => binding[c].pending = "Value",
         shown'[c] = shown[c],
         \A k \in 1..Len(effects') : IsNew(s, k) => ~SetOf(c, k)'
  PROVE  EditIsUndisturbed(c)'
  <1> SUFFICES ASSUME binding'[c].life = "Active",
                      NEW k \in 1..Len(effects'), SetOf(c, k)'
               PROVE  /\ effects'[k].generation = binding'[c].generation
                      /\ \A j \in 1..Len(effects') : effects'[j].kind = "Event" /\ j < k =>
                           ~effects'[j].whole /\ effects'[j].revision <= binding'[c].upTo
                      /\ binding'[c].pending # "Value"
                      /\ (\A j \in 1..Len(effects') : SetOf(c, j)' => j <= k) =>
                           effects'[k].value = shown'[c]
    BY DEF EditIsUndisturbed, Active, Positions, IsEvent
  <1>1. /\ Active(c) /\ k + s \in Positions /\ effects'[k] = effects[k + s] /\ SetOf(c, k + s)
        /\ k <= Len(effects) - s /\ Len(effects) \in Nat
    BY DEF Active, Shifts, IsNew, Positions, SetOf
  <1>2. ASSUME NEW j \in 1..Len(effects'), effects'[j].kind = "Event", j < k
        PROVE  ~effects'[j].whole /\ effects'[j].revision <= binding'[c].upTo
    <2>1. j + s \in Positions /\ effects'[j] = effects[j + s] /\ j + s < k + s
      BY <1>1, <1>2 DEF Shifts, Positions
    <2> QED
      BY <1>1, <1>2, <2>1 DEF EditIsUndisturbed, IsEvent
  <1>3. ASSUME \A j \in 1..Len(effects') : SetOf(c, j)' => j <= k
        PROVE  effects'[k].value = shown'[c]
    <2>1. ASSUME NEW j \in Positions, SetOf(c, j)
          PROVE  j <= k + s
      <3>1. CASE s < j
        <4>1. j - s \in 1..Len(effects') /\ SetOf(c, j - s)'
          BY <2>1, <3>1 DEF Shifts, Positions, SetOf
        <4> QED
          BY <1>3, <4>1 DEF Positions
      <3>2. CASE ~(s < j)
        BY <3>2 DEF Positions
      <3> QED
        BY <3>1, <3>2
    <2> QED
      BY <1>1, <2>1 DEF EditIsUndisturbed
  <1> QED
    BY <1>1, <1>2, <1>3 DEF EditIsUndisturbed

LEMMA PendingIsHeardKept ==
  ASSUME QueueInv, NEW c \in Controls, PendingIsHeard(c), NEW s \in {0, 1}, Shifts(s),
         binding'[c] = binding[c],
         \A k \in 1..Len(effects') : IsNew(s, k) /\ effects'[k].kind = "Event" =>
           effects'[k].revision = revision + 1
  PROVE  PendingIsHeard(c)'
  <1> SUFFICES ASSUME binding'[c].life = "Active", binding'[c].pending = "Value",
                      NEW k \in 1..Len(effects'), effects'[k].kind = "Event"
               PROVE  binding'[c].pendingRevision < effects'[k].revision
    BY DEF PendingIsHeard, Active, Positions, IsEvent
  <1>1. /\ binding[c].pendingRevision <= revision /\ revision \in Nat
        /\ binding[c].pendingRevision \in Nat
    BY BoundsAreNatural
       DEF QueueInv, PendingIsDrained, Types, FormTypes, BindingTypes, Bindings
  <1>2. CASE IsNew(s, k)
    BY <1>1, <1>2
  <1>3. CASE ~IsNew(s, k)
    <2>1. k + s \in Positions /\ effects'[k] = effects[k + s]
      BY <1>3 DEF Shifts, IsNew, Positions
    <2> QED
      BY <2>1 DEF PendingIsHeard, Active, IsEvent
  <1> QED
    BY <1>2, <1>3

LEMMA LostPathKept ==
  ASSUME NEW c \in Controls, LostPathIsHeard(c), NEW s \in {0, 1}, Shifts(s),
         s = 1 => ~IsEvent(1),
         binding'[c].life = "Active" => Active(c),
         IsCurrent(c) => IsCurrent(c)'
  PROVE  LostPathIsHeard(c)'
  <1> SUFFICES ASSUME Active(c), ~IsCurrent(c)
               PROVE  \E k \in 1..Len(effects') : effects'[k].kind = "Event"
    BY DEF LostPathIsHeard, Active, Positions, IsEvent
  <1>1. PICK i \in Positions : IsEvent(i)
    BY DEF LostPathIsHeard
  <1>2. s < i
    BY <1>1 DEF Positions
  <1> QED
    BY <1>1, <1>2 DEF Shifts, Positions, IsEvent

LEMMA LostPathWillBeHeard ==
  ASSUME NEW c \in Controls, NEW s \in {0, 1}, NEW e \in Changes, Shifts(s), Joins(s, e)
  PROVE  LostPathIsHeard(c)'
  <1>1. Len(effects') \in 1..Len(effects') /\ effects'[Len(effects')].kind = "Event"
    BY DEF Joins, Changes
  <1> QED
    BY <1>1 DEF LostPathIsHeard, Positions, IsEvent

LEMMA ShowsOrWillKept ==
  ASSUME NEW c \in Controls, ShowsOrWill(c), NEW s \in {0, 1}, Shifts(s),
         s = 1 => ~IsEvent(1) /\ ~SetOf(c, 1),
         binding'[c].life = "Active" => Active(c),
         binding'[c].generation = binding[c].generation, binding'[c].upTo = binding[c].upTo,
         binding[c].pending = "Value" => binding'[c].pending = "Value",
         shown'[c] = shown[c], c \in issue' <=> c \in issue,
         value'[Bound[c]] = value[Bound[c]], IsCurrent(c)' => IsCurrent(c),
         \A k \in 1..Len(effects') : IsNew(s, k) => ~Own(c, k)'
  PROVE  ShowsOrWill(c)'
  <1> SUFFICES ASSUME Active(c), IsCurrent(c)
               PROVE  \/ \E k \in 1..Len(effects') : SetOf(c, k)'
                      \/ Settled(c)'
                      \/ binding'[c].pending = "Value" /\ \A k \in 1..Len(effects') : ~Own(c, k)'
                      \/ \E k \in 1..Len(effects') : Refreshes(c, k)'
    BY DEF ShowsOrWill, Active, Positions
  <1>1. ASSUME NEW k \in 1..Len(effects'), Own(c, k)'
        PROVE  k + s \in Positions /\ Own(c, k + s)
    BY <1>1 DEF Shifts, IsNew, Positions, Own, OwnWrite, IsEvent
  <1>2. ASSUME NEW i \in Positions, SetOf(c, i) \/ IsEvent(i)
        PROVE  s < i /\ i - s \in 1..Len(effects') /\ effects'[i - s] = effects[i]
    <2>1. s < i
      BY <1>2 DEF Positions
    <2> QED
      BY <2>1 DEF Shifts, Positions
  <1>3. ASSUME NEW i \in Positions, SetOf(c, i)
        PROVE  \E k \in 1..Len(effects') : SetOf(c, k)'
    BY <1>2, <1>3 DEF SetOf
  <1>4. CASE Settled(c)
    BY <1>4 DEF Settled
  <1>5. CASE binding[c].pending = "Value" /\ \A i \in Positions : ~Own(c, i)
    BY <1>1, <1>5
  <1>6. ASSUME NEW i \in Positions, Refreshes(c, i)
        PROVE  \E k \in 1..Len(effects') : Refreshes(c, k)'
    <2>1. /\ i - s \in 1..Len(effects') /\ effects'[i - s] = effects[i] /\ s < i
      BY <1>2, <1>6 DEF Refreshes
    <2>2. ASSUME NEW k \in 1..Len(effects'), Own(c, k)'
          PROVE  k < i - s
      <3>1. k + s < i
        BY <1>1, <1>6, <2>2 DEF Refreshes
      <3> QED
        BY <3>1 DEF Positions
    <2>3. Refreshes(c, i - s)'
      BY <1>6, <2>1, <2>2 DEF Refreshes, Own, OwnWrite, IsEvent, Positions
    <2> QED
      BY <2>1, <2>3
  <1> QED
    BY <1>3, <1>4, <1>5, <1>6 DEF ShowsOrWill

\* A change by another, at the path of the control.
LEMMA ChangeWillBeShown ==
  ASSUME QueueInv, NEW c \in Controls, NEW s \in {0, 1}, NEW e \in Changes, ChangeStep(s, e),
         e.whole \/ e.path = Bound[c],
         e.origin # [control |-> c, generation |-> binding[c].generation]
  PROVE  ShowsOrWill(c)'
  <1>0. PICK l \in 1..Len(effects') : l = Len(effects')
    BY DEF ChangeStep, Joins
  <1>1. /\ l \in 1..l /\ effects'[l] = e /\ UNCHANGED binding /\ e.revision = revision + 1
    BY <1>0 DEF ChangeStep, Joins, bindVars
  <1>2. binding[c].upTo < revision + 1
    BY BoundsAreNatural
       DEF QueueInv, PendingIsDrained, Types, FormTypes, BindingTypes, Bindings
  <1>3. ~Own(c, l)'
    BY <1>1 DEF Own, OwnWrite
  <1>4. \A j \in 1..l : Own(c, j)' => j < l
    BY <1>1, <1>3
  <1>5. Refreshes(c, l)'
    BY <1>0, <1>1, <1>2, <1>3, <1>4 DEF Refreshes, Positions, IsEvent, Changes
  <1> QED
    BY <1>0, <1>1, <1>5 DEF ShowsOrWill, Positions

-----------------------------------------------------------------------------
(* Every step keeps what the controls wait for *)

\* A change of the form, by the program or by the write of another control.
LEMMA ChangeKeepsFollow ==
  ASSUME FollowInv, NEW c \in Controls, NEW s \in {0, 1}, NEW e \in Changes, ChangeStep(s, e),
         e.origin # [control |-> c, generation |-> binding[c].generation],
         s = 1 => ~IsEvent(1) /\ ~SetOf(c, 1)
  PROVE  Follow(c)'
  <1>1. /\ Shifts(s) /\ Joins(s, e) /\ UNCHANGED bindVars /\ revision' = revision + 1
        /\ e.revision = revision' /\ e.kind = "Event" /\ QueueInv /\ Follow(c)
    BY DEF ChangeStep, Changes, FollowInv
  <1>2. \A k \in 1..Len(effects') : IsNew(s, k) => effects'[k] = e
    BY <1>1 DEF Joins
  <1>3. EditIsUndisturbed(c)'
    BY <1>1, <1>2, EditKept DEF SetOf, Follow, Active, bindVars
  <1>4. PendingIsHeard(c)'
    BY <1>1, <1>2, PendingIsHeardKept DEF Follow, bindVars
  <1>5. LostPathIsHeard(c)'
    BY <1>1, LostPathWillBeHeard
  <1>6. ShowsOrWill(c)'
    <2>1. CASE e.whole \/ e.path = Bound[c]
      BY <1>1, <2>1, ChangeWillBeShown
    <2>2. CASE ~(e.whole \/ e.path = Bound[c])
      <3>1. /\ value'[Bound[c]] = value[Bound[c]] /\ (c \in issue' <=> c \in issue)
            /\ IsCurrent(c)' => IsCurrent(c)
        BY <2>2 DEF ChangeStep
      <3>2. ASSUME NEW k \in 1..Len(effects'), IsNew(s, k)
            PROVE  ~Own(c, k)'
        BY <1>1, <1>2, <3>2 DEF Own, OwnWrite, bindVars
      <3> QED
        BY <1>1, <3>1, <3>2, ShowsOrWillKept DEF Follow, Active, bindVars
    <2> QED
      BY <2>1, <2>2
  <1> QED
    BY <1>3, <1>4, <1>5, <1>6 DEF Follow

\* No change: the control is not concerned.
LEMMA OthersKeepFollow ==
  ASSUME FollowInv, NEW c \in Controls, NEW s \in {0, 1}, Shifts(s),
         s = 1 => ~IsEvent(1) /\ ~SetOf(c, 1),
         \A k \in 1..Len(effects') : IsNew(s, k) => effects'[k].kind = "Set" /\ ~SetOf(c, k)',
         UNCHANGED <<value, revision, occurrence, occurrences>>,
         binding'[c] = binding[c], shown'[c] = shown[c], c \in issue' <=> c \in issue
  PROVE  Follow(c)'
  <1>1. QueueInv /\ Follow(c)
    BY DEF FollowInv
  <1>2. IsCurrent(c)' <=> IsCurrent(c)
    BY DEF IsCurrent
  <1>3. EditIsUndisturbed(c)'
    BY <1>1, EditKept DEF Follow, Active
  <1>4. PendingIsHeard(c)'
    BY <1>1, PendingIsHeardKept DEF Follow
  <1>5. LostPathIsHeard(c)'
    BY <1>1, <1>2, LostPathKept DEF Follow, Active
  <1>6. ShowsOrWill(c)'
    BY <1>1, <1>2, ShowsOrWillKept DEF Follow, Active, Own, IsEvent
  <1> QED
    BY <1>3, <1>4, <1>5, <1>6 DEF Follow

\* A control that is not Active has nothing to follow.
LEMMA IdleFollows ==
  ASSUME NEW c, binding'[c].life # "Active"
  PROVE  Follow(c)'
  BY DEF Follow, LostPathIsHeard, EditIsUndisturbed, PendingIsHeard, ShowsOrWill, Active

LEMMA ProgramKeepsFollow ==
  ASSUME FollowInv,
         \/ \E p \in Paths, v \in Values : Set(p, v)
         \/ \E v \in Values \cup {None} : SetOptional(v)
         \/ \E m \in Models : Install(m)
  PROVE  \A c \in Controls : Follow(c)'
  <1> SUFFICES ASSUME NEW c \in Controls
               PROVE  Follow(c)'
    OBVIOUS
  <1>1. Types
    BY DEF FollowInv, QueueInv
  <1>2. PICK e \in Changes : ChangeStep(0, e) /\ e.origin = NoOrigin
    BY <1>1, ChangesByTheProgram
  <1>3. 1 <= binding[c].generation
    BY <1>1 DEF Types, BindingTypes
  <1>4. NoOrigin # [control |-> c, generation |-> binding[c].generation]
    BY <1>3 DEF NoOrigin
  <1>5. e.origin # [control |-> c, generation |-> binding[c].generation]
    BY <1>2, <1>4
  <1>6. 0 \in {0, 1} /\ (0 = 1 => ~IsEvent(1) /\ ~SetOf(c, 1))
    OBVIOUS
  <1> QED
    BY <1>2, <1>5, <1>6, ChangeKeepsFollow

\* The write at the head was the last one of the control: it is what it shows.
LEMMA WriteAtTheHead ==
  ASSUME FollowInv, NEW c \in Controls, Active(c), effects # <<>>, SetOf(c, 1), Shifts(1)
  PROVE  /\ effects[1].generation = binding[c].generation
         /\ \/ \E k \in 1..Len(effects') : SetOf(c, k)'
            \/ effects[1].value = shown[c]
  <1>1. 1 \in Positions /\ EditIsUndisturbed(c)
    BY RestOfTheQueue DEF FollowInv, Follow, QueueInv, Types, Positions
  <1>2. CASE \A j \in Positions : SetOf(c, j) => j <= 1
    BY <1>1, <1>2 DEF EditIsUndisturbed
  <1>3. ASSUME NEW j \in Positions, SetOf(c, j), ~(j <= 1)
        PROVE  \E k \in 1..Len(effects') : SetOf(c, k)'
    <2>1. j - 1 \in 1..Len(effects') /\ effects'[j - 1] = effects[j]
      BY <1>3 DEF Shifts, Positions
    <2> QED
      BY <1>3, <2>1 DEF SetOf
  <1> QED
    BY <1>1, <1>2, <1>3 DEF EditIsUndisturbed

LEMMA RunSetKeepsFollow ==
  ASSUME FollowInv, RunSet
  PROVE  \A c \in Controls : Follow(c)'
  <1> SUFFICES ASSUME NEW c \in Controls
               PROVE  Follow(c)'
    OBVIOUS
  <1>1. PICK d \in Controls : /\ effects # <<>> /\ SetOf(d, 1) /\ effects[1] \in Sets
                              /\ SetDropped(d) \/ SetIsNoChange(d) \/ SetCommits(d)
    BY RunSetCases DEF FollowInv, QueueInv
  <1>2. ~IsEvent(1) /\ QueueInv /\ Follow(c)
    BY <1>1 DEF Sets, IsEvent, FollowInv
  <1>3. CASE d # c
    <2>1. ~SetOf(c, 1)
      BY <1>1, <1>3 DEF SetOf
    <2>2. CASE SetDropped(d)
      BY <1>2, <2>1, <2>2, OthersKeepFollow DEF SetDropped, NoneJoins, formVars, bindVars
    <2>3. CASE SetIsNoChange(d)
      <3>1. c \in issue' <=> c \in issue
        BY <1>3, <2>3 DEF SetIsNoChange
      <3> QED
        BY <1>2, <2>1, <2>3, <3>1, OthersKeepFollow DEF SetIsNoChange, NoneJoins, bindVars
    <2>4. CASE SetCommits(d)
      <3>1. PICK e \in Changes :
              /\ ChangeStep(1, e) /\ ~e.whole /\ e.path = Bound[d]
              /\ e.origin = [control |-> d, generation |-> binding[d].generation]
        BY <2>4 DEF SetCommits
      <3>2. e.origin # [control |-> c, generation |-> binding[c].generation]
        BY <1>3, <3>1
      <3> QED
        BY <1>2, <2>1, <3>1, <3>2, ChangeKeepsFollow
    <2> QED
      BY <1>1, <2>2, <2>3, <2>4
  <1>4. CASE d = c /\ Active(c)
    <2>1. /\ Shifts(1) /\ UNCHANGED bindVars
          /\ IsCurrent(c)' => IsCurrent(c)
      BY <1>1, <1>4
         DEF SetDropped, SetIsNoChange, SetCommits, ChangeStep, formVars, bindVars, IsCurrent
    <2>2. /\ effects[1].generation = binding[c].generation
          /\ \/ \E k \in 1..Len(effects') : SetOf(c, k)'
             \/ effects[1].value = shown[c]
      BY <1>1, <1>4, <2>1, WriteAtTheHead
    <2>3. ASSUME NEW k \in 1..Len(effects'), IsNew(1, k)
          PROVE  effects'[k].kind = "Event" /\ effects'[k].revision = revision + 1 /\ ~SetOf(c, k)'
      BY <1>1, <1>4, <2>3
         DEF SetDropped, SetIsNoChange, SetCommits, ChangeStep, NoneJoins, Joins, Changes, SetOf
    <2>4. EditIsUndisturbed(c)'
      BY <1>2, <2>1, <2>3, EditKept DEF Follow, Active, bindVars
    <2>5. PendingIsHeard(c)'
      BY <1>2, <2>1, <2>3, PendingIsHeardKept DEF Follow, bindVars
    <2>6. IsCurrent(c) => IsCurrent(c)'
      BY <1>1, <1>4
         DEF SetDropped, SetIsNoChange, SetCommits, ChangeStep, formVars, bindVars, IsCurrent
    <2>7. LostPathIsHeard(c)'
      BY <1>2, <2>1, <2>6, LostPathKept DEF Follow, Active, bindVars
    <2>8. ASSUME IsCurrent(c), effects[1].value = shown[c]
          PROVE  Settled(c)'
      <3>1. shown'[c] = shown[c] /\ c \in Controls
        BY <2>1 DEF bindVars
      <3>2. CASE SetIsNoChange(c)
        <4>1. value[Bound[c]] # Invalid
          BY PathsOfControls, ConstantsAreApart DEF FollowInv, QueueInv, Types, FormTypes, Models
        <4> QED
          BY <2>8, <3>1, <3>2, <4>1 DEF SetIsNoChange, Settled
      <3>3. CASE SetCommits(c)
        BY <2>8, <3>1, <3>3, ConstantsAreApart DEF SetCommits, Settled
      <3> QED
        BY <1>1, <1>4, <2>2, <2>8, <3>2, <3>3 DEF SetDropped
    <2>9. ShowsOrWill(c)'
      BY <2>1, <2>2, <2>8 DEF ShowsOrWill, Positions
    <2> QED
      BY <2>4, <2>5, <2>7, <2>9 DEF Follow
  <1>5. CASE d = c /\ ~Active(c)
    <2>1. UNCHANGED binding
      BY <1>1 DEF SetDropped, SetIsNoChange, SetCommits, ChangeStep, bindVars
    <2> QED
      BY <1>5, <2>1, IdleFollows DEF Active
  <1> QED
    BY <1>3, <1>4, <1>5

LEMMA EditKeepsFollow ==
  ASSUME FollowInv, ~EditsRaceWhole, NEW d \in Controls, NEW v \in Values \cup {Invalid},
         NativeEdit(d, v)
  PROVE  \A c \in Controls : Follow(c)'
  <1> SUFFICES ASSUME NEW c \in Controls
               PROVE  Follow(c)'
    OBVIOUS
  <1> DEFINE e == SetEffect(d, v)
             b == binding[d]
             n == binding'[d]
  <1>1. /\ QueueInv /\ Types /\ effects \in Seq(Effects) /\ b \in Bindings /\ revision \in Nat
        /\ Active(d) /\ b.upTo <= revision /\ b.pendingRevision <= revision
    BY BoundsAreNatural
       DEF FollowInv, QueueInv, Types, FormTypes, BindingTypes, PendingIsDrained, NativeEdit
  <1>2. e \in Effects /\ e.kind = "Set" /\ e.control = d /\ e.value = v
        /\ e.generation = b.generation
    BY <1>1 DEF SetEffect, Effects, Sets, Bindings
  <1> HIDE DEF e
  <1>3. Shifts(0) /\ Joins(0, e)
    BY <1>1, <1>2, OneJoins DEF NativeEdit, e
  <1>4. CASE c # d
    <2>1. /\ binding'[c] = binding[c] /\ shown'[c] = shown[c] /\ UNCHANGED formVars
      BY <1>4 DEF NativeEdit, QueueInv, Types, BindingTypes, FollowInv
    <2>2. \A k \in 1..Len(effects') : IsNew(0, k) => effects'[k].kind = "Set" /\ ~SetOf(c, k)'
      BY <1>2, <1>3, <1>4 DEF Joins, SetOf
    <2> QED
      BY <1>3, <2>1, <2>2, OthersKeepFollow DEF formVars
  <1>5. CASE c = d
    <2>1. /\ n = SuppressThrough(b, revision) /\ shown'[d] = v /\ UNCHANGED formVars
      BY DEF NativeEdit, QueueInv, Types, BindingTypes, FollowInv
    <2>2. /\ n.life = "Active" /\ n.generation = b.generation /\ n.upTo = revision
          /\ n.occurrence = b.occurrence /\ n.pending # "Value"
      <3>1. /\ n.life = b.life /\ n.generation = b.generation /\ n.occurrence = b.occurrence
            /\ n.upTo = IF revision > b.upTo THEN revision ELSE b.upTo
            /\ n.pending = IF b.pending = "Value" /\ b.pendingRevision <= revision
                           THEN "None" ELSE b.pending
        <4> HIDE DEF n, b
        <4> QED
          BY <1>1, <2>1, SuppressType DEF Follows
      <3>2. b.upTo \in Nat
        BY <1>1 DEF Bindings
      <3> QED
        BY <1>1, <3>1, <3>2 DEF Active
    <2> HIDE DEF n, b
    <2>3. EditIsUndisturbed(d)'
      <3> SUFFICES ASSUME NEW k \in 1..Len(effects'), SetOf(d, k)'
                   PROVE  /\ effects'[k].generation = n.generation
                          /\ \A j \in 1..Len(effects') : effects'[j].kind = "Event" /\ j < k =>
                               ~effects'[j].whole /\ effects'[j].revision <= n.upTo
                          /\ n.pending # "Value"
                          /\ (\A j \in 1..Len(effects') : SetOf(d, j)' => j <= k) =>
                               effects'[k].value = shown'[d]
        BY DEF EditIsUndisturbed, Positions, IsEvent, n
      <3>1. ASSUME NEW j \in 1..Len(effects'), j # Len(effects')
            PROVE  j \in Positions /\ effects'[j] = effects[j]
        BY <1>3, <3>1 DEF Shifts, Joins, IsNew, Positions
      <3>2. /\ Len(effects') \in 1..Len(effects') /\ effects'[Len(effects')] = e
        BY <1>3 DEF Joins
      <3>3. effects'[k].generation = n.generation
        <4>1. CASE k = Len(effects')
          BY <1>2, <2>2, <3>2, <4>1 DEF b
        <4>2. CASE k # Len(effects')
          <5>1. k \in Positions /\ SetOf(d, k) /\ effects'[k] = effects[k]
            BY <3>1, <4>2 DEF SetOf
          <5> QED
            BY <1>1, <2>2, <5>1 DEF FollowInv, Follow, EditIsUndisturbed, b
        <4> QED
          BY <4>1, <4>2
      <3>4. ASSUME NEW j \in 1..Len(effects'), effects'[j].kind = "Event"
            PROVE  ~effects'[j].whole /\ effects'[j].revision <= n.upTo
        <4>1. j \in Positions /\ effects'[j] = effects[j]
          BY <1>2, <3>1, <3>2, <3>4
        <4>2. effects[j].revision <= revision
          BY <1>1, <3>4, <4>1 DEF QueueInv, EventsInOrder, IsEvent
        <4>3. ~effects[j].whole
          BY <3>4, <4>1 DEF NativeEdit, WholeOnItsWay, Positions
        <4> QED
          BY <2>2, <4>1, <4>2, <4>3
      <3>5. ASSUME \A j \in 1..Len(effects') : SetOf(d, j)' => j <= k
            PROVE  effects'[k].value = shown'[d]
        <4>1. effects'[Len(effects')].kind = "Set" /\ effects'[Len(effects')].control = d
          BY <1>2, <3>2
        <4>2. \E l \in 1..Len(effects') : l = Len(effects') /\ SetOf(d, l)'
          BY <3>2, <4>1 DEF SetOf
        <4>3. k = Len(effects')
          BY <3>5, <4>2
        <4> QED
          BY <1>2, <2>1, <3>2, <4>3
      <3> QED
        BY <2>2, <3>3, <3>4, <3>5
    <2>4. PendingIsHeard(d)'
      BY <2>2 DEF PendingIsHeard, n
    <2>5. LostPathIsHeard(d)'
      BY <1>1, <1>3, <2>1, <2>2, LostPathKept
         DEF FollowInv, Follow, IsCurrent, formVars, b, n
    <2>6. ShowsOrWill(d)'
      <3>1. effects'[Len(effects')].kind = "Set" /\ effects'[Len(effects')].control = d
            /\ Len(effects') \in 1..Len(effects')
        BY <1>2, <1>3 DEF Joins
      <3>2. \E l \in 1..Len(effects') : SetOf(d, l)'
        BY <3>1 DEF SetOf
      <3> QED
        BY <3>2 DEF ShowsOrWill, Positions
    <2> QED
      BY <1>5, <2>3, <2>4, <2>5, <2>6 DEF Follow
  <1> QED
    BY <1>4, <1>5

LEMMA DropKeepsFollow ==
  ASSUME FollowInv, NEW d \in Controls, Drop(d)
  PROVE  \A c \in Controls : Follow(c)'
  <1> SUFFICES ASSUME NEW c \in Controls
               PROVE  Follow(c)'
    OBVIOUS
  <1>1. Types /\ binding[d] \in Bindings
    BY DEF FollowInv, QueueInv, Types, BindingTypes
  <1>2. CASE c # d
    <2>1. /\ binding'[c] = binding[c] /\ (c \in issue' <=> c \in issue)
          /\ UNCHANGED <<value, revision, occurrence, occurrences, shown, effects>>
      BY <1>1, <1>2 DEF Drop, Types, BindingTypes
    <2>2. Shifts(0) /\ NoneJoins(0)
      BY <1>1, <2>1, QueueStays DEF Types
    <2> QED
      BY <2>1, <2>2, OthersKeepFollow DEF NoneJoins
  <1>3. CASE c = d
    <2>1. binding'[d].life = "Dropped"
      BY <1>1, DrainedType DEF Drop, Types, BindingTypes
    <2> QED
      BY <1>3, <2>1, IdleFollows
  <1> QED
    BY <1>2, <1>3

LEMMA RunDrainKeepsFollow ==
  ASSUME FollowInv, RunDrain
  PROVE  \A c \in Controls : Follow(c)'
  <1> SUFFICES ASSUME NEW c \in Controls
               PROVE  Follow(c)'
    OBVIOUS
  <1>0. PICK d \in Controls : d = First.control
    BY AtTheHead DEF RunDrain, FollowInv, QueueInv, Types, Drains
  <1> DEFINE b == binding[d]
             n == binding'[d]
  <1>1. /\ Types /\ QueueInv /\ First \in Drains /\ First = effects[1] /\ d \in Controls
        /\ b \in Bindings
        /\ UNCHANGED <<value, revision, occurrence, occurrences>>
    BY <1>0, AtTheHead, RestOfTheQueue
       DEF RunDrain, At, Types, BindingTypes, FollowInv, QueueInv, Drains
  <1>2. Shifts(1) /\ NoneJoins(1)
    BY <1>1, OneLeaves DEF RunDrain, At, Types
  <1>3. ~IsEvent(1) /\ ~SetOf(c, 1)
    BY <1>1 DEF IsEvent, SetOf, Drains
  <1>4. CASE c # d
    <2>1. /\ binding'[c] = binding[c] /\ shown'[c] = shown[c] /\ (c \in issue' <=> c \in issue)
      BY <1>0, <1>1, <1>4 DEF RunDrain, Types, BindingTypes
    <2> QED
      BY <1>1, <1>2, <1>3, <2>1, OthersKeepFollow DEF NoneJoins
  <1>5. CASE c = d /\ n.life = "Active"
    <2>1. /\ Active(d) /\ n.generation = b.generation /\ n.upTo = b.upTo
          /\ n.occurrence = b.occurrence /\ n.pending = "None"
          /\ \/ b.pending # "Value" /\ UNCHANGED <<shown, issue>>
             \/ /\ b.pending = "Value" /\ IsCurrent(d) /\ shown'[d] = value[Bound[d]]
      <3>1. CASE n = Drained(b) /\ b.pending # "Value" /\ UNCHANGED <<shown, issue>>
        BY <1>1, <1>5, <3>1, DrainedType DEF Active, Follows
      <3>2. CASE /\ n = Drained(b) /\ b.pending = "Value" /\ IsCurrent(d)
                 /\ shown' = [shown EXCEPT ![d] = value[Bound[d]]]
        <4>1. shown'[d] = value[Bound[d]]
          BY <1>1, <3>2 DEF Types, BindingTypes
        <4> QED
          BY <1>1, <1>5, <3>2, <4>1, DrainedType DEF Active, Follows
      <3>3. CASE n = Drained(Retire(Drained(b)))
        <4> DEFINE x == Drained(b)
                   r == Retire(x)
        <4>1. x \in Bindings /\ r \in Bindings /\ r.life # "Active"
          BY <1>1, DrainedType, RetireType DEF Follows
        <4> HIDE DEF r
        <4>2. n.life = r.life
          BY <3>3, <4>1, DrainedType DEF r
        <4> QED
          BY <1>5, <4>1, <4>2
      <3>4. binding = [x \in Controls |-> binding[x]]
        BY <1>1 DEF Types, BindingTypes
      <3> QED
        BY <1>0, <1>1, <3>1, <3>2, <3>3, <3>4 DEF RunDrain
    <2> HIDE DEF n, b
    <2>2. QueueInv /\ Follow(d) /\ ~SetOf(d, 1)
      BY <1>1, <1>3, <1>5 DEF FollowInv
    <2>3. EditIsUndisturbed(d)'
      <3>1. CASE UNCHANGED shown
        BY <1>1, <1>2, <2>1, <2>2, <3>1, EditKept DEF Follow, NoneJoins, n, b
      <3>2. CASE b.pending = "Value"
        <4>1. \A i \in Positions : ~SetOf(d, i)
          BY <2>1, <2>2, <3>2 DEF Follow, EditIsUndisturbed, b
        <4>2. \A k \in 1..Len(effects') : ~SetOf(d, k)'
          <5>1. ASSUME NEW k \in 1..Len(effects')
                PROVE  k + 1 \in Positions /\ effects'[k] = effects[k + 1]
            BY <1>2 DEF Shifts, NoneJoins, IsNew, Positions
          <5> QED
            BY <4>1, <5>1 DEF SetOf
        <4> QED
          BY <4>2 DEF EditIsUndisturbed, Positions
      <3> QED
        BY <2>1, <3>1, <3>2
    <2>4. PendingIsHeard(d)'
      BY <2>1 DEF PendingIsHeard, n
    <2>5. IsCurrent(d)' <=> IsCurrent(d)
      BY <1>1, <2>1 DEF IsCurrent, n, b
    <2>6. LostPathIsHeard(d)'
      BY <1>1, <1>2, <1>3, <2>1, <2>2, <2>5, LostPathKept DEF Follow
    <2>7. ShowsOrWill(d)'
      <3>1. CASE b.pending # "Value" /\ UNCHANGED <<shown, issue>>
        BY <1>1, <1>2, <1>3, <2>1, <2>2, <2>5, <3>1, ShowsOrWillKept
           DEF Follow, NoneJoins, n, b
      <3>2. CASE IsCurrent(d) /\ shown'[d] = value[Bound[d]]
        <4>1. value[Bound[d]] # Invalid
          BY <1>1, PathsOfControls, ConstantsAreApart DEF Types, FormTypes, Models
        <4> QED
          BY <1>1, <3>2, <4>1 DEF ShowsOrWill, Settled
      <3> QED
        BY <2>1, <3>1, <3>2
    <2> QED
      BY <1>5, <2>3, <2>4, <2>6, <2>7 DEF Follow
  <1>6. CASE c = d /\ n.life # "Active"
    BY <1>6, IdleFollows
  <1> QED
    BY <1>4, <1>5, <1>6

LEMMA RunEventKeepsFollow ==
  ASSUME FollowInv, RunEvent
  PROVE  \A c \in Controls : Follow(c)'
  <1> SUFFICES ASSUME NEW c \in Controls, binding'[c].life = "Active"
               PROVE  Follow(c)'
    BY IdleFollows
  <1> DEFINE e  == First
             b  == binding[c]
             n  == binding'[c]
             up == [b EXCEPT !.generation = @ + 1]
             r  == e.revision
  <1>1. /\ Types /\ QueueInv /\ Follow(c) /\ e \in Changes /\ e = effects[1] /\ 1 \in Positions
        /\ IsEvent(1) /\ b \in Bindings /\ r \in Nat
        /\ UNCHANGED <<value, revision, occurrence, occurrences, issue, shown>>
    BY AtTheHead, RestOfTheQueue
       DEF RunEvent, At, FollowInv, Types, BindingTypes, QueueInv, Positions, Changes, IsEvent,
           formVars
  <1>2. Heard(c, e, n)
    BY <1>1, NotifiedCases DEF RunEvent, Types
  <1>3. /\ Shifts(1)
        /\ \A k \in 1..Len(effects') : IsNew(1, k) => effects'[k].kind = "Drain"
    <2>1. \A x : DrainEffect(x).kind = "Drain"
      BY DEF DrainEffect
    <2> QED
      BY <1>1, <2>1, DrainsJoin
  <1>4. ASSUME NEW k \in 1..Len(effects'), effects'[k].kind # "Drain"
        PROVE  k + 1 \in Positions /\ effects'[k] = effects[k + 1] /\ 1 < k + 1
    BY <1>3, <1>4 DEF Shifts, IsNew, Positions
  <1>5. /\ up \in Bindings /\ up.life = b.life /\ up.generation = b.generation + 1
        /\ up.pending = b.pending /\ up.pendingRevision = b.pendingRevision /\ up.upTo = b.upTo
    <2>1. b.generation + 1 \in Nat
      BY <1>1 DEF Bindings
    <2> QED
      BY <1>1, <2>1 DEF Bindings
  <1> HIDE DEF e, b, n, up, r
  \* What the binding made of the change.
  <1>6. /\ Active(c) /\ IsCurrent(c)
        /\ \/ /\ ~e.whole /\ n = b
              /\ e.path # Bound[c]
           \/ e.whole /\ n = QueueValue(up, r)
           \/ ~e.whole /\ e.path = Bound[c] /\ OwnWrite(c, e) /\ n = SuppressThrough(b, r)
           \/ ~e.whole /\ e.path = Bound[c] /\ ~OwnWrite(c, e) /\ n = QueueValue(b, r)
    <2>1. Retire(b).life # "Active"
      BY <1>1, RetireType
    <2> QED
      BY <1>2, <2>1 DEF Heard, Active, b, n, up, r
  <1>7. IsCurrent(c)'
    <2>1. Follows(b, n)
      BY <1>1, <1>2, HeardType DEF Types, b, n
    <2> QED
      BY <1>1, <1>6, <2>1 DEF Follows, IsCurrent, b, n
  <1>8. LostPathIsHeard(c)'
    BY <1>7 DEF LostPathIsHeard
  <1>9. OwnWrite(c, e) <=> Own(c, 1)
    BY <1>1 DEF Own, e
  \* Outcomes, one by one.
  <1>10. /\ n.upTo = b.upTo \/ n.upTo = r
         /\ b.pending = "Value" /\ ~Own(c, 1) => n.pending = "Value"
         /\ ~Own(c, 1) /\ (e.whole \/ e.path = Bound[c]) /\ b.upTo < r => n.pending = "Value"
         /\ n.pending = "Value" =>
              \/ n.pendingRevision = r
              \/ b.pending = "Value" /\ n.pendingRevision = b.pendingRevision
         /\ n.generation = IF e.whole THEN b.generation + 1 ELSE b.generation
         /\ ~e.whole /\ r <= b.upTo /\ b.pending # "Value" =>
              n.upTo = b.upTo /\ n.pending # "Value"
    <2>1. CASE n = b /\ ~e.whole /\ e.path # Bound[c]
      BY <2>1
    <2>2. CASE e.whole /\ n = QueueValue(up, r)
      BY <1>1, <1>5, <1>6, <2>2, QueueValueType DEF Active, Bindings, b
    <2>3. CASE ~e.whole /\ OwnWrite(c, e) /\ n = SuppressThrough(b, r)
      BY <1>1, <1>9, <2>3, SuppressType DEF Bindings
    <2>4. CASE ~e.whole /\ ~OwnWrite(c, e) /\ n = QueueValue(b, r)
      BY <1>1, <1>6, <2>4, QueueValueType DEF Active, Bindings, b
    <2> QED
      BY <1>6, <2>1, <2>2, <2>3, <2>4
  <1>11. ASSUME NEW i \in Positions, IsEvent(i), 1 < i
         PROVE  r < effects[i].revision
    BY <1>1, <1>11 DEF QueueInv, EventsInOrder, e, r
  <1>12. ASSUME NEW k \in 1..Len(effects'), Own(c, k)'
         PROVE  k + 1 \in Positions /\ Own(c, k + 1)
    <2>1. /\ effects'[k].kind = "Event"
          /\ effects'[k].origin = [control |-> c, generation |-> n.generation]
      BY <1>12 DEF Own, OwnWrite, IsEvent, n
    <2>2. k + 1 \in Positions /\ effects'[k] = effects[k + 1] /\ IsEvent(k + 1)
      BY <1>4, <2>1 DEF IsEvent
    <2>3. CASE ~e.whole
      BY <1>10, <2>1, <2>2, <2>3 DEF Own, OwnWrite, b
    <2>4. CASE e.whole
      <3> DEFINE o == effects[k + 1].origin
      <3>1. o.control = c /\ o.generation = b.generation + 1
        BY <1>10, <2>1, <2>2, <2>4
      <3>2. o = NoOrigin \/ o.generation <= binding[o.control].generation
        BY <1>1, <2>2 DEF QueueInv, OriginsAreWrites
      <3>3. b.generation \in Nat
        BY <1>1 DEF Bindings
      <3> QED
        BY <3>1, <3>2, <3>3 DEF NoOrigin, b
    <2> QED
      BY <2>3, <2>4
  <1>13. EditIsUndisturbed(c)'
    <2>1. CASE \E i \in Positions : SetOf(c, i)
      <3>1. PICK i \in Positions : SetOf(c, i)
        BY <2>1
      <3>2. 1 < i
        BY <1>1, <3>1 DEF Positions, SetOf, IsEvent
      <3>3. ~e.whole /\ r <= b.upTo /\ b.pending # "Value"
        BY <1>1, <1>6, <3>1, <3>2 DEF Follow, EditIsUndisturbed, e, r, b
      <3>4. n.generation = b.generation /\ n.upTo = b.upTo /\ n.pending # "Value"
        BY <1>10, <3>3
      <3>5. \A k \in 1..Len(effects') : IsNew(1, k) => ~SetOf(c, k)'
        BY <1>3 DEF SetOf
      <3> QED
        BY <1>1, <1>3, <1>6, <3>4, <3>5, EditKept DEF Follow, b, n
    <2>2. CASE \A i \in Positions : ~SetOf(c, i)
      <3>1. \A k \in 1..Len(effects') : ~SetOf(c, k)'
        BY <1>4, <2>2 DEF SetOf
      <3> QED
        BY <3>1 DEF EditIsUndisturbed, Positions
    <2> QED
      BY <2>1, <2>2
  <1>14. PendingIsHeard(c)'
    <2> SUFFICES ASSUME n.pending = "Value",
                        NEW k \in 1..Len(effects'), effects'[k].kind = "Event"
                 PROVE  n.pendingRevision < effects'[k].revision
      BY DEF PendingIsHeard, Positions, IsEvent, n
    <2>1. k + 1 \in Positions /\ effects'[k] = effects[k + 1] /\ IsEvent(k + 1) /\ 1 < k + 1
      BY <1>4 DEF IsEvent
    <2>2. r < effects[k + 1].revision
      BY <1>11, <2>1
    <2>3. b.pending = "Value" => b.pendingRevision < effects[k + 1].revision
      BY <1>1, <1>6, <2>1 DEF Follow, PendingIsHeard, b
    <2> QED
      BY <1>10, <2>1, <2>2, <2>3
  <1>15. ShowsOrWill(c)'
    <2>1. ASSUME NEW i \in Positions, SetOf(c, i)
          PROVE  ShowsOrWill(c)'
      <3>1. 1 < i
        BY <1>1, <2>1 DEF Positions, SetOf, IsEvent
      <3>2. i - 1 \in 1..Len(effects') /\ SetOf(c, i - 1)'
        BY <1>3, <2>1, <3>1 DEF Shifts, Positions, SetOf
      <3> QED
        BY <3>2 DEF ShowsOrWill, Positions
    <2>2. CASE Settled(c)
      BY <1>1, <2>2 DEF ShowsOrWill, Settled
    <2>3. ASSUME n.pending = "Value", \A j \in Positions : ~Own(c, j)
          PROVE  ShowsOrWill(c)'
      <3>1. \A k \in 1..Len(effects') : ~Own(c, k)'
        BY <1>12, <2>3
      <3> QED
        BY <2>3, <3>1 DEF ShowsOrWill, Positions, n
    <2>4. CASE b.pending = "Value" /\ \A j \in Positions : ~Own(c, j)
      BY <1>1, <1>10, <2>3, <2>4
    <2>5. ASSUME NEW i \in Positions, Refreshes(c, i)
          PROVE  ShowsOrWill(c)'
      <3>1. CASE i = 1
        <4>1. \A j \in Positions : ~Own(c, j)
          BY <2>5, <3>1 DEF Refreshes, Positions
        <4>2. n.pending = "Value"
          BY <1>1, <1>10, <2>5, <3>1 DEF Refreshes, b, e, r
        <4> QED
          BY <2>3, <4>1, <4>2
      <3>2. CASE i # 1
        <4>1. 1 < i /\ i - 1 \in 1..Len(effects') /\ effects'[i - 1] = effects[i]
          BY <1>3, <3>2 DEF Shifts, Positions
        <4>2. n.upTo < effects[i].revision
          BY <1>10, <1>11, <2>5, <4>1 DEF Refreshes, b
        <4>3. ASSUME NEW k \in 1..Len(effects'), Own(c, k)'
              PROVE  k < i - 1
          <5>1. k + 1 < i
            BY <1>12, <2>5, <4>3 DEF Refreshes
          <5> QED
            BY <5>1 DEF Positions
        <4>4. ~Own(c, i - 1)'
          BY <4>1, <4>3 DEF Positions
        <4>5. Refreshes(c, i - 1)'
          BY <2>5, <4>1, <4>2, <4>3, <4>4 DEF Refreshes, IsEvent, Positions, n
        <4> QED
          BY <4>1, <4>5 DEF ShowsOrWill, Positions
      <3> QED
        BY <3>1, <3>2
    <2> QED
      BY <1>1, <1>6, <2>1, <2>2, <2>4, <2>5 DEF Follow, ShowsOrWill, b
  <1> QED
    BY <1>8, <1>13, <1>14, <1>15 DEF Follow

LEMMA FollowNext ==
  ASSUME FollowInv, [Next]_vars, ~EditsRaceWhole
  PROVE  FollowInv'
  <1>1. QueueInv'
    BY QueueNext DEF FollowInv
  <1>2. CASE \/ \E p \in Paths, v \in Values : Set(p, v)
             \/ \E v \in Values \cup {None} : SetOptional(v)
             \/ \E m \in Models : Install(m)
    BY <1>1, <1>2, ProgramKeepsFollow DEF FollowInv
  <1>3. CASE UNCHANGED <<value, revision, occurrence, occurrences, issue, bindVars, effects>>
    <2>1. Shifts(0) /\ NoneJoins(0)
      BY <1>3, QueueStays DEF FollowInv, QueueInv, Types
    <2> QED
      BY <1>1, <1>3, <2>1, OthersKeepFollow DEF NoneJoins, FollowInv, bindVars
  <1>4. ASSUME NEW c \in Controls, NEW v \in Values \cup {Invalid}, NativeEdit(c, v)
        PROVE  FollowInv'
    BY <1>1, <1>4, EditKeepsFollow DEF FollowInv
  <1>5. ASSUME NEW c \in Controls, Drop(c)
        PROVE  FollowInv'
    BY <1>1, <1>5, DropKeepsFollow DEF FollowInv
  <1>6. CASE RunSet \/ RunEvent \/ RunDrain
    BY <1>1, <1>6, RunSetKeepsFollow, RunEventKeepsFollow, RunDrainKeepsFollow DEF FollowInv
  <1> QED
    BY <1>2, <1>3, <1>4, <1>5, <1>6
       DEF Next, StartValidation, CompleteValidation, ReplaceValidator, bindVars, vars, formVars

LEMMA FollowInit ==
  ASSUME Init
  PROVE  FollowInv
  <1>1. QueueInv
    BY QueueInit
  <1>2. ASSUME NEW c \in Controls
        PROVE  Follow(c)
    <2>1. /\ shown[c] = value[Bound[c]] /\ shown[c] # Invalid /\ Positions = {}
          /\ binding[c].pending = "None" /\ IsCurrent(c)
      BY PathsOfControls, ConstantsAreApart
         DEF Init, Models, Positions, NewBinding, IsCurrent
    <2> QED
      BY <2>1 DEF Follow, LostPathIsHeard, EditIsUndisturbed, PendingIsHeard, ShowsOrWill, Settled
  <1> QED
    BY <1>1, <1>2 DEF FollowInv

\* With nothing in the queue, nothing is left to wait for.
LEMMA QuietFollows ==
  ASSUME FollowInv
  PROVE  QuietControlShowsTheForm
  <1> SUFFICES ASSUME effects = <<>>, NEW c \in Controls, Active(c)
               PROVE  IF shown[c] = Invalid THEN c \in issue
                      ELSE IsCurrent(c) /\ shown[c] = value[Bound[c]]
    BY DEF QuietControlShowsTheForm
  <1>1. Positions = {} /\ QueueInv /\ Follow(c)
    BY DEF Positions, FollowInv
  <1>2. IsCurrent(c)
    BY <1>1 DEF Follow, LostPathIsHeard
  <1>3. binding[c].pending # "Value"
    BY <1>1 DEF QueueInv, PendingIsDrained, DrainsAreOwed, Active
  <1>4. Settled(c)
    BY <1>1, <1>2, <1>3 DEF Follow, ShowsOrWill
  <1> QED
    BY <1>2, <1>4 DEF Settled

\* When every effect has run, each living control shows what the form holds at
\* its path, or the user's text that is no value together with its issue: no
\* order of writes, edits, replacements, retirements and drains leaves a
\* control behind, as long as the user does not edit while the event of a
\* whole-form change is on its way (the subscription of a binding, its deferred
\* writes and its drains).
THEOREM QuietControls ==
  ASSUME ~EditsRaceWhole
  PROVE  Spec => []QuietControlShowsTheForm
  <1>1. Init => FollowInv
    BY FollowInit
  <1>2. FollowInv /\ [Next]_vars => FollowInv'
    BY FollowNext
  <1>3. FollowInv => QuietControlShowsTheForm
    BY QuietFollows
  <1> QED
    BY <1>1, <1>2, <1>3, PTL DEF Spec
=============================================================================
