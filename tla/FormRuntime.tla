---------------------------- MODULE FormRuntime ----------------------------
(***************************************************************************)
(* A form of crates/gpui-form with the native controls bound to it and its *)
(* asynchronous validation (form.rs, control.rs, their transition modules, *)
(* validation/transition.rs).                                              *)
(*                                                                         *)
(* The form has plain fields, at addresses that last as long as it does,   *)
(* and one optional payload, Details: each payload that is put in gets a   *)
(* fresh occurrence, and paths into an older one are retired.              *)
(*                                                                         *)
(* Everything runs on one thread.  An operation changes the form at once,  *)
(* but what it emits or defers joins gpui's queue of effects, which is     *)
(* worked off in order; operations come between any two effects, since an  *)
(* effect may be anybody's callback.                                       *)
(*                                                                         *)
(* Left out: the synchronous validators and their triggers, collections    *)
(* (append, move, remove), prepare and the versioned rebase after a save.  *)
(*                                                                         *)
(* An operator Name_Variant is Name with a plausible slip; the runs that   *)
(* use this module are checked to tell the two apart.                      *)
(***************************************************************************)
EXTENDS Naturals, SequencesExt

CONSTANTS
  None,
  Values,         \* what a field may hold
  Invalid,        \* a text in a control that is no value
  Fields,         \* the plain fields
  Details,        \* the optional payload
  Controls,       \* the native controls
  Bound,          \* the path of each
  Checked,        \* the paths that are validated asynchronously
  EditsRaceWhole, \* whether a control may be edited while the event of a
                  \* replace, reset or rebase is on its way
  MaxRevision,    \* bound: changes of the model
  MaxEdits,       \* bound: edits in controls
  MaxDrops        \* bound: bindings that are dropped

Paths == Fields \cup {Details}

ASSUME ConstantsAreApart ==
  /\ None \notin Values \cup {Invalid} /\ Invalid \notin Values
  /\ Details \notin Fields
ASSUME BoundIsAPath == Bound \in [Controls -> Paths] /\ Checked \subseteq Paths
ASSUME BoundsAreNatural ==
  MaxRevision \in Nat /\ MaxEdits \in Nat /\ MaxDrops \in Nat
ASSUME ControlsAreFinite == IsFiniteSet(Controls)
ASSUME RaceIsBoolean == EditsRaceWhole \in BOOLEAN

VARIABLES
  \* the form
  value,       \* the model: None is an optional without a payload
  revision,
  occurrence,  \* of the payload, 0 without one
  occurrences, \* how many were handed out
  validating,  \* the pending asynchronous validation of each path
  asyncIssue,  \* the issue one left behind, with the value it was about
  issue,       \* the controls with an issue of their own
  \* the bindings and the native controls
  binding,     \* BindingState and BindingShared of each control
  shown,       \* what the control shows
  edits,
  \* gpui
  effects      \* the queue

formVars  == <<value, revision, occurrence, occurrences, validating, asyncIssue, issue>>
bindVars  == <<binding, shown, edits>>
vars == <<formVars, bindVars, effects>>

Active(c) == binding[c].life = "Active"

-----------------------------------------------------------------------------
(* Effects *)

\* A deferred write, or a deferred issue of the control itself.
SetEffect(c, v) ==
  [kind |-> "Set", control |-> c, value |-> v, generation |-> binding[c].generation]
DrainEffect(c) == [kind |-> "Drain", control |-> c]

\* FormEvent::ModelChanged: "Whole" for replace, reset and rebase; the origin
\* is the write that caused it.
Change(whole, path, retired, rev, origin) ==
  [kind |-> "Event", whole |-> whole, path |-> path, retired |-> retired,
   revision |-> rev, origin |-> origin]
NoOrigin == [control |-> None, generation |-> 0]

-----------------------------------------------------------------------------
(* BindingState: its messages, as operators on a binding *)

NewBinding(occ) ==
  [life |-> "Active", generation |-> 1, occurrence |-> occ,
   pending |-> "None", pendingRevision |-> 0, drain |-> FALSE, upTo |-> 0]

QueueValue(b, rev) ==
  IF b.life # "Active" \/ rev <= b.upTo THEN b
  ELSE [b EXCEPT !.pending = "Value", !.pendingRevision = rev, !.drain = TRUE]

Quiet(b, cleared) ==
  IF cleared THEN [b EXCEPT !.pending = "None", !.pendingRevision = 0] ELSE b

SuppressThrough(b, rev) ==
  [Quiet(b, b.pending = "Value" /\ b.pendingRevision <= rev)
     EXCEPT !.upTo = IF rev > @ THEN rev ELSE @]

\* The occurrence is gone: the writer is cut off as well.
Retire(b) ==
  IF b.life # "Active" THEN b
  ELSE [b EXCEPT !.life = "Retired", !.generation = @ + 1,
                 !.pending = "Retired", !.pendingRevision = 0, !.drain = TRUE]

Drained_FlagKept(b) == Quiet(b, TRUE)
Drained(b) == [Quiet(b, TRUE) EXCEPT !.drain = FALSE]

Dropped(b) ==
  [Drained(b) EXCEPT !.life = "Dropped", !.generation = @ + 1]

-----------------------------------------------------------------------------
(* The form: what every change of the model does *)

Occurrence(path) == IF path = Details THEN occurrence ELSE 0
Resolves(path)   == path = Details => occurrence # 0

\* The controls whose path a change of this one touches; the optional contains
\* the path into its payload.
Touched(path) == {c \in Controls : Bound[c] = path}

Commit_AnswerKept(path, v, origin, queue) ==
  /\ value' = [value EXCEPT ![path] = v]
  /\ revision' = revision + 1
  /\ validating' = [p \in Paths |-> None]
  /\ UNCHANGED <<occurrence, occurrences, asyncIssue>>
  /\ issue' = issue \ Touched(path)
  /\ effects' = Append(queue, Change(FALSE, path, {}, revision', origin))
\* commit_value_from: every pending validation is cancelled, for it is bound to
\* the revision; an answer it left behind only if the path is touched.
Commit(path, v, origin, queue) ==
  /\ revision < MaxRevision
  /\ value' = [value EXCEPT ![path] = v]
  /\ revision' = revision + 1
  /\ validating' = [p \in Paths |-> None]
  /\ asyncIssue' = [asyncIssue EXCEPT ![path] = None]
  /\ issue' = issue \ Touched(path)
  /\ effects' = Append(queue, Change(FALSE, path, {}, revision', origin))
  /\ UNCHANGED <<occurrence, occurrences>>

\* A write to a path, by the program.
Set(path, v) ==
  /\ Resolves(path) /\ v # value[path]
  /\ Commit(path, v, NoOrigin, effects)
  /\ UNCHANGED bindVars

\* The optional itself is written: its payload gets a fresh occurrence, and the
\* old one is retired.
SetOptional(v) ==
  /\ revision < MaxRevision
  /\ v # value[Details]
  /\ value' = [value EXCEPT ![Details] = v]
  /\ revision' = revision + 1
  /\ occurrence' = IF v = None THEN 0 ELSE occurrences + 1
  /\ occurrences' = IF v = None THEN occurrences ELSE occurrences + 1
  /\ validating' = [p \in Paths |-> None]
  /\ asyncIssue' = [asyncIssue EXCEPT ![Details] = None]
  /\ issue' = issue \ Touched(Details)
  /\ effects' = Append(effects, Change(FALSE, Details, {occurrence} \ {0}, revision', NoOrigin))
  /\ UNCHANGED bindVars

\* install_model: replace, reset and rebase, whatever the model is.
Install(model) ==
  /\ revision < MaxRevision
  /\ value' = model
  /\ revision' = revision + 1
  /\ occurrence' = IF model[Details] = None THEN 0 ELSE occurrences + 1
  /\ occurrences' = IF model[Details] = None THEN occurrences ELSE occurrences + 1
  /\ validating' = [p \in Paths |-> None]
  /\ asyncIssue' = [p \in Paths |-> None]
  /\ issue' = {}
  /\ effects' = Append(effects, Change(TRUE, None, {occurrence} \ {0}, revision', NoOrigin))
  /\ UNCHANGED bindVars

-----------------------------------------------------------------------------
(* The form: asynchronous validation *)

\* start_async_core: the check gets the value of now.
StartValidation(path) ==
  /\ path \in Checked /\ Resolves(path)
  /\ validating' = [validating EXCEPT
       ![path] = [value |-> value[path], revision |-> revision,
                  occurrence |-> Occurrence(path)]]
  /\ asyncIssue' = [asyncIssue EXCEPT ![path] = None]
  /\ UNCHANGED <<value, revision, occurrence, occurrences, issue, bindVars, effects>>

\* complete_async_validation; a task that was cancelled is gone, and does not
\* come here.
CompleteValidation(path, hasIssue) ==
  LET v == validating[path]
      fresh == v.revision = revision /\ v.occurrence = Occurrence(path)
  IN
  /\ v # None
  /\ validating' = [validating EXCEPT ![path] = None]
  /\ asyncIssue' = IF ~fresh THEN asyncIssue
                   ELSE [asyncIssue EXCEPT
                           ![path] = IF hasIssue
                                     THEN [value |-> v.value, occurrence |-> v.occurrence]
                                     ELSE None]
  /\ UNCHANGED <<value, revision, occurrence, occurrences, issue, bindVars, effects>>

\* replace_validator.
ReplaceValidator ==
  /\ validating' = [p \in Paths |-> None]
  /\ asyncIssue' = [p \in Paths |-> None]
  /\ UNCHANGED <<value, revision, occurrence, occurrences, issue, bindVars, effects>>

-----------------------------------------------------------------------------
(* Controls *)

WholeOnItsWay ==
  \E i \in 1..Len(effects) : effects[i].kind = "Event" /\ effects[i].whole

\* The user changes what the control shows; the adapter defers the write, or
\* an issue if the text is no value.  What waits for the control is suppressed.
NativeEdit(c, v) ==
  /\ edits < MaxEdits /\ edits' = edits + 1
  /\ EditsRaceWhole \/ ~WholeOnItsWay
  /\ Active(c) /\ v # shown[c]
  /\ shown' = [shown EXCEPT ![c] = v]
  /\ binding' = [binding EXCEPT ![c] = SuppressThrough(@, revision)]
  /\ effects' = Append(effects, SetEffect(c, v))
  /\ UNCHANGED formVars

\* The owner of the binding drops it, and its issue no longer counts.
Drop(c) ==
  /\ binding[c].life # "Dropped"
  /\ Cardinality({e \in Controls : binding[e].life = "Dropped"}) < MaxDrops
  /\ binding' = [binding EXCEPT ![c] = Dropped(@)]
  /\ issue' = issue \ {c}
  /\ UNCHANGED <<value, revision, occurrence, occurrences, validating, asyncIssue,
                 shown, edits, effects>>

-----------------------------------------------------------------------------
(* The first effect is worked off *)

First == Head(effects)
Rest  == Tail(effects)
At(kind) == effects # <<>> /\ First.kind = kind

\* The path of the binding still leads to what it was bound to.
IsCurrent(c) == Bound[c] = Details => binding[c].occurrence = occurrence

NothingComesOfIt == effects' = Rest /\ UNCHANGED <<formVars, bindVars>>

\* The deferred write: dropped if the lifecycle went on or the path is retired.
\* A value the form has already only clears the control's own issue.
RunSet ==
  LET c == First.control
      b == binding[c]
  IN
  /\ At("Set")
  /\ \/ /\ \/ ~Active(c) \/ First.generation # b.generation \/ ~IsCurrent(c)
        /\ NothingComesOfIt
     \/ /\ Active(c) /\ First.generation = b.generation /\ IsCurrent(c)
        /\ \/ /\ First.value = Invalid
              /\ issue' = issue \cup {c}
              /\ effects' = Rest
              /\ UNCHANGED <<value, revision, occurrence, occurrences, validating, asyncIssue>>
           \/ /\ First.value = value[Bound[c]]
              /\ issue' = issue \ {c}
              /\ effects' = Rest
              /\ UNCHANGED <<value, revision, occurrence, occurrences, validating, asyncIssue>>
           \/ /\ First.value \notin {Invalid, value[Bound[c]]}
              /\ Commit(Bound[c], First.value, [control |-> c, generation |-> b.generation],
                        Rest)
        /\ UNCHANGED bindVars

\* The change e is the control's own write, made since its last generation.
OwnWrite_AnyControl(c, e) ==
  e.origin.control # None /\ e.origin.generation = binding[c].generation
OwnWrite(c, e) == e.origin = [control |-> c, generation |-> binding[c].generation]

\* The subscription of a binding, on a change e.
Notified(c, e) ==
  LET b == binding[c] IN
  CASE b.life # "Active" -> b
    [] b.life = "Active" /\ Bound[c] = Details
         /\ (~IsCurrent(c) \/ b.occurrence \in e.retired) -> Retire(b)
    [] b.life = "Active" /\ IsCurrent(c) /\ b.occurrence \notin e.retired /\ e.whole ->
         QueueValue([b EXCEPT !.generation = @ + 1], e.revision)
    [] b.life = "Active" /\ IsCurrent(c) /\ b.occurrence \notin e.retired /\ ~e.whole ->
         CASE e.path # Bound[c] -> b
           [] e.path = Bound[c] /\ OwnWrite(c, e)  -> SuppressThrough(b, e.revision)
           [] e.path = Bound[c] /\ ~OwnWrite(c, e) -> QueueValue(b, e.revision)

\* Every binding hears of the change, and whoever now needs a drain and has
\* none gets one.
RunEvent ==
  /\ At("Event")
  /\ binding' = [c \in Controls |-> Notified(c, First)]
  /\ LET drained == {c \in Controls : binding'[c].drain /\ ~binding[c].drain}
         drains  == [i \in 1..Cardinality(drained) |-> DrainEffect(SetToSeq(drained)[i])]
     IN effects' = Rest \o drains
  /\ UNCHANGED <<formVars, shown, edits>>

\* schedule_drain: the value is read now, whatever it was when it was queued.
\* (The check of the editor sequence is left out: an edit has suppressed
\* whatever was pending before it.)
RunDrain ==
  LET c == First.control
      b == binding[c]
  IN
  /\ At("Drain")
  /\ effects' = Rest
  /\ \/ /\ b.pending # "Value"
        /\ binding' = [binding EXCEPT ![c] = Drained(b)]
        /\ UNCHANGED <<shown, issue>>
     \/ /\ b.pending = "Value" /\ IsCurrent(c)
        /\ binding' = [binding EXCEPT ![c] = Drained(b)]
        /\ shown' = [shown EXCEPT ![c] = value[Bound[c]]]
        /\ issue' = issue \ {c}
     \/ /\ b.pending = "Value" /\ ~IsCurrent(c)
        /\ binding' = [binding EXCEPT ![c] = Drained(Retire(Drained(b)))]
        /\ issue' = issue \ {c}
        /\ UNCHANGED shown
  /\ UNCHANGED <<value, revision, occurrence, occurrences, validating, asyncIssue, edits>>

-----------------------------------------------------------------------------

Models == {m \in [Paths -> Values \cup {None}] : \A f \in Fields : m[f] # None}

\* The controls were bound to a new form, and show it.
Init ==
  /\ value \in {m \in Models : m[Details] # None}
  /\ revision = 0
  /\ occurrence = 1 /\ occurrences = 1
  /\ validating = [p \in Paths |-> None] /\ asyncIssue = [p \in Paths |-> None]
  /\ issue = {}
  /\ binding = [c \in Controls |-> NewBinding(IF Bound[c] = Details THEN 1 ELSE 0)]
  /\ shown = [c \in Controls |-> value[Bound[c]]]
  /\ edits = 0
  /\ effects = <<>>

Next ==
  \/ \E p \in Paths, v \in Values : Set(p, v)
  \/ \E v \in Values \cup {None} : SetOptional(v)
  \/ \E m \in Models : Install(m)
  \/ \E p \in Paths : StartValidation(p)
  \/ \E p \in Paths, hasIssue \in BOOLEAN : CompleteValidation(p, hasIssue)
  \/ ReplaceValidator
  \/ \E c \in Controls, v \in Values \cup {Invalid} : NativeEdit(c, v)
  \/ \E c \in Controls : Drop(c)
  \/ RunSet \/ RunEvent \/ RunDrain

Spec == Init /\ [][Next]_vars

-----------------------------------------------------------------------------
(* Properties *)

Occurrences == 0..(MaxRevision + 1)

Validations == [value : Values \cup {None}, revision : 0..MaxRevision, occurrence : Occurrences]
AsyncIssues == [value : Values \cup {None}, occurrence : Occurrences]

DrainsOf(c) == {i \in 1..Len(effects) : effects[i] = DrainEffect(c)}

\* The variables have the values the code gives them, and a binding that owes
\* its control a value has exactly one drain on its way.
TypeOK ==
  /\ value \in Models /\ revision \in 0..MaxRevision
  /\ occurrence \in Occurrences /\ occurrences \in Occurrences
  /\ (value[Details] = None) = (occurrence = 0)
  /\ validating \in [Paths -> Validations \cup {None}]
  /\ asyncIssue \in [Paths -> AsyncIssues \cup {None}]
  /\ issue \subseteq Controls
  /\ \A c \in Controls :
       /\ binding[c].life \in {"Active", "Retired", "Dropped"}
       /\ binding[c].pending \in {"None", "Value", "Retired"}
       /\ binding[c].pending # "None" => binding[c].drain
       /\ binding[c].life # "Dropped" => Cardinality(DrainsOf(c)) = (IF binding[c].drain THEN 1 ELSE 0)
  /\ shown \in [Controls -> Values \cup {Invalid}]

\* What an asynchronous validation says, or will say, is about the value that
\* is there now, at an occurrence that is there now.
AnswersAreAboutThePresent ==
  \A p \in Paths :
    /\ asyncIssue[p] # None =>
         asyncIssue[p] = [value |-> value[p], occurrence |-> Occurrence(p)]
    /\ validating[p] # None =>
         validating[p] = [value |-> value[p], revision |-> revision,
                          occurrence |-> Occurrence(p)]

\* When every effect has run, each living control shows what the form holds at
\* its path, or the user's text that is no value together with its issue.
QuietControlShowsTheForm ==
  effects = <<>> =>
    \A c \in Controls : Active(c) =>
      IF shown[c] = Invalid THEN c \in issue
      ELSE IsCurrent(c) /\ shown[c] = value[Bound[c]]

=============================================================================
