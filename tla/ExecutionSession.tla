-------------------------- MODULE ExecutionSession --------------------------
(***************************************************************************)
(* The synchronous facade (api.py) over a caller-owned session             *)
(* (runtime/session.py) and cooperative controls (runtime/control.py).     *)
(*                                                                         *)
(* A call validates its session, passes checkpoints and works through a    *)
(* list of artifacts, each looked up in the session's store and computed   *)
(* when it is not there.  A checkpoint may call the caller back            *)
(* (progress=), and the callback may do anything the caller may: cancel a  *)
(* control, clear or close the session, make another call, let an          *)
(* exception through.  Calls therefore form a stack.  Another thread may   *)
(* cancel a control at any time, and time passes at any time.              *)
(*                                                                         *)
(* The store is a MemoryArtifactStore; here an insertion may displace any  *)
(* of the other artifacts (ArtifactStore says which).                      *)
(***************************************************************************)
EXTENDS Integers, SequencesExt

CONSTANTS
  Requests,     \* the calls a caller may make
  Controls,     \* ExecutionControl objects the caller holds
  Deadline,     \* Deadline[c]: when control c expires, Never if it does not
  Reporting,    \* controls with a progress callback
  Budgeted,     \* controls with a work budget (max_work_bytes)
  Declared,     \* artifacts computed by code whose configuration is declared
  Storable,     \* artifacts and structures whose charge fits the store at all
  None,
  MaxClock, MaxHidden, MaxCalls, MaxDepth   \* bounds

Never  == MaxClock + 1
Kinds  == {"cancelled", "exhausted", "budget", "memory", "error"}
Stages == {"prepare_evidence", "compile", "plan", "infer", "evaluate"}

(***************************************************************************)
(* A request names the stage, the artifacts it needs, in order (`endless`: *)
(* the last one over and over, as a sampler sweeps), the dependency        *)
(* structure and the numerics of the model it compiles, its control, its   *)
(* reuse flag, a max_seconds limit on solving, and whether the engine or   *)
(* evaluator keeps partial results.  No artifact is a structure: the store *)
(* keeps each kind in a namespace of its own ("dependency.previous").      *)
(***************************************************************************)
ASSUME SessionAssumption ==
  /\ MaxClock \in Nat /\ MaxHidden \in Nat /\ MaxCalls \in Nat /\ MaxDepth \in Nat
  /\ Deadline \in [Controls -> 0..Never]
  /\ None \notin Controls
  /\ \A q \in Requests :
       /\ q.stage \in Stages
       /\ q.items \in Seq(STRING) /\ q.endless \in BOOLEAN
       /\ q.endless => q.items # <<>>
       /\ q.control \in Controls \union {None}
       /\ q.reuse \in BOOLEAN
       /\ q.seconds \in Nat \union {None}
       /\ q.partial \in BOOLEAN
       /\ \A r \in Requests : \A i \in DOMAIN q.items : q.items[i] # r.structure

VARIABLES
  stack,      \* calls under way, innermost last
  raised,     \* kind of the exception a nested call left in the callback
  retained,   \* the store: artifact or structure -> value
  counts,     \* the store's lookup counters
  closed,     \* the session was closed
  last,       \* session.last_assessment
  cancelled,  \* controls that were cancelled
  clock,      \* monotonic time
  hidden,     \* undeclared configuration of external code
  calls,      \* calls made so far
  ended,      \* history: the call that ended most recently
  compiled    \* history: structure -> numerics last compiled with reuse

session == <<retained, counts, closed, last, ended, compiled>>
world   == <<cancelled, clock, hidden>>
vars    == <<stack, raised, session, world, calls>>

Top == Last(stack)

Become(f) == stack' = Append(Front(stack), f)

Running == stack # <<>> /\ raised = None

\* The caller's code runs: before any call, or in a progress callback.
CallerRuns == raised = None /\ (stack # <<>> => Top.phase = "reporting")

With(f, x, y) == [z \in DOMAIN f \union {x} |-> IF z = x THEN y ELSE f[z]]

Init ==
  /\ stack = <<>>
  /\ raised = None
  /\ retained = <<>>
  /\ counts = [hits |-> 0, misses |-> 0]
  /\ closed = FALSE
  /\ last = None
  /\ cancelled = {}
  /\ clock = 0
  /\ hidden = 0
  /\ calls = 0
  /\ ended = None
  /\ compiled = <<>>

-----------------------------------------------------------------------------
(***************************************************************************)
(* How a call ends                                                         *)
(***************************************************************************)
Status(kind) ==
  CASE kind = "cancelled" -> "cancelled"
    [] kind \in {"exhausted", "budget", "memory"} -> "resource-exhausted"
    [] kind = "error" -> "failed"

\* What the caller of the facade sees: MemoryError became ResourceExhausted.
Outward(kind) == IF kind = "memory" THEN "exhausted" ELSE kind

Assessment(f, status) ==
  LET since(c) == IF f.store THEN counts[c] - f.before[c] ELSE 0
  IN  [call |-> f.id, status |-> status,
       hits |-> since("hits"), misses |-> since("misses")]

End(f, status) ==
  /\ stack' = Front(stack)
  /\ last' = Assessment(f, status)
  /\ ended' = f.id

\* The samplers and the query loop keep what was completed before a stop.
Salvages(f, kind) ==
  /\ kind \in {"cancelled", "exhausted"}
  /\ f.request.partial
  /\ f.pc \in {"step", "compute"}
  /\ f.pos > 1

\* Mutant: a salvaged call does not say that it was stopped.
FailSilently(kind) ==
  IF Salvages(Top, kind)
  THEN /\ Become([Top EXCEPT !.pc = "finish", !.phase = "before"])
       /\ raised' = None
       /\ UNCHANGED <<last, ended>>
  ELSE /\ End(Top, Status(kind))
       /\ raised' = IF Len(stack) = 1 THEN None ELSE Outward(kind)

Fail(kind) ==
  IF Salvages(Top, kind)
  THEN /\ Become([Top EXCEPT !.pc = "finish", !.phase = "before", !.status = Status(kind)])
       /\ raised' = None
       /\ UNCHANGED <<last, ended>>
  ELSE /\ End(Top, Status(kind))
       /\ raised' = IF Len(stack) = 1 THEN None ELSE Outward(kind)

Failing(kind) ==
  /\ Fail(kind)
  /\ UNCHANGED <<retained, counts, closed, compiled, world, calls>>

-----------------------------------------------------------------------------
(***************************************************************************)
(* Making a call                                                           *)
(***************************************************************************)
Begin(q) ==
  [id |-> calls + 1, request |-> q, store |-> q.reuse, before |-> counts,
   deadline |-> IF q.control = None THEN Never ELSE Deadline[q.control],
   pc |-> "enter", phase |-> "before", pos |-> 1, status |-> "complete"]

\* store_for() refuses once the session is closed.
Refuses == closed

\* Nothing of a closed session is used: the caller gets an exception.
Rejected == raised' = IF stack = <<>> THEN None ELSE "error"

Call(q) ==
  /\ CallerRuns
  /\ calls < MaxCalls
  /\ Len(stack) < MaxDepth
  /\ calls' = calls + 1
  /\ IF Refuses THEN Rejected /\ UNCHANGED stack
     ELSE stack' = Append(stack, Begin(q)) /\ UNCHANGED raised
  /\ UNCHANGED <<session, world>>

(***************************************************************************)
(* Checkpoints                                                             *)
(***************************************************************************)
\* Mutant: cancellation is looked at when a call begins.
CancelledAtEntry(f) == f.pc = "enter" /\ f.request.control \in cancelled

Cancelled(f) == f.request.control \in cancelled

Overdue(f) == clock >= f.deadline

StopKind(f) == IF Cancelled(f) THEN "cancelled" ELSE "exhausted"

HasCallback(f) == f.request.control \in Reporting

\* Mutant: the child control starts a deadline of its own.
LimitedAfresh(f) ==
  IF f.request.seconds = None THEN f.deadline ELSE clock + f.request.seconds

\* infer() solves under a child control: the deadline may only come closer.
Limited(f) ==
  IF f.request.seconds = None THEN f.deadline
  ELSE LET own == clock + f.request.seconds
       IN  IF own < f.deadline THEN own ELSE f.deadline

\* Mutant: one step too many.
AfterWorkAgain(q, pos) ==
  IF pos <= Len(q.items) + 1 THEN "step"
  ELSE IF q.stage = "compile" /\ q.reuse THEN "explain" ELSE "finish"

AfterWork(q, pos) ==
  IF pos <= Len(q.items) THEN "step"
  ELSE IF q.stage = "compile" /\ q.reuse THEN "explain" ELSE "finish"

Passed(f) ==
  CASE f.pc = "enter"   -> [f EXCEPT !.phase = "before", !.deadline = Limited(f),
                                     !.pc = AfterWork(f.request, 1)]
    [] f.pc = "step"    -> [f EXCEPT !.phase = "before", !.pc = "lookup"]
    [] f.pc = "compute" -> [f EXCEPT !.phase = "before", !.pc = "keep"]

AtCheckpoint(phase) ==
  /\ Running
  /\ Top.pc \in {"enter", "step", "compute"}
  /\ Top.phase = phase

Proceed(f) == Become(f) /\ UNCHANGED <<raised, session, world, calls>>

Check ==
  /\ AtCheckpoint("before")
  /\ IF Cancelled(Top) \/ Overdue(Top) THEN Failing(StopKind(Top))
     ELSE \/ Top.request.control \in Budgeted /\ Failing("exhausted")
          \/ Proceed(IF HasCallback(Top) THEN [Top EXCEPT !.phase = "reporting"]
                     ELSE Passed(Top))

Resume ==
  /\ AtCheckpoint("reporting")
  /\ Proceed([Top EXCEPT !.phase = "after"])

Recheck ==
  /\ AtCheckpoint("after")
  /\ IF Cancelled(Top) \/ Overdue(Top) THEN Failing(StopKind(Top)) ELSE Proceed(Passed(Top))

\* The callback raises an exception of its own.
CallbackRaises == AtCheckpoint("reporting") /\ Failing("error")

\* A nested call failed: its exception passes through the callback, or not.
Propagate == stack # <<>> /\ raised # None /\ Failing(raised)

Swallow ==
  /\ raised # None
  /\ raised' = None
  /\ UNCHANGED <<stack, session, world, calls>>

-----------------------------------------------------------------------------
(***************************************************************************)
(* The work of a call: cached(), put() and explain_dependencies()          *)
(***************************************************************************)
Item(f) == f.request.items[f.pos]

\* What computing the artifact gives, now.
Fresh(a) == <<a, IF a \in Declared THEN 0 ELSE hidden>>

\* Mutant: artifacts of code that declares nothing are kept as well.
UsesAnyway(f) == f.store

Uses(f) == f.store /\ Item(f) \in Declared

Count(event) == counts' = [counts EXCEPT ![event] = @ + 1]

Consumed(f) ==
  LET q    == f.request
      next == IF q.endless /\ f.pos = Len(q.items) THEN f.pos ELSE f.pos + 1
  IN  [f EXCEPT !.pos = next, !.pc = AfterWork(q, next)]

Lookup ==
  /\ Running
  /\ Top.pc = "lookup"
  /\ IF Uses(Top) /\ Item(Top) \in DOMAIN retained
     THEN Become(Consumed(Top)) /\ Count("hits")
     ELSE /\ Become([Top EXCEPT !.pc = "compute"])
          /\ IF Uses(Top) THEN Count("misses") ELSE UNCHANGED counts
  /\ UNCHANGED <<raised, retained, closed, last, ended, compiled, world, calls>>

\* The computation fails by itself.
ComputeFails(kind) == AtCheckpoint("before") /\ Top.pc = "compute" /\ Failing(kind)

\* An insertion is refused, or displaces some of the other artifacts.
Put(a, value) ==
  IF a \notin Storable THEN UNCHANGED retained
  ELSE \E kept \in SUBSET (DOMAIN retained \ {a}) :
         retained' = With(Restrict(retained, kept), a, value)

Keep ==
  /\ Running
  /\ Top.pc = "keep"
  /\ Become(Consumed(Top))
  /\ IF Uses(Top) THEN Put(Item(Top), Fresh(Item(Top))) ELSE UNCHANGED retained
  /\ UNCHANGED <<raised, counts, closed, last, ended, compiled, world, calls>>

\* Mutant: the numerics of a structure are kept once.
PutOnce(s, numerics) ==
  IF s \in DOMAIN retained THEN UNCHANGED retained ELSE Put(s, numerics)

PutNumerics(s, numerics) == Put(s, numerics)

\* What the model is compared with: the numerics retained for its structure.
Previous(s) == IF s \in DOMAIN retained THEN retained[s] ELSE None

\* compile_model() explains what changed since the last model of the same
\* structure.  A session closed meanwhile refuses.
Explain ==
  /\ Running
  /\ Top.pc = "explain"
  /\ LET q == Top.request
     IN  IF Refuses THEN Failing("error")
         ELSE /\ PutNumerics(q.structure, q.numerics)
              /\ Count(IF Previous(q.structure) = None THEN "misses" ELSE "hits")
              /\ compiled' = With(compiled, q.structure, q.numerics)
              /\ Become([Top EXCEPT !.pc = "finish"])
              /\ UNCHANGED <<raised, closed, last, ended, world, calls>>

Return ==
  /\ Running
  /\ Top.pc = "finish"
  /\ End(Top, Top.status)
  /\ UNCHANGED <<raised, retained, counts, closed, compiled, world, calls>>

-----------------------------------------------------------------------------
(***************************************************************************)
(* The caller, another thread, and the world                               *)
(***************************************************************************)
Clear ==
  /\ CallerRuns
  /\ IF Refuses THEN Rejected /\ UNCHANGED <<retained, compiled>>
     ELSE retained' = <<>> /\ compiled' = <<>> /\ UNCHANGED raised
  /\ UNCHANGED <<stack, counts, closed, last, ended, world, calls>>

\* close(), and leaving the session's with-block.
Close ==
  /\ CallerRuns
  /\ retained' = <<>>
  /\ compiled' = <<>>
  /\ last' = None
  /\ closed' = TRUE
  /\ UNCHANGED <<stack, raised, counts, ended, world, calls>>

Cancel(c) ==
  /\ c \notin cancelled
  /\ cancelled' = cancelled \union {c}
  /\ UNCHANGED <<stack, raised, session, clock, hidden, calls>>

Tick ==
  /\ clock < MaxClock
  /\ clock' = clock + 1
  /\ UNCHANGED <<stack, raised, session, cancelled, hidden, calls>>

Reconfigure ==
  /\ CallerRuns
  /\ hidden < MaxHidden
  /\ hidden' = hidden + 1
  /\ UNCHANGED <<stack, raised, session, cancelled, clock, calls>>

\* Steps of the thread that makes the calls, callbacks included, other than
\* those the caller chooses to make.
Step ==
  \/ Check
  \/ Resume
  \/ Recheck
  \/ Propagate
  \/ Lookup
  \/ Keep
  \/ Explain
  \/ Return

Next ==
  \/ Step
  \/ CallbackRaises
  \/ Swallow
  \/ \E kind \in {"budget", "memory", "error"} : ComputeFails(kind)
  \/ \E q \in Requests : Call(q)
  \/ Clear
  \/ Close
  \/ \E c \in Controls : Cancel(c)
  \/ Tick
  \/ Reconfigure

Spec == Init /\ [][Next]_vars

\* The calling thread runs, and progress callbacks return.
FairSpec == Spec /\ WF_vars(Step)

-----------------------------------------------------------------------------
Frame(f) ==
  /\ f.id \in 1..calls
  /\ f.request \in Requests
  /\ f.store = f.request.reuse
  /\ f.deadline \in Nat
  /\ f.pc \in {"enter", "step", "lookup", "compute", "keep", "explain", "finish"}
  /\ f.phase \in {"before", "reporting", "after"}
  /\ f.pos \in 1..(Len(f.request.items) + 1)
  /\ f.pc \in {"step", "lookup", "compute", "keep"} => f.pos <= Len(f.request.items)
  /\ f.status \in {"complete", "cancelled", "resource-exhausted"}

\* The shape of the session's state; a call works on an artifact it was asked
\* for, and is suspended only in a callback.
TypeOK ==
  /\ calls \in 0..MaxCalls
  /\ Len(stack) <= MaxDepth
  /\ \A i \in DOMAIN stack : Frame(stack[i])
  /\ \A i \in 1..(Len(stack) - 1) : stack[i].phase = "reporting" /\ stack[i].id < stack[i + 1].id
  /\ raised \in Kinds \union {None}
  /\ raised # None => stack # <<>> /\ Top.phase = "reporting"
  /\ closed \in BOOLEAN
  /\ cancelled \subseteq Controls
  /\ clock \in 0..MaxClock

Structures == {q.structure : q \in Requests}

\* Reuse cannot change what is calculated: whatever the store retains for an
\* artifact is what computing the artifact now would give, although external
\* code may be reconfigured at any time (cached(), extension_key()).
RetainedIsFresh ==
  \A a \in DOMAIN retained \ Structures : retained[a] = Fresh(a)

\* The explanation of a compilation compares with the model of the structure
\* compiled last, never with an older one, whatever was evicted, refused or
\* compiled by nested calls in between (explain_dependencies()).
ExplainsPrevious ==
  \A s \in Structures \intersect DOMAIN retained :
    s \in DOMAIN compiled /\ retained[s] = compiled[s]

\* Neither kind of reuse is ever of something old: artifacts are what they
\* would be now, and numerics are those of the last compilation.
ReuseIsFresh == RetainedIsFresh /\ ExplainsPrevious

\* The innermost call passes a checkpoint and goes on with its work.
GoesOn ==
  /\ stack # <<>>
  /\ Len(stack') = Len(stack)
  /\ Top.pc \in {"enter", "step", "compute"}
  /\ Last(stack').pc \in {"lookup", "keep", "step", "explain", "finish"}
  /\ Last(stack').pc # Top.pc
  /\ Last(stack').status = "complete"

\* Nothing goes on under a control that was cancelled or whose deadline has
\* passed, whether that happened before the checkpoint or in its callback, and
\* although solving is subject to a child control with a limit of its own.
NoWorkAfterStop ==
  [][GoesOn /\ Top.request.control # None =>
       /\ Top.request.control \notin cancelled
       /\ clock < Deadline[Top.request.control]]_vars

\* An assessment is honest: "complete" is reported only of a call that worked
\* through all it was asked for, "cancelled" only if something was cancelled.
HonestStatus ==
  [][ended' # ended =>
       /\ last'.status = "complete" => Top.pos > Len(Top.request.items)
       /\ last'.status = "cancelled" => cancelled # {}]_vars

\* Cancelling every control ends every call, those included that would work
\* for ever and those made in progress callbacks.
AllCancelledEnds == Controls \subseteq cancelled ~> stack = <<>>

\* Closing releases what the session stored.  (The documentation says so; a
\* call under way when its callback closes the session makes it untrue.)
ClosedHoldsNothing == closed => retained = <<>>

=============================================================================
