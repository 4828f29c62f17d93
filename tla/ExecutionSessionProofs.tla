----------------------- MODULE ExecutionSessionProofs -----------------------
(***************************************************************************)
(* A session's calls, for every set of requests, controls and deadlines,   *)
(* and for calls nested in callbacks to any depth: what is reused is       *)
(* fresh, a stop stops, and assessments are honest.                        *)
(***************************************************************************)
EXTENDS ExecutionSession, SequenceTheorems, TLAPS

-----------------------------------------------------------------------------
(***************************************************************************)
(* The inductive invariant                                                 *)
(***************************************************************************)
Pcs == {"enter", "step", "lookup", "compute", "keep", "explain", "finish"}

Frames ==
  [id : Nat, request : Requests, store : BOOLEAN, before : [hits : Nat, misses : Nat],
   deadline : Nat, pc : Pcs, phase : {"before", "reporting", "after"}, pos : Nat,
   status : {"complete", "cancelled", "resource-exhausted"}]

\* A call has the position its program counter says; its deadline is not
\* later than its control's, and it was not stopped unless it is finishing.
FrameInv(f) ==
  /\ Frame(f)
  /\ f.pc = "enter" => f.pos = 1
  /\ f.pc \in {"explain", "finish"} /\ f.status = "complete" => f.pos > Len(f.request.items)
  /\ f.status # "complete" => f.pc = "finish"
  /\ f.status = "cancelled" => cancelled # {}
  /\ f.request.control # None => f.deadline <= Deadline[f.request.control]

\* Every call but the innermost is in a callback.
StackInv ==
  /\ stack \in Seq(Frames)
  /\ Len(stack) <= MaxDepth
  /\ \A i \in 1..Len(stack) : FrameInv(stack[i])
  /\ \A i \in 1..(Len(stack) - 1) : stack[i].phase = "reporting" /\ stack[i].id < stack[i + 1].id

WorldInv ==
  /\ calls \in 0..MaxCalls
  /\ counts \in [hits : Nat, misses : Nat]
  /\ raised \in Kinds \union {None}
  /\ raised # None => stack # <<>> /\ Top.phase = "reporting"
  /\ raised # None /\ raised = "cancelled" => cancelled # {}
  /\ closed \in BOOLEAN
  /\ cancelled \subseteq Controls
  /\ clock \in 0..MaxClock

SessionInv == StackInv /\ WorldInv

\* What is retained fits the store; an artifact is retained only if its code
\* declares what it depends on, numerics only if compiled last.
StoreInv ==
  /\ DOMAIN retained \subseteq Storable
  /\ \A a \in DOMAIN retained \ Structures : a \in Declared /\ retained[a] = <<a, 0>>
  /\ ExplainsPrevious

-----------------------------------------------------------------------------
(***************************************************************************)
(* The stack of calls                                                      *)
(***************************************************************************)

\* The innermost call, and the calls it is nested in.
LEMMA TopOfStack ==
  ASSUME StackInv, stack # <<>>
  PROVE  /\ Len(stack) \in Nat \ {0}
         /\ Top = stack[Len(stack)] /\ Top \in Frames /\ FrameInv(Top)
         /\ Front(stack) \in Seq(Frames) /\ Len(Front(stack)) = Len(stack) - 1
         /\ \A i \in 1..(Len(stack) - 1) : Front(stack)[i] = stack[i]
<1>1. stack \in Seq(Frames)
  BY DEF StackInv
<1>2. Len(stack) \in Nat \ {0}
  BY <1>1, EmptySeq
<1>3. \A i \in 1..Len(stack) : stack[i] \in Frames
  BY <1>1, ElementOfSeq
<1>4. Top = stack[Len(stack)]
  BY DEF Top, Last
<1>5. Top \in Frames /\ FrameInv(Top)
  BY <1>2, <1>3, <1>4 DEF StackInv
<1>6. /\ SubSeq(stack, 1, Len(stack) - 1) \in Seq(Frames)
      /\ Len(SubSeq(stack, 1, Len(stack) - 1)) = Len(stack) - 1
      /\ \A i \in 1..(Len(stack) - 1) : SubSeq(stack, 1, Len(stack) - 1)[i] = stack[i]
  <2>1. \A i \in 1..(Len(stack) - 1) : stack[i] \in Frames
    BY <1>2, <1>3
  <2> DEFINE n == Len(stack) - 1
  <2>2. 1 \in Int /\ n \in Nat
    BY <1>2
  <2> HIDE DEF n
  <2>3. /\ SubSeq(stack, 1, n) \in Seq(Frames)
        /\ Len(SubSeq(stack, 1, n)) = IF 1 <= n THEN n - 1 + 1 ELSE 0
        /\ \A i \in 1..(n - 1 + 1) : SubSeq(stack, 1, n)[i] = stack[1 + i - 1]
    BY <2>1, <2>2, SubSeqProperties DEF n
  <2>4. Len(SubSeq(stack, 1, n)) = n
    BY <2>2, <2>3
  <2>5. \A i \in 1..n : SubSeq(stack, 1, n)[i] = stack[i]
    BY <2>2, <2>3
  <2> QED
    BY <2>3, <2>4, <2>5 DEF n
<1> QED
  BY <1>2, <1>4, <1>5, <1>6 DEF Front

\* The innermost call goes on as g.
LEMMA BecomeStack ==
  ASSUME StackInv, stack # <<>>, NEW g \in Frames, Become(g)
  PROVE  /\ stack' \in Seq(Frames) /\ Len(stack') = Len(stack) /\ stack' # <<>>
         /\ Last(stack') = g /\ stack'[Len(stack)] = g
         /\ \A i \in 1..(Len(stack) - 1) : stack'[i] = stack[i]
<1> DEFINE front == Front(stack)
<1>1. /\ Len(stack) \in Nat \ {0}
      /\ front \in Seq(Frames) /\ Len(front) = Len(stack) - 1
      /\ \A i \in 1..(Len(stack) - 1) : front[i] = stack[i]
  BY TopOfStack
<1>2. stack' = Append(front, g)
  BY DEF Become
<1> HIDE DEF front
<1>3. /\ stack' \in Seq(Frames) /\ stack' # <<>> /\ Len(stack') = Len(front) + 1
      /\ \A i \in 1..Len(front) : stack'[i] = front[i]
      /\ stack'[Len(front) + 1] = g
  BY <1>1, <1>2, AppendProperties
<1>4. Len(stack') = Len(stack) /\ stack'[Len(stack)] = g
  BY <1>1, <1>3
<1> QED
  BY <1>1, <1>3, <1>4 DEF Last

\* A call goes on, as the same call.
LEMMA BecomeInv ==
  ASSUME StackInv, stack # <<>>, NEW g \in Frames, Become(g),
         g.id = Top.id, FrameInv(g), UNCHANGED <<calls, cancelled>>
  PROVE  StackInv'
<1>1. Len(stack) \in Nat \ {0} /\ Top = stack[Len(stack)]
  BY TopOfStack
<1>2. /\ stack' \in Seq(Frames) /\ Len(stack') = Len(stack)
      /\ stack'[Len(stack)] = g
      /\ \A i \in 1..(Len(stack) - 1) : stack'[i] = stack[i]
  BY BecomeStack
<1>3. \A f : FrameInv(f) => FrameInv(f)'
  BY DEF FrameInv, Frame
<1>4. ASSUME NEW i \in 1..Len(stack')
      PROVE  FrameInv(stack[i])'
  <2>1. CASE i = Len(stack)
    BY <1>2, <1>3, <2>1
  <2>2. CASE i # Len(stack)
    <3>1. i \in 1..(Len(stack) - 1) /\ i \in 1..Len(stack)
      BY <1>1, <1>2, <2>2
    <3>2. FrameInv(stack[i])
      BY <3>1 DEF StackInv
    <3> QED
      BY <1>2, <1>3, <3>1, <3>2
  <2> QED
    BY <2>1, <2>2
<1>5. ASSUME NEW i \in 1..(Len(stack') - 1)
      PROVE  stack'[i].phase = "reporting" /\ stack'[i].id < stack'[i + 1].id
  <2>1. stack[i].phase = "reporting" /\ stack[i].id < stack[i + 1].id /\ stack'[i] = stack[i]
    BY <1>2 DEF StackInv
  <2>2. CASE i + 1 = Len(stack)
    BY <1>1, <1>2, <2>1, <2>2
  <2>3. CASE i + 1 # Len(stack)
    <3>1. i + 1 \in 1..(Len(stack) - 1)
      BY <1>1, <1>2, <2>3
    <3> QED
      BY <1>2, <2>1, <3>1
  <2> QED
    BY <2>2, <2>3
<1>6. Len(stack') <= MaxDepth
  BY <1>2 DEF StackInv
<1> QED
  BY <1>2, <1>4, <1>5, <1>6 DEF StackInv

\* The innermost call ends: the call it was made in is in its callback.
LEMMA EndInv ==
  ASSUME StackInv, stack # <<>>, stack' = Front(stack), UNCHANGED <<calls, cancelled>>
  PROVE  /\ StackInv'
         /\ Len(stack') = Len(stack) - 1
         /\ Len(stack) # 1 => stack' # <<>> /\ Top'.phase = "reporting"
<1>1. Len(stack) \in Nat \ {0}
  BY TopOfStack
<1>2. /\ stack' \in Seq(Frames) /\ Len(stack') = Len(stack) - 1
      /\ \A i \in 1..(Len(stack) - 1) : stack'[i] = stack[i]
  BY TopOfStack
<1>3. \A f : FrameInv(f) => FrameInv(f)'
  BY DEF FrameInv, Frame
<1>4. ASSUME NEW i \in 1..Len(stack')
      PROVE  FrameInv(stack[i])'
  <2>1. i \in 1..(Len(stack) - 1) /\ i \in 1..Len(stack)
    BY <1>1, <1>2
  <2>2. FrameInv(stack[i])
    BY <2>1 DEF StackInv
  <2> QED
    BY <1>2, <1>3, <2>1, <2>2
<1>5. ASSUME NEW i \in 1..(Len(stack') - 1)
      PROVE  stack'[i].phase = "reporting" /\ stack'[i].id < stack'[i + 1].id
  <2>1. i \in 1..(Len(stack) - 1) /\ i + 1 \in 1..(Len(stack) - 1)
    BY <1>1, <1>2
  <2> QED
    BY <1>2, <2>1 DEF StackInv
<1>6. Len(stack') <= MaxDepth
  <2>1. Len(stack) <= MaxDepth /\ MaxDepth \in Nat
    BY SessionAssumption DEF StackInv
  <2> QED
    BY <1>1, <1>2, <2>1
<1>7. ASSUME Len(stack) # 1
      PROVE  stack' # <<>> /\ Top'.phase = "reporting"
  <2>1. Len(stack) - 1 \in 1..(Len(stack) - 1)
    BY <1>1, <1>7
  <2>2. stack'[Len(stack')].phase = "reporting"
    BY <1>2, <2>1 DEF StackInv
  <2>3. Len(stack') # 0
    BY <1>1, <1>2, <1>7
  <2>4. stack' # <<>>
    BY <2>3, EmptySeq
  <2> QED
    BY <2>2, <2>4 DEF Top, Last
<1>8. StackInv'
  BY <1>2, <1>4, <1>5, <1>6 DEF StackInv
<1> QED
  BY <1>2, <1>7, <1>8

\* Nothing happens to the stack, and nothing is uncancelled.
LEMMA SameInv ==
  ASSUME StackInv, UNCHANGED <<stack, calls>>, cancelled \subseteq cancelled'
  PROVE  StackInv'
<1>1. \A f : FrameInv(f) => FrameInv(f)'
  BY DEF FrameInv, Frame
<1> QED
  BY <1>1 DEF StackInv

-----------------------------------------------------------------------------
(***************************************************************************)
(* The innermost call                                                      *)
(***************************************************************************)

\* Passing a checkpoint, a call goes on; its deadline is not put off.
LEMMA PassedFrame ==
  ASSUME NEW f \in Frames, FrameInv(f), clock \in 0..MaxClock,
         f.pc \in {"enter", "step", "compute"}
  PROVE  Passed(f) \in Frames /\ Passed(f).id = f.id /\ FrameInv(Passed(f))
<1>1. /\ f.request \in Requests /\ f.pos \in Nat /\ f.deadline \in Nat
      /\ f.request.seconds \in Nat \union {None}
      /\ f.request.items \in Seq(STRING)
      /\ clock \in Nat
  BY SessionAssumption DEF Frames, FrameInv, Frame
<1>2. Len(f.request.items) \in Nat
  BY <1>1, LenProperties
<1>3. f.status = "complete"
  BY DEF FrameInv
<1>4. CASE f.pc = "enter"
  <2> DEFINE g == [f EXCEPT !.phase = "before", !.deadline = Limited(f), !.pc = AfterWork(f.request, 1)]
  <2>1. Passed(f) = g
    BY <1>4 DEF Passed
  <2>2. Limited(f) \in Nat /\ Limited(f) <= f.deadline
    BY <1>1 DEF Limited
  <2>3. /\ AfterWork(f.request, 1) \in {"step", "explain", "finish"}
        /\ AfterWork(f.request, 1) = "step" <=> 1 <= Len(f.request.items)
    BY <1>2 DEF AfterWork
  <2>4. /\ g \in Frames /\ g.id = f.id /\ g.request = f.request /\ g.store = f.store
        /\ g.deadline = Limited(f) /\ g.pc = AfterWork(f.request, 1) /\ g.phase = "before"
        /\ g.pos = f.pos /\ g.status = f.status
    BY <2>2, <2>3 DEF Frames, Pcs
  <2>5. f.pos = 1
    BY <1>4 DEF FrameInv
  <2>6. f.request.control # None => Limited(f) <= Deadline[f.request.control]
    <3>1. ASSUME f.request.control # None
          PROVE  Deadline[f.request.control] \in Int
      <4>1. f.request.control \in Controls
        BY <1>1, <3>1, SessionAssumption
      <4>2. Deadline[f.request.control] \in 0..Never
        BY <4>1, SessionAssumption
      <4> QED
        BY <4>2
    <3> QED
      BY <1>1, <2>2, <3>1 DEF FrameInv
  <2> HIDE DEF g
  <2>7. Frame(g)
    BY <1>1, <1>2, <2>2, <2>3, <2>4, <2>5 DEF FrameInv, Frame
  <2>8. FrameInv(g)
    BY <1>2, <1>3, <2>3, <2>4, <2>5, <2>6, <2>7 DEF FrameInv
  <2> QED
    BY <2>1, <2>4, <2>8
<1>5. CASE f.pc = "step"
  <2> DEFINE g == [f EXCEPT !.phase = "before", !.pc = "lookup"]
  <2>1. Passed(f) = g
    BY <1>5 DEF Passed
  <2>2. /\ g \in Frames /\ g.id = f.id /\ g.request = f.request /\ g.store = f.store
        /\ g.deadline = f.deadline /\ g.pc = "lookup" /\ g.phase = "before"
        /\ g.pos = f.pos /\ g.status = f.status
    BY DEF Frames, Pcs
  <2> HIDE DEF g
  <2>3. FrameInv(g)
    BY <1>3, <1>5, <2>2 DEF FrameInv, Frame
  <2> QED
    BY <2>1, <2>2, <2>3
<1>6. CASE f.pc = "compute"
  <2> DEFINE g == [f EXCEPT !.phase = "before", !.pc = "keep"]
  <2>1. Passed(f) = g
    BY <1>6 DEF Passed
  <2>2. /\ g \in Frames /\ g.id = f.id /\ g.request = f.request /\ g.store = f.store
        /\ g.deadline = f.deadline /\ g.pc = "keep" /\ g.phase = "before"
        /\ g.pos = f.pos /\ g.status = f.status
    BY DEF Frames, Pcs
  <2> HIDE DEF g
  <2>3. FrameInv(g)
    BY <1>3, <1>6, <2>2 DEF FrameInv, Frame
  <2> QED
    BY <2>1, <2>2, <2>3
<1> QED
  BY <1>4, <1>5, <1>6

\* With an artifact done, a call goes on to the next, or has worked through all.
LEMMA ConsumedFrame ==
  ASSUME NEW f \in Frames, FrameInv(f), f.pc \in {"lookup", "keep"}
  PROVE  Consumed(f) \in Frames /\ Consumed(f).id = f.id /\ FrameInv(Consumed(f))
<1> DEFINE q    == f.request
           next == IF q.endless /\ f.pos = Len(q.items) THEN f.pos ELSE f.pos + 1
           g    == [f EXCEPT !.pos = next, !.pc = AfterWork(q, next)]
<1>1. q \in Requests /\ f.pos \in Nat /\ q.items \in Seq(STRING)
  BY SessionAssumption DEF Frames, FrameInv, Frame
<1>2. Len(q.items) \in Nat /\ f.pos \in 1..Len(q.items)
  <2>1. Len(q.items) \in Nat
    BY <1>1, LenProperties
  <2> QED
    BY <1>1, <2>1 DEF FrameInv, Frame
<1>3. f.status = "complete"
  BY DEF FrameInv
<1>4. next \in Nat /\ next \in 1..(Len(q.items) + 1)
  BY <1>2
<1>5. /\ AfterWork(q, next) \in {"step", "explain", "finish"}
      /\ AfterWork(q, next) = "step" <=> next <= Len(q.items)
  BY <1>2, <1>4 DEF AfterWork
<1>6. Consumed(f) = g
  BY DEF Consumed
<1> HIDE DEF next
<1>7. /\ g \in Frames /\ g.id = f.id /\ g.request = q /\ g.store = f.store
      /\ g.deadline = f.deadline /\ g.pc = AfterWork(q, next) /\ g.phase = f.phase
      /\ g.pos = next /\ g.status = f.status
  BY <1>4, <1>5 DEF Frames, Pcs
<1> HIDE DEF g
<1>8. Frame(g)
  BY <1>2, <1>4, <1>5, <1>7 DEF FrameInv, Frame
<1>9. FrameInv(g)
  BY <1>2, <1>3, <1>4, <1>5, <1>7, <1>8 DEF FrameInv
<1> QED
  BY <1>6, <1>7, <1>9

\* A call goes on without an exception.
LEMMA GoOnInv ==
  ASSUME SessionInv, stack # <<>>, NEW g \in Frames, Become(g), g.id = Top.id, FrameInv(g),
         raised' = None, counts' \in [hits : Nat, misses : Nat],
         UNCHANGED <<calls, cancelled, clock, closed>>
  PROVE  SessionInv'
<1>1. StackInv'
  BY BecomeInv DEF SessionInv
<1> QED
  BY <1>1 DEF SessionInv, WorldInv

\* A call fails: it keeps what is complete, or ends with an exception.
LEMMA FailingInv ==
  ASSUME SessionInv, stack # <<>>, NEW kind \in Kinds, Failing(kind),
         kind = "cancelled" => cancelled # {}
  PROVE  SessionInv'
<1>1. UNCHANGED <<calls, cancelled, clock, closed, counts>>
  BY DEF Failing, world
<1>2. CASE Salvages(Top, kind)
  <2> DEFINE g == [Top EXCEPT !.pc = "finish", !.phase = "before", !.status = Status(kind)]
  <2>1. Become(g) /\ raised' = None
    BY <1>2 DEF Failing, Fail
  <2>2. Top \in Frames /\ FrameInv(Top)
    BY TopOfStack DEF SessionInv
  <2>3. Status(kind) \in {"cancelled", "resource-exhausted"}
        /\ (Status(kind) = "cancelled" => kind = "cancelled")
    BY <1>2 DEF Salvages, Status
  <2>4. /\ g \in Frames /\ g.id = Top.id /\ g.request = Top.request /\ g.store = Top.store
        /\ g.deadline = Top.deadline /\ g.pc = "finish" /\ g.phase = "before"
        /\ g.pos = Top.pos /\ g.status = Status(kind)
    BY <2>2, <2>3 DEF Frames, Pcs
  <2> HIDE DEF g
  <2>5. FrameInv(g)
    BY <2>2, <2>3, <2>4 DEF FrameInv, Frame
  <2>6. counts' \in [hits : Nat, misses : Nat]
    BY <1>1 DEF SessionInv, WorldInv
  <2> QED
    BY <1>1, <2>1, <2>4, <2>5, <2>6, GoOnInv
<1>3. CASE ~ Salvages(Top, kind)
  <2>1. stack' = Front(stack) /\ raised' = IF Len(stack) = 1 THEN None ELSE Outward(kind)
    BY <1>3 DEF Failing, Fail, End
  <2>2. /\ StackInv'
        /\ Len(stack) # 1 => stack' # <<>> /\ Top'.phase = "reporting"
    BY <1>1, <2>1, EndInv DEF SessionInv
  <2>3. /\ raised' \in Kinds \union {None}
        /\ raised' # None => stack' # <<>> /\ Top'.phase = "reporting"
        /\ raised' # None /\ raised' = "cancelled" => cancelled' # {}
    BY <1>1, <2>1, <2>2 DEF Outward, Kinds
  <2> QED
    BY <1>1, <2>2, <2>3 DEF SessionInv, WorldInv
<1> QED
  BY <1>2, <1>3

-----------------------------------------------------------------------------
(***************************************************************************)
(* Every step keeps the calls in order                                     *)
(***************************************************************************)

\* A new call is nested in a callback of the innermost.
LEMMA CallInv ==
  ASSUME SessionInv, NEW q \in Requests, Call(q)
  PROVE  SessionInv'
<1>1. /\ CallerRuns /\ Len(stack) < MaxDepth /\ calls' = calls + 1
      /\ UNCHANGED <<counts, closed, cancelled, clock>>
  BY DEF Call, session, world
<1>2. calls \in Nat /\ calls' \in Nat /\ calls < MaxCalls /\ MaxCalls \in Nat /\ MaxDepth \in Nat
      /\ calls' \in 0..MaxCalls
  BY SessionAssumption, <1>1 DEF Call, SessionInv, WorldInv
<1>3. \A f : FrameInv(f) => FrameInv(f)'
  BY <1>1, <1>2 DEF FrameInv, Frame
<1>4. raised = None
  BY <1>1 DEF CallerRuns
<1>5. CASE Refuses
  <2>1. UNCHANGED stack /\ raised' = IF stack = <<>> THEN None ELSE "error"
    BY <1>5 DEF Call, Rejected
  <2>2. StackInv'
    BY <1>3, <2>1 DEF SessionInv, StackInv
  <2>3. stack # <<>> => Top.phase = "reporting"
    BY <1>1 DEF CallerRuns
  <2> QED
    BY <1>1, <1>2, <2>1, <2>2, <2>3 DEF SessionInv, WorldInv, Kinds, Top
<1>6. CASE ~ Refuses
  <2> DEFINE g == Begin(q)
  <2>1. stack' = Append(stack, g) /\ UNCHANGED raised
    BY <1>6 DEF Call
  <2>2. q.items \in Seq(STRING) /\ q.control \in Controls \union {None} /\ q.reuse \in BOOLEAN
    BY SessionAssumption
  <2>3. Len(q.items) \in Nat
    BY <2>2, LenProperties
  <2>4. /\ (IF q.control = None THEN Never ELSE Deadline[q.control]) \in Nat
        /\ q.control # None => Deadline[q.control] \in Nat
    <3>1. Never \in Nat
      BY SessionAssumption DEF Never
    <3>2. ASSUME q.control # None
          PROVE  Deadline[q.control] \in Nat
      <4>1. Deadline[q.control] \in 0..Never
        BY <2>2, <3>2, SessionAssumption
      <4> QED
        BY <3>1, <4>1
    <3> QED
      BY <3>1, <3>2
  <2>5. counts \in [hits : Nat, misses : Nat]
    BY DEF SessionInv, WorldInv
  <2>6. /\ g \in Frames /\ g.id = calls + 1 /\ g.request = q /\ g.store = q.reuse
        /\ g.deadline = IF q.control = None THEN Never ELSE Deadline[q.control]
        /\ g.pc = "enter" /\ g.phase = "before" /\ g.pos = 1 /\ g.status = "complete"
    BY <1>2, <2>2, <2>4, <2>5 DEF Begin, Frames, Pcs
  <2> HIDE DEF g
  <2>7. ASSUME NEW f \in Frames, f = g
        PROVE  FrameInv(f)'
    BY <1>1, <1>2, <2>3, <2>4, <2>6, <2>7 DEF FrameInv, Frame
  <2>8. stack \in Seq(Frames) /\ Len(stack) \in Nat
    BY LenProperties DEF SessionInv, StackInv
  <2>9. /\ stack' \in Seq(Frames) /\ Len(stack') = Len(stack) + 1 /\ stack' # <<>>
        /\ \A i \in 1..Len(stack) : stack'[i] = stack[i]
        /\ stack'[Len(stack) + 1] = g
    BY <2>1, <2>6, <2>8, AppendProperties
  <2>10. ASSUME NEW i \in 1..Len(stack')
         PROVE  FrameInv(stack[i])'
    <3>1. CASE i = Len(stack) + 1
      BY <2>6, <2>7, <2>9, <3>1
    <3>2. CASE i # Len(stack) + 1
      <4>1. i \in 1..Len(stack)
        BY <2>8, <2>9, <3>2
      <4>2. FrameInv(stack[i])
        BY <4>1 DEF SessionInv, StackInv
      <4> QED
        BY <1>3, <2>9, <4>1, <4>2
    <3> QED
      BY <3>1, <3>2
  <2>11. ASSUME NEW i \in 1..(Len(stack') - 1)
         PROVE  stack'[i].phase = "reporting" /\ stack'[i].id < stack'[i + 1].id
    <3>1. i \in 1..Len(stack) /\ stack'[i] = stack[i]
      BY <2>8, <2>9
    <3>2. CASE i = Len(stack)
      <4>1. stack # <<>>
        BY <3>1, <3>2, EmptySeq
      <4>2. Top = stack[i] /\ Top.phase = "reporting"
        BY <1>1, <3>2, <4>1 DEF CallerRuns, Top, Last
      <4>3. stack[i].id \in 1..calls
        BY <3>1 DEF SessionInv, StackInv, FrameInv, Frame
      <4> QED
        BY <1>2, <2>6, <2>9, <3>1, <3>2, <4>2, <4>3
    <3>3. CASE i # Len(stack)
      <4>1. i \in 1..(Len(stack) - 1) /\ i + 1 \in 1..Len(stack)
        BY <2>8, <3>1, <3>3
      <4>2. stack[i].phase = "reporting" /\ stack[i].id < stack[i + 1].id
        BY <4>1 DEF SessionInv, StackInv
      <4> QED
        BY <2>9, <3>1, <4>1, <4>2
    <3> QED
      BY <3>2, <3>3
  <2>12. Len(stack') <= MaxDepth
    BY <1>1, <1>2, <2>8, <2>9
  <2>13. StackInv'
    BY <2>9, <2>10, <2>11, <2>12 DEF StackInv
  <2> QED
    BY <1>1, <1>2, <1>4, <2>1, <2>13 DEF SessionInv, WorldInv
<1> QED
  BY <1>5, <1>6

\* What is counted.
LEMMA CountType ==
  ASSUME SessionInv, NEW event \in {"hits", "misses"}, Count(event)
  PROVE  counts' \in [hits : Nat, misses : Nat]
BY DEF Count, SessionInv, WorldInv

\* The checkpoints, with their callbacks.
LEMMA CheckInv ==
  ASSUME SessionInv, Check \/ Resume \/ Recheck
  PROVE  SessionInv'
<1>1. /\ stack # <<>> /\ raised = None
      /\ Top.pc \in {"enter", "step", "compute"}
  BY DEF Check, Resume, Recheck, AtCheckpoint, Running
<1>2. Top \in Frames /\ FrameInv(Top)
  BY <1>1, TopOfStack DEF SessionInv
<1>3. ASSUME Cancelled(Top) \/ Overdue(Top), Failing(StopKind(Top))
      PROVE  SessionInv'
  <2>1. StopKind(Top) \in Kinds /\ (StopKind(Top) = "cancelled" => cancelled # {})
    BY DEF StopKind, Kinds, Cancelled
  <2> QED
    BY <1>1, <1>3, <2>1, FailingInv
<1>4. ASSUME Failing("exhausted")
      PROVE  SessionInv'
  <2>1. "exhausted" \in Kinds
    BY DEF Kinds
  <2> QED
    BY <1>1, <1>4, <2>1, FailingInv
<1>5. ASSUME NEW g \in Frames, g.id = Top.id, FrameInv(g), Proceed(g)
      PROVE  SessionInv'
  <2>1. Become(g) /\ UNCHANGED <<raised, counts, calls, cancelled, clock, closed>>
    BY <1>5 DEF Proceed, session, world
  <2>2. counts' \in [hits : Nat, misses : Nat]
    BY <2>1 DEF SessionInv, WorldInv
  <2> QED
    BY <1>1, <1>5, <2>1, <2>2, GoOnInv
<1>6. ASSUME Proceed(Passed(Top))
      PROVE  SessionInv'
  <2>1. clock \in 0..MaxClock
    BY DEF SessionInv, WorldInv
  <2>2. Passed(Top) \in Frames /\ Passed(Top).id = Top.id /\ FrameInv(Passed(Top))
    BY <1>1, <1>2, <2>1, PassedFrame
  <2> QED
    BY <1>5, <1>6, <2>2
<1>7. ASSUME NEW phase \in {"reporting", "after"}, Proceed([Top EXCEPT !.phase = phase])
      PROVE  SessionInv'
  <2> DEFINE g == [Top EXCEPT !.phase = phase]
  <2>1. /\ g \in Frames /\ g.id = Top.id /\ g.request = Top.request /\ g.store = Top.store
        /\ g.deadline = Top.deadline /\ g.pc = Top.pc /\ g.phase = phase
        /\ g.pos = Top.pos /\ g.status = Top.status
    BY <1>2 DEF Frames
  <2> HIDE DEF g
  <2>2. FrameInv(g)
    BY <1>2, <2>1 DEF FrameInv, Frame
  <2> QED
    BY <1>5, <1>7, <2>1, <2>2 DEF g
<1>8. CASE Check
  BY <1>3, <1>4, <1>6, <1>7, <1>8 DEF Check
<1>9. CASE Resume
  BY <1>7, <1>9 DEF Resume
<1>10. CASE Recheck
  BY <1>3, <1>6, <1>10 DEF Recheck
<1> QED
  BY <1>8, <1>9, <1>10

\* The work on an artifact, and the explanation of a compilation.
LEMMA WorkInv ==
  ASSUME SessionInv, Lookup \/ Keep \/ Explain
  PROVE  SessionInv'
<1>1. stack # <<>> /\ raised = None
  BY DEF Lookup, Keep, Explain, Running
<1>2. Top \in Frames /\ FrameInv(Top)
  BY <1>1, TopOfStack DEF SessionInv
<1>3. counts \in [hits : Nat, misses : Nat]
  BY DEF SessionInv, WorldInv
<1>4. CASE Lookup
  <2>1. Top.pc = "lookup" /\ UNCHANGED <<raised, calls, cancelled, clock, closed>>
    BY <1>4 DEF Lookup, world
  <2>2. counts' \in [hits : Nat, misses : Nat]
    BY <1>3, <1>4, CountType DEF Lookup
  <2>3. CASE Become(Consumed(Top))
    <3>1. Consumed(Top) \in Frames /\ Consumed(Top).id = Top.id /\ FrameInv(Consumed(Top))
      BY <1>2, <2>1, ConsumedFrame
    <3> QED
      BY <1>1, <2>1, <2>2, <2>3, <3>1, GoOnInv
  <2>4. CASE Become([Top EXCEPT !.pc = "compute"])
    <3> DEFINE g == [Top EXCEPT !.pc = "compute"]
    <3>1. /\ g \in Frames /\ g.id = Top.id /\ g.request = Top.request /\ g.store = Top.store
          /\ g.deadline = Top.deadline /\ g.pc = "compute" /\ g.phase = Top.phase
          /\ g.pos = Top.pos /\ g.status = Top.status
      BY <1>2 DEF Frames, Pcs
    <3> HIDE DEF g
    <3>2. FrameInv(g)
      BY <1>2, <2>1, <3>1 DEF FrameInv, Frame
    <3>3. Become(g)
      BY <2>4 DEF g
    <3> QED
      BY <1>1, <2>1, <2>2, <3>1, <3>2, <3>3, GoOnInv
  <2> QED
    BY <1>4, <2>3, <2>4 DEF Lookup
<1>5. CASE Keep
  <2>1. /\ Top.pc = "keep" /\ Become(Consumed(Top))
        /\ UNCHANGED <<raised, counts, calls, cancelled, clock, closed>>
    BY <1>5 DEF Keep, world
  <2>2. Consumed(Top) \in Frames /\ Consumed(Top).id = Top.id /\ FrameInv(Consumed(Top))
    BY <1>2, <2>1, ConsumedFrame
  <2>3. counts' \in [hits : Nat, misses : Nat]
    BY <1>3, <2>1
  <2> QED
    BY <1>1, <2>1, <2>2, <2>3, GoOnInv
<1>6. CASE Explain
  <2>1. Top.pc = "explain"
    BY <1>6 DEF Explain
  <2>2. CASE Refuses
    <3>1. Failing("error") /\ "error" \in Kinds
      BY <1>6, <2>2 DEF Explain, Kinds
    <3> QED
      BY <1>1, <3>1, FailingInv
  <2>3. CASE ~ Refuses
    <3> DEFINE g == [Top EXCEPT !.pc = "finish"]
    <3>1. Become(g) /\ UNCHANGED <<raised, calls, cancelled, clock, closed>>
      BY <1>6, <2>3 DEF Explain, world
    <3>2. counts' \in [hits : Nat, misses : Nat]
      BY <1>6, <2>3, CountType DEF Explain
    <3>3. /\ g \in Frames /\ g.id = Top.id /\ g.request = Top.request /\ g.store = Top.store
          /\ g.deadline = Top.deadline /\ g.pc = "finish" /\ g.phase = Top.phase
          /\ g.pos = Top.pos /\ g.status = Top.status
      BY <1>2 DEF Frames, Pcs
    <3> HIDE DEF g
    <3>4. FrameInv(g)
      BY <1>2, <2>1, <3>3 DEF FrameInv, Frame
    <3> QED
      BY <1>1, <3>1, <3>2, <3>3, <3>4, GoOnInv
  <2> QED
    BY <2>2, <2>3
<1> QED
  BY <1>4, <1>5, <1>6

\* How calls fail otherwise, and return.
LEMMA StopInv ==
  ASSUME SessionInv,
         \/ CallbackRaises
         \/ Propagate
         \/ \E kind \in {"budget", "memory", "error"} : ComputeFails(kind)
         \/ Return
  PROVE  SessionInv'
<1>1. CASE CallbackRaises
  <2>1. stack # <<>> /\ Failing("error") /\ "error" \in Kinds
    BY <1>1 DEF CallbackRaises, AtCheckpoint, Running, Kinds
  <2> QED
    BY <2>1, FailingInv
<1>2. CASE Propagate
  <2>1. stack # <<>> /\ raised # None /\ Failing(raised)
    BY <1>2 DEF Propagate
  <2>2. raised \in Kinds /\ (raised = "cancelled" => cancelled # {})
    BY <2>1 DEF SessionInv, WorldInv
  <2> QED
    BY <2>1, <2>2, FailingInv
<1>3. ASSUME NEW kind \in {"budget", "memory", "error"}, ComputeFails(kind)
      PROVE  SessionInv'
  <2>1. stack # <<>> /\ Failing(kind) /\ kind \in Kinds /\ kind # "cancelled"
    BY <1>3 DEF ComputeFails, AtCheckpoint, Running, Kinds
  <2> QED
    BY <2>1, FailingInv
<1>4. CASE Return
  <2>1. /\ stack # <<>> /\ raised = None /\ stack' = Front(stack)
        /\ UNCHANGED <<raised, counts, calls, cancelled, clock, closed>>
    BY <1>4 DEF Return, Running, End, world
  <2>2. StackInv'
    BY <2>1, EndInv DEF SessionInv
  <2> QED
    BY <2>1, <2>2 DEF SessionInv, WorldInv
<1> QED
  BY <1>1, <1>2, <1>3, <1>4

\* The caller, other threads and the clock.
LEMMA WorldStepInv ==
  ASSUME SessionInv,
         \/ Swallow \/ Clear \/ Close \/ Tick \/ Reconfigure
         \/ \E c \in Controls : Cancel(c)
         \/ UNCHANGED vars
  PROVE  SessionInv'
<1>1. /\ UNCHANGED <<stack, calls, counts>> /\ cancelled \subseteq cancelled'
      /\ cancelled' \subseteq Controls
  BY DEF Swallow, Clear, Close, Tick, Reconfigure, Cancel, vars, session, world, SessionInv, WorldInv
<1>2. closed' \in BOOLEAN
  BY DEF Swallow, Clear, Close, Tick, Reconfigure, Cancel, vars, session, world, SessionInv, WorldInv
<1>3. clock' \in 0..MaxClock
  <2>1. clock \in 0..MaxClock /\ MaxClock \in Nat
    BY SessionAssumption DEF SessionInv, WorldInv
  <2>2. CASE Tick
    BY <2>1, <2>2 DEF Tick
  <2>3. CASE ~ Tick
    BY <2>1, <2>3 DEF Swallow, Clear, Close, Reconfigure, Cancel, vars, session, world
  <2> QED
    BY <2>2, <2>3
<1>4. \/ raised' = raised \/ raised' = None
      \/ raised' = "error" /\ stack # <<>> /\ CallerRuns
  BY DEF Swallow, Clear, Close, Tick, Reconfigure, Cancel, vars, session, world, Rejected
<1>5. StackInv'
  BY <1>1, SameInv DEF SessionInv
<1>6. /\ raised' \in Kinds \union {None}
      /\ raised' # None => stack # <<>> /\ Top.phase = "reporting"
      /\ raised' # None /\ raised' = "cancelled" => cancelled # {}
  BY <1>4 DEF SessionInv, WorldInv, CallerRuns, Kinds
<1>7. Top' = Top
  BY <1>1 DEF Top, Last
<1>8. cancelled # {} => cancelled' # {}
  BY <1>1
<1> QED
  BY <1>1, <1>2, <1>3, <1>5, <1>6, <1>7, <1>8 DEF SessionInv, WorldInv

\* The calls stay in order, whoever acts.
LEMMA SessionStep == SessionInv /\ [Next]_vars => SessionInv'
BY CallInv, CheckInv, WorkInv, StopInv, WorldStepInv DEF Next, Step

LEMMA SessionInit == Init => SessionInv
<1> SUFFICES ASSUME Init
             PROVE  SessionInv
  OBVIOUS
<1>1. stack = <<>> /\ stack \in Seq(Frames) /\ Len(stack) = 0
  BY EmptySeq DEF Init
<1>2. StackInv
  BY <1>1, SessionAssumption DEF StackInv
<1>3. /\ 0 \in 0..MaxCalls /\ 0 \in 0..MaxClock
      /\ [hits |-> 0, misses |-> 0] \in [hits : Nat, misses : Nat]
  BY SessionAssumption
<1> QED
  BY <1>2, <1>3 DEF Init, SessionInv, WorldInv

LEMMA SessionAlways == Spec => []SessionInv
BY SessionInit, SessionStep, PTL DEF Spec

\* The state of a session has its shape: nested calls are made in callbacks,
\* and an exception in flight is one that a callback may still catch.
THEOREM SessionTypeOK == Spec => []TypeOK
<1>1. SessionInv => TypeOK
  <2> SUFFICES ASSUME SessionInv
               PROVE  TypeOK
    OBVIOUS
  <2>1. DOMAIN stack = 1..Len(stack)
    BY LenProperties DEF SessionInv, StackInv
  <2> QED
    BY <2>1 DEF SessionInv, StackInv, WorldInv, FrameInv, TypeOK
<1> QED
  BY <1>1, SessionAlways, PTL

-----------------------------------------------------------------------------
(***************************************************************************)
(* Reuse                                                                   *)
(***************************************************************************)

\* An insertion is refused, or stores the value and displaces others.
LEMMA PutEffect ==
  ASSUME NEW a, NEW value, Put(a, value)
  PROVE  \/ a \notin Storable /\ UNCHANGED retained
         \/ /\ a \in Storable
            /\ DOMAIN retained' \subseteq DOMAIN retained \union {a}
            /\ a \in DOMAIN retained' /\ retained'[a] = value
            /\ \A b \in DOMAIN retained' \ {a} : b \in DOMAIN retained /\ retained'[b] = retained[b]
<1>1. CASE a \notin Storable
  BY <1>1 DEF Put
<1>2. CASE a \in Storable
  <2>1. PICK kept \in SUBSET (DOMAIN retained \ {a}) :
             retained' = With(Restrict(retained, kept), a, value)
    BY <1>2 DEF Put
  <2>2. /\ DOMAIN Restrict(retained, kept) = kept
        /\ \A b \in kept : Restrict(retained, kept)[b] = retained[b]
    BY DEF Restrict
  <2> DEFINE old == Restrict(retained, kept)
  <2> HIDE DEF old
  <2>3. /\ DOMAIN With(old, a, value) = DOMAIN old \union {a}
        /\ With(old, a, value)[a] = value
        /\ \A b \in DOMAIN old \ {a} : With(old, a, value)[b] = old[b]
    BY DEF With
  <2> QED
    BY <1>2, <2>1, <2>2, <2>3 DEF old
<1> QED
  BY <1>1, <1>2

\* What is kept of an artifact does not depend on undeclared configuration.
LEMMA KeepStore ==
  ASSUME SessionInv, StoreInv, Keep
  PROVE  StoreInv'
<1>1. stack # <<>> /\ Top.pc = "keep" /\ UNCHANGED compiled
  BY DEF Keep, Running
<1>2. Top \in Frames /\ FrameInv(Top)
  BY <1>1, TopOfStack DEF SessionInv
<1>3. CASE Uses(Top) /\ Put(Item(Top), Fresh(Item(Top)))
  <2> DEFINE a == Item(Top)
  <2>1. a \in Declared /\ Fresh(a) = <<a, 0>>
    BY <1>3 DEF Uses, Fresh
  <2>2. a \notin Structures
    <3>1. /\ Top.request \in Requests /\ Top.request.items \in Seq(STRING)
          /\ Top.pos \in Nat /\ Top.pos >= 1 /\ Top.pos <= Len(Top.request.items)
      BY <1>1, <1>2, SessionAssumption DEF Frames, FrameInv, Frame
    <3>2. Top.pos \in DOMAIN Top.request.items
      BY <3>1, LenProperties
    <3>3. \A r \in Requests : a # r.structure
      BY <3>1, <3>2, SessionAssumption DEF Item
    <3> QED
      BY <3>3 DEF Structures
  <2> HIDE DEF a
  <2>3. CASE UNCHANGED retained
    BY <1>1, <2>3 DEF StoreInv, ExplainsPrevious
  <2>4. CASE /\ a \in Storable
             /\ DOMAIN retained' \subseteq DOMAIN retained \union {a}
             /\ a \in DOMAIN retained' /\ retained'[a] = Fresh(a)
             /\ \A b \in DOMAIN retained' \ {a} : b \in DOMAIN retained /\ retained'[b] = retained[b]
    <3>1. DOMAIN retained' \subseteq Storable
      BY <2>4 DEF StoreInv
    <3>2. ASSUME NEW b \in DOMAIN retained' \ Structures
          PROVE  b \in Declared /\ retained'[b] = <<b, 0>>
      BY <2>1, <2>4 DEF StoreInv
    <3>3. ASSUME NEW s \in Structures \intersect DOMAIN retained'
          PROVE  s \in DOMAIN compiled' /\ retained'[s] = compiled'[s]
      BY <1>1, <2>2, <2>4 DEF StoreInv, ExplainsPrevious
    <3> QED
      BY <3>1, <3>2, <3>3 DEF StoreInv, ExplainsPrevious
  <2>5. Put(a, Fresh(a))
    BY <1>3 DEF a
  <2> QED
    BY <2>3, <2>4, <2>5, PutEffect
<1>4. CASE UNCHANGED retained
  BY <1>1, <1>4 DEF StoreInv, ExplainsPrevious
<1> QED
  BY <1>3, <1>4 DEF Keep

\* Numerics replace those of the structure's earlier model, or neither of
\* them ever fits the store.
LEMMA ExplainStore ==
  ASSUME SessionInv, StoreInv, Explain, ~ Refuses
  PROVE  StoreInv'
<1> DEFINE s == Top.request.structure
           v == Top.request.numerics
<1>1. Put(s, v) /\ compiled' = With(compiled, s, v)
  BY DEF Explain, PutNumerics
<1>2. s \in Structures
  <2>1. Top \in Frames
    BY TopOfStack DEF Explain, Running, SessionInv
  <2> QED
    BY <2>1 DEF Frames, Structures
<1> HIDE DEF s, v
<1>3. /\ DOMAIN compiled' = DOMAIN compiled \union {s}
      /\ compiled'[s] = v
      /\ \A t \in DOMAIN compiled \ {s} : compiled'[t] = compiled[t]
  BY <1>1 DEF With
<1>4. CASE s \notin Storable /\ UNCHANGED retained
  <2>1. s \notin DOMAIN retained
    BY <1>4 DEF StoreInv
  <2> QED
    BY <1>3, <1>4, <2>1 DEF StoreInv, ExplainsPrevious
<1>5. CASE /\ s \in Storable
           /\ DOMAIN retained' \subseteq DOMAIN retained \union {s}
           /\ s \in DOMAIN retained' /\ retained'[s] = v
           /\ \A b \in DOMAIN retained' \ {s} : b \in DOMAIN retained /\ retained'[b] = retained[b]
  <2>1. DOMAIN retained' \subseteq Storable
    BY <1>5 DEF StoreInv
  <2>2. ASSUME NEW b \in DOMAIN retained' \ Structures
        PROVE  b \in Declared /\ retained'[b] = <<b, 0>>
    BY <1>2, <1>5 DEF StoreInv
  <2>3. ASSUME NEW t \in Structures \intersect DOMAIN retained'
        PROVE  t \in DOMAIN compiled' /\ retained'[t] = compiled'[t]
    BY <1>3, <1>5 DEF StoreInv, ExplainsPrevious
  <2> QED
    BY <2>1, <2>2, <2>3 DEF StoreInv, ExplainsPrevious
<1> QED
  BY <1>1, <1>4, <1>5, PutEffect

LEMMA StoreStep == SessionInv /\ StoreInv /\ [Next]_vars => StoreInv'
<1> SUFFICES ASSUME SessionInv, StoreInv, [Next]_vars
             PROVE  StoreInv'
  OBVIOUS
<1>1. CASE Keep
  BY <1>1, KeepStore
<1>2. CASE Explain /\ ~ Refuses
  BY <1>2, ExplainStore
<1>3. CASE retained' = <<>>
  BY <1>3 DEF StoreInv, ExplainsPrevious
<1>4. CASE UNCHANGED <<retained, compiled>>
  BY <1>4 DEF StoreInv, ExplainsPrevious
<1>5. Clear \/ Close => retained' = <<>> \/ UNCHANGED <<retained, compiled>>
  BY DEF Clear, Close
<1>6. ASSUME NEW kind, Failing(kind)
      PROVE  UNCHANGED <<retained, compiled>>
  BY <1>6 DEF Failing
<1>7. Check \/ Resume \/ Recheck => UNCHANGED <<retained, compiled>>
  BY <1>6 DEF Check, Resume, Recheck, Proceed, session
<1>8. /\ CallbackRaises \/ Propagate => UNCHANGED <<retained, compiled>>
      /\ \A kind \in {"budget", "memory", "error"} : ComputeFails(kind) => UNCHANGED <<retained, compiled>>
  BY <1>6 DEF CallbackRaises, Propagate, ComputeFails
<1>9. Explain /\ Refuses => UNCHANGED <<retained, compiled>>
  BY <1>6 DEF Explain
<1>10. Lookup \/ Return \/ Swallow \/ Tick \/ Reconfigure => UNCHANGED <<retained, compiled>>
  BY DEF Lookup, Return, Swallow, Tick, Reconfigure, session
<1>11. /\ \A q \in Requests : Call(q) => UNCHANGED <<retained, compiled>>
       /\ \A c \in Controls : Cancel(c) => UNCHANGED <<retained, compiled>>
       /\ UNCHANGED vars => UNCHANGED <<retained, compiled>>
  BY DEF Call, Cancel, vars, session
<1> QED
  BY <1>1, <1>2, <1>3, <1>4, <1>5, <1>7, <1>8, <1>9, <1>10, <1>11 DEF Next, Step

\* Reuse never changes what is calculated: what a session retains of an
\* artifact is what computing it now would give, and the numerics it compares
\* a model with are those compiled last, whatever calls, evictions, refusals,
\* clears and reconfigurations came before.
THEOREM SessionReuseIsFresh == Spec => []ReuseIsFresh
<1>1. Init => StoreInv
  BY DEF Init, StoreInv, ExplainsPrevious
<1>2. StoreInv => ReuseIsFresh
  BY DEF StoreInv, ReuseIsFresh, RetainedIsFresh, Fresh
<1> QED
  BY <1>1, <1>2, SessionAlways, StoreStep, PTL DEF Spec

-----------------------------------------------------------------------------
(***************************************************************************)
(* Stopping, and what is reported                                          *)
(***************************************************************************)

\* A call that fails does not go on as if nothing had happened.
LEMMA FailingStops ==
  ASSUME SessionInv, stack # <<>>, NEW kind \in Kinds, Failing(kind)
  PROVE  ~ GoesOn
<1>1. CASE Salvages(Top, kind)
  <2> DEFINE g == [Top EXCEPT !.pc = "finish", !.phase = "before", !.status = Status(kind)]
  <2>1. Become(g)
    BY <1>1 DEF Failing, Fail
  <2>2. Top \in Frames
    BY TopOfStack DEF SessionInv
  <2>3. Status(kind) \in {"cancelled", "resource-exhausted"}
    BY <1>1 DEF Salvages, Status
  <2>4. g \in Frames /\ g.status = Status(kind)
    BY <2>2, <2>3 DEF Frames, Pcs
  <2> HIDE DEF g
  <2>5. Last(stack') = g
    BY <2>1, <2>4, BecomeStack DEF SessionInv
  <2> QED
    BY <2>3, <2>4, <2>5 DEF GoesOn
<1>2. CASE ~ Salvages(Top, kind)
  <2>1. stack' = Front(stack) /\ UNCHANGED <<calls, cancelled>>
    BY <1>2 DEF Failing, Fail, End, world
  <2>2. Len(stack') = Len(stack) - 1 /\ Len(stack) \in Nat
    BY <2>1, EndInv, TopOfStack DEF SessionInv
  <2> QED
    BY <2>2 DEF GoesOn
<1> QED
  BY <1>1, <1>2

\* Going on is passing a checkpoint: the control allows it, and its deadline.
LEMMA GoingOn ==
  ASSUME SessionInv, [Next]_vars, GoesOn
  PROVE  ~ Cancelled(Top) /\ ~ Overdue(Top)
<1>1. stack # <<>> /\ Top.pc \in {"enter", "step", "compute"} /\ Len(stack') = Len(stack)
      /\ Last(stack').pc # Top.pc
  BY DEF GoesOn
<1>2. Top \in Frames /\ FrameInv(Top) /\ Len(stack) \in Nat
  BY <1>1, TopOfStack DEF SessionInv
<1>3. ASSUME NEW kind \in Kinds
      PROVE  ~ Failing(kind)
  BY <1>1, <1>3, FailingStops
<1>4. stack' # stack
  BY <1>1 DEF Top
<1>5. ASSUME NEW phase \in {"reporting", "after"}
      PROVE  ~ Become([Top EXCEPT !.phase = phase])
  <2> DEFINE g == [Top EXCEPT !.phase = phase]
  <2>1. g \in Frames /\ g.pc = Top.pc
    BY <1>2 DEF Frames
  <2> HIDE DEF g
  <2>2. Become(g) => Last(stack') = g
    BY <1>1, <2>1, BecomeStack DEF SessionInv
  <2> QED
    BY <1>1, <2>1, <2>2 DEF g
<1>6. ~ Check \/ ~ (Cancelled(Top) \/ Overdue(Top))
  <2>1. StopKind(Top) \in Kinds
    BY DEF StopKind, Kinds
  <2> QED
    BY <1>3, <2>1 DEF Check
<1>7. ~ Recheck \/ ~ (Cancelled(Top) \/ Overdue(Top))
  <2>1. StopKind(Top) \in Kinds
    BY DEF StopKind, Kinds
  <2> QED
    BY <1>3, <2>1 DEF Recheck
<1>8. ~ Resume
  BY <1>5 DEF Resume, Proceed
<1>9. ~ Lookup /\ ~ Keep /\ ~ Explain
  BY <1>1 DEF Lookup, Keep, Explain
<1>10. ~ CallbackRaises /\ ~ Propagate
  <2>1. "error" \in Kinds /\ (raised # None => raised \in Kinds)
    BY DEF Kinds, SessionInv, WorldInv
  <2> QED
    BY <1>3, <2>1 DEF CallbackRaises, Propagate
<1>11. \A kind \in {"budget", "memory", "error"} : ~ ComputeFails(kind)
  <2>1. {"budget", "memory", "error"} \subseteq Kinds
    BY DEF Kinds
  <2> QED
    BY <1>3, <2>1 DEF ComputeFails
<1>12. ~ Return
  <2>1. Return => stack' = Front(stack)
    BY DEF Return, End
  <2>2. stack' = Front(stack) => Len(stack') = Len(stack) - 1
    BY <1>1, TopOfStack DEF SessionInv
  <2> QED
    BY <1>1, <1>2, <2>1, <2>2
<1>13. ASSUME NEW q \in Requests
       PROVE  ~ Call(q)
  <2>1. Call(q) => UNCHANGED stack \/ stack' = Append(stack, Begin(q))
    BY DEF Call
  <2>2. stack' = Append(stack, Begin(q)) => Len(stack') = Len(stack) + 1
    BY DEF SessionInv, StackInv
  <2> QED
    BY <1>1, <1>2, <1>4, <2>1, <2>2
<1>14. /\ ~ Swallow /\ ~ Clear /\ ~ Close /\ ~ Tick /\ ~ Reconfigure
       /\ \A c \in Controls : ~ Cancel(c)
       /\ ~ UNCHANGED vars
  BY <1>4 DEF Swallow, Clear, Close, Tick, Reconfigure, Cancel, vars
<1>15. Check \/ Recheck
  BY <1>8, <1>9, <1>10, <1>11, <1>12, <1>13, <1>14 DEF Next, Step
<1> QED
  BY <1>6, <1>7, <1>15

\* A cancelled control, or one whose deadline has passed, stops every call
\* under it at its next checkpoint, before or after the callback, although
\* child controls with limits of their own come between.
THEOREM SessionNoWorkAfterStop == Spec => NoWorkAfterStop
<1>1. ASSUME SessionInv, [Next]_vars, GoesOn, Top.request.control # None
      PROVE  /\ Top.request.control \notin cancelled
             /\ clock < Deadline[Top.request.control]
  <2>1. ~ Cancelled(Top) /\ ~ Overdue(Top)
    BY <1>1, GoingOn
  <2>2. Top \in Frames /\ FrameInv(Top)
    BY <1>1, TopOfStack DEF SessionInv, GoesOn
  <2>3. /\ Top.deadline \in Nat /\ clock \in Nat
        /\ Top.deadline <= Deadline[Top.request.control]
    BY <1>1, <2>2, SessionAssumption DEF Frames, FrameInv, SessionInv, WorldInv
  <2>4. Top.request.control \in Controls /\ Deadline[Top.request.control] \in Int
    <3>1. Top.request.control \in Controls
      BY <1>1, <2>2, SessionAssumption DEF Frames
    <3>2. Deadline[Top.request.control] \in 0..Never
      BY <3>1, SessionAssumption
    <3> QED
      BY <3>1, <3>2
  <2> QED
    BY <2>1, <2>3, <2>4 DEF Cancelled, Overdue
<1> QED
  BY <1>1, SessionAlways, PTL DEF Spec, NoWorkAfterStop

\* A failing call reports what failed.
LEMMA FailingIsHonest ==
  ASSUME NEW kind \in Kinds, Failing(kind), ended' # ended
  PROVE  /\ last'.status # "complete"
         /\ last'.status = "cancelled" => kind = "cancelled"
<1>1. ~ Salvages(Top, kind)
  BY DEF Failing, Fail
<1>2. last' = Assessment(Top, Status(kind))
  BY <1>1 DEF Failing, Fail, End
<1>3. last'.status = Status(kind)
  BY <1>2 DEF Assessment
<1>4. /\ Status(kind) # "complete"
      /\ Status(kind) = "cancelled" => kind = "cancelled"
  BY DEF Status, Kinds
<1> QED
  BY <1>3, <1>4

\* A call is reported complete only when it worked through all it was asked
\* for, cancelled only if something was, however calls are nested and
\* whichever exceptions pass between them.
THEOREM SessionHonestStatus == Spec => HonestStatus
<1> DEFINE Honest == ended' # ended =>
                       /\ last'.status = "complete" => Top.pos > Len(Top.request.items)
                       /\ last'.status = "cancelled" => cancelled # {}
<1>1. ASSUME SessionInv, [Next]_vars
      PROVE  Honest
  <2>1. ASSUME NEW kind \in Kinds, Failing(kind), kind = "cancelled" => cancelled # {}
        PROVE  Honest
    BY <2>1, FailingIsHonest
  <2>2. CASE Check \/ Recheck
    <3>1. StopKind(Top) \in Kinds /\ (StopKind(Top) = "cancelled" => cancelled # {}) /\ "exhausted" \in Kinds
      BY DEF StopKind, Kinds, Cancelled
    <3>2. CASE Failing(StopKind(Top)) \/ Failing("exhausted")
      BY <2>1, <3>1, <3>2
    <3>3. CASE \E g : Proceed(g)
      BY <3>3 DEF Proceed, session
    <3> QED
      BY <2>2, <3>2, <3>3 DEF Check, Recheck
  <2>3. CASE CallbackRaises
    <3>1. "error" \in Kinds /\ Failing("error")
      BY <2>3 DEF Kinds, CallbackRaises
    <3> QED
      BY <2>1, <3>1
  <2>4. CASE Propagate
    <3>1. raised \in Kinds /\ (raised = "cancelled" => cancelled # {}) /\ Failing(raised)
      BY <1>1, <2>4 DEF Propagate, SessionInv, WorldInv
    <3> QED
      BY <2>1, <3>1
  <2>5. ASSUME NEW kind \in {"budget", "memory", "error"}, ComputeFails(kind)
        PROVE  Honest
    <3>1. kind \in Kinds /\ kind # "cancelled" /\ Failing(kind)
      BY <2>5 DEF Kinds, ComputeFails
    <3> QED
      BY <2>1, <3>1
  <2>6. CASE Explain
    <3>1. CASE Refuses
      <4>1. "error" \in Kinds /\ Failing("error")
        BY <2>6, <3>1 DEF Kinds, Explain
      <4> QED
        BY <2>1, <4>1
    <3>2. CASE ~ Refuses
      BY <2>6, <3>2 DEF Explain
    <3> QED
      BY <3>1, <3>2
  <2>7. CASE Return
    <3>1. stack # <<>> /\ Top.pc = "finish" /\ last' = Assessment(Top, Top.status)
      BY <2>7 DEF Return, Running, End
    <3>2. FrameInv(Top)
      BY <1>1, <3>1, TopOfStack DEF SessionInv
    <3>3. last'.status = Top.status
      BY <3>1 DEF Assessment
    <3> QED
      BY <3>1, <3>2, <3>3 DEF FrameInv
  <2>8. /\ Resume \/ Lookup \/ Keep \/ Swallow \/ Clear \/ Close \/ Tick \/ Reconfigure => UNCHANGED ended
        /\ \A q \in Requests : Call(q) => UNCHANGED ended
        /\ \A c \in Controls : Cancel(c) => UNCHANGED ended
        /\ UNCHANGED vars => UNCHANGED ended
    BY DEF Resume, Proceed, Lookup, Keep, Swallow, Clear, Close, Tick, Reconfigure, Call, Cancel, vars, session
  <2> QED
    BY <1>1, <2>2, <2>3, <2>4, <2>5, <2>6, <2>7, <2>8 DEF Next, Step
<1> QED
  BY <1>1, SessionAlways, PTL DEF Spec, HonestStatus

=============================================================================
