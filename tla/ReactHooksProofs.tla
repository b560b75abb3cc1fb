-------------------------- MODULE ReactHooksProofs --------------------------
(***************************************************************************)
(* The send hook for any number of frames, inputs and calls, the receive   *)
(* hook for any number of frames and changes, and the page of both.        *)
(***************************************************************************)
EXTENDS ReactHooks, SequenceTheorems, TLAPS

LEMMA NoneIsNoSession == None \notin Sessions
  BY NoneAssumption, BoundsAssumption DEF Sessions

\* What start and stopLoop do to the hook, whoever calls them.
LEMMA StartType ==
  ASSUME TypeOK, NEW seen \in Views, Start(seen)
  PROVE  /\ session' \in Sessions \cup {None} /\ running' \in BOOLEAN
         /\ loops' \in Nat /\ loopDone' \in BOOLEAN /\ errorOf' \in 0 .. MaxInputs
<1>1. /\ [inputs |-> seen.inputs, sent |-> 0] \in Sessions /\ seen.done \in BOOLEAN
      /\ seen.inputs \in 0 .. MaxInputs
  BY BoundsAssumption DEF Views, Sessions
<1>2. CASE ~running /\ CanMake(seen)
  <2>1. /\ session' = IF session # None THEN session ELSE [inputs |-> seen.inputs, sent |-> 0]
        /\ errorOf' \in {0, errorOf}
        /\ running' = TRUE /\ loops' = loops + 1 /\ loopDone' = seen.done
    BY <1>2 DEF Start, Makes
  <2>2. session' \in Sessions \cup {None}
    BY <1>1, <2>1 DEF TypeOK
  <2>3. loops' \in Nat /\ errorOf' \in 0 .. MaxInputs
    BY <2>1, BoundsAssumption DEF TypeOK
  <2> QED
    BY <1>1, <2>1, <2>2, <2>3
<1>3. CASE ~running /\ ~CanMake(seen)
  <2>1. errorOf' = seen.inputs /\ UNCHANGED <<session, running, loops, loopDone>>
    BY <1>3 DEF Start
  <2> QED
    BY <1>1, <2>1 DEF TypeOK
<1>4. CASE running
  BY <1>4 DEF Start, hook, TypeOK
<1> QED
  BY <1>2, <1>3, <1>4

LEMMA StopType ==
  ASSUME TypeOK, OneLoop, StopLoop
  PROVE  running' = FALSE /\ loops' = 0
  BY DEF TypeOK, OneLoop, StopLoop

\* The start that the effects of a render put off.
LEMMA DeferType ==
  ASSUME TypeOK, Recreate
  PROVE  /\ deferred' \in Seq(Views) /\ overlapped' \in BOOLEAN /\ deferred' # << >>
         /\ Head(deferred') = IF deferred = << >> THEN rendered ELSE Head(deferred)
         /\ deferred = << >> => Tail(deferred') = << >>
<1>1. rendered \in Views /\ deferred \in Seq(Views) /\ deferred' = Append(deferred, rendered)
  BY DEF Recreate, TypeOK
<1>2. overlapped' = (overlapped \/ deferred # << >>)
  BY DEF Recreate
<1>3. overlapped' \in BOOLEAN
  BY <1>2 DEF TypeOK
<1> QED
  BY <1>1, <1>3, AppendProperties, HeadTailAppend

LEMMA FireType ==
  ASSUME TypeOK, Fire
  PROVE  /\ Head(deferred) \in Views /\ deferred' \in Seq(Views)
         /\ Start(Head(deferred)) /\ deferred # << >> /\ deferred' = Tail(deferred)
  BY HeadTailProperties DEF TypeOK, Fire

LEMMA TickType ==
  ASSUME TypeOK, Tick
  PROVE  /\ session \in Sessions /\ session' \in Sessions
         /\ session'.inputs = session.inputs
         /\ session'.sent \in Nat /\ session.sent \in Nat
         /\ session'.sent >= session.sent
         /\ frameIndex' \in 0 .. Total + 1 /\ isDone' \in BOOLEAN
         /\ isDone' => isDone \/ session'.sent >= Total
<1> DEFINE sent == IF session.sent <= Total THEN session.sent + 1 ELSE session.sent
<1>1. session \in Sessions /\ session.inputs \in 1 .. MaxInputs /\ session.sent \in 0 .. Total + 1
  BY DEF TypeOK, Tick, Sessions
<1>2. sent \in 0 .. Total + 1 /\ sent >= session.sent
  BY <1>1, BoundsAssumption
<1>3. session' = [session EXCEPT !.sent = sent]
  BY DEF Tick
<1>4. \/ frameIndex' = sent /\ isDone' = (isDone \/ (sent >= Total /\ ~loopDone))
      \/ frameIndex' = frameIndex /\ isDone' = isDone
  BY DEF Tick, display
<1> HIDE DEF sent
<1>5. session' \in Sessions /\ session'.sent = sent /\ session'.inputs = session.inputs
  BY <1>1, <1>2, <1>3 DEF Sessions
<1>6. frameIndex' \in 0 .. Total + 1 /\ isDone' \in BOOLEAN
  BY <1>2, <1>4 DEF TypeOK
<1>7. isDone' => isDone \/ sent >= Total
  BY <1>4
<1> QED
  BY <1>1, <1>2, <1>5, <1>6, <1>7, BoundsAssumption

-----------------------------------------------------------------------------
(***************************************************************************)
(* The inductive invariant: beside the properties, a start put off alone   *)
(* sees the inputs rendered, and before the first render there is nothing. *)
(***************************************************************************)
Alone ==
  /\ ~overlapped /\ deferred # << >> => /\ ~unrun => Head(deferred).inputs = rendered.inputs
                                        /\ Tail(deferred) = << >>
  /\ mounted = "gone" => ~unrun /\ (~orphaned => deferred = << >>)
  /\ mounted = "no" => /\ deferred = << >> /\ session = None /\ ~running
                       /\ ~isDone /\ ~unrun

Inv ==
  /\ TypeOK
  /\ OneLoop
  /\ StreamsCurrentInputs
  /\ UnmountCleans
  /\ DoneIsTrue
  /\ Alone

\* A start, put off or called, in a component that is there or was orphaned.
LEMMA StartKeeps ==
  ASSUME Inv, NEW seen \in Views, Start(seen),
         ~overlapped /\ ~unrun => seen.inputs = rendered.inputs
  PROVE  /\ OneLoop'
         /\ ~overlapped /\ ~unrun /\ session' # None => session'.inputs = rendered.inputs
         /\ session # None => session' = session
<1>1. loops + 1 \in Nat /\ (~running => loops = 0)
  BY DEF Inv, TypeOK, OneLoop
<1>2. [inputs |-> seen.inputs, sent |-> 0] # None
  <2>1. [inputs |-> seen.inputs, sent |-> 0] \in Sessions
    BY BoundsAssumption DEF Views, Sessions
  <2> QED
    BY <2>1, NoneIsNoSession
<1>3. CASE ~running /\ CanMake(seen)
  <2>1. running' = TRUE /\ loops' = 1
    BY <1>1, <1>3 DEF Start
  <2>2. session' = IF session # None THEN session ELSE [inputs |-> seen.inputs, sent |-> 0]
    BY <1>3 DEF Start, Makes
  <2> QED
    BY <1>2, <2>1, <2>2 DEF OneLoop, Inv, StreamsCurrentInputs
<1>4. CASE ~running /\ ~CanMake(seen)
  <2>1. UNCHANGED <<session, running, loops>>
    BY <1>4 DEF Start
  <2> QED
    BY <2>1 DEF OneLoop, Inv, StreamsCurrentInputs
<1>5. CASE running
  BY <1>5 DEF Start, hook, OneLoop, Inv, StreamsCurrentInputs
<1> QED
  BY <1>3, <1>4, <1>5

LEMMA InvInit == Init => Inv
<1> SUFFICES ASSUME Init PROVE Inv
  OBVIOUS
<1>1. /\ 1 \in 1 .. MaxInputs /\ 0 \in 0 .. Total + 1 /\ 0 \in 0 .. MaxCalls
      /\ 0 \in 0 .. MaxInputs /\ << >> \in Seq(Views)
      /\ [inputs |-> 1, done |-> FALSE] \in Views
  BY BoundsAssumption, EmptySeq DEF Views
<1>2. TypeOK
  BY <1>1 DEF Init, TypeOK
<1> QED
  BY <1>2 DEF Init, Inv, OneLoop, StreamsCurrentInputs, UnmountCleans, DoneIsTrue, Alone

LEMMA InvNext == Inv /\ [Next]_vars => Inv'
<1> SUFFICES ASSUME Inv, [Next]_vars PROVE Inv'
  OBVIOUS
<1> USE DEF Inv
<1>1. CASE InitAirSign \/ Loaded("ready") \/ Loaded("failed")
  BY <1>1 DEF InitAirSign, Loaded, page, hook, display, history, TypeOK, OneLoop,
              StreamsCurrentInputs, UnmountCleans, DoneIsTrue, Alone
<1>2. CASE Mount
  <2>1. /\ UNCHANGED <<wasm, rendered, session, running, loops, loopDone, errorOf, deferred>>
        /\ UNCHANGED <<frameIndex, isDone, drawn, calls, halted, overlapped, orphaned, stale>>
        /\ mounted = "no" /\ mounted' = "yes" /\ unrun' = TRUE
    BY <1>2 DEF Mount, hook, display, history
  <2>2. TypeOK'
    BY <2>1 DEF TypeOK
  <2> QED
    BY <2>1, <2>2 DEF OneLoop, StreamsCurrentInputs, UnmountCleans, DoneIsTrue, Alone
<1>3. CASE Change \/ ShowDone
  <2>1. /\ UNCHANGED <<wasm, mounted, session, running, loops, loopDone, errorOf, deferred>>
        /\ UNCHANGED <<frameIndex, isDone, drawn, calls, halted, overlapped, orphaned, stale>>
        /\ mounted = "yes" /\ ~unrun
    <3>1. CASE Change
      BY <3>1 DEF Change, hook, display, history
    <3>2. CASE ShowDone
      BY <3>2 DEF ShowDone, hook, display, history
    <3> QED
      BY <1>3, <3>1, <3>2
  <2>2. /\ rendered' \in Views /\ unrun' \in BOOLEAN
        /\ ~unrun' => rendered'.inputs = rendered.inputs
    <3>1. rendered \in Views /\ isDone \in BOOLEAN /\ unrun \in BOOLEAN
      BY DEF TypeOK
    <3>2. CASE Change
      <4>1. rendered.inputs + 1 \in 1 .. MaxInputs
        BY <3>1, <3>2, BoundsAssumption DEF Change, Views
      <4> DEFINE i == rendered.inputs + 1
      <4>2. rendered' = [inputs |-> i, done |-> isDone] /\ unrun' = TRUE
        BY <3>2 DEF Change
      <4> HIDE DEF i
      <4>3. rendered' \in Views
        BY <3>1, <4>1, <4>2 DEF Views, i
      <4> QED
        BY <4>2, <4>3
    <3>3. CASE ShowDone
      <4>1. rendered' = [rendered EXCEPT !.done = isDone] /\ unrun' = unrun
        BY <3>3 DEF ShowDone
      <4>2. rendered' \in Views
        BY <3>1, <4>1 DEF Views
      <4>3. rendered'.inputs = rendered.inputs
        BY <3>1, <4>1 DEF Views
      <4> QED
        BY <3>1, <4>1, <4>2, <4>3
    <3> QED
      BY <1>3, <3>2, <3>3
  <2>3. TypeOK'
    BY <2>1, <2>2 DEF TypeOK
  <2> QED
    BY <2>1, <2>2, <2>3 DEF OneLoop, StreamsCurrentInputs, UnmountCleans, DoneIsTrue, Alone
<1>4. CASE Unmount
  <2>1. running' = FALSE /\ loops' = 0 /\ session' = None /\ loopDone' = loopDone
    BY <1>4, StopType DEF Unmount, Discard
  <2>2. TypeOK'
    BY <1>4, <2>1 DEF Unmount, TypeOK, display
  <2> QED
    BY <1>4, <2>1, <2>2 DEF Unmount, OneLoop, StreamsCurrentInputs, UnmountCleans, DoneIsTrue, Alone
<1>5. CASE Recreate
  <2>1. running' = FALSE /\ loops' = 0 /\ session' = None /\ loopDone' = loopDone
    BY <1>5, StopType DEF Recreate, Discard
  <2>2. /\ deferred' \in Seq(Views) /\ overlapped' \in BOOLEAN
        /\ Head(deferred') = IF deferred = << >> THEN rendered ELSE Head(deferred)
        /\ deferred = << >> => Tail(deferred') = << >>
    BY <1>5, DeferType
  <2>3. ~overlapped' => deferred = << >>
    BY <1>5 DEF Recreate
  <2>4. /\ UNCHANGED <<wasm, mounted, rendered, drawn, calls, orphaned>>
        /\ unrun /\ unrun' = FALSE /\ isDone' = FALSE /\ frameIndex' = 0 /\ halted' = FALSE
        /\ stale' \in BOOLEAN /\ 0 \in 0 .. Total + 1
    BY <1>5, BoundsAssumption DEF Recreate, TypeOK, Views
  <2>5. errorOf' \in 0 .. MaxInputs
    <3>1. errorOf \in 0 .. MaxInputs /\ rendered.inputs \in 0 .. MaxInputs /\ 0 \in 0 .. MaxInputs
      BY BoundsAssumption DEF TypeOK, Views
    <3> QED
      BY <1>5, <3>1 DEF Recreate, TriedStart
  <2>6. TypeOK'
    BY <2>1, <2>2, <2>4, <2>5 DEF TypeOK
  <2>7. mounted = "yes"
    BY <2>4 DEF Alone, TypeOK
  <2> QED
    BY <2>1, <2>2, <2>3, <2>4, <2>6, <2>7
    DEF OneLoop, StreamsCurrentInputs, UnmountCleans, DoneIsTrue, Alone
<1>6. CASE Fire
  <2>1. /\ Head(deferred) \in Views /\ deferred' \in Seq(Views)
        /\ Start(Head(deferred)) /\ deferred # << >> /\ deferred' = Tail(deferred)
    BY <1>6, FireType
  <2>2. UNCHANGED <<wasm, mounted, rendered, unrun, frameIndex, isDone, drawn, calls, halted,
                    overlapped, orphaned, stale>>
    BY <1>6 DEF Fire, page, display, history
  <2>3. TypeOK'
    BY <2>1, <2>2, StartType DEF TypeOK
  <2>4. /\ ~overlapped /\ ~unrun => Head(deferred).inputs = rendered.inputs
        /\ ~overlapped => deferred' = << >>
    BY <2>1 DEF Alone
  <2>5. /\ OneLoop'
        /\ ~overlapped /\ ~unrun /\ session' # None => session'.inputs = rendered.inputs
        /\ session # None => session' = session
    BY <2>1, <2>4, StartKeeps
  <2>6. mounted = "yes" \/ (mounted = "gone" /\ orphaned)
    BY <2>1 DEF Alone, TypeOK
  <2> QED
    BY <2>2, <2>3, <2>4, <2>5, <2>6 DEF StreamsCurrentInputs, UnmountCleans, DoneIsTrue, Alone
<1>7. CASE Tick
  <2>1. /\ session \in Sessions /\ session' \in Sessions
        /\ session'.inputs = session.inputs
        /\ session'.sent \in Nat /\ session.sent \in Nat
        /\ session'.sent >= session.sent
        /\ frameIndex' \in 0 .. Total + 1 /\ isDone' \in BOOLEAN
        /\ isDone' => isDone \/ session'.sent >= Total
    BY <1>7, TickType
  <2>2. /\ UNCHANGED <<wasm, mounted, rendered, unrun, running, loops, loopDone, errorOf, deferred>>
        /\ UNCHANGED <<calls, halted, overlapped, orphaned, stale>>
        /\ session # None /\ loops > 0
    BY <1>7 DEF Tick, page, history
  <2>3. drawn' = None
    BY <1>7 DEF Tick, LatestFrame, TypeOK, display
  <2>4. TypeOK'
    BY <2>1, <2>2, <2>3 DEF TypeOK
  <2>5. session' # None
    BY <2>1, NoneIsNoSession
  <2>6. mounted # "no" /\ ~(mounted = "gone" /\ ~orphaned)
    BY <2>2 DEF Alone, UnmountCleans
  <2>7. DoneIsTrue'
    BY <2>1, <2>2, <2>5, BoundsAssumption DEF DoneIsTrue
  <2> QED
    BY <2>1, <2>2, <2>4, <2>5, <2>6, <2>7 DEF OneLoop, StreamsCurrentInputs, UnmountCleans, Alone
<1>8. CASE CallStart
  <2>1. rendered \in Views
    BY DEF TypeOK
  <2>2. /\ Start(rendered) /\ mounted = "yes" /\ calls' \in 0 .. MaxCalls /\ halted' = FALSE
        /\ UNCHANGED <<wasm, mounted, rendered, unrun, deferred, drawn, overlapped, orphaned,
                       frameIndex, isDone>>
        /\ stale' \in BOOLEAN
    BY <1>8, BoundsAssumption DEF CallStart, Call, page, TypeOK, Views
  <2>3. TypeOK'
    BY <2>1, <2>2, StartType DEF TypeOK
  <2>4. /\ OneLoop'
        /\ ~overlapped /\ ~unrun /\ session' # None => session'.inputs = rendered.inputs
        /\ session # None => session' = session
    BY <2>1, <2>2, StartKeeps
  <2> QED
    BY <2>2, <2>3, <2>4 DEF StreamsCurrentInputs, UnmountCleans, DoneIsTrue, Alone
<1>9. CASE CallStop
  <2>1. running' = FALSE /\ loops' = 0
    BY <1>9, StopType DEF CallStop
  <2>2. /\ mounted = "yes" /\ calls' \in 0 .. MaxCalls /\ halted' = TRUE
        /\ UNCHANGED <<wasm, mounted, rendered, unrun, deferred, drawn, overlapped, orphaned,
                       stale, session, loopDone, errorOf, frameIndex, isDone>>
    BY <1>9, BoundsAssumption DEF CallStop, Call, page, TypeOK
  <2>3. TypeOK'
    BY <2>1, <2>2 DEF TypeOK
  <2> QED
    BY <2>1, <2>2, <2>3 DEF OneLoop, StreamsCurrentInputs, UnmountCleans, DoneIsTrue, Alone
<1>10. CASE CallReset
  <2>1. running' = FALSE /\ loops' = 0 /\ session' = None /\ loopDone' = loopDone
    BY <1>10, StopType DEF CallReset, Discard
  <2>2. /\ mounted = "yes" /\ calls' \in 0 .. MaxCalls /\ halted' = TRUE
        /\ frameIndex' = 0 /\ isDone' = FALSE /\ errorOf' = 0
        /\ UNCHANGED <<wasm, mounted, rendered, unrun, deferred, drawn, overlapped, orphaned, stale>>
    BY <1>10, BoundsAssumption DEF CallReset, Call, page, TypeOK
  <2>3. frameIndex' \in 0 .. Total + 1 /\ loops' \in Nat /\ errorOf' \in 0 .. MaxInputs
    BY <2>1, <2>2, BoundsAssumption
  <2>4. TypeOK'
    BY <2>1, <2>2, <2>3 DEF TypeOK
  <2> QED
    BY <2>1, <2>2, <2>4 DEF OneLoop, StreamsCurrentInputs, UnmountCleans, DoneIsTrue, Alone
<1>11. CASE UNCHANGED vars
  BY <1>11 DEF vars, page, hook, display, history, TypeOK, OneLoop,
               StreamsCurrentInputs, UnmountCleans, DoneIsTrue, Alone
<1> QED
  BY <1>1, <1>2, <1>3, <1>4, <1>5, <1>6, <1>7, <1>8, <1>9, <1>10, <1>11 DEF Next

-----------------------------------------------------------------------------
LEMMA Invariant == Spec => []Inv
  BY InvInit, InvNext, PTL DEF Spec

\* The types.
THEOREM TypeCorrect == Spec => []TypeOK
<1>1. Inv => TypeOK
  BY DEF Inv
<1> QED BY <1>1, Invariant, PTL

\* One interval when the hook runs, none when it does not.
THEOREM LoopIsOne == Spec => []OneLoop
<1>1. Inv => OneLoop
  BY DEF Inv
<1> QED BY <1>1, Invariant, PTL

\* The frames emitted are those of the inputs rendered, once the effects of the
\* render have run and while starts are put off one by one.
THEOREM StreamIsCurrent == Spec => []StreamsCurrentInputs
<1>1. Inv => StreamsCurrentInputs
  BY DEF Inv
<1> QED BY <1>1, Invariant, PTL

\* Nothing is left after an unmount that finds no start put off.
THEOREM UnmountIsClean == Spec => []UnmountCleans
<1>1. Inv => UnmountCleans
  BY DEF Inv
<1> QED BY <1>1, Invariant, PTL

\* Done is never shown over a payload not sent.
THEOREM DoneIsSound == Spec => []DoneIsTrue
<1>1. Inv => DoneIsTrue
  BY DEF Inv
<1> QED BY <1>1, Invariant, PTL

-----------------------------------------------------------------------------
(***************************************************************************)
(* Done is reported.  While no start saw as done what is done no more, a   *)
(* start put off saw nothing done, and a loop that runs saw it only if it  *)
(* is still shown.                                                         *)
(***************************************************************************)
Fresh ==
  ~stale =>
    /\ mounted = "yes" /\ session # None /\ session.sent >= Total => isDone
    /\ mounted = "yes" /\ running /\ loopDone => isDone
    /\ \A i \in 1 .. Len(deferred) : deferred[i].done = FALSE

\* A start leaves the frames of its session as they are, or begins at none.
LEMMA StartFresh ==
  ASSUME Inv, Fresh, ~stale, mounted = "yes", NEW seen \in Views, Start(seen),
         ~running /\ seen.done => isDone
  PROVE  /\ session' # None /\ session'.sent >= Total => isDone
         /\ running' /\ loopDone' => isDone
<1>1. [inputs |-> seen.inputs, sent |-> 0].sent < Total
  BY BoundsAssumption
<1>2. CASE ~running /\ CanMake(seen)
  <2>1. /\ session' = IF session # None THEN session ELSE [inputs |-> seen.inputs, sent |-> 0]
        /\ loopDone' = seen.done
    BY <1>2 DEF Start, Makes
  <2> QED
    BY <1>1, <1>2, <2>1, BoundsAssumption DEF Fresh
<1>3. CASE ~running /\ ~CanMake(seen)
  <2>1. UNCHANGED <<session, running, loopDone>>
    BY <1>3 DEF Start
  <2> QED
    BY <2>1 DEF Fresh
<1>4. CASE running
  BY <1>4 DEF Start, hook, Fresh
<1> QED
  BY <1>2, <1>3, <1>4

\* A start put off by a render that saw nothing done saw nothing done.
LEMMA DeferFresh ==
  ASSUME TypeOK, Recreate, rendered.done = FALSE,
         \A i \in 1 .. Len(deferred) : deferred[i].done = FALSE
  PROVE  \A i \in 1 .. Len(deferred') : deferred'[i].done = FALSE
<1>1. rendered \in Views /\ deferred \in Seq(Views)
  BY DEF TypeOK
<1>2. /\ Len(deferred') = Len(deferred) + 1
      /\ \A i \in 1 .. Len(deferred) : deferred'[i] = deferred[i]
      /\ deferred'[Len(deferred) + 1] = rendered
  BY <1>1, AppendProperties DEF Recreate
<1>3. Len(deferred) \in Nat
  BY <1>1, LenProperties
<1> QED
  BY <1>1, <1>2, <1>3

LEMMA FreshNext == Inv /\ Fresh /\ [Next]_vars => Fresh'
<1> SUFFICES ASSUME Inv, Fresh, [Next]_vars, ~stale' PROVE Fresh'
  BY DEF Fresh
<1> USE DEF Inv
<1>1. CASE InitAirSign \/ Loaded("ready") \/ Loaded("failed")
  BY <1>1 DEF InitAirSign, Loaded, page, hook, display, history, Fresh
<1>2. CASE Mount
  <2>1. session = None /\ ~running
    BY <1>2 DEF Mount, Alone
  <2> QED
    BY <1>2, <2>1 DEF Mount, hook, display, history, Fresh
<1>3. CASE Change \/ ShowDone
  BY <1>3 DEF Change, ShowDone, hook, display, history, Fresh
<1>4. CASE Unmount
  BY <1>4 DEF Unmount, Fresh
<1>5. CASE Recreate
  <2>1. ~stale /\ ~rendered.done
    BY <1>5 DEF Recreate
  <2>2. rendered.done = FALSE
    BY <2>1 DEF TypeOK, Views
  <2>3. session' = None /\ running' = FALSE
    BY <1>5 DEF Recreate, Discard, StopLoop
  <2>4. \A i \in 1 .. Len(deferred') : deferred'[i].done = FALSE
    BY <1>5, <2>1, <2>2, DeferFresh DEF Fresh
  <2> QED
    BY <2>3, <2>4 DEF Fresh
<1>6. CASE Fire
  <2>1. /\ Head(deferred) \in Views /\ Start(Head(deferred)) /\ deferred # << >>
        /\ deferred' = Tail(deferred) /\ deferred \in Seq(Views)
    BY <1>6, FireType DEF TypeOK
  <2>2. UNCHANGED <<mounted, isDone, stale>>
    BY <1>6 DEF Fire, page, display, history
  <2>3. Len(deferred) \in Nat \ {0} /\ Head(deferred) = deferred[1]
    BY <2>1, EmptySeq, LenProperties
  <2>4. Head(deferred).done = FALSE
    BY <2>2, <2>3 DEF Fresh
  <2>5. /\ Len(deferred') = Len(deferred) - 1
        /\ \A i \in 1 .. Len(deferred') : deferred'[i] = deferred[i + 1]
    BY <2>1, HeadTailProperties
  <2>6. \A i \in 1 .. Len(deferred') : deferred'[i].done = FALSE
    BY <2>2, <2>3, <2>5 DEF Fresh
  <2>7. ASSUME mounted = "yes"
        PROVE  /\ session' # None /\ session'.sent >= Total => isDone
               /\ running' /\ loopDone' => isDone
    BY <2>1, <2>2, <2>4, <2>7, StartFresh
  <2> QED
    BY <2>2, <2>6, <2>7 DEF Fresh
<1>7. CASE Tick
  <2>1. UNCHANGED <<mounted, running, loopDone, deferred, stale>> /\ running
    BY <1>7 DEF Tick, page, history, OneLoop
  <2>2. CASE mounted = "yes"
    <3> DEFINE sent == IF session.sent <= Total THEN session.sent + 1 ELSE session.sent
    <3>1. session' = [session EXCEPT !.sent = sent] /\ session \in Sessions
      BY <1>7, TickType DEF Tick
    <3>2. isDone' = (isDone \/ (sent >= Total /\ ~loopDone))
      BY <1>7, <2>2 DEF Tick
    <3>3. loopDone => isDone
      BY <2>1, <2>2 DEF Fresh
    <3> HIDE DEF sent
    <3>4. session'.sent = sent
      BY <3>1 DEF Sessions
    <3>5. session'.sent >= Total => isDone'
      BY <3>2, <3>3, <3>4
    <3>6. loopDone' => isDone'
      BY <2>1, <3>2, <3>3
    <3> QED
      BY <2>1, <3>5, <3>6 DEF Fresh
  <2>3. CASE mounted # "yes"
    BY <2>1, <2>3 DEF Fresh
  <2> QED
    BY <2>2, <2>3
<1>8. CASE CallStart
  <2>1. /\ Start(rendered) /\ mounted = "yes" /\ rendered \in Views
        /\ UNCHANGED <<mounted, isDone, deferred>>
    BY <1>8 DEF CallStart, Call, page, TypeOK
  <2>2. ~stale /\ (~running /\ rendered.done => isDone)
    BY <1>8 DEF CallStart
  <2>3. /\ session' # None /\ session'.sent >= Total => isDone
        /\ running' /\ loopDone' => isDone
    BY <2>1, <2>2, StartFresh
  <2> QED
    BY <2>1, <2>2, <2>3 DEF Fresh
<1>9. CASE CallStop
  BY <1>9 DEF CallStop, Call, page, StopLoop, Fresh
<1>10. CASE CallReset
  BY <1>10 DEF CallReset, Call, page, Discard, StopLoop, Fresh
<1>11. CASE UNCHANGED vars
  BY <1>11 DEF vars, page, hook, display, history, Fresh
<1> QED
  BY <1>1, <1>2, <1>3, <1>4, <1>5, <1>6, <1>7, <1>8, <1>9, <1>10, <1>11 DEF Next

\* Done is shown when the payload is emitted, unless a start saw as done what was
\* done no more.
THEOREM DoneIsPrompt == Spec => []DoneIsReported
<1>1. Init => Fresh
  BY EmptySeq DEF Init, Fresh
<1>2. Fresh => DoneIsReported
  BY DEF Fresh, DoneIsReported
<1> QED
  BY <1>1, <1>2, Invariant, FreshNext, PTL DEF Spec

-----------------------------------------------------------------------------
\* The receive hook.  What the camera effects leave: only the stream that
\* streamRef names may run, and none does while the last attempt still asks.
CameraInv ==
  /\ attempts \in Seq({"asking", "playing", "over"})
  /\ live \subseteq {stream}
  /\ attempts # <<>> /\ attempts[Len(attempts)] = "asking" => live = {}
  /\ scanner = "gone" => live = {} /\ recv = NoScan

LEMMA CameraInit == RecvInit => CameraInv
  BY EmptySeq DEF RecvInit, CameraInv

LEMMA AdvanceKeeps ==
  ASSUME CameraInv, NEW a \in DOMAIN attempts, NEW step \in {"playing", "over"},
         Advance(a, step)
  PROVE  /\ attempts' \in Seq({"asking", "playing", "over"})
         /\ attempts' # <<>> /\ Len(attempts') = Len(attempts)
         /\ attempts'[Len(attempts)] = "asking" =>
              attempts[Len(attempts)] = "asking" /\ a # Len(attempts)
  BY DEF CameraInv, Advance

LEMMA GrantedKeeps ==
  ASSUME CameraInv, NEW a \in DOMAIN attempts, Granted(a)
  PROVE  CameraInv'
<1>1. attempts[a] = "asking" /\ UNCHANGED <<scanner, recv>>
  BY DEF Granted, screen, receive
<1>2. CASE Cancelled(a)
  <2>1. Advance(a, "over") /\ UNCHANGED <<stream, live>>
    BY <1>2 DEF Granted
  <2> QED
    BY <1>1, <2>1, AdvanceKeeps DEF CameraInv
<1>3. CASE ~Cancelled(a)
  <2>1. PICK step \in {"playing", "over"} :
          stream' = a /\ live' = live \union {a} /\ Advance(a, step)
    BY <1>3 DEF Granted
  <2>2. a = Len(attempts) /\ scanner # "gone"
    BY <1>3 DEF Cancelled
  <2>3. live = {}
    BY <1>1, <2>2 DEF CameraInv
  <2>4. live' = {stream'}
    BY <2>1, <2>3
  <2> QED
    BY <1>1, <2>1, <2>2, <2>4, AdvanceKeeps DEF CameraInv
<1> QED
  BY <1>2, <1>3

LEMMA CameraNext == CameraInv /\ [RecvNext]_recvVars => CameraInv'
<1> SUFFICES ASSUME CameraInv, [RecvNext]_recvVars PROVE CameraInv'
  OBVIOUS
<1>1. CASE ModuleReady \/ MountScanner \/ Rerender \/ UnmountScanner
           \/ \E prop \in {"password", "handlers", "device"} : ChangeProp(prop)
  <2>1. UNCHANGED <<attempts, live, stream, recv>> /\ (scanner' = scanner \/ scanner' # "gone")
    BY <1>1 DEF ModuleReady, MountScanner, Rerender, UnmountScanner, ChangeProp, Commit,
                screen, receive, camera
  <2> QED
    BY <2>1 DEF CameraInv
<1>2. CASE RunEffects
  <2>1. scanner = "yes" /\ scanner' = scanner
    BY <1>2 DEF RunEffects
  <2>2. CASE Changed({"handlers", "device"})
    <3>1. live' = live \ {stream} /\ attempts' = Append(attempts, "asking")
      BY <1>2, <2>2 DEF RunEffects, StopCamera
    <3>2. live' = {}
      BY <3>1 DEF CameraInv
    <3>3. attempts' \in Seq({"asking", "playing", "over"})
      BY <3>1 DEF CameraInv
    <3> QED
      BY <2>1, <3>2, <3>3 DEF CameraInv
  <2>3. CASE ~Changed({"handlers", "device"})
    BY <1>2, <2>1, <2>3 DEF RunEffects, camera, CameraInv
  <2> QED
    BY <2>2, <2>3
<1>3. CASE RunCleanups
  <2>1. live' = live \ {stream} /\ recv' = NoScan /\ attempts' = attempts
    BY <1>3 DEF RunCleanups, StopCamera
  <2>2. live' = {}
    BY <2>1 DEF CameraInv
  <2> QED
    BY <2>1, <2>2 DEF CameraInv
<1>4. ASSUME NEW a \in DOMAIN attempts, Granted(a) \/ Played(a) \/ CameraFails(a)
      PROVE  CameraInv'
  <2>1. CASE Granted(a)
    BY <2>1, GrantedKeeps
  <2>2. CASE Played(a) \/ CameraFails(a)
    <3>1. Advance(a, "over") /\ UNCHANGED <<scanner, recv, stream, live>>
      BY <2>2 DEF Played, CameraFails, screen, receive
    <3> QED
      BY <3>1, AdvanceKeeps DEF CameraInv
  <2> QED
    BY <1>4, <2>1, <2>2
<1>5. ASSUME NEW n \in imports, Imported(n) \/ ImportFails(n)
      PROVE  CameraInv'
  BY <1>5 DEF Imported, ImportFails, CameraInv, screen, receive, camera
<1>6. ASSUME NEW n \in looking,
             LoopEnds(n) \/ SeeNothing(n) \/ \E news \in {0, 1} : SeeCode(n, news)
      PROVE  CameraInv'
  <2>1. UNCHANGED <<scanner, attempts, live, stream>> /\ (scanner = "yes" \/ recv' = recv)
    BY <1>6 DEF LoopEnds, SeeNothing, SeeCode, Turn, screen, camera, receive
  <2> QED
    BY <2>1 DEF CameraInv
<1>7. CASE ScanAgain
  BY <1>7 DEF ScanAgain, screen, camera, CameraInv
<1>8. CASE UNCHANGED recvVars
  BY <1>8 DEF recvVars, screen, receive, camera, CameraInv
<1> QED
  BY <1>1, <1>2, <1>3, <1>4, <1>5, <1>6, <1>7, <1>8 DEF RecvNext

\* No camera runs but the one the scanner can stop, none after the unmount.
THEOREM CameraIsReleased == HooksSpec => []CameraReleased
<1>1. HooksInit => CameraInv
  BY CameraInit DEF HooksInit
<1>2. CameraInv /\ [HooksNext]_hooksVars => CameraInv'
  <2>1. [HooksNext]_hooksVars => [RecvNext]_recvVars
    BY DEF HooksNext, hooksVars
  <2> QED
    BY <2>1, CameraNext
<1>3. CameraInv => CameraReleased
  BY DEF CameraInv, CameraReleased
<1> QED
  BY <1>1, <1>2, <1>3, PTL DEF HooksSpec

\* What a render, and the effects of one, hold.
RecvTypes ==
  /\ shown \in RecvViews
  /\ ran \in RecvViews \union {NoScan}
  /\ scanning \in BOOLEAN /\ complete \in BOOLEAN
  /\ recv \in RecvSessions \union {NoScan}
  /\ effects \in Seq(Nat)
  /\ active \in Nat
  /\ imports \subseteq DOMAIN effects
  /\ looking \subseteq DOMAIN effects

\* The scan effect in force has the password the effects ran with and a cleanup;
\* a loop that looks is its loop, and the one rafRef names; and the session was
\* made with that password.
ScanInv ==
  /\ active # 0 => active \in DOMAIN effects /\ HasCleanup /\ effects[active] = ran.password
  /\ ~late /\ looking # {} => active # 0 /\ looking = {active} /\ raf = active
  /\ ~late /\ recv # NoScan => ran # NoScan /\ recv.password = ran.password

LEMMA ScanInit == RecvInit => RecvTypes /\ ScanInv
<1> SUFFICES ASSUME RecvInit PROVE RecvTypes /\ ScanInv
  OBVIOUS
<1>1. shown \in RecvViews
  BY DEF RecvInit, RecvViews
<1> QED
  BY <1>1, EmptySeq DEF RecvInit, RecvTypes, ScanInv

LEMMA ViewUpdated ==
  ASSUME NEW v \in RecvViews, NEW s \in BOOLEAN, NEW c \in BOOLEAN
  PROVE  [v EXCEPT !.scanning = s, !.complete = c] \in RecvViews
  BY DEF RecvViews

LEMMA PropUpdated ==
  ASSUME NEW v \in RecvViews, NEW prop \in {"password", "handlers", "device"}
  PROVE  [v EXCEPT ![prop] = @ + 1] \in RecvViews
<1>1. CASE prop = "password"
  BY <1>1 DEF RecvViews
<1>2. CASE prop = "handlers"
  BY <1>2 DEF RecvViews
<1>3. CASE prop = "device"
  BY <1>3 DEF RecvViews
<1> QED
  BY <1>1, <1>2, <1>3

LEMMA CurrentType ==
  ASSUME RecvTypes
  PROVE  /\ Current \in RecvViews
         /\ \A prop \in {"password", "handlers", "device"} :
              [Current EXCEPT ![prop] = @ + 1] \in RecvViews
<1>1. shown \in RecvViews /\ scanning \in BOOLEAN /\ complete \in BOOLEAN
  BY DEF RecvTypes
<1>2. Current \in RecvViews
  BY <1>1, ViewUpdated, Zenon DEF Current
<1> QED
  BY <1>2, PropUpdated

\* What does not touch the effects, the loops or the session keeps all of it.
RecvRest == <<ran, receive, effects, active, imports, looking, raf, late>>

LEMMA RestKeeps ==
  ASSUME RecvTypes, ScanInv, UNCHANGED RecvRest,
         shown' \in RecvViews, scanning' \in BOOLEAN, complete' \in BOOLEAN
  PROVE  RecvTypes' /\ ScanInv'
  BY DEF RecvRest, receive, RecvTypes, ScanInv, HasCleanup

LEMMA EffectsKeep ==
  ASSUME RecvTypes, ScanInv, RunEffects
  PROVE  RecvTypes' /\ ScanInv'
<1>1. shown' = shown /\ ran' = shown /\ late' = late /\ shown # NoScan
  BY NoScanAssumption DEF RunEffects, RecvTypes
<1>2. shown.password \in Nat
  BY DEF RecvTypes, RecvViews
<1>3. scanning' \in BOOLEAN /\ complete' \in BOOLEAN
  BY DEF RunEffects, Reset, RecvTypes
<1>4. recv' = NoScan \/ (recv' = recv /\ ran # NoScan /\ ran.password = shown.password)
  BY DEF RunEffects, Reset, Changed, receive
<1>5. recv' \in RecvSessions \union {NoScan}
  BY <1>4 DEF RecvTypes
<1>6. ~late' /\ recv' # NoScan => ran' # NoScan /\ recv'.password = ran'.password
  BY <1>1, <1>4 DEF ScanInv
<1>7. CASE Changed({"password", "handlers", "scanning", "complete"})
  <2>1. CancelScan /\ StartScan
    BY <1>7 DEF RunEffects
  <2>2. looking' \subseteq looking /\ (~late => looking' = {})
    BY <2>1 DEF CancelScan, ScanInv
  <2>3. CASE shown.scanning /\ ~shown.complete
    <3>1. /\ effects' = Append(effects, shown.password) /\ active' = Len(effects) + 1
          /\ imports' = imports \union {active'}
      BY <2>1, <2>3 DEF StartScan
    <3>2. /\ effects' \in Seq(Nat) /\ active' \in Nat \ {0} /\ active' \in DOMAIN effects'
          /\ effects'[active'] = shown.password /\ imports' \subseteq DOMAIN effects'
          /\ DOMAIN effects \subseteq DOMAIN effects'
      BY <1>2, <3>1 DEF RecvTypes
    <3>3. HasCleanup'
      BY <1>1, <2>3 DEF HasCleanup
    <3> QED
      BY <1>1, <1>3, <1>5, <1>6, <2>2, <3>2, <3>3 DEF RecvTypes, ScanInv
  <2>4. CASE ~(shown.scanning /\ ~shown.complete)
    <3>1. active' = 0 /\ UNCHANGED <<effects, imports>>
      BY <2>1, <2>4 DEF StartScan
    <3> QED
      BY <1>1, <1>3, <1>5, <1>6, <2>2, <3>1 DEF RecvTypes, ScanInv
  <2> QED
    BY <2>3, <2>4
<1>8. CASE ~Changed({"password", "handlers", "scanning", "complete"})
  <2>1. UNCHANGED <<effects, active, imports, looking, raf>>
    BY <1>8 DEF RunEffects
  <2>2. /\ ran # NoScan /\ ran.password = shown.password
        /\ ran.scanning = shown.scanning /\ ran.complete = shown.complete
    BY <1>8 DEF Changed
  <2>3. HasCleanup' = HasCleanup
    BY <1>1, <2>2 DEF HasCleanup
  <2> QED
    BY <1>1, <1>3, <1>5, <1>6, <2>1, <2>2, <2>3 DEF RecvTypes, ScanInv
<1> QED
  BY <1>7, <1>8

LEMMA CleanupsKeep ==
  ASSUME RecvTypes, ScanInv, RunCleanups
  PROVE  RecvTypes' /\ ScanInv'
<1>1. /\ UNCHANGED <<shown, ran, scanning, complete, effects, imports, late>>
      /\ recv' = NoScan /\ active' = 0 /\ CancelScan
  BY DEF RunCleanups, state
<1>2. looking' \subseteq looking /\ (~late => looking' = {})
  BY <1>1 DEF CancelScan, ScanInv
<1> QED
  BY <1>1, <1>2 DEF RecvTypes, ScanInv

LEMMA ImportKeeps ==
  ASSUME RecvTypes, ScanInv, NEW n \in imports, Imported(n) \/ ImportFails(n)
  PROVE  RecvTypes' /\ ScanInv'
<1>1. /\ UNCHANGED <<shown, ran, scanning, complete, recv, effects, active>>
      /\ imports' = imports \ {n} /\ raf' = n /\ late' = (late \/ n # active)
      /\ looking' = looking \union {n} \/ looking' = looking
  BY DEF Imported, ImportFails, screen, state, receive
<1>2. n \in Nat \ {0}
  BY DEF RecvTypes
<1>3. RecvTypes'
  BY <1>1 DEF RecvTypes
<1>4. ~late' => ~late /\ n = active
  BY <1>1
<1>5. ~late' /\ looking' # {} => looking' = {n}
  BY <1>1, <1>4 DEF ScanInv
<1>6. HasCleanup' = HasCleanup
  BY <1>1 DEF HasCleanup
<1> QED
  BY <1>1, <1>2, <1>3, <1>4, <1>5, <1>6 DEF ScanInv

LEMMA IngestKeeps ==
  ASSUME RecvTypes, NEW password \in Nat, NEW news \in {0, 1}, Ingest(password, news)
  PROVE  /\ recv' \in RecvSessions \union {NoScan}
         /\ scanning' \in BOOLEAN /\ complete' \in BOOLEAN
         /\ recv' = recv \/ (recv = NoScan /\ recv'.password = password)
              \/ (recv # NoScan /\ recv'.password = recv.password)
<1> DEFINE fed == IF recv = NoScan THEN [password |-> password, got |-> 0] ELSE recv
<1>1. fed \in RecvSessions /\ fed.got + news \in Nat
  BY DEF RecvTypes, RecvSessions
<1>2. CASE completeRef \/ (recv = NoScan /\ ~wasmUp)
  BY <1>2 DEF Ingest, RecvTypes, state, receive
<1>3. CASE ~(completeRef \/ (recv = NoScan /\ ~wasmUp))
  <2>1. /\ recv' = [fed EXCEPT !.got = fed.got + news]
        /\ completeRef' = (fed.got + news >= Needed)
        /\ complete' = (complete \/ (completeRef' /\ fed.password = Sender))
        /\ scanning' = scanning
    BY <1>3 DEF Ingest
  <2>2. recv' \in RecvSessions /\ recv'.password = fed.password
    BY <1>1, <2>1 DEF RecvSessions
  <2> QED
    BY <2>1, <2>2 DEF RecvTypes
<1> QED
  BY <1>2, <1>3

LEMMA LoopKeeps ==
  ASSUME RecvTypes, ScanInv, NEW n \in looking,
         LoopEnds(n) \/ SeeNothing(n) \/ \E news \in {0, 1} : SeeCode(n, news)
  PROVE  RecvTypes' /\ ScanInv'
<1>1. CASE LoopEnds(n)
  BY <1>1 DEF LoopEnds, screen, state, receive, RecvTypes, ScanInv, HasCleanup
<1>2. CASE SeeNothing(n)
  BY <1>2 DEF SeeNothing, Turn, screen, state, receive, RecvTypes, ScanInv, HasCleanup
<1>3. ASSUME NEW news \in {0, 1}, SeeCode(n, news)
      PROVE  RecvTypes' /\ ScanInv'
  <2>1. /\ UNCHANGED <<shown, ran, effects, active, imports, looking, late>>
        /\ raf' = n /\ Ingest(effects[n], news)
    BY <1>3 DEF SeeCode, Turn, screen
  <2>2. HasCleanup' = HasCleanup
    BY <2>1 DEF HasCleanup
  <2>3. effects[n] \in Nat
    BY DEF RecvTypes
  <2>4. /\ recv' \in RecvSessions \union {NoScan}
        /\ scanning' \in BOOLEAN /\ complete' \in BOOLEAN
        /\ recv' = recv \/ (recv = NoScan /\ recv'.password = effects[n])
             \/ (recv # NoScan /\ recv'.password = recv.password)
    BY <2>1, <2>3, IngestKeeps
  <2>5. RecvTypes'
    BY <2>1, <2>4 DEF RecvTypes
  <2>6. CASE late
    BY <2>1, <2>2, <2>5, <2>6 DEF ScanInv
  <2>7. CASE ~late
    <3>1. /\ n = active /\ active # 0 /\ HasCleanup
          /\ effects[n] = ran.password
      BY <2>7 DEF ScanInv
    <3>2. ran # NoScan
      BY <3>1 DEF HasCleanup
    <3>3. recv' # NoScan => ran # NoScan /\ recv'.password = ran.password
      BY <2>4, <2>7, <3>1, <3>2 DEF ScanInv
    <3> QED
      BY <2>1, <2>2, <2>5, <2>7, <3>1, <3>3 DEF ScanInv
  <2> QED
    BY <2>6, <2>7
<1> QED
  BY <1>1, <1>2, <1>3

LEMMA ScanNext == RecvTypes /\ ScanInv /\ [RecvNext]_recvVars => RecvTypes' /\ ScanInv'
<1> SUFFICES ASSUME RecvTypes, ScanInv, [RecvNext]_recvVars PROVE RecvTypes' /\ ScanInv'
  OBVIOUS
<1>0. shown \in RecvViews /\ scanning \in BOOLEAN /\ complete \in BOOLEAN
  BY DEF RecvTypes
<1>1. CASE ModuleReady \/ MountScanner \/ UnmountScanner
  BY <1>0, <1>1, RestKeeps DEF ModuleReady, MountScanner, UnmountScanner, RecvRest,
                               screen, state, scan
<1>2. CASE Rerender
  BY <1>0, <1>2, RestKeeps, CurrentType DEF Rerender, Commit, RecvRest, state, scan
<1>3. ASSUME NEW prop \in {"password", "handlers", "device"}, ChangeProp(prop)
      PROVE  RecvTypes' /\ ScanInv'
  BY <1>0, <1>3, RestKeeps, CurrentType DEF ChangeProp, Commit, RecvRest, state, scan
<1>4. CASE RunEffects
  BY <1>4, EffectsKeep
<1>5. CASE RunCleanups
  BY <1>5, CleanupsKeep
<1>6. ASSUME NEW a \in DOMAIN attempts, Granted(a) \/ Played(a) \/ CameraFails(a)
      PROVE  RecvTypes' /\ ScanInv'
  BY <1>0, <1>6, RestKeeps DEF Granted, Played, CameraFails, RecvRest, screen, state, scan
<1>7. ASSUME NEW n \in imports, Imported(n) \/ ImportFails(n)
      PROVE  RecvTypes' /\ ScanInv'
  BY <1>7, ImportKeeps
<1>8. ASSUME NEW n \in looking,
             LoopEnds(n) \/ SeeNothing(n) \/ \E news \in {0, 1} : SeeCode(n, news)
      PROVE  RecvTypes' /\ ScanInv'
  BY <1>8, LoopKeeps
<1>9. CASE ScanAgain
  BY <1>9 DEF ScanAgain, Reset, screen, scan, RecvTypes, ScanInv, HasCleanup
<1>10. CASE UNCHANGED recvVars
  BY <1>0, <1>10, RestKeeps DEF recvVars, RecvRest, screen, state, scan
<1> QED
  BY <1>1, <1>2, <1>3, <1>4, <1>5, <1>6, <1>7, <1>8, <1>9, <1>10 DEF RecvNext

\* One loop looks, over a session of the password rendered, unless a late import
\* has begun a loop of an effect that was cleaned up.
THEOREM ScanIsCurrent == HooksSpec => []ScansAsRendered
<1>1. HooksInit => RecvTypes /\ ScanInv
  BY ScanInit DEF HooksInit
<1>2. RecvTypes /\ ScanInv /\ [HooksNext]_hooksVars => RecvTypes' /\ ScanInv'
  <2>1. [HooksNext]_hooksVars => [RecvNext]_recvVars
    BY DEF HooksNext, hooksVars
  <2> QED
    BY <2>1, ScanNext
<1>3. RecvTypes /\ ScanInv => ScansAsRendered
  BY DEF ScanInv, ScansAsRendered
<1> QED
  BY <1>1, <1>2, <1>3, PTL DEF HooksSpec

\* The page's animator is the send hook: what is proved of it holds on the page.
THEOREM PageHasTheSendHook == HooksSpec => Spec
<1>1. HooksInit => Init
  BY DEF HooksInit
<1>2. [HooksNext]_hooksVars => [Next]_vars
  BY DEF HooksNext, hooksVars
<1> QED
  BY <1>1, <1>2, PTL DEF HooksSpec, Spec
=============================================================================
