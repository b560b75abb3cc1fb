------------------------------ MODULE SendHook ------------------------------
(***************************************************************************)
(* One QrAnimator and the hook it runs on (useSendSession.ts, with         *)
(* autoStart), and the WASM module they need (initAirSign.ts).  Renders,   *)
(* their effects, timers and handles called by the page are steps of their *)
(* own; a callback sees the inputs and the state of the render it was made *)
(* in, and the page takes the handles of the last render.                  *)
(***************************************************************************)
EXTENDS Integers, Sequences

CONSTANTS
  Total,        \* total_frames(): the frames recommended for a payload
  MaxInputs,    \* bound: how often data, filename or password change
  Sendable,     \* the inputs whose session can be made: the others throw
  MaxCalls,     \* bound: calls of the start, stop and reset handles
  None

ASSUME BoundsAssumption ==
  /\ Total \in Nat \ {0}
  /\ MaxInputs \in Nat \ {0}
  /\ Sendable \subseteq 1 .. MaxInputs
  /\ MaxCalls \in Nat
ASSUME NoneAssumption == None \notin [inputs : Nat, sent : Nat]

VARIABLES
  wasm,         \* the module: not asked for, loading, ready, or failed for good
  mounted,      \* the component: not yet, now, or no more
  rendered,     \* what the last render saw: the version of data, filename and
                \* password, and isDone
  unrun,        \* the effects of that render have not run
  session,      \* sessionRef: the inputs it was made of, the frames it emitted
  running,      \* isRunningRef
  loops,        \* the intervals that tick
  loopDone,     \* isDone, as the newest interval sees it
  errorOf,      \* state error: the inputs whose session could not be made, or 0
  deferred,     \* starts put off with setTimeout: what each of them sees
  frameIndex,   \* state
  isDone,       \* state
  drawn,        \* the frame on the canvas
  calls,        \* handles called so far
  halted,       \* history: the page called stop or reset, and no start since
  overlapped,   \* history: a start was put off while another one was
  orphaned,     \* history: a start was put off when the component went
  stale         \* history: a start saw a payload as done that was there no more

page    == <<mounted, rendered, unrun>>
hook    == <<session, running, loops, loopDone, errorOf>>
display == <<frameIndex, isDone, drawn>>
history == <<calls, halted, overlapped, orphaned, stale>>
vars    == <<wasm, page, hook, deferred, display, history>>

-----------------------------------------------------------------------------
Init ==
  /\ wasm = "none"
  /\ mounted = "no"
  /\ rendered = [inputs |-> 1, done |-> FALSE]
  /\ unrun = FALSE
  /\ session = None
  /\ running = FALSE
  /\ loops = 0
  /\ loopDone = FALSE
  /\ errorOf = 0
  /\ deferred = << >>
  /\ frameIndex = 0
  /\ isDone = FALSE
  /\ drawn = None
  /\ calls = 0
  /\ halted = FALSE
  /\ overlapped = FALSE
  /\ orphaned = FALSE
  /\ stale = FALSE

\* initAirSign: one load; a failed one stays, its promise being kept.
InitAirSign ==
  /\ wasm = "none"
  /\ wasm' = "loading"
  /\ UNCHANGED <<page, hook, deferred, display, history>>

Loaded(result) ==
  /\ wasm = "loading"
  /\ wasm' = result
  /\ UNCHANGED <<page, hook, deferred, display, history>>

\* createSession, if there is no session yet: it fails without the module, or
\* when the constructor throws.
Makes(seen) ==
  IF session # None THEN UNCHANGED <<session, errorOf>>
  ELSE session' = [inputs |-> seen.inputs, sent |-> 0] /\ errorOf' = 0

CanMake(seen) == session # None \/ (wasm = "ready" /\ seen.inputs \in Sendable)

\* Mutant: start does not look whether a loop runs already.
XStart(seen) ==
  IF CanMake(seen)
    THEN Makes(seen) /\ running' = TRUE /\ loops' = loops + 1 /\ loopDone' = seen.done
    ELSE errorOf' = seen.inputs /\ UNCHANGED <<session, running, loops, loopDone>>

\* start: make the session if there is none, and set the interval.
Start(seen) ==
  \/ running /\ UNCHANGED hook
  \/ /\ ~running /\ CanMake(seen)
     /\ Makes(seen)
     /\ running' = TRUE
     /\ loops' = loops + 1
     /\ loopDone' = seen.done
  \/ /\ ~running /\ ~CanMake(seen)
     /\ errorOf' = seen.inputs
     /\ UNCHANGED <<session, running, loops, loopDone>>

\* stopLoop: clear the interval that timerRef holds.
StopLoop ==
  /\ running' = FALSE
  /\ loops' = IF running THEN loops - 1 ELSE loops

\* Stop the loop and free the session.
Discard ==
  /\ StopLoop
  /\ session' = None
  /\ UNCHANGED loopDone

\* React runs the effects of a render before it renders again, or unmounts.
Mount ==
  /\ mounted = "no"
  /\ mounted' = "yes" /\ unrun' = TRUE
  /\ UNCHANGED <<wasm, rendered, hook, deferred, display, history>>

Change ==
  /\ mounted = "yes" /\ ~unrun
  /\ rendered.inputs < MaxInputs
  /\ rendered' = [inputs |-> rendered.inputs + 1, done |-> isDone]
  /\ unrun' = TRUE
  /\ UNCHANGED <<wasm, mounted, hook, deferred, display, history>>

\* A render for isDone has no effects of the hook to run.
ShowDone ==
  /\ mounted = "yes" /\ ~unrun
  /\ rendered.done # isDone
  /\ rendered' = [rendered EXCEPT !.done = isDone]
  /\ UNCHANGED <<wasm, mounted, unrun, hook, deferred, display, history>>

\* The first effect's start, of which the second leaves no more than the error.
TriedStart ==
  errorOf' = IF session # None THEN errorOf ELSE IF CanMake(rendered) THEN 0 ELSE rendered.inputs

\* Mutant: the session is kept for other inputs.
XRecreate ==
  /\ unrun /\ unrun' = FALSE
  /\ StopLoop
  /\ frameIndex' = 0 /\ isDone' = FALSE
  /\ deferred' = Append(deferred, rendered)
  /\ overlapped' = (overlapped \/ deferred # << >>)
  /\ stale' = (stale \/ rendered.done)
  /\ halted' = FALSE
  /\ TriedStart
  /\ UNCHANGED <<wasm, mounted, rendered, session, loopDone, drawn, calls, orphaned>>

\* The effects of a first render or of one with other inputs: start, discard
\* what there is, and put off a start.
Recreate ==
  /\ unrun /\ unrun' = FALSE
  /\ Discard
  /\ frameIndex' = 0 /\ isDone' = FALSE
  /\ deferred' = Append(deferred, rendered)
  /\ overlapped' = (overlapped \/ deferred # << >>)
  /\ stale' = (stale \/ rendered.done)
  /\ halted' = FALSE
  /\ TriedStart
  /\ UNCHANGED <<wasm, mounted, rendered, drawn, calls, orphaned>>

\* Mutant: the start that was put off does nothing.
XFire ==
  /\ deferred # << >>
  /\ deferred' = Tail(deferred)
  /\ UNCHANGED <<wasm, page, hook, display, history>>

\* A start that was put off; nobody cancels it.
Fire ==
  /\ deferred # << >>
  /\ Start(Head(deferred))
  /\ deferred' = Tail(deferred)
  /\ UNCHANGED <<wasm, page, display, history>>

\* latestFrameRef, to which no line of QrAnimator assigns.
LatestFrame == None

\* Mutant: done only beyond the recommended count.
XTick ==
  /\ loops > 0 /\ session # None
  /\ LET sent == IF session.sent <= Total THEN session.sent + 1 ELSE session.sent
     IN /\ session' = [session EXCEPT !.sent = sent]
        /\ frameIndex' = sent
        /\ isDone' = (isDone \/ (sent > Total /\ ~loopDone))
  /\ UNCHANGED <<wasm, page, running, loops, loopDone, errorOf, deferred, drawn, history>>

\* One turn of the interval: a frame, the progress, and the effect that draws.
Tick ==
  /\ loops > 0 /\ session # None
  /\ LET sent == IF session.sent <= Total THEN session.sent + 1 ELSE session.sent
     IN /\ session' = [session EXCEPT !.sent = sent]
        /\ IF mounted = "yes"
             THEN /\ frameIndex' = sent
                  /\ isDone' = (isDone \/ (sent >= Total /\ ~loopDone))
                  /\ drawn' = IF LatestFrame = None THEN drawn ELSE LatestFrame
             ELSE UNCHANGED display
  /\ UNCHANGED <<wasm, page, running, loops, loopDone, errorOf, deferred, history>>

\* The handles start, stop and reset.
Call ==
  /\ mounted = "yes" /\ calls < MaxCalls
  /\ calls' = calls + 1
  /\ UNCHANGED <<wasm, page, deferred, drawn, overlapped, orphaned>>

CallStart ==
  /\ Call
  /\ Start(rendered)
  /\ halted' = FALSE
  /\ stale' = (stale \/ (~running /\ rendered.done /\ ~isDone))
  /\ UNCHANGED <<frameIndex, isDone>>

CallStop ==
  /\ Call
  /\ StopLoop
  /\ halted' = TRUE
  /\ UNCHANGED <<session, loopDone, errorOf, frameIndex, isDone, stale>>

CallReset ==
  /\ Call
  /\ Discard
  /\ errorOf' = 0
  /\ halted' = TRUE
  /\ frameIndex' = 0 /\ isDone' = FALSE
  /\ UNCHANGED stale

\* Mutant: the cleanup frees the session and lets the interval run.
XUnmount ==
  /\ mounted = "yes" /\ ~unrun
  /\ mounted' = "gone"
  /\ session' = None
  /\ orphaned' = (deferred # << >>)
  /\ UNCHANGED <<wasm, rendered, unrun, running, loops, loopDone, errorOf, deferred, display,
                 calls, halted, overlapped, stale>>

\* The cleanups: stop and free, and nothing about starts put off.
Unmount ==
  /\ mounted = "yes" /\ ~unrun
  /\ mounted' = "gone"
  /\ Discard
  /\ orphaned' = (deferred # << >>)
  /\ UNCHANGED <<wasm, rendered, unrun, errorOf, deferred, display,
                 calls, halted, overlapped, stale>>

Next ==
  \/ InitAirSign \/ Loaded("ready") \/ Loaded("failed")
  \/ Mount \/ Change \/ ShowDone \/ Recreate \/ Unmount
  \/ Fire \/ Tick
  \/ CallStart \/ CallStop \/ CallReset

\* React runs effects and timers fire; the page need do nothing.
SendFairness == WF_vars(Recreate) /\ WF_vars(Fire) /\ WF_vars(Tick)

Spec == Init /\ [][Next]_vars /\ SendFairness

-----------------------------------------------------------------------------
Sessions == [inputs : 1 .. MaxInputs, sent : 0 .. Total + 1]
Views == [inputs : 1 .. MaxInputs, done : BOOLEAN]

TypeOK ==
  /\ wasm \in {"none", "loading", "ready", "failed"}
  /\ mounted \in {"no", "yes", "gone"}
  /\ rendered \in Views
  /\ unrun \in BOOLEAN
  /\ session \in Sessions \cup {None}
  /\ running \in BOOLEAN
  /\ loops \in Nat
  /\ loopDone \in BOOLEAN
  /\ errorOf \in 0 .. MaxInputs
  /\ deferred \in Seq(Views)
  /\ frameIndex \in 0 .. Total + 1
  /\ isDone \in BOOLEAN
  /\ drawn = None
  /\ calls \in 0 .. MaxCalls
  /\ halted \in BOOLEAN
  /\ overlapped \in BOOLEAN
  /\ orphaned \in BOOLEAN
  /\ stale \in BOOLEAN

\* However starts, stops, changes and timers cross, there is one interval when
\* the hook runs and none when it does not, and it has a session to read: no
\* interval is lost to timerRef, where nothing could clear it.
OneLoop ==
  /\ loops = IF running THEN 1 ELSE 0
  /\ running => session # None

\* Once the effects of a render have run, the frames emitted are those of the
\* inputs rendered, unless two starts were put off at once: the older one then
\* makes the session, with the older inputs, and the newer one finds the loop
\* running.
StreamsCurrentInputs ==
  ~overlapped /\ ~unrun /\ session # None => session.inputs = rendered.inputs

\* After the component is gone nothing ticks and no session is left, unless a
\* start was put off then: that one makes a session nobody frees.
UnmountCleans ==
  mounted = "gone" /\ ~orphaned => loops = 0 /\ session = None

\* "All frames transmitted" is shown only over a session that has sent them.
DoneIsTrue ==
  mounted = "yes" /\ isDone => session # None /\ session.sent >= Total

\* It is shown as soon as they are, unless a start ever saw an earlier payload
\* as done: the one put off when the inputs changed after that, or a handle's
\* start called after reset and before the render that takes isDone back.
DoneIsReported ==
  mounted = "yes" /\ session # None /\ session.sent >= Total /\ ~stale => isDone

\* A start put off ends with the error shown or with a whole payload of the
\* inputs rendered emitted by their session, unless the page halts the loop,
\* renders other inputs or removes the component, or two starts were put off at
\* once.  (Emitted, not shown: no frame reaches the canvas.)
PayloadSent ==
  \A v \in 1 .. MaxInputs :
    deferred # << >> /\ mounted = "yes" /\ rendered.inputs = v
      ~> \/ halted \/ mounted = "gone" \/ overlapped \/ rendered.inputs # v
         \/ errorOf = v /\ deferred = << >>
         \/ session # None /\ session.inputs = v /\ session.sent >= Total

\* What the header of QrAnimator.tsx says: each frame produced is drawn onto the
\* canvas; so the canvas of an animator that emits a whole payload does not stay
\* empty while its session lasts.
FramesDrawn ==
  mounted = "yes" /\ session # None /\ session.sent = Total
    ~> drawn # None \/ mounted = "gone" \/ session = None \/ halted

=============================================================================
