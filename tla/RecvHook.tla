------------------------------ MODULE RecvHook ------------------------------
(***************************************************************************)
(* One QrScanner (QrScanner.tsx) and the hook it runs on                   *)
(* (useRecvSession.ts).  A commit renders props and state; the effects     *)
(* that depend on what changed run later, and start the camera and the     *)
(* import of the QR library, which answer later still, in the closures of  *)
(* the render they were started in.                                        *)
(***************************************************************************)
EXTENDS Naturals, Sequences, FiniteSets

CONSTANTS
  Needed,       \* frames that complete a transfer
  Sender,       \* the version of the password that the sender's frames need
  MaxChanges,   \* bound: renders by the parent with other props, and "Scan again"s
  NoScan

ASSUME RecvBounds ==
  Needed \in Nat \ {0} /\ Sender \in Nat /\ MaxChanges \in Nat

RecvSessions == [password : Nat, got : Nat]
RecvViews == [password : Nat, handlers : Nat, device : Nat,
              scanning : BOOLEAN, complete : BOOLEAN]

ASSUME NoScanAssumption == NoScan \notin RecvSessions \union RecvViews

VARIABLES
  scanner,      \* the component: not yet, mounted, leaving (its DOM is gone), gone
  wasmUp,       \* the WASM module is there
  shown,        \* what the last commit rendered: versions of props, and state
  ran,          \* what the effects last ran with
  due,          \* the effects of the last commit have not run
  scanning,     \* state
  complete,     \* state isComplete
  failed,       \* state error
  cameraError,  \* state
  recv,         \* sessionRef: its password, the frames it has
  completeRef,  \* isCompleteRef
  attempts,     \* per camera effect: asking, playing or over
  stream,       \* streamRef: the attempt it came from, or 0
  live,         \* attempts whose tracks run
  effects,      \* per scan effect: the password its closure has
  active,       \* the scan effect not cleaned up, or 0
  imports,      \* scan effects that wait for the library
  looking,        \* scan effects with a callback at the next animation frame
  raf,          \* rafRef: whose callback it names, or 0
  changes,
  late,         \* history: an import was done after its effect's cleanup
  hidden        \* history: a camera that started late took an error off

screen   == <<scanner, shown, ran, due>>
state    == <<scanning, complete, failed, cameraError>>
receive  == <<recv, completeRef>>
camera   == <<attempts, stream, live>>
scan     == <<effects, active, imports, looking, raf, late, hidden>>
recvVars == <<screen, wasmUp, state, receive, camera, scan, changes>>

-----------------------------------------------------------------------------
RecvInit ==
  /\ scanner = "no" /\ wasmUp = FALSE
  /\ shown = [password |-> 1, handlers |-> 1, device |-> 1, scanning |-> FALSE, complete |-> FALSE]
  /\ ran = NoScan /\ due = FALSE
  /\ scanning = FALSE /\ complete = FALSE /\ failed = "no" /\ cameraError = FALSE
  /\ recv = NoScan /\ completeRef = FALSE
  /\ attempts = <<>> /\ stream = 0 /\ live = {}
  /\ effects = <<>> /\ active = 0 /\ imports = {} /\ looking = {} /\ raf = 0
  /\ changes = 0 /\ late = FALSE /\ hidden = FALSE

\* initAirSign is done.
ModuleReady ==
  /\ ~wasmUp /\ wasmUp' = TRUE
  /\ UNCHANGED <<screen, state, receive, camera, scan, changes>>

MountScanner ==
  /\ scanner = "no"
  /\ scanner' = "yes" /\ due' = TRUE
  /\ UNCHANGED <<shown, ran, wasmUp, state, receive, camera, scan, changes>>

\* React runs the effects of a commit before it renders again.
Commit(view) ==
  /\ scanner = "yes" /\ ~due
  /\ shown' = view /\ due' = TRUE
  /\ UNCHANGED <<scanner, ran, wasmUp, state, receive, camera, scan>>

Current == [shown EXCEPT !.scanning = scanning, !.complete = complete]

Rerender == /\ Current # shown
            /\ Commit(Current)
            /\ UNCHANGED changes

\* The parent renders with another password, another deviceId, or with other
\* callbacks, onError among them.
ChangeProp(prop) ==
  /\ changes < MaxChanges
  /\ changes' = changes + 1
  /\ Commit([Current EXCEPT ![prop] = @ + 1])

\* Mutant: isCompleteRef is not reset.
XReset ==
  /\ recv' = NoScan
  /\ complete' = FALSE /\ failed' = "no"
  /\ UNCHANGED <<completeRef, cameraError>>

\* reset: not the camera's error, which is the scanner's.
Reset ==
  /\ recv' = NoScan /\ completeRef' = FALSE
  /\ complete' = FALSE /\ failed' = "no"
  /\ UNCHANGED cameraError

\* Mutant: the cleanup does not cancel.
XCancelScan == UNCHANGED <<looking, raf>>

\* The cleanup of the scan effect, if it went as far as to return one: it
\* cancels the callback that rafRef names.
HasCleanup == ran # NoScan /\ ran.scanning /\ ~ran.complete
CancelScan == /\ looking' = IF HasCleanup THEN looking \ {raf} ELSE looking
              /\ raf' = IF HasCleanup THEN 0 ELSE raf

StartScan ==
  IF shown.scanning /\ ~shown.complete
    THEN /\ effects' = Append(effects, shown.password)
         /\ active' = Len(effects) + 1
         /\ imports' = imports \union {active'}
    ELSE active' = 0 /\ UNCHANGED <<effects, imports>>

StopCamera == live' = live \ {stream} /\ stream' = 0

Changed(deps) == ran = NoScan \/ \E d \in deps : shown[d] # ran[d]

\* The effects of a commit: cleanups first, then the hook's reset, the camera
\* and the scan.
RunEffects ==
  /\ scanner = "yes" /\ due
  /\ due' = FALSE /\ ran' = shown
  /\ IF Changed({"password", "handlers", "scanning", "complete"})
       THEN CancelScan /\ StartScan
       ELSE UNCHANGED <<effects, active, imports, looking, raf>>
  /\ IF Changed({"handlers", "device"})
       THEN StopCamera /\ attempts' = Append(attempts, "asking") /\ scanning' = FALSE
       ELSE UNCHANGED <<camera, scanning>>
  /\ IF Changed({"password"}) THEN Reset ELSE UNCHANGED <<receive, complete, failed, cameraError>>
  /\ UNCHANGED <<scanner, shown, wasmUp, late, hidden, changes>>

\* Unmounting takes the DOM first, then runs the cleanups.
UnmountScanner ==
  /\ scanner = "yes" /\ ~due
  /\ scanner' = "leaving"
  /\ UNCHANGED <<shown, ran, due, wasmUp, state, receive, camera, scan, changes>>

RunCleanups ==
  /\ scanner = "leaving"
  /\ scanner' = "gone"
  /\ recv' = NoScan
  /\ CancelScan /\ active' = 0
  /\ StopCamera
  /\ UNCHANGED <<shown, ran, due, wasmUp, state, completeRef, attempts, effects, imports,
                 late, hidden, changes>>

-----------------------------------------------------------------------------
\* The flag of an attempt's closure.
Cancelled(a) == a # Len(attempts) \/ scanner = "gone"

Advance(a, step) == attempts' = [attempts EXCEPT ![a] = step]

\* Mutant: getUserMedia answers, and nobody looks whether it is still wanted.
XGranted(a) ==
  /\ attempts[a] = "asking"
  /\ stream' = a /\ live' = live \union {a}
  /\ Advance(a, IF scanner = "yes" THEN "playing" ELSE "over")
  /\ UNCHANGED <<screen, wasmUp, state, receive, scan, changes>>

\* getUserMedia answers: a stream not wanted any more is stopped at once, one
\* without a video element to play it is kept for the cleanup.
Granted(a) ==
  /\ attempts[a] = "asking"
  /\ IF Cancelled(a)
       THEN Advance(a, "over") /\ UNCHANGED <<stream, live>>
       ELSE /\ stream' = a /\ live' = live \union {a}
            /\ Advance(a, IF scanner = "yes" THEN "playing" ELSE "over")
  /\ UNCHANGED <<screen, wasmUp, state, receive, scan, changes>>

\* video.play() is done; the flag is not looked at again.
Played(a) ==
  /\ attempts[a] = "playing"
  /\ Advance(a, "over")
  /\ scanning' = TRUE /\ cameraError' = FALSE
  /\ hidden' = (hidden \/ (cameraError /\ (shown.scanning \/ Cancelled(a))))
  /\ UNCHANGED <<screen, wasmUp, complete, failed, receive, stream, live,
                 effects, active, imports, looking, raf, late, changes>>

\* Either is refused, whether still wanted or not.
CameraFails(a) ==
  /\ attempts[a] # "over"
  /\ Advance(a, "over")
  /\ cameraError' = TRUE
  /\ UNCHANGED <<screen, wasmUp, scanning, complete, failed, receive, stream, live, scan, changes>>

\* The library is there, or not: the loop of the effect begins, whether the
\* effect has been cleaned up or not.  Without a library its first turn is its
\* last.
Imported(n) ==
  /\ imports' = imports \ {n}
  /\ looking' = looking \union {n} /\ raf' = n
  /\ late' = (late \/ n # active)
  /\ UNCHANGED <<screen, wasmUp, state, receive, camera, effects, active, hidden, changes>>

ImportFails(n) ==
  /\ imports' = imports \ {n}
  /\ raf' = n
  /\ late' = (late \/ n # active)
  /\ cameraError' = TRUE
  /\ UNCHANGED <<screen, wasmUp, scanning, complete, failed, receive, camera,
                 effects, active, looking, hidden, changes>>

-----------------------------------------------------------------------------
\* ingest, of a closure with this password, of a frame with or without news.
Ingest(password, news) ==
  IF completeRef THEN UNCHANGED <<state, receive>>
  ELSE IF recv = NoScan /\ ~wasmUp
    THEN failed' = "wasm" /\ UNCHANGED <<scanning, complete, cameraError, receive>>
  ELSE LET session == IF recv = NoScan THEN [password |-> password, got |-> 0] ELSE recv
           got     == session.got + news
           opens   == session.password = Sender
       IN /\ recv' = [session EXCEPT !.got = got]
          /\ completeRef' = (got >= Needed)
          /\ complete' = (complete \/ (completeRef' /\ opens))
          /\ failed' = IF ~completeRef' THEN failed ELSE IF opens THEN "no" ELSE "decrypt"
          /\ UNCHANGED <<scanning, cameraError>>

\* A turn of a loop: without a video it ends; else it schedules the next turn.
LoopEnds(n) ==
  /\ scanner # "yes"
  /\ looking' = looking \ {n}
  /\ UNCHANGED <<screen, wasmUp, state, receive, camera,
                 effects, active, imports, raf, late, hidden, changes>>

Turn(n) ==
  /\ scanner = "yes"
  /\ raf' = n
  /\ UNCHANGED <<screen, wasmUp, camera, effects, active, imports, looking, late, hidden, changes>>

SeeNothing(n) == Turn(n) /\ UNCHANGED <<state, receive>>
SeeCode(n, news) == Turn(n) /\ stream # 0 /\ Ingest(effects[n], news)

\* "Scan again", offered after a completed transfer or an error.
ScanAgain ==
  /\ scanner = "yes" /\ ~due /\ changes < MaxChanges
  /\ shown.complete \/ failed # "no" \/ cameraError
  /\ changes' = changes + 1
  /\ Reset
  /\ UNCHANGED <<screen, wasmUp, scanning, camera, scan>>

-----------------------------------------------------------------------------
RecvNext ==
  \/ ModuleReady \/ MountScanner \/ Rerender \/ RunEffects \/ UnmountScanner \/ RunCleanups
  \/ \E prop \in {"password", "handlers", "device"} : ChangeProp(prop)
  \/ \E a \in DOMAIN attempts : Granted(a) \/ Played(a) \/ CameraFails(a)
  \/ \E n \in imports : Imported(n) \/ ImportFails(n)
  \/ \E n \in looking : LoopEnds(n) \/ SeeNothing(n) \/ \E news \in {0, 1} : SeeCode(n, news)
  \/ ScanAgain

\* React renders and runs effects, the camera and the import answer, and while
\* a camera runs and a loop looks, the sender's frames come before it.
RecvFairness ==
  /\ WF_recvVars(Rerender) /\ WF_recvVars(RunEffects)
  /\ WF_recvVars(\E a \in DOMAIN attempts : Granted(a) \/ Played(a) \/ CameraFails(a))
  /\ WF_recvVars(\E n \in imports : Imported(n) \/ ImportFails(n))
  /\ WF_recvVars(\E n \in looking : SeeCode(n, 1))

-----------------------------------------------------------------------------
\* One loop looks, that of the effects in force, and the session it feeds has
\* the password they were run with: so a result, or a failure, is the current
\* password's.  Except when the library came after the cleanup of the effect
\* that asked for it: that effect's loop goes on, and may make the session with
\* the old password.
ScansAsRendered ==
  ~late => /\ looking \subseteq {active}
           /\ recv # NoScan => recv.password = ran.password

\* However prompts, restarts and the unmount cross, no camera runs but the one
\* the scanner can stop; and when it is gone no camera and no session is left.
CameraReleased ==
  /\ live \subseteq {stream}
  /\ scanner = "gone" => live = {} /\ recv = NoScan

\* A mounted scanner comes to a result or an error, after each "Scan again" and
\* change too; unless a video that starts late, for a camera not wanted any more
\* or when the QR library is missing, takes the error of the other off the
\* screen.
ScanSettles ==
  scanner = "yes" ~> complete \/ failed # "no" \/ cameraError \/ scanner # "yes" \/ hidden
=============================================================================
