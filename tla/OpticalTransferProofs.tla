----------------------- MODULE OpticalTransferProofs -----------------------
(***************************************************************************)
(* Proofs about OpticalTransfer, for every file, every set of sessions and *)
(* every way of showing, missing and repeating frames.                     *)
(***************************************************************************)
EXTENDS OpticalTransfer, TLAPS

-----------------------------------------------------------------------------
\* The result of get_data on one session's droplets and METADATA, when they
\* decode and the password is right, is never an error.
LEMMA AloneOpens ==
  ASSUME NEW h, NEW m, NEW o \in Sessions, CompleteWith(h, m), password,
         m \in {o, None}, \A s \in Seeds : h[s] \in {o, None}
  PROVE  Failed \notin GetData(h, m)
<1>1. m = o
  BY DEF CompleteWith
<1>2. {s \in Seeds : h[s] \in Sessions} = {s \in Seeds : h[s] \in {o}}
  BY NoneAssumption
<1>3. DecodedFrom(h, {o})
  <2>1. DecodedFrom(h, Sessions)
    BY DEF CompleteWith
  <2> QED
    BY <1>2, <2>1 DEF DecodedFrom
<1>4. Opens(o, h, m)
  BY <1>1, <1>3 DEF Opens
<1> QED
  BY <1>4 DEF GetData

\* One session's frames and the right password never end in an error.
THEOREM NeverFailsAlone == Spec => []FailureHasACause
<1>1. Init => FailureHasACause
  BY NoneAssumption DEF Init, FailureHasACause
<1>2. FailureHasACause /\ [Next]_vars => FailureHasACause'
  <2> SUFFICES ASSUME FailureHasACause, [Next]_vars PROVE FailureHasACause'
    OBVIOUS
  <2>1. CASE UNCHANGED receiver
    BY <2>1 DEF FailureHasACause, Clean, receiver
  <2>2. ASSUME NEW f \in Frames, Capture(f) PROVE FailureHasACause'
    <3> SUFFICES ASSUME result' = Failed, password', NEW o \in Sessions, Clean(o)'
                 PROVE  FALSE
      BY DEF FailureHasACause
    <3>1. result # result'
      BY <2>2, NoneAssumption DEF Capture
    <3>2. CompleteWith(heard', metadata') /\ Failed \in GetData(heard', metadata')
      BY <2>2, <3>1 DEF Capture
    <3>3. password
      BY <2>2 DEF Capture
    <3> QED
      BY <3>2, <3>3, AloneOpens DEF Clean
  <2>3. CASE RunAgain \/ CameraFails
    BY <2>3, NoneAssumption DEF RunAgain, CameraFails, FailureHasACause
  <2> QED
    BY <2>1, <2>2, <2>3 DEF Next, vars, StartSending, SetLimit, ShowFrame, EndOfFrames,
                            StopSending
<1> QED
  BY <1>1, <1>2, PTL DEF Spec

-----------------------------------------------------------------------------
LEMMA ShowType ==
  ASSUME TypeOK, ShowFrame
  PROVE  TypeOK'
<1> USE WrapAssumption DEF TypeOK
<1>1. (frameCount + 1) % FrameWrap \in 0 .. (FrameWrap - 1)
  OBVIOUS
<1>2. counter \in Nat /\ counter + 1 \in Nat
  BY DEF Seeds
<1>3. (counter + 1) % CounterWrap \in Seeds
  BY <1>2 DEF Seeds
<1>4. Metadata(sending) \in Frames /\ Droplet(sending, counter) \in Frames
  BY DEF ShowFrame, Metadata, Droplet, Frames
<1>5. frameCount' \in 0 .. (FrameWrap - 1) /\ counter' \in Seeds /\ screen' \in Frames
  BY <1>1, <1>3, <1>4 DEF ShowFrame
<1> QED
  BY <1>5 DEF ShowFrame, receiver

LEMMA CaptureType ==
  ASSUME TypeOK, NEW f \in Frames, Capture(f)
  PROVE  TypeOK'
<1> USE DEF TypeOK
<1>1. metadata' \in Sessions \cup {None}
  BY DEF Capture, Frames
<1>2. heard' \in [Seeds -> Sessions \cup {None}]
  <2>1. CASE f.seed = None
    BY <2>1 DEF Capture
  <2>2. CASE f.seed # None
    <3>1. f.seed \in Seeds /\ f.session \in Sessions
      BY <2>2 DEF Frames
    <3>2. heard' \in {heard, [heard EXCEPT ![f.seed] = f.session]}
      BY <2>2 DEF Capture
    <3> QED
      BY <3>1, <3>2
  <2> QED
    BY <2>1, <2>2
<1>3. result' \in Sessions \cup {None, Failed, CameraError}
  BY DEF Capture, GetData
<1> QED
  BY <1>1, <1>2, <1>3 DEF Capture, sender

\* The frame on the screen, the counters and what the receiver has heard stay
\* within their ranges, at the wrap of the counters too.
THEOREM TypeCorrect == Spec => []TypeOK
<1>0. 0 \in 0 .. (FrameWrap - 1) /\ 0 \in Seeds /\ 1 \in 1 .. MaxRuns
  BY WrapAssumption DEF Seeds
<1>1. Init => TypeOK
  BY <1>0 DEF Init, TypeOK
<1>2. TypeOK /\ [Next]_vars => TypeOK'
  <2> SUFFICES ASSUME TypeOK, [Next]_vars PROVE TypeOK'
    OBVIOUS
  <2> USE WrapAssumption DEF TypeOK
  <2>1. ASSUME NEW o \in Sessions, StartSending(o) PROVE TypeOK'
    BY <1>0, <2>1 DEF StartSending, receiver
  <2>2. ASSUME NEW l \in Limits, SetLimit(l) PROVE TypeOK'
    BY <2>2 DEF SetLimit, receiver
  <2>3. CASE ShowFrame
    BY <2>3, ShowType
  <2>4. CASE EndOfFrames
    BY <2>4 DEF EndOfFrames, receiver
  <2>5. CASE StopSending
    BY <2>5 DEF StopSending, receiver
  <2>6. ASSUME NEW f \in Frames, Capture(f) PROVE TypeOK'
    BY <2>6, CaptureType
  <2>7. CASE RunAgain
    BY <2>7 DEF RunAgain, sender
  <2>8. CASE CameraFails
    BY <2>8 DEF CameraFails, sender
  <2>9. CASE UNCHANGED vars
    BY <2>9 DEF vars, sender, receiver
  <2> QED
    BY <2>1, <2>2, <2>3, <2>4, <2>5, <2>6, <2>7, <2>8, <2>9 DEF Next
<1> QED
  BY <1>1, <1>2, PTL DEF Spec
=============================================================================
