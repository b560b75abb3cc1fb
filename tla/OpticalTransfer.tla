-------------------------- MODULE OpticalTransfer --------------------------
(***************************************************************************)
(* One file shown on a screen and read by a camera: SendSession and the    *)
(* display loop on one machine, the camera loop and RecvSession on the     *)
(* other, and nothing between them but the frame on the screen, which the  *)
(* camera sees any number of times or not at all.  The sender may be       *)
(* closed and started again (a new session: new salt, new ciphertext), and *)
(* the receiver run again.                                                 *)
(*                                                                         *)
(* LTDecoder is used through what it implements (Peeling): the blocks      *)
(* known are the peeling closure of the seeds heard.  Of two droplets with *)
(* one seed the decoder keeps the first, before and after METADATA alike,  *)
(* so the receiver's droplets are a function from seeds.                   *)
(***************************************************************************)
EXTENDS Integers, FiniteSets

CONSTANTS
  Blocks,           \* the source blocks of the encrypted file
  CounterWrap,      \* stands for 2^32: the droplet counter is a u32
  Neighbours,       \* RobustSoliton::neighbours of each seed
  Sessions,         \* the sessions the sender may start, each once
  Params,           \* the Argon2id parameters in each session's METADATA
  MetadataInterval, \* METADATA_INTERVAL
  FrameWrap,        \* stands for 2^32: frame_count is a u32
  Limits,           \* the values set_limit may be called with
  MaxRuns,          \* bound: runs of the receiver
  None,             \* no session, no frame, no limit, no result yet
  Failed,           \* get_data returned an error
  CameraError       \* the camera did

Seeds == 0 .. (CounterWrap - 1)

ASSUME WrapAssumption ==
  /\ CounterWrap \in Nat \ {0}
  /\ FrameWrap \in Nat \ {0}
  /\ MetadataInterval \in Nat \ {0, 1}
  /\ MaxRuns \in Nat \ {0}
  /\ Limits \subseteq 0 .. (FrameWrap - 1)
ASSUME NoneAssumption ==
  /\ None \notin Sessions \cup Limits /\ Failed \notin Sessions \cup {None}
  /\ CameraError \notin Sessions \cup {None, Failed}
ASSUME NeighboursAssumption ==
  Neighbours \in [Seeds -> (SUBSET Blocks) \ {{}}]

Metadata(o) == [session |-> o, seed |-> None]
Droplet(o, s) == [session |-> o, seed |-> s]
Frames == [session : Sessions, seed : Seeds \cup {None}]

VARIABLES
  sending,      \* the session being sent, or None
  used,         \* the sessions started so far
  frameCount,   \* SendSession.frame_count
  counter,      \* LTEncoder.counter
  limit,        \* SendSession.limit
  done,         \* SendSession.done
  screen,       \* the frame in the window
  password,     \* the receiver was given the right password
  metadata,     \* RecvSession.metadata: the session of the last METADATA
  heard,        \* per seed, the session of the droplet the decoder has of it
  result,       \* what receive returned, None while it loops
  runs          \* runs of the receiver so far

sender   == <<sending, used, frameCount, counter, limit, done, screen>>
receiver == <<password, metadata, heard, result, runs>>
vars     == <<sender, receiver>>

Peel == INSTANCE Peeling WITH
          received <- {s \in Seeds : heard[s] # None}, recovered <- {}, busy <- FALSE

-----------------------------------------------------------------------------
\* LTDecoder.is_complete, once METADATA has given the block count.
DecodedFrom(h, from) ==
  Peel!PeelClosure({s \in Seeds : h[s] \in from}) = Blocks
CompleteWith(h, m) == m # None /\ DecodedFrom(h, Sessions)
IsComplete == CompleteWith(heard, metadata)

\* get_data with droplets h and METADATA m: session o's file when the blocks
\* are all o's and the key is derived as o derived it, else an AEAD error.
\* Which session's droplets gave the blocks depends on the order of arrival;
\* they can all be o's only if o's droplets reach every block by themselves.

\* Mutant: the key is derived with default parameters, not METADATA's.
XOpensByDefault(o, h, m) ==
  password /\ (\A u \in Sessions : Params[o] <= Params[u]) /\ DecodedFrom(h, {o})

Opens(o, h, m) == password /\ Params[m] = Params[o] /\ DecodedFrom(h, {o})
GetData(h, m) ==
  { r \in Sessions \cup {Failed} :
      IF r = Failed
        THEN \A o \in Sessions :
               Opens(o, h, m) => \E s \in Seeds : h[s] \notin {o, None}
        ELSE Opens(r, h, m) }

-----------------------------------------------------------------------------
Init ==
  /\ sending = None
  /\ used = {}
  /\ frameCount = 0
  /\ counter = 0
  /\ limit = None
  /\ done = FALSE
  /\ screen = None
  /\ password \in BOOLEAN
  /\ metadata = None
  /\ heard = [s \in Seeds |-> None]
  /\ result = None
  /\ runs = 1

\* SendSession::new, and a window for it.
StartSending(o) ==
  /\ sending = None
  /\ o \notin used
  /\ sending' = o
  /\ used' = used \cup {o}
  /\ frameCount' = 0
  /\ counter' = 0
  /\ limit' = None
  /\ done' = FALSE
  /\ UNCHANGED <<screen, receiver>>

SetLimit(n) ==
  /\ sending # None
  /\ limit' = n
  /\ UNCHANGED <<sending, used, frameCount, counter, done, screen, receiver>>

LimitReached == limit # None /\ frameCount >= limit

\* Mutants: METADATA is due when the remainder is one it never is, and the
\* droplet counter stands still.
XShowNoMetadata ==
  /\ sending # None
  /\ ~done
  /\ ~LimitReached
  /\ frameCount' = (frameCount + 1) % FrameWrap
  /\ screen' = Droplet(sending, counter)
  /\ counter' = (counter + 1) % CounterWrap
  /\ UNCHANGED <<sending, used, limit, done, receiver>>
XShowSameDroplet ==
  /\ sending # None
  /\ ~done
  /\ ~LimitReached
  /\ frameCount' = (frameCount + 1) % FrameWrap
  /\ screen' = IF frameCount % MetadataInterval = 0 THEN Metadata(sending)
                                                   ELSE Droplet(sending, counter)
  /\ UNCHANGED <<sending, used, counter, limit, done, receiver>>

\* One turn of run_session: next_frame returns a frame, and it is shown.
ShowFrame ==
  /\ sending # None
  /\ ~done
  /\ ~LimitReached
  /\ frameCount' = (frameCount + 1) % FrameWrap
  /\ IF frameCount % MetadataInterval = 0
       THEN /\ screen' = Metadata(sending)
            /\ UNCHANGED counter
       ELSE /\ screen' = Droplet(sending, counter)
            /\ counter' = (counter + 1) % CounterWrap
  /\ UNCHANGED <<sending, used, limit, done, receiver>>

\* next_frame returns None, run_session ends and the window goes.
EndOfFrames ==
  /\ sending # None
  /\ ~done
  /\ LimitReached
  /\ done' = TRUE
  /\ screen' = None
  /\ UNCHANGED <<sending, used, frameCount, counter, limit, receiver>>

\* The user closes the window, or the program once it has sent its frames.
StopSending ==
  /\ sending # None
  /\ sending' = None
  /\ screen' = None
  /\ UNCHANGED <<used, frameCount, counter, limit, done, receiver>>

\* One turn of the camera loop with a readable QR code: ingest_frame, and,
\* when it returns true, get_data and the end of the loop.
Capture(f) ==
  /\ screen = f
  /\ result = None
  /\ IF f.seed = None
       THEN metadata' = f.session /\ UNCHANGED heard
       ELSE /\ heard' = IF heard[f.seed] = None
                          THEN [heard EXCEPT ![f.seed] = f.session]
                          ELSE heard
            /\ UNCHANGED metadata
  /\ \/ ~CompleteWith(heard', metadata') /\ UNCHANGED result
     \/ CompleteWith(heard', metadata') /\ result' \in GetData(heard', metadata')
  /\ UNCHANGED <<sender, password, runs>>

\* The camera delivers no frame, and receive returns its error.
CameraFails ==
  /\ result = None
  /\ result' = CameraError
  /\ UNCHANGED <<sender, password, metadata, heard, runs>>

\* The receiver is interrupted, or has returned, and is run again.
RunAgain ==
  /\ runs < MaxRuns
  /\ runs' = runs + 1
  /\ password' \in BOOLEAN
  /\ metadata' = None
  /\ heard' = [s \in Seeds |-> None]
  /\ result' = None
  /\ UNCHANGED sender

Next ==
  \/ \E o \in Sessions : StartSending(o)
  \/ \E n \in Limits : SetLimit(n)
  \/ ShowFrame
  \/ EndOfFrames
  \/ StopSending
  \/ \E f \in Frames : Capture(f)
  \/ CameraFails
  \/ RunAgain

Spec == Init /\ [][Next]_vars

\* The display loop keeps running, and the camera, whose rate is not tied to
\* the display's, in the long run catches every frame that keeps coming back.
\* The users may start, stop and limit as they please, and need do nothing.
Fairness ==
  /\ WF_vars(ShowFrame \/ EndOfFrames)
  /\ \A f \in Frames : SF_vars(Capture(f))
FairSpec == Spec /\ Fairness

-----------------------------------------------------------------------------
TypeOK ==
  /\ sending \in Sessions \cup {None}
  /\ used \in SUBSET Sessions
  /\ frameCount \in 0 .. (FrameWrap - 1)
  /\ counter \in Seeds
  /\ limit \in Limits \cup {None}
  /\ done \in BOOLEAN
  /\ screen \in Frames \cup {None}
  /\ password \in BOOLEAN
  /\ metadata \in Sessions \cup {None}
  /\ heard \in [Seeds -> Sessions \cup {None}]
  /\ result \in Sessions \cup {None, Failed, CameraError}
  /\ runs \in 1 .. MaxRuns

\* All that the receiver has comes from session o.
Clean(o) ==
  /\ metadata \in {o, None}
  /\ \A s \in Seeds : heard[s] \in {o, None}

\* Only a wrong password or frames of two sessions make get_data fail:
\* whatever frames are missed, repeated, or seen before METADATA, one
\* session's frames never end in an error.
FailureHasACause ==
  result = Failed => ~password \/ \A o \in Sessions : ~Clean(o)

\* While a session is on the screen again and again, every run of the
\* receiver returns, with the file or with an error.
ReceiveReturns == []<>(screen # None) => []<>(result # None)

\* A session shown without end reaches a receiver that has the password and
\* is not disturbed by another session's frames, unless its camera fails.
Delivers ==
  \A o \in Sessions :
    []<>(screen # None /\ sending = o) /\ <>[](Clean(o) /\ password)
      => <>(result \in {o, CameraError})

=============================================================================
