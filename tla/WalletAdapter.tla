--------------------------- MODULE WalletAdapter ---------------------------
(***************************************************************************)
(* The wallet adapter of a web page (adapter.ts) and the modal that serves *)
(* it (AirSignModal.tsx).  A call of connect or of a sign function leaves  *)
(* one pending request for the whole page; the modal, which hears of it by *)
(* a window event and shows it after React's next render, settles whatever *)
(* request is pending when it is answered.  A step is a task of the page:  *)
(* the answer to a promise is a job that runs before the next task.        *)
(***************************************************************************)
CONSTANTS
  Calls,        \* the calls the page makes, each once; also their requests
  Kind,         \* connect, or the kind of thing to sign
  None

ASSUME CallsAssumption ==
  /\ Kind \in [Calls -> {"connect", "transaction", "transactions", "message"}]
  /\ None \notin Calls

VARIABLES
  pending,      \* _pendingRequest: the call it belongs to
  timers,       \* the calls whose timeout is armed
  status,       \* of the promise of each call
  reply,        \* the request whose grant settled each call, if any did
  connected,    \* _publicKey is set
  connecting,   \* _connecting
  listening,    \* the provider is mounted and hears the event
  heard,        \* history: the requests this provider has heard of
  active,       \* activeRequest, as set
  shown,        \* activeRequest, as rendered: its PIN, its QR code, its scanner
  phase,        \* of the modal; "read": the scanner has its answer
  scanned,      \* requests the phone has, with their PIN: it shows answers
  fitted,       \* the request whose PIN the scanner's effects last ran with
  loading,      \* scan effects whose import of the QR library is not done
  loops,        \* scan loops that run; a loop or effect is known by its PIN
  raf,          \* rafRef: the loop it names
  pin,          \* of the receive session, or None
  late          \* history of a scanner: an import done after its effect's cleanup

bus     == <<pending, timers, status, reply>>
wallet  == <<connected, connecting>>
screen  == <<listening, heard, active, shown, phase, scanned>>
scanner == <<fitted, loading, loops, raf, pin, late>>
modal   == <<screen, scanner>>
vars    == <<bus, wallet, modal>>

-----------------------------------------------------------------------------
Init ==
  /\ pending = None
  /\ timers = {}
  /\ status = [c \in Calls |-> "new"]
  /\ reply = [c \in Calls |-> None]
  /\ connected = FALSE
  /\ connecting = FALSE
  /\ listening = FALSE
  /\ heard = {}
  /\ active = None
  /\ shown = None
  /\ phase = "send"
  /\ scanned = {}
  /\ fitted = None /\ loading = {} /\ loops = {} /\ raf = None
  /\ pin = None /\ late = FALSE

\* Between tasks no job is waiting.
TaskTurn == \A c \in Calls : status[c] # "settled"

Settle(c, r) ==
  /\ status' = [status EXCEPT ![c] = "settled"]
  /\ reply' = [reply EXCEPT ![c] = r]

-----------------------------------------------------------------------------
(* The adapter.                                                            *)

\* Mutant: no timeout.
XSendNoTimer(c) ==
  /\ status' = [x \in Calls |-> IF x = c THEN "waiting"
                                ELSE IF x = pending THEN "settled" ELSE status[x]]
  /\ reply' = [x \in Calls |-> IF x = pending THEN None ELSE reply[x]]
  /\ pending' = c
  /\ timers' = timers \ {pending}
  /\ active' = IF listening THEN c ELSE active
  /\ heard' = IF listening THEN heard \cup {c} ELSE heard
  /\ UNCHANGED <<listening, shown, phase, scanned, scanner>>

\* _sendRequest: reject what is pending, arm the timeout, tell the provider.
Send(c) ==
  /\ status' = [x \in Calls |-> IF x = c THEN "waiting"
                                ELSE IF x = pending THEN "settled" ELSE status[x]]
  /\ reply' = [x \in Calls |-> IF x = pending THEN None ELSE reply[x]]
  /\ pending' = c
  /\ timers' = (timers \ {pending}) \cup {c}
  /\ active' = IF listening THEN c ELSE active
  /\ heard' = IF listening THEN heard \cup {c} ELSE heard
  /\ UNCHANGED <<listening, shown, phase, scanned, scanner>>

Return(c, result) ==
  /\ status' = [status EXCEPT ![c] = result]
  /\ UNCHANGED <<pending, timers, reply, wallet, modal>>

\* connect() does nothing when connected, or while another one runs.
Connect(c) ==
  /\ status[c] = "new" /\ Kind[c] = "connect"
  /\ IF connected \/ connecting
       THEN Return(c, "ok")
       ELSE connecting' = TRUE /\ Send(c) /\ UNCHANGED connected

Sign(c) ==
  /\ status[c] = "new" /\ Kind[c] # "connect"
  /\ IF connected THEN Send(c) /\ UNCHANGED wallet ELSE Return(c, "failed")

Disconnect ==
  /\ connected' = FALSE
  /\ UNCHANGED <<connecting, bus, modal>>

Timeout(c) ==
  /\ TaskTurn
  /\ c \in timers
  /\ Settle(c, None)
  /\ pending' = None
  /\ timers' = timers \ {c}
  /\ UNCHANGED <<wallet, modal>>

\* The response is of the kind the call asked for.
Granted(c) == reply[c] # None /\ Kind[reply[c]] = Kind[c]

\* Mutant: a failed connect does not clear _connecting.
XContinue(c) ==
  /\ status[c] = "settled"
  /\ status' = [status EXCEPT ![c] = IF Granted(c) THEN "ok" ELSE "failed"]
  /\ IF Kind[c] = "connect"
       THEN connected' = Granted(c) /\ connecting' = ~Granted(c)
       ELSE UNCHANGED wallet
  /\ UNCHANGED <<pending, timers, reply, modal>>

\* The await of connect or of a sign function goes on.
Continue(c) ==
  /\ status[c] = "settled"
  /\ status' = [status EXCEPT ![c] = IF Granted(c) THEN "ok" ELSE "failed"]
  /\ IF Kind[c] = "connect"
       THEN connected' = Granted(c) /\ connecting' = FALSE
       ELSE UNCHANGED wallet
  /\ UNCHANGED <<pending, timers, reply, modal>>

-----------------------------------------------------------------------------
(* The provider and its modal.                                             *)

\* The scanner is not on screen: its loops find no video, its session is freed.
ScannerOff ==
  /\ fitted' = None /\ loading' = {} /\ loops' = {} /\ raf' = None
  /\ pin' = None /\ late' = FALSE

Mount ==
  /\ ~listening
  /\ TaskTurn
  /\ listening' = TRUE
  /\ UNCHANGED <<heard, active, shown, phase, scanned, scanner, bus, wallet>>

Unmount ==
  /\ listening
  /\ TaskTurn
  /\ listening' = FALSE
  /\ heard' = {}
  /\ active' = None
  /\ shown' = None
  /\ ScannerOff
  /\ UNCHANGED <<phase, scanned, bus, wallet>>

\* A scanner that stays on screen for another request has effects to run.
Due == shown # None /\ phase \in {"recv", "read"} /\ fitted # shown

\* React renders activeRequest, with a PIN of its own.  A modal that stays on
\* screen keeps its phase.
Render ==
  /\ shown # active /\ ~Due
  /\ shown' = active
  /\ phase' = IF shown = None THEN "send" ELSE phase
  /\ IF active = None THEN ScannerOff ELSE UNCHANGED scanner
  /\ UNCHANGED <<listening, heard, active, scanned, bus, wallet>>

\* Mutant: the session outlives the PIN.
XRunEffects ==
  /\ Due
  /\ phase' = "recv"
  /\ fitted' = shown
  /\ loops' = loops \ {raf} /\ raf' = None
  /\ loading' = loading \cup {shown}
  /\ UNCHANGED <<pin, late, listening, heard, active, shown, scanned, bus, wallet>>

\* The scanner's effects after a render with another PIN: the cleanup cancels
\* the loop that rafRef names, the hook resets its session, and a scan effect
\* of the new PIN starts.  An import under way is not cancelled.
RunEffects ==
  /\ Due
  /\ phase' = "recv"
  /\ fitted' = shown
  /\ loops' = loops \ {raf} /\ raf' = None
  /\ loading' = loading \cup {shown}
  /\ pin' = None
  /\ UNCHANGED <<late, listening, heard, active, shown, scanned, bus, wallet>>

\* The QR library is there: the loop of that effect starts, wanted or not.
Imported(r) ==
  /\ r \in loading
  /\ loading' = loading \ {r}
  /\ loops' = loops \cup {r} /\ raf' = r
  /\ late' = (late \/ r # fitted)
  /\ UNCHANGED <<fitted, pin, screen, bus, wallet>>

\* A turn of a loop.  The first QR code that any of them sees makes the session,
\* with the PIN of the loop that saw it.
Look(r) ==
  /\ r \in loops
  /\ TaskTurn
  /\ raf' = r
  /\ pin' = pin \/ (pin = None /\ phase = "recv" /\ pin' = r)
  /\ UNCHANGED <<fitted, loading, loops, late, screen, bus, wallet>>

\* A button that mounts the QR code or the scanner; that takes several tasks,
\* and a render that is due comes first.
Press(from, to) ==
  /\ shown # None /\ shown = active
  /\ TaskTurn
  /\ phase \in from
  /\ phase' = to
  /\ IF to = "recv"
       THEN /\ fitted' = shown /\ loading' = {shown} /\ loops' = {} /\ raf' = None
            /\ pin' = None /\ late' = FALSE
       ELSE ScannerOff
  /\ UNCHANGED <<listening, heard, active, shown, scanned, bus, wallet>>

ShowScanner == Press({"send"}, "recv")
BackToSend  == Press({"recv"}, "send")
TryAgain    == Press({"error"}, "send")

\* Mutant: the answered request stays pending with its timeout armed.
XDone(r) ==
  /\ active' = None
  /\ IF pending = None
       THEN UNCHANGED bus
       ELSE Settle(pending, r) /\ pending' = None /\ UNCHANGED timers

\* handleDone and resolveAirSignRequest: settle whatever is pending.
Done(r) ==
  /\ active' = None
  /\ IF pending = None
       THEN UNCHANGED bus
       ELSE Settle(pending, r) /\ pending' = None /\ timers' = timers \ {pending}

\* Either cancel button; React renders after a click before the next task.
Cancel ==
  /\ shown # None
  /\ TaskTurn
  /\ Done(None)
  /\ shown' = None
  /\ ScannerOff
  /\ UNCHANGED <<listening, heard, phase, scanned, wallet>>

\* The user enters the PIN on the phone and lets it read the request.
PhoneScans ==
  /\ shown # None
  /\ TaskTurn
  /\ phase = "send"
  /\ scanned' = scanned \cup {shown}
  /\ UNCHANGED <<listening, heard, active, shown, phase, scanner, bus, wallet>>

\* A loop sees the last frame that the session needs of the phone's answer to
\* r, which decrypts with the PIN of r only.
Whole(l, r) ==
  /\ phase = "recv"
  /\ TaskTurn
  /\ l \in loops /\ raf' = l
  /\ r \in scanned /\ pin = r

\* Mutant: the scanner goes on after its payload is complete.
XReadAnswer(l, r, granted) ==
  /\ Whole(l, r)
  /\ Done(IF granted THEN r ELSE None)
  /\ UNCHANGED <<phase, listening, heard, shown, scanned, fitted, loading, loops, pin, late, wallet>>

\* The scanner has the phone's answer whole: the request granted, declined, or
\* an answer that does not parse.
ReadAnswer(l, r, granted) ==
  /\ Whole(l, r)
  /\ phase' = "read"
  /\ Done(IF granted THEN r ELSE None)
  /\ UNCHANGED <<listening, heard, shown, scanned, fitted, loading, loops, pin, late, wallet>>

\* The answer of another request does not decrypt, or the camera fails.
ScanError ==
  /\ shown # None
  /\ TaskTurn
  /\ phase = "recv"
  /\ phase' = "error"
  /\ ScannerOff
  /\ UNCHANGED <<listening, heard, active, shown, scanned, bus, wallet>>

-----------------------------------------------------------------------------
PageStep(c) == Connect(c) \/ Sign(c) \/ Continue(c) \/ Timeout(c)

ModalStep ==
  \/ Mount \/ Unmount \/ Render \/ RunEffects \/ ShowScanner \/ BackToSend \/ TryAgain
  \/ Cancel \/ PhoneScans \/ ScanError
  \/ \E r \in Calls : Imported(r) \/ Look(r)
  \/ \E l, r \in Calls, granted \in BOOLEAN : ReadAnswer(l, r, granted)

Next == Disconnect \/ ModalStep \/ \E c \in Calls : PageStep(c)

\* Timers fire and jobs run; users and phones need do nothing.
Fairness == \A c \in Calls : WF_vars(Timeout(c)) /\ WF_vars(Continue(c))

Spec == Init /\ [][Next]_vars /\ Fairness

-----------------------------------------------------------------------------
OrNone == Calls \cup {None}

TypeOK ==
  /\ pending \in OrNone
  /\ timers \in SUBSET Calls
  /\ status \in [Calls -> {"new", "waiting", "settled", "ok", "failed"}]
  /\ reply \in [Calls -> OrNone]
  /\ connected \in BOOLEAN
  /\ connecting \in BOOLEAN
  /\ listening \in BOOLEAN
  /\ heard \in SUBSET Calls
  /\ active \in OrNone
  /\ shown \in OrNone
  /\ phase \in {"send", "recv", "read", "error"}
  /\ scanned \in SUBSET Calls
  /\ fitted \in OrNone
  /\ loading \in SUBSET Calls
  /\ loops \in SUBSET Calls
  /\ raf \in OrNone
  /\ pin \in OrNone
  /\ late \in BOOLEAN

\* No call is forgotten: the calls that wait, the pending request and the armed
\* timeouts are always the same.  A timeout that outlived its request would
\* clear another call's request, whose promise would then never settle.
NoCallForgotten ==
  LET there == IF pending = None THEN {} ELSE {pending}
  IN /\ {c \in Calls : status[c] = "waiting"} = there
     /\ timers = there

\* connecting is true exactly while one call of connect is in flight, however
\* it ends, and nothing is connected then; so no call of a sign function can
\* supersede a connect, and after a failure the page can connect again.
ConnectingIsInFlight ==
  LET flying == {c \in Calls : Kind[c] = "connect" /\ status[c] \in {"waiting", "settled"}}
  IN /\ connecting = (flying # {})
     /\ connecting => ~connected
     /\ \A c, d \in flying : c = d

\* A request the mounted provider has heard of, and that is still pending, is
\* the one the modal shows or is about to: the user can always answer it.
PendingIsActive == pending \in heard => active = pending

\* The request on screen is settled by no answer to another request, late as the
\* phone may be, once the scanner's effects have run with its PIN; unless an
\* import of the QR library was done after its effect had been cleaned up: that
\* loop makes sessions with the PIN of an earlier request.
OwnAnswer ==
  [][\A c \in Calls :
       reply'[c] # reply[c] /\ reply'[c] # None /\ shown = c /\ ~Due /\ ~late =>
         reply'[c] = c]_vars

\* An answer of the phone settles no second call, with the same exception: of
\* two loops the cleanup cancels one, and the other reads the answer again.
AnswerUsedOnce ==
  [][\A c, d \in Calls :
       c # d /\ reply'[c] # reply[c] /\ reply'[c] # None /\ ~late =>
         reply'[c] # reply'[d]]_vars

\* Every call returns or throws in the end.
EveryCallSettles ==
  \A c \in Calls : status[c] = "waiting" ~> status[c] \in {"ok", "failed"}

=============================================================================
