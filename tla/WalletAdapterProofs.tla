------------------------ MODULE WalletAdapterProofs ------------------------
(***************************************************************************)
(* The wallet adapter for any calls: no promise is forgotten, connecting   *)
(* is exact, and which request an answer of the phone can settle.          *)
(***************************************************************************)
EXTENDS WalletAdapter, TLAPS

\* The modal's steps that leave the bus and the wallet alone.
ScreenStep ==
  \/ Mount \/ Unmount \/ Render \/ RunEffects \/ ShowScanner \/ BackToSend \/ TryAgain
  \/ PhoneScans \/ ScanError
  \/ \E r \in Calls : Imported(r) \/ Look(r)

\* One step per operation, and what it leaves alone.
LEMMA Cases ==
  ASSUME [Next]_vars
  PROVE  \/ Disconnect \/ ScreenStep \/ Cancel \/ UNCHANGED vars
         \/ \E c \in Calls : Connect(c) \/ Sign(c) \/ Continue(c) \/ Timeout(c)
         \/ \E l, r \in Calls, granted \in BOOLEAN : ReadAnswer(l, r, granted)
  BY DEF Next, ModalStep, PageStep, ScreenStep

\* The screen's steps leave the bus and the wallet alone.
LEMMA ScreenOnly ==
  ASSUME ScreenStep
  PROVE  UNCHANGED <<pending, timers, status, reply, connected, connecting>>
  BY DEF ScreenStep, Mount, Unmount, Render, RunEffects, ShowScanner, BackToSend, TryAgain,
         Press, PhoneScans, ScanError, Imported, Look, bus, wallet

\* The types.
THEOREM TypeCorrect == Spec => []TypeOK
<1>1. Init => TypeOK
  BY DEF Init, TypeOK, OrNone
<1>2. TypeOK /\ [Next]_vars => TypeOK'
  <2> SUFFICES ASSUME TypeOK, [Next]_vars PROVE TypeOK'
    OBVIOUS
  <2>1. ASSUME NEW c \in Calls, Connect(c) PROVE TypeOK'
    <3>1. CASE connected \/ connecting
      BY <2>1, <3>1 DEF Connect, Return, TypeOK, OrNone, wallet, modal, screen, scanner
    <3>2. CASE ~(connected \/ connecting)
      BY <2>1, <3>2 DEF Connect, Send, TypeOK, OrNone, scanner
    <3> QED BY <3>1, <3>2
  <2>2. ASSUME NEW c \in Calls, Sign(c) PROVE TypeOK'
    <3>1. CASE connected
      BY <2>2, <3>1 DEF Sign, Send, TypeOK, OrNone, wallet, scanner
    <3>2. CASE ~connected
      BY <2>2, <3>2 DEF Sign, Return, TypeOK, OrNone, wallet, modal, screen, scanner
    <3> QED BY <3>1, <3>2
  <2>3. ASSUME NEW c \in Calls, Continue(c) PROVE TypeOK'
    BY <2>3 DEF Continue, Granted, TypeOK, OrNone, wallet, modal, screen, scanner
  <2>4. ASSUME NEW c \in Calls, Timeout(c) PROVE TypeOK'
    BY <2>4 DEF Timeout, Settle, TypeOK, OrNone, wallet, modal, screen, scanner
  <2>5. CASE Disconnect
    BY <2>5 DEF Disconnect, TypeOK, OrNone, bus, modal, screen, scanner
  <2>6. CASE Mount \/ Unmount \/ Render \/ PhoneScans \/ ScanError
    BY <2>6 DEF Mount, Unmount, Render, PhoneScans, ScanError, ScannerOff, TypeOK, OrNone,
                bus, wallet, scanner
  <2>7. CASE ShowScanner \/ BackToSend \/ TryAgain
    BY <2>7 DEF ShowScanner, BackToSend, TryAgain, Press, ScannerOff, TypeOK, OrNone, bus, wallet
  <2>8. CASE Cancel
    BY <2>8 DEF Cancel, Done, ScannerOff, Settle, TypeOK, OrNone, bus, wallet
  <2>9. ASSUME NEW l \in Calls, NEW r \in Calls, NEW granted \in BOOLEAN, ReadAnswer(l, r, granted)
        PROVE  TypeOK'
    BY <2>9 DEF ReadAnswer, Whole, Done, Settle, TypeOK, OrNone, bus, wallet
  <2>10. CASE UNCHANGED vars
    BY <2>10 DEF vars, bus, wallet, modal, screen, scanner, TypeOK, OrNone
  <2>11. CASE RunEffects
    BY <2>11 DEF RunEffects, Due, TypeOK, OrNone, bus, wallet
  <2>12. ASSUME NEW r \in Calls, Imported(r) \/ Look(r) PROVE TypeOK'
    BY <2>12 DEF Imported, Look, TypeOK, OrNone, bus, wallet, screen
  <2> QED
    BY <2>1, <2>2, <2>3, <2>4, <2>5, <2>6, <2>7, <2>8, <2>9, <2>10, <2>11, <2>12
       DEF Next, ModalStep, PageStep
<1> QED
  BY <1>1, <1>2, PTL DEF Spec

-----------------------------------------------------------------------------
(***************************************************************************)
(* The bus and the connecting flag.  A call of a sign function needs the   *)
(* public key, which no connect in flight leaves set: so Send supersedes a *)
(* connect never, and a connect sends only when none is in flight.         *)
(***************************************************************************)
Flying(c) == Kind[c] = "connect" /\ status[c] \in {"waiting", "settled"}

BusInv ==
  /\ \A c \in Calls : status[c] = "waiting" <=> pending = c
  /\ timers = {c \in Calls : pending = c}
  /\ connecting <=> \E c \in Calls : Flying(c)
  /\ connecting => ~connected
  /\ \A c, d \in Calls : Flying(c) /\ Flying(d) => c = d

LEMMA SendKeepsBus ==
  ASSUME TypeOK, BusInv, NEW c \in Calls, status[c] = "new", Send(c), connected' = connected,
         \/ Kind[c] # "connect" /\ connected /\ connecting' = connecting
         \/ Kind[c] = "connect" /\ ~connected /\ ~connecting /\ connecting'
  PROVE  BusInv'
<1>1. pending # c /\ pending' = c /\ c # None
  BY CallsAssumption DEF BusInv, Send
<1>2. \A x \in Calls : status'[x] = IF x = c THEN "waiting"
                                   ELSE IF x = pending THEN "settled" ELSE status[x]
  BY DEF Send
<1>3. timers' = (timers \ {pending}) \cup {c}
  BY DEF Send
<1>4. \A x \in Calls : ~Flying(x)
  BY DEF BusInv
<1>5. \A x \in Calls : Flying(x)' <=> x = c /\ Kind[c] = "connect"
  BY <1>2, <1>4 DEF Flying, BusInv
<1>6. \A x \in Calls : status'[x] = "waiting" <=> pending' = x
  BY <1>1, <1>2 DEF BusInv
<1>7. timers' = {x \in Calls : pending' = x}
  BY <1>1, <1>3 DEF BusInv
<1> QED
  BY <1>4, <1>5, <1>6, <1>7 DEF BusInv

\* Cancel, an answer and a timeout settle the pending call, if there is one.
LEMMA SettleKeepsBus ==
  ASSUME TypeOK, BusInv, NEW r \in OrNone, pending \in Calls, Settle(pending, r),
         pending' = None, timers' = timers \ {pending},
         UNCHANGED <<connected, connecting>>
  PROVE  BusInv'
<1>1. \A x \in Calls : status'[x] = IF x = pending THEN "settled" ELSE status[x]
  BY DEF Settle, TypeOK
<1>2. \A x \in Calls : Flying(x)' <=> Flying(x)
  BY <1>1 DEF Flying, BusInv
<1>3. \A x \in Calls : status'[x] = "waiting" <=> pending' = x
  BY <1>1, CallsAssumption DEF BusInv
<1>4. timers' = {x \in Calls : pending' = x}
  BY CallsAssumption DEF BusInv
<1> QED
  BY <1>2, <1>3, <1>4 DEF BusInv

\* A call that had nothing to send returns at once.
LEMMA ReturnKeepsBus ==
  ASSUME TypeOK, BusInv, NEW c \in Calls, status[c] = "new",
         NEW result \in {"ok", "failed"}, Return(c, result)
  PROVE  BusInv'
<1>1. \A x \in Calls : status'[x] = IF x = c THEN result ELSE status[x]
  BY DEF Return, TypeOK
<1>2. UNCHANGED <<pending, timers, connected, connecting>>
  BY DEF Return, wallet
<1>3. \A x \in Calls : Flying(x)' <=> Flying(x)
  BY <1>1 DEF Flying
<1>4. \A x \in Calls : status'[x] = "waiting" <=> pending' = x
  BY <1>1, <1>2 DEF BusInv
<1> QED
  BY <1>2, <1>3, <1>4 DEF BusInv

LEMMA ContinueKeepsBus ==
  ASSUME TypeOK, BusInv, NEW c \in Calls, Continue(c)
  PROVE  BusInv'
<1>1. /\ \A x \in Calls \ {c} : status'[x] = status[x]
      /\ status[c] = "settled" /\ status'[c] # "settled" /\ status'[c] # "waiting"
  BY DEF Continue, TypeOK
<1>2. UNCHANGED <<pending, timers>>
  BY DEF Continue
<1>3. \A x \in Calls : status'[x] = "waiting" <=> pending' = x
  BY <1>1, <1>2 DEF BusInv
<1>4. \A x \in Calls : Flying(x)' <=> Flying(x) /\ x # c
  BY <1>1 DEF Flying
<1>5. CASE Kind[c] = "connect"
  <2>1. ~connecting' /\ \A x \in Calls : ~Flying(x)'
    BY <1>1, <1>4, <1>5 DEF Continue, BusInv, Flying
  <2> QED
    BY <1>2, <1>3, <2>1 DEF BusInv
<1>6. CASE Kind[c] # "connect"
  <2>1. UNCHANGED <<connected, connecting>> /\ ~Flying(c)
    BY <1>6 DEF Continue, wallet, Flying
  <2> QED
    BY <1>2, <1>3, <1>4, <2>1 DEF BusInv
<1> QED
  BY <1>5, <1>6

LEMMA BusInvariant == Spec => []BusInv
<1>1. Init => BusInv
  BY CallsAssumption DEF Init, BusInv, Flying
<1>2. TypeOK /\ BusInv /\ [Next]_vars => BusInv'
  <2> SUFFICES ASSUME TypeOK, BusInv, [Next]_vars PROVE BusInv'
    OBVIOUS
  <2>1. ASSUME NEW c \in Calls, Connect(c) PROVE BusInv'
    BY <2>1, SendKeepsBus, ReturnKeepsBus DEF Connect
  <2>2. ASSUME NEW c \in Calls, Sign(c) PROVE BusInv'
    BY <2>2, SendKeepsBus, ReturnKeepsBus DEF Sign, wallet
  <2>3. ASSUME NEW c \in Calls, Continue(c) PROVE BusInv'
    BY <2>3, ContinueKeepsBus
  <2>4. ASSUME NEW c \in Calls, Timeout(c) PROVE BusInv'
    <3>1. pending = c
      BY <2>4 DEF Timeout, BusInv
    <3> QED
      BY <2>4, <3>1, SettleKeepsBus DEF Timeout, wallet, OrNone
  <2>5. ASSUME NEW r \in OrNone, Done(r), UNCHANGED wallet PROVE BusInv'
    <3>1. CASE pending = None
      BY <2>5, <3>1 DEF Done, bus, wallet, BusInv, Flying
    <3>2. CASE pending # None
      BY <2>5, <3>2, SettleKeepsBus DEF Done, wallet, TypeOK, OrNone
    <3> QED
      BY <3>1, <3>2
  <2>6. CASE Cancel
    BY <2>5, <2>6 DEF Cancel, OrNone
  <2>7. ASSUME NEW l \in Calls, NEW r \in Calls, NEW granted \in BOOLEAN, ReadAnswer(l, r, granted)
        PROVE  BusInv'
    BY <2>5, <2>7 DEF ReadAnswer, OrNone
  <2>8. CASE Disconnect
    BY <2>8 DEF Disconnect, bus, BusInv, Flying
  <2>9. CASE ScreenStep \/ UNCHANGED vars
    BY <2>9, ScreenOnly DEF vars, bus, wallet, BusInv, Flying
  <2> QED
    BY <2>1, <2>2, <2>3, <2>4, <2>6, <2>7, <2>8, <2>9, Cases
<1> QED
  BY <1>1, <1>2, TypeCorrect, PTL DEF Spec

\* No promise is left without its request and its timeout.
THEOREM CallsRemembered == Spec => []NoCallForgotten
<1>1. TypeOK /\ BusInv => NoCallForgotten
  BY CallsAssumption DEF BusInv, NoCallForgotten, TypeOK, OrNone
<1> QED
  BY <1>1, TypeCorrect, BusInvariant, PTL

\* connecting says whether a connect is in flight, one at most.
THEOREM ConnectingExact == Spec => []ConnectingIsInFlight
<1>1. TypeOK /\ BusInv => ConnectingIsInFlight
  BY DEF BusInv, ConnectingIsInFlight, Flying, TypeOK
<1> QED
  BY <1>1, TypeCorrect, BusInvariant, PTL

-----------------------------------------------------------------------------
(***************************************************************************)
(* The screen.  A request answered by the phone is never shown afresh: it  *)
(* stays on screen at most until the next render, with its scanner done,   *)
(* and no scanner that reads has its PIN.                                  *)
(***************************************************************************)
ScreenInv ==
  /\ \A c \in heard : status[c] # "new"
  /\ pending \in heard => active = pending
  /\ active # None => status[active] # "new"
  /\ shown # None => status[shown] # "new"
  /\ \A c \in Calls : reply[c] # None =>
       /\ status[reply[c]] # "new"
       /\ active # reply[c]
       /\ shown = reply[c] => phase = "read" /\ fitted = shown
       /\ phase = "recv" => fitted # reply[c]

(***************************************************************************)
(* The scanner.  The PINs its loops, imports and session have are those of *)
(* requests it was shown; it gets that of the request on screen by its     *)
(* effects only; and while no import was late it has one loop, which       *)
(* rafRef names, and the PIN its effects last ran with.                    *)
(***************************************************************************)
Pins == loops \cup loading \cup {pin, fitted}

ScannerInv ==
  /\ \A r \in Pins : r # None => status[r] # "new"
  /\ active # None /\ active # shown => active \notin Pins
  /\ shown # None /\ shown # fitted => shown \notin Pins
  /\ ~late => /\ loops \subseteq {fitted}
              /\ pin \in {None, fitted}
              /\ loops # {} => raf = fitted

\* Send shows no request but the new one, and rejects another.
LEMMA SendKeepsScreen ==
  ASSUME TypeOK, BusInv, ScreenInv, NEW c \in Calls, status[c] = "new", Send(c)
  PROVE  ScreenInv'
<1>1. \A x \in Calls : status[x] # "new" => status'[x] # "new"
  BY DEF Send
<1>2. status'[c] # "new" /\ pending' = c /\ c # None
  BY CallsAssumption DEF Send
<1>3. \A x \in Calls : reply'[x] # None => reply'[x] = reply[x]
  BY DEF Send
<1>4. UNCHANGED <<shown, phase, fitted>>
  BY DEF Send, scanner
<1>5. /\ (active' = active /\ heard' = heard) \/ (active' = c /\ heard' = heard \cup {c})
      /\ c \notin heard
  <2>1. CASE listening
    BY <2>1 DEF Send, ScreenInv
  <2>2. CASE ~listening
    BY <2>2 DEF Send, ScreenInv
  <2> QED BY <2>1, <2>2
<1>6. \A x \in Calls : reply[x] # None => reply[x] \in Calls /\ reply[x] # c
  BY DEF ScreenInv, TypeOK, OrNone
<1>8. \A x \in heard' : status'[x] # "new"
  BY <1>1, <1>2, <1>5 DEF ScreenInv, TypeOK
<1>9. pending' \in heard' => active' = pending'
  BY <1>2, <1>5
<1>10. (active' # None => status'[active'] # "new") /\ (shown' # None => status'[shown'] # "new")
  BY <1>1, <1>2, <1>4, <1>5 DEF ScreenInv, TypeOK, OrNone
<1>11. \A x \in Calls : reply'[x] # None =>
         /\ status'[reply'[x]] # "new"
         /\ active' # reply'[x]
         /\ shown' = reply'[x] => phase' = "read" /\ fitted' = shown'
         /\ phase' = "recv" => fitted' # reply'[x]
  BY <1>1, <1>3, <1>4, <1>5, <1>6 DEF ScreenInv
<1> QED
  BY <1>8, <1>9, <1>10, <1>11 DEF ScreenInv

\* What changes only the status of calls, and never back to new.
LEMMA StatusKeepsScreen ==
  ASSUME TypeOK, ScreenInv, UNCHANGED <<pending, reply, heard, active, shown, phase, fitted>>,
         \A x \in Calls : status[x] # "new" => status'[x] # "new"
  PROVE  ScreenInv'
  BY DEF ScreenInv, TypeOK, OrNone

\* A timeout leaves a modal that no longer answers anything.
LEMMA TimeoutKeepsScreen ==
  ASSUME TypeOK, BusInv, ScreenInv, NEW c \in Calls, Timeout(c)
  PROVE  ScreenInv'
<1>1. /\ \A x \in Calls : status[x] # "new" => status'[x] # "new"
      /\ \A x \in Calls : reply'[x] # None => reply'[x] = reply[x]
      /\ pending' = None
      /\ UNCHANGED <<heard, active, shown, phase, fitted>>
  BY DEF Timeout, Settle, TypeOK, modal, screen, scanner
<1>2. None \notin heard'
  BY <1>1, CallsAssumption DEF TypeOK
<1> QED
  BY <1>1, <1>2 DEF ScreenInv, TypeOK, OrNone

\* Done closes the modal and settles at most one call.  If it is with the answer
\* to the request shown, the scanner is the one of that request.
LEMMA DoneKeepsScreen ==
  ASSUME TypeOK, ScreenInv, NEW r \in OrNone, Done(r), heard' = heard,
         shown' \in {shown, None},
         r = None => phase' = phase \/ phase' = "read",
         r # None => phase' = "read" /\ (r = shown => fitted = shown) /\ status[r] # "new",
         fitted' = fitted \/ (fitted' = None /\ shown' = None)
  PROVE  ScreenInv'
<1>1. active' = None /\ pending' = None
  BY DEF Done, bus
<1>2. \A x \in Calls : status[x] # "new" => status'[x] # "new"
  <2>1. CASE pending = None
    BY <2>1 DEF Done, bus
  <2>2. CASE pending # None
    <3>1. pending \in Calls /\ status' = [status EXCEPT ![pending] = "settled"]
      BY <2>2 DEF Done, Settle, TypeOK, OrNone
    <3> QED
      BY <3>1 DEF TypeOK
  <2> QED BY <2>1, <2>2
<1>3. \A x \in Calls : reply'[x] = reply[x] \/ (reply'[x] = r /\ x = pending)
  <2>1. CASE pending = None
    BY <2>1 DEF Done, bus
  <2>2. CASE pending # None
    <3>1. pending \in Calls /\ reply' = [reply EXCEPT ![pending] = r]
      BY <2>2 DEF Done, Settle, TypeOK, OrNone
    <3> QED
      BY <3>1 DEF TypeOK
  <2> QED BY <2>1, <2>2
<1>6. None \notin heard' /\ \A x \in heard' : x \in Calls
  BY CallsAssumption DEF TypeOK
<1>7. ASSUME NEW x \in Calls, reply'[x] # None
      PROVE  /\ status'[reply'[x]] # "new"
             /\ active' # reply'[x]
             /\ shown' = reply'[x] => phase' = "read" /\ fitted' = shown'
             /\ phase' = "recv" => fitted' # reply'[x]
  <2>1. CASE reply'[x] = reply[x]
    <3>1. /\ reply[x] \in Calls /\ status[reply[x]] # "new"
          /\ shown = reply[x] => phase = "read" /\ fitted = shown
          /\ phase = "recv" => fitted # reply[x]
      BY <1>7, <2>1 DEF ScreenInv, TypeOK, OrNone
    <3>2. shown' = shown \/ shown' # reply[x]
      BY <1>7, <2>1
    <3>3. phase = "read" => phase' = "read"
      OBVIOUS
    <3>4. status'[reply[x]] # "new"
      BY <1>2, <3>1
    <3>5. active' # reply[x]
      BY <1>1, <1>7, <2>1
    <3>6. shown' = reply[x] => phase' = "read" /\ fitted' = shown'
      BY <1>7, <2>1, <3>1, <3>2, <3>3
    <3>7. phase' = "recv" => fitted' # reply[x]
      BY <1>7, <2>1, <3>1
    <3> QED
      BY <2>1, <3>4, <3>5, <3>6, <3>7
  <2>2. CASE reply'[x] = r
    <3>1. r \in Calls /\ status[r] # "new"
      BY <1>7, <2>2 DEF OrNone
    <3>2. status'[r] # "new"
      BY <1>2, <3>1
    <3>3. active' # r /\ phase' = "read"
      BY <1>1, <1>7, <2>2
    <3>4. shown' = r => fitted' = shown'
      BY <1>7, <2>2
    <3> QED
      BY <2>2, <3>2, <3>3, <3>4
  <2> QED
    BY <1>3, <2>1, <2>2
<1>8. shown' # None => status'[shown'] # "new"
  BY <1>2 DEF ScreenInv, TypeOK, OrNone
<1>9. \A x \in heard' : status'[x] # "new"
  BY <1>2, <1>6 DEF ScreenInv
<1> QED
  BY <1>1, <1>6, <1>7, <1>8, <1>9 DEF ScreenInv

\* A call that is new is nowhere in the scanner, so showing it leaves all there.
LEMMA SendKeepsScanner ==
  ASSUME TypeOK, ScannerInv, NEW c \in Calls, status[c] = "new", Send(c)
  PROVE  ScannerInv'
<1>1. \A x \in Calls : status[x] # "new" => status'[x] # "new"
  BY DEF Send
<1>2. UNCHANGED <<shown, fitted, loading, loops, raf, pin, late>> /\ active' \in {active, c}
  BY DEF Send, scanner
<1>3. c # None /\ c \notin Pins /\ Pins' = Pins
  BY <1>2, CallsAssumption DEF ScannerInv, Pins
<1>4. \A x \in Pins : x # None => status'[x] # "new"
  BY <1>1 DEF ScannerInv, Pins, TypeOK, OrNone
<1> QED
  BY <1>2, <1>3, <1>4 DEF ScannerInv

\* What leaves the scanner alone, shows nothing else, and makes no call new.
LEMMA IdleKeepsScanner ==
  ASSUME TypeOK, ScannerInv, UNCHANGED <<shown, fitted, loading, loops, pin, late>>,
         active' \in {active, None}, loops # {} => raf' \in {raf} \cup loops,
         \A x \in Calls : status[x] # "new" => status'[x] # "new"
  PROVE  ScannerInv'
<1>1. Pins' = Pins
  BY DEF Pins
<1>2. \A x \in Pins : x # None => status'[x] # "new"
  BY DEF ScannerInv, Pins, TypeOK, OrNone
<1> QED
  BY <1>1, <1>2 DEF ScannerInv

\* Without a scanner there is nothing to say of it.
LEMMA OffKeepsScanner ==
  ASSUME ScannerOff
  PROVE  ScannerInv'
<1>1. Pins' = {None} /\ loops' = {} /\ pin' = None
  BY DEF ScannerOff, Pins
<1> QED
  BY <1>1 DEF ScannerInv

LEMMA ScreenInvariant == Spec => [](ScreenInv /\ ScannerInv)
<1>1. Init => ScreenInv /\ ScannerInv
  BY CallsAssumption DEF Init, ScreenInv, ScannerInv, Pins
<1>2. TypeOK /\ BusInv /\ ScreenInv /\ ScannerInv /\ [Next]_vars => ScreenInv' /\ ScannerInv'
  <2> SUFFICES ASSUME TypeOK, BusInv, ScreenInv, ScannerInv, [Next]_vars
               PROVE  ScreenInv' /\ ScannerInv'
    OBVIOUS
  <2>1. ASSUME NEW c \in Calls, Return(c, "ok") \/ Return(c, "failed")
        PROVE  ScreenInv' /\ ScannerInv'
    BY <2>1, StatusKeepsScreen, IdleKeepsScanner DEF Return, modal, screen, scanner, TypeOK
  <2>2. ASSUME NEW c \in Calls, Connect(c) \/ Sign(c) PROVE ScreenInv' /\ ScannerInv'
    BY <2>1, <2>2, SendKeepsScreen, SendKeepsScanner DEF Connect, Sign
  <2>3. ASSUME NEW c \in Calls, Continue(c) PROVE ScreenInv' /\ ScannerInv'
    BY <2>3, StatusKeepsScreen, IdleKeepsScanner DEF Continue, modal, screen, scanner, TypeOK
  <2>4. ASSUME NEW c \in Calls, Timeout(c) PROVE ScreenInv' /\ ScannerInv'
    <3>1. \A x \in Calls : status[x] # "new" => status'[x] # "new"
      BY <2>4 DEF Timeout, Settle, TypeOK
    <3> QED
      BY <2>4, <3>1, TimeoutKeepsScreen, IdleKeepsScanner DEF Timeout, modal, screen, scanner
  <2>5. CASE Disconnect \/ UNCHANGED vars
    BY <2>5, StatusKeepsScreen, IdleKeepsScanner DEF Disconnect, vars, bus, modal, screen, scanner
  <2>6. CASE Cancel
    <3>1. ScreenInv'
      BY <2>6, DoneKeepsScreen DEF Cancel, ScannerOff, OrNone
    <3> QED
      BY <2>6, <3>1, OffKeepsScanner DEF Cancel
  <2>7. ASSUME NEW l \in Calls, NEW r \in Calls, NEW granted \in BOOLEAN, ReadAnswer(l, r, granted)
        PROVE  ScreenInv' /\ ScannerInv'
    <3>1. pin = r /\ r # None /\ r \in Pins
      BY <2>7, CallsAssumption DEF ReadAnswer, Whole, Pins
    <3>2. status[r] # "new" /\ (r = shown => fitted = shown)
      BY <3>1 DEF ScannerInv
    <3>3. ScreenInv'
      BY <2>7, <3>2, DoneKeepsScreen DEF ReadAnswer, OrNone
    <3>4. \A x \in Calls : status[x] # "new" => status'[x] # "new"
      BY <2>7 DEF ReadAnswer, Done, Settle, bus, TypeOK
    <3>5. raf' \in loops /\ active' = None
      BY <2>7 DEF ReadAnswer, Whole, Done
    <3>6. ScannerInv'
      BY <2>7, <3>4, <3>5, IdleKeepsScanner DEF ReadAnswer
    <3> QED
      BY <3>3, <3>6
  <2>8. CASE Render
    <3>1. ScreenInv'
      <4>1. shown # None /\ phase = "recv" => fitted = shown
        BY <2>8 DEF Render, Due
      <4> QED
        BY <4>1, <2>8, CallsAssumption DEF Render, ScreenInv, ScannerOff, scanner, bus, TypeOK, OrNone
    <3>2. CASE active = None
      BY <2>8, <3>1, <3>2, OffKeepsScanner DEF Render
    <3>3. CASE active # None
      <4>1. UNCHANGED <<active, status, fitted, loading, loops, raf, pin, late>>
            /\ shown' = active /\ shown # active
        BY <2>8, <3>3 DEF Render, scanner, bus
      <4>2. ScannerInv'
        BY <4>1, <3>3 DEF ScannerInv, Pins
      <4> QED
        BY <3>1, <4>2
    <3> QED
      BY <3>2, <3>3
  <2>9. CASE Mount \/ PhoneScans
    <3>1. ScreenInv'
      BY <2>9 DEF Mount, PhoneScans, ScreenInv, bus, scanner
    <3> QED
      BY <2>9, <3>1, IdleKeepsScanner DEF Mount, PhoneScans, bus, scanner
  <2>10. CASE Unmount
    BY <2>10, CallsAssumption, OffKeepsScanner DEF Unmount, ScannerOff, ScreenInv, bus
  <2>11. CASE ShowScanner \/ BackToSend \/ TryAgain
    <3>1. ScreenInv'
      BY <2>11 DEF ShowScanner, BackToSend, TryAgain, Press, ScannerOff, ScreenInv, bus
    <3>2. CASE ShowScanner
      <4>1. Pins' = {None, shown} /\ shown' = shown /\ fitted' = shown /\ active' = shown
            /\ loops' = {} /\ pin' = None /\ UNCHANGED status
        BY <3>2 DEF ShowScanner, Press, Pins, bus
      <4> QED
        BY <3>1, <4>1 DEF ScannerInv, ScreenInv
    <3>3. CASE BackToSend \/ TryAgain
      BY <3>1, <3>3, OffKeepsScanner DEF BackToSend, TryAgain, Press
    <3> QED
      BY <2>11, <3>2, <3>3
  <2>12. CASE ScanError
    BY <2>12, CallsAssumption, OffKeepsScanner DEF ScanError, ScannerOff, ScreenInv, bus
  <2>13. CASE RunEffects
    <3>1. UNCHANGED <<status, reply, pending, heard, active, shown, late>>
          /\ fitted' = shown /\ shown # None /\ fitted # shown
          /\ loops' = loops \ {raf} /\ loading' = loading \cup {shown} /\ pin' = None
      BY <2>13 DEF RunEffects, Due, bus
    <3>2. ScreenInv'
      BY <3>1 DEF ScreenInv
    <3>3. Pins' \subseteq Pins \cup {shown, None}
      BY <3>1 DEF Pins
    <3>4. ~late => loops' = {}
      BY <3>1 DEF ScannerInv
    <3>5. ScannerInv'
      BY <3>1, <3>3, <3>4 DEF ScannerInv, ScreenInv
    <3> QED
      BY <3>2, <3>5
  <2>14. ASSUME NEW r \in Calls, Imported(r) PROVE ScreenInv' /\ ScannerInv'
    <3>1. ScreenInv'
      BY <2>14, StatusKeepsScreen DEF Imported, screen, bus
    <3>2. Pins' = Pins /\ UNCHANGED <<status, active, shown, fitted, pin>>
      BY <2>14 DEF Imported, Pins, screen, bus
    <3>3. ~late' => ~late /\ r = fitted /\ loops' = loops \cup {r} /\ raf' = r
      BY <2>14 DEF Imported, TypeOK
    <3>4. ScannerInv'
      BY <3>2, <3>3 DEF ScannerInv
    <3> QED
      BY <3>1, <3>4
  <2>15. ASSUME NEW r \in Calls, Look(r) PROVE ScreenInv' /\ ScannerInv'
    <3>1. ScreenInv'
      BY <2>15, StatusKeepsScreen DEF Look, screen, bus
    <3>2. /\ UNCHANGED <<status, active, shown, fitted, loops, loading, late>>
          /\ r \in loops /\ raf' = r /\ pin' \in {pin, r}
      BY <2>15 DEF Look, screen, bus
    <3>3. Pins' \subseteq Pins
      BY <3>2 DEF Pins
    <3>4. ScannerInv'
      BY <3>2, <3>3 DEF ScannerInv
    <3> QED
      BY <3>1, <3>4
  <2> QED
    BY <2>2, <2>3, <2>4, <2>5, <2>6, <2>7, <2>8, <2>9, <2>10, <2>11, <2>12, <2>13, <2>14, <2>15,
       Cases DEF ScreenStep
<1> QED
  BY <1>1, <1>2, TypeCorrect, BusInvariant, PTL DEF Spec

\* What is pending and was heard of is what the modal is to show.
THEOREM PendingShown == Spec => []PendingIsActive
<1>1. ScreenInv => PendingIsActive
  BY DEF ScreenInv, PendingIsActive
<1> QED
  BY <1>1, ScreenInvariant, PTL

\* What settles a call with an answer: the scanner has read it whole, and the
\* session's PIN was that of the request it answers.
LEMMA Answering ==
  ASSUME TypeOK, [Next]_vars, NEW c \in Calls, reply'[c] # reply[c], reply'[c] # None
  PROVE  /\ reply'[c] = pin /\ phase = "recv" /\ c = pending
         /\ \A d \in Calls \ {c} : reply'[d] = reply[d]
<1>1. ASSUME NEW r, Done(r)
      PROVE  reply'[c] = r /\ c = pending /\ \A d \in Calls \ {c} : reply'[d] = reply[d]
  BY <1>1 DEF Done, Settle, bus, TypeOK
<1>2. ASSUME NEW l \in Calls, NEW r \in Calls, NEW granted \in BOOLEAN, ReadAnswer(l, r, granted)
      PROVE  /\ reply'[c] = pin /\ phase = "recv" /\ c = pending
             /\ \A d \in Calls \ {c} : reply'[d] = reply[d]
  <2>1. CASE granted
    BY <1>1, <1>2, <2>1 DEF ReadAnswer, Whole
  <2>2. CASE ~granted
    BY <1>1, <1>2, <2>2 DEF ReadAnswer
  <2> QED
    BY <2>1, <2>2
<1>3. ~Cancel
  BY <1>1 DEF Cancel
<1>4. ASSUME NEW d \in Calls PROVE ~Connect(d) /\ ~Sign(d)
  BY DEF Connect, Sign, Send, Return
<1>5. ASSUME NEW d \in Calls PROVE ~Continue(d) /\ ~Timeout(d)
  BY DEF Continue, Timeout, Settle, TypeOK
<1>6. ~Disconnect /\ ~ScreenStep /\ ~UNCHANGED vars
  BY ScreenOnly DEF Disconnect, vars, bus
<1> QED
  BY <1>2, <1>3, <1>4, <1>5, <1>6, Cases

\* No answer of the phone settles two calls, unless an import came late.
THEOREM OneCallPerAnswer == Spec => AnswerUsedOnce
<1> DEFINE Step ==
      \A c, d \in Calls :
        c # d /\ reply'[c] # reply[c] /\ reply'[c] # None /\ ~late => reply'[c] # reply'[d]
<1>1. TypeOK /\ ScreenInv /\ ScannerInv /\ [Next]_vars => [Step]_vars
  <2> SUFFICES ASSUME TypeOK, ScreenInv, ScannerInv, [Next]_vars,
                      NEW c \in Calls, NEW d \in Calls, c # d,
                      reply'[c] # reply[c], reply'[c] # None, ~late
               PROVE  reply'[c] # reply'[d]
    OBVIOUS
  <2>1. reply'[c] = pin /\ phase = "recv" /\ reply'[d] = reply[d]
    BY Answering
  <2>2. pin = fitted
    BY <2>1 DEF ScannerInv
  <2> QED
    BY <2>1, <2>2 DEF ScreenInv
<1> QED
  BY <1>1, TypeCorrect, ScreenInvariant, PTL DEF Spec, AnswerUsedOnce

\* The request on the screen is settled by its own answer or by none, once the
\* scanner's effects have run and unless an import came late.
THEOREM ShownGetsItsOwn == Spec => OwnAnswer
<1> DEFINE Step ==
      \A c \in Calls :
        reply'[c] # reply[c] /\ reply'[c] # None /\ shown = c /\ ~Due /\ ~late => reply'[c] = c
<1>1. TypeOK /\ ScannerInv /\ [Next]_vars => [Step]_vars
  <2> SUFFICES ASSUME TypeOK, ScannerInv, [Next]_vars, NEW c \in Calls,
                      reply'[c] # reply[c], reply'[c] # None, shown = c, ~Due, ~late
               PROVE  reply'[c] = c
    OBVIOUS
  <2>1. reply'[c] = pin /\ phase = "recv"
    BY Answering
  <2>2. fitted = shown
    BY <2>1, CallsAssumption DEF Due
  <2> QED
    BY <2>1, <2>2 DEF ScannerInv
<1> QED
  BY <1>1, TypeCorrect, ScreenInvariant, PTL DEF Spec, OwnAnswer
=============================================================================
