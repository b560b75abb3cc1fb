# AirSign / AfterImage in TLA+

AirSign moves files and Solana transactions between an online machine and an
air-gapped one as QR codes shown on a screen and read by a camera, and builds
signers on top of that: a single air-gapped signer, M-of-N signing sessions,
FROST threshold signing, Squads groups, a wallet adapter for web pages, a
Ledger transport, a mobile signer, and the online commands that prepare,
review and broadcast what is signed. This directory holds TLA+ models of that
code, TLC configurations that check them on small instances, and TLAPS proofs
of their main properties for every value of the constants.

## 1. Inventory

| Component | State it keeps | Operations | Interacts through |
|---|---|---|---|
| LT decoder (`afterimage-core/fountain.rs`) | block count, blocks, decoded mask and count, pending droplets, inverted index, seen seeds, early buffer | `set_block_count`, `add_droplet`, `ingest`, `resolve`, `propagate` | called by `RecvSession` |
| Optical sessions (`session.rs`, `display.rs`, `camera.rs`) | sender: frame count, droplet counter, limit, done; receiver: last METADATA, decoder, password | `next_frame`, `set_limit`, `run_session`; `ingest_frame`, `receive`, `get_data` | the frame on a screen |
| Air-gapped signer (`solana/signer.rs`, CLI `sign`) | a key, the nonce file | `sign_request`, `sign_request_confirmed`, `persist_nonce` | a file shared by processes |
| M-of-N sessions (`multisigner.rs`, `WasmMultiSignOrchestrator`, CLI `multisign`) | requests and responses; the orchestrator's round and signatures | `build_multisig_session`, `sign_multi_request`, `advance_round_from`, `get_request_json`, `ingest_response_json` | JSON carried by hand |
| FROST and DKG (`afterimage-frost`, `afterimage-dkg`, WASM bindings) | polynomials, nonces, commitments, shares, one slot a round and participant | `dkg_round1`, `dkg_round2`, `dkg_finish`; `round1_commit`, `round2_sign`, `build_signing_package`, `aggregate` | JSON carried by hand |
| Wallet adapter (`packages/wallet-adapter`) | the pending request, public key, connecting flag, the modal | `connect`, `disconnect`, `sign*`, `resolveAirSignRequest`, timeout | promises and a window event |
| React hooks (`packages/react`) | sessions, timers, camera streams, flags in refs and state | `useSendSession`, `useRecvSession`, `initAirSign`, `QrAnimator`, `QrScanner` | effects, timers, browser promises |
| Ledger (`solana/ledger*.rs`) | HID queue of the device | `exchange`, `sign_transaction`, `get_pubkey`, `app_version` | USB packets with a read timeout |
| Squads (`afterimage-squads`, CLI `squads`, `WasmSquads`) | none; on the chain: account, transactions and proposals by index | the instruction builders | transactions that land in any order |
| Online commands (`wallet.rs`, `inspector.rs`, `preflight.rs`, `broadcaster.rs`, CLI, `WasmBroadcaster`) | `unsigned_tx.bin`, what one call counts | `prepare`, `inspect`, `broadcast*`, `wait_for_finalized`, `airdrop`, `run` | files and an RPC node |
| Key stores (`keystore.rs`, CLI `key`, mobile core) | keys by label, the phone's key index | generate, import, export, delete | OS keychain, secure store |
| Mobile core coder (`AirSignCoreModule.ts`) | one decoder state a session | `fountainEncode`, `fountainDecodeFrame`, `fountainDecodeReset` | screens |
| Encryption, QR images, pages and screens, network-interface check | none, or one call's | conversions and forms | - |

What is hard here: droplets in any order around METADATA and a decoder that
calls itself; a one-way channel that loses and repeats anything; files read,
checked and rewritten by processes without locks and cut off at any point;
messages carried by people, late, twice or to the wrong session; a read that
times out and an answer that comes all the same; a node that takes a
transaction and loses the answer; promises, renders, timers and camera prompts
that cross. PROJECT.json lists each hazard at its line.

## 2. Modules

| Module | What it is |
|---|---|
| `Peeling` | what a fountain decoder promises: peeling, abstractly |
| `LTDecoder` | `fountain.rs` step by step; implements `Peeling` |
| `OpticalTransfer` | sender, screen, camera and receiver, over `Peeling`'s closure |
| `AirSigner` | processes of `airsign sign` over one nonce file |
| `MultiSign` | M-of-N sessions, messages as two growing sets |
| `WalletAdapter` | the adapter's calls, the pending request, the provider and its modal |
| `SendHook` | `QrAnimator` on `useSendSession`, and the loading of the WASM module |
| `RecvHook` | `QrScanner` on `useRecvSession` |
| `ReactHooks` | the two components of a page |
| `Dkg`, `Frost` | the key ceremony, and signing with the keys it made |
| `Ledger` | calls, chunks and packets of the Ledger transport |
| `Squads` | the builders, and the group on the chain they act on |
| `Inspector`, `Online` | instructions as built and as read back; prepare, review and broadcast |
| `OnChain` | `Squads` and `Online` in one run |
| `PhoneKeys`, `Keychain`, `MobileCoder`, `LocalState` | the phone's keys, the command line's keys, the phone's decoder, and the three with `AirSigner` in one run |
| `DecoderProofs` | theorems about `LTDecoder` and `MobileCoder` |
| `OpticalTransferProofs`, `WalletAdapterProofs`, `FrostProofs` | about the modules they are named for; the last also about `Dkg` |
| `ReactHooksProofs` | about `SendHook` and `RecvHook` |
| `SignerProofs` | about `AirSigner` and `MultiSign` |
| `KeyProofs` | about `Ledger`, `PhoneKeys` and `Keychain` |
| `ChainProofs` | about `Squads` and `Online` |
| `MC*` | constants for TLC |

### LTDecoder

A payload is the set of source blocks XORed into it (XOR is symmetric
difference) and a block is a pair of session and index, so that right and wrong
contents can be told apart without bytes. `RobustSoliton::neighbours` is a
constant function `Neighbours` from seeds to non-empty sets of blocks, any such
function: the decoder derives the same sets as the encoder, and nothing it does
depends on the distribution. `stack` holds the activations of `propagate`: the
block being handled, the droplets of the index entry taken from `inv_index`
still to visit, and the local queue. One action is one turn of a loop
(`PopQueue`, `Visit`), a return, or a call from `RecvSession` (`BufferEarly`,
`AddDroplet`, `SetBlockCount`, `ReplayEarly` for the replay of the buffer).
`Vec`s of droplet numbers are sets of seeds: a number filed twice is skipped at
its second visit, as in the code. `queue.push` after `resolve` returns is done
before the nested call in the model, which is the same: nobody reads that queue
in between. `Sessions` is a parameter; the run has one, as a receiver should.

### OpticalTransfer

Between sender and receiver there is only `screen`, read by the camera any
number of times or never. `LTDecoder` appears as what it implements: the blocks
known are `Peel!PeelClosure` of the seeds heard. `frame_count` and the droplet
counter are u32 and wrap in the release build; they wrap at `FrameWrap` and
`CounterWrap` here. The user may start a session again (a fresh salt, so
another ciphertext), set a limit, close the window, and run the receiver again.
All sessions have the same number of blocks: a receiver shown a session of
another length after its first METADATA is outside the model. A wrong key, a
wrong password and a mixture of blocks all end in `Failed` (the code reports an
AEAD error, or panics on the length prefix of mixed blocks). The camera may fail
at any capture, which ends `receive` with its error (`CameraFails`).

### AirSigner

`pc` follows a process through `cmd_sign` and `sign_request`. The store is what
a reader of the file would get: `load_seen_nonces` takes a missing or broken
file for an empty one, and `fs::write` empties the file before it writes, so
there is a step (`Empty`) at which a reader finds nothing. It takes any other
error of the read for an empty list as well, so that both reads, the check's and
`persist_nonce`'s own, may return nothing of an intact file (`Reads`). `Fault`
ends a process anywhere: a power cut, or a write that fails. `spoiled` counts how
often the nonces on file were lost to a reader in either way, and
`SerialUseIsSafe` allows one more answer to a nonce for each.

### MultiSign

Requests and responses are never consumed. A request has the nonce of one
session and the transaction, signers and threshold of a session `of`, which
differ when `multisign next` is given another session's original request. A
signature is its signer and the transaction signed: `AllOver` is the
verification of the earlier partial signatures. Every message was made by this
code with keys that sign only through it; forged messages are not in the model.
`Keys` are the account keys that have a signature slot: of any other account key
`sign_multi_request` indexes out of range and panics (`multisigner.rs:160`,
`:171`), which makes no response, as a refusal makes none.

### Dkg and Frost

A secret polynomial is the number of the round-one call that drew it, a nonce
the number of the commit that drew it, and a group key is which polynomial each
participant put in. Packages name no session, so nothing but the numbers tells
two attempts apart, and the model lets people do what the pages let them do:
run round one again, hand in an older output late, hand a commitment in twice,
build a second package, sign with nonces used before. The coordinator's slots
and the aggregator's maps keep one entry a participant (`Insert`). The FROST
library is external: `part3` refuses a share off the committed polynomial
(`SharesVerify`), `sign` refuses a package without the signer's own commitment,
`aggregate` refuses shares of another package. Signing starts when every device
has its key (`Ready`): it reads only keys, so nothing is lost but states.

### WalletAdapter

Each call the page makes has one status, from `new` to `ok` or `failed`;
`settled` means that its promise is resolved or rejected and its continuation
(`Continue`) has not run yet. A step is a task of the page, and a continuation
is a job: no other task starts while one waits (`TaskTurn`). `Send` is
`_sendRequest` with its whole effect: it rejects the request it supersedes,
clears that one's timeout, arms its own and sends the event, which a mounted
provider hears (`heard`). The provider sets `active`; React shows it later
(`Render`), since the event is not a React event. The effects of a scanner that
stays on screen run later still (`RunEffects`): they cancel the loop that
`rafRef` names, reset the session and begin a scan of the new PIN, whose loop
starts when the QR library is there (`Imported`), be it after the effect's own
cleanup. The first QR code a loop sees makes the session, with the PIN of that
loop (`Look`), and an answer decrypts if its request's PIN is the session's. So a
late import can let the answer to an older request settle the one on screen;
`late` is its history, and the exception of `OwnAnswer` and `AnswerUsedOnce`.
A click is rendered
before the next task, so `Cancel` sets both. A PIN is the request it was made
for. Phone and user are external: the phone may read any request it is shown in
the SEND phase and answer it, once or many times, now or after a newer one. It
is assumed that it can read that screen at all (but see `SendHook`). The phase
survives a request that supersedes another on screen, as React's state does.

### SendHook and RecvHook

React's effects are steps. In `SendHook` a render (`Mount`, `Change`, `ShowDone`)
and the effects of its inputs (`Recreate`) are two steps; the first effect's
start is undone by the second, but for the error it may have set
(`TriedStart`), and the second frees the session and puts a start off with
`setTimeout`. Every start sees the inputs and `isDone` of a render: a deferred
one those of the render that put it off, a handle's those of the last render, so
that `reset(); start();` on one handle sees an `isDone` that `reset` has just
taken back. `createSession` fails without the module and for inputs that are not
`Sendable`, and then no interval is set (`CanMake`).
`loops` counts the intervals that tick and `running` is `isRunningRef`, so that
an interval lost to `timerRef` would show. `sent` counts frames up to
`Total + 1`: past the recommended count the hook behaves the same at each tick.
No limit is set on a session made here, so `next_frame` always returns a frame;
what it returns goes nowhere, and `drawn` is what the canvas gets of
`latestFrameRef`, which is nothing.
`overlapped`, `orphaned`, `stale` and `halted` are history, and say when a
property does not hold: two starts put off at once, a start put off at the
unmount, a start that saw an earlier payload as done, a loop the page stopped.

In `RecvHook` a commit (`Rerender`, `ChangeProp`) and its effects
(`RunEffects`) are two steps, for a camera prompt or an animation frame may
come between; `shown` is what the last commit rendered and `ran` what the
effects last ran with. All cleanups run before the new effects. Each camera
effect is an attempt with its own `cancelled`, which the code looks at after
`getUserMedia` and not after `play`. Each scan effect keeps the password its
closure has; its import answers when it will, whereupon its loop begins whether
or not the effect has been cleaned up, and all loops share `rafRef`. `late` and
`hidden` are history of the same kind. TLC finds each exception necessary.
Left out: a canvas without a 2D context, and an `onComplete` that throws, which
the hook reports as "Decryption failed".

### Ledger

A call is cut into the chunks `sign_transaction` cuts, a chunk into packets by
the framing of `ledger_apdu.rs`; `wire` is the queue of answer packets. A read
that times out is not an error to the code: the buffer stays zero and is taken
for a packet (`FirstTimeout`, `MoreTimeout`), and the answer stays in the
queue. The device is external. How it joins chunks is not assumed, for the code
and its own documentation disagree on their marks: it answers commands in order
or never, may refuse, and may or may not answer a chunk that has more after it.
What is stated of a transaction is what the host writes (`written`). HID errors
fall on any write or read.
That a written report's first byte is the report ID, as the code assumes, is
taken from the HID library.

### Squads

What a member builds is a record of the accounts and data the builder writes.
An approval also notes what the chain held at its index then, if anything
(`saw`, which is not in the instruction): nothing is looked up, and an approval
of an index with nothing at it is built like any other. All of them may land at
any later time. The program is external: it takes
transactions at the next unused index, counts votes of members that may vote,
and runs a transaction whose proposal has passed. `NativeData` and `WebData`
are the two encoders of `multisig_create_v2`, byte by byte, as the only data
the property tells apart, and `Decode` reads either as the documented layout.

### Inspector and Online

`InstructionsOf` builds each order's instructions with the accounts in
`wallet.rs`' order, `inspect_tx` finds them again by place as `inspector.rs`
does, and the review has the lines, risks and exit code of `airsign inspect`.
The cluster is external: a node takes a transaction, refuses it, or takes it
and loses the answer; what it took lands once, at any time while its blockhash
lives, and may fail. A transaction is its instructions and blockhash, so that
two equal ones are one. A broadcast counts its tries and a wait its polls
(`Again`, `Polled`); pages send without either (`WebSend`). `orders` is history:
each order with the transaction it became.

### LocalState

`PhoneKeys` takes every `await` of the mobile core as a step: calls mix, are
refused by the store, or end with the app. `Keychain` does the same for
commands of several processes over one keychain. In `MobileCoder` an edge is a
number, for lists of several activations share it and change it in place;
`walks` holds the activations of `propagate`, each with what it has still to
visit of the list it was called with and the new list it makes, which replaces
`state.edges` when it ends (`WalkOn`, `WalkEnds`). Nothing else runs while a
frame is decoded (`running`), for the code is synchronous. Its seeds' generator
is a constant function and its one session carries one payload.
Every call passes the right number of blocks: `scan.tsx:212-224` passes 0 for a
frame without a JSON header, and with 0 the core throws at the first XOR
(`AirSignCoreModule.ts:398`) or does not end (`:389`). `PhoneKeys` lets an
exported key be imported again (`ExportPrivateKey`).
`LocalState` puts the three and `AirSigner` in one run, of which each behaviour
uses one: they share nothing. `OnChain` does so for `Squads` and `Online`.

## 3. Runs

| Run | Instance | Question |
|---|---|---|
| `lt_decoder` | 4 blocks, 9 seeds of degrees 1 to 4, 2 early packets | complete means whole, the refinement of `Peeling`, termination of every call |
| `optical` | 2 blocks, 3 seeds, interval 3, frame count mod 5, 2 sessions, limits 0 and 4, 2 receiver runs | failures have a cause; `receive` returns; delivery |
| `multi_sign` | 3 sessions (CLI, page, duplicated signer), 2 transactions, 3 signers | safety and completion under misplaced messages |
| `wallet` | 2 connects, 2 signatures, any number of renders, imports and scans | no promise forgotten, each settles, with which answers |
| `react_hooks` | send: 2 frames, 3 versions of the inputs (no session can be made of the second), 3 handle calls; receive: 1 frame needed, first password wrong and second right, 2 changes of props or "Scan again"s | one interval and one scan loop over what is rendered, nothing left behind, a payload emitted or an error shown, every scan settled |
| `animator_docs` | the same | finding: a whole payload is emitted and nothing drawn |
| `threshold` | 2 devices, threshold 2, 2 attempts, 1 restart, 1 late output; 2 messages, 2 nonces, 2 packages | keys agree, every ceremony ends, a signature stands for a quorum |
| `ledger` | 3 calls, transactions of 233 and 484 bytes, a path of 4 components, up to 2 leftover packets | answers belong to their call, a signature is awaited of whole transactions only, no call hangs |
| `ledger_docs` | the same | finding: chunks are not marked as documented |
| `on_chain` | Squads: 3 groups (one of limited permissions, one of threshold 300), 2 contents, 2 indices, 5 instructions; online: one process and a page, devnet, 2 orders, heights to 4, life of a blockhash 1, 1 retry, 2 polls | what is executed is what its approvers could look up; nothing paid twice, no false success, the review shows the order, calls end |
| `squads_web` | the same | finding: the page's encoder creates another group |
| `local_state` | nonces: 2 processes, 3 requests, 2 nonces, 2 faults; phone: 2 tasks, 4 calls; keychain: 3 processes, 1 label, 4 commands; decoder: 4 blocks, 6 seeds, 7 frames | what was answered, reported or printed is kept, and when not; the phone's decoder is exact |

**Bounds.** Four blocks are the fewest in which an inner `propagate` meets a
droplet that an outer one still lists, and in which a chain nests three deep;
`FrameWrap` = 5 with interval 3 makes both counters wrap and METADATA drift
against the droplets; two processes suffice for every race on the nonce file,
which relates one reader and one writer; three sessions let a response meet a
foreign original with the same and with another transaction; two calls of each
kind let one supersede another and an old answer meet a new request of the same
kind; three versions of the inputs are the fewest with two deferred starts and
an `isDone` that is stale at the second. Two changes suffice on the receive
side for an import, or a video that starts late, to overtake two commits, and
for a wrong password to be corrected and the scan to be begun again. With two
devices and threshold 2 every participant counts, so that one stale package is
enough to spoil a result; a second attempt and one late output are what a
restart needs to meet its own past. After a path of 17 bytes 233 are the longest
transaction of one chunk, and 484 the shortest of three, whose middle chunk is
neither the first nor the last; the third call is the
first that can read what the first left behind a second that succeeded. Two
faults let one read fail at the check and another before the list is rewritten. A
key can be generated, exported, deleted and imported again in four calls. An
approval can be built before, between and after the two instructions of a
proposal with five instructions. A
threshold of 300 needs its second byte. Heights to 4 with life 1 let a
transaction expire between two tries and its order be prepared again. Three
processes over one label let one replace a key that a second has printed while
a third stands between its check and its store.
`CHECK_DEADLOCK FALSE` stands where the system may really stop: the users have
no more sessions to start, every call is made, every order is settled.

**Fairness.** `LTDecoder`: weak fairness of `Run` only, the straight-line code
of a call; nobody must call. `OpticalTransfer`: the display loop runs, and the
camera in the long run catches each frame that keeps returning (strong fairness
per frame, since its rate is not tied to the display's); users need do nothing.
`MultiSign`: what was made and can be acted on is carried to the right machine
in the end, whatever else is done with it. `WalletAdapter`: timeouts fire and
jobs run; neither user nor phone need do anything, so `EveryCallSettles` rests
on the timeout alone. `SendHook`: React runs effects and timers fire. `RecvHook`: React renders and
runs effects, camera and import answer one way or the other, and while a camera
runs and a loop looks, the sender's frames come before it; nobody must click.
`Dkg`: people carry every current output on and make the next call they can; a
restart or a late output is never required. `Ledger`: writes return and reads
end within their timeout; the device need never answer. `Online`: RPC requests
time out and heights pass; nothing need land. `Squads` and what `LocalState`
holds need none.

## 4. What the models say about the code

Checked, by runs that must find a violation:

* `squads_web`: `WasmSquads::multisig_create_data` and `create_multisig_ix`
  encode one instruction in two ways, and derive two vaults.
* `ledger_docs`: `ledger_apdu.rs:82-84` says that the first chunk has P1 0x00
  and later ones 0x80; `sign_transaction` gives 0x80 to all but the last
  (`ledger.rs:299`, `:319`). Which of the two the device goes by is outside
  this repository, so `WritesWhole` speaks of what is written and not of what
  is signed.
* `animator_docs`: `QrAnimator.tsx:4-5` says that each frame is drawn onto the
  canvas; the hook drops what `next_frame` returns (`useSendSession.ts:124`)
  and nothing assigns `latestFrameRef` (`QrAnimator.tsx:63`, `:115`). So
  `PayloadSent` speaks of frames emitted, and `DoneIsReported` of a done that
  no screen earned.

Met while modelling, and left to prose:

* Exceptions in the properties, each of which TLC finds necessary. Two
  overlapping `sign` processes answer one nonce (`SerialUseIsSafe` holds
  serially only); a power cut inside `fs::write`, or one failed read, forgets
  every nonce. A decoder shown two sessions mixes their droplets.
  `AirSignModal.tsx:169` says "New PIN per request so each session is
  isolated."; after a late import of the QR library the scanner decrypts with
  the PIN of an older request, whose answer then settles the one on screen. A
  `connect` answered after `disconnect` connects. `multisign next` with another
  session's original request takes that one's threshold. A start deferred at an
  unmount leaves an interval, and one that saw an earlier payload as done
  (after a change of inputs, or `reset(); start();` on one handle) never
  reports the next. A jsQR import that resolves after its effect's cleanup
  starts a loop with the old password's closure, which may make the session
  with it. A `play()` that resolves late sets `scanning` and clears the error
  of another camera without looking at `cancelled`. One Ledger timeout, and a
  later call may return what an earlier one asked for. Two index updates on the
  phone that meet lose an entry; two `key` commands that meet may replace a
  printed key. An approval built before there is a transaction at its index
  counts for whichever comes.
* Sessions: `set_limit(0)` ends a session at its next frame, and `has_next`
  (`session.rs:181`) is true after exactly `limit` frames until `next_frame`
  has returned `None`.
* Ledger: `sign --keypair ledger:` resolves to 64 zero bytes, and nothing in
  the command line calls `sign_transaction`.
* Squads: an approval is built with the default blockhash, and its payload is
  not a `SignRequest`; the member and threshold commands print no
  `proposal_create`, which `config_tx.rs:54` says they must be paired with;
  `validate_config` counts members that cannot vote towards the threshold.
* Online: the header table of `inspector.rs` lists instructions that are not
  parsed; MintToChecked shows mint and destination swapped and TransferChecked
  takes its authority from the wrong place; an unparsed instruction of a known
  program raises no flag, nor does `create_account` or a stake withdrawal of
  any size; every loader instruction is shown as an upgrade. The pre-flight
  simulation replaces the blockhash, so that an expired one goes unnoticed.
  Every error is retried, where the doc says transient ones, and a try that
  follows a landed one is reported as an error. `wait_for_finalized` polls to
  its end after a failed transaction. A `prepare` that fails leaves the older
  `unsigned_tx.bin`. `resolve_cluster_url` and `resolve_rpc_url` differ on
  mainnet-beta.
* Mobile: `scan.tsx:212-224` passes 0 blocks for every frame `fountainEncode`
  makes, on which the decoder throws or does not end; what `DecodesAllItCan`
  says is for callers that pass the right number. `fountainEncode` writes the
  length over the first four payload bytes (`AirSignCoreModule.ts:314-317`,
  "Prepend"), so that their content is lost; `scan.tsx` reads `payloadBase64`
  where the core returns `payload`; `fountainDecodeReset` has no caller.
* Command line: `add_to_key_index` has no caller, although `main.rs:779-783`
  says that the index is kept, so that `key list` shows nothing.

## 5. Proofs

* `DecoderProofs`, of `LTDecoder`: type correctness; then one inductive invariant, `IInv`, of
  twelve parts (what the stack holds is decoded, counts are exact, a pending
  droplet lists its own blocks and all its undecoded ones, none lists exactly
  one, and every listed block is findable through the index or in flight in
  some activation). `NoDropletForgotten` is what closes the argument: with it,
  an empty stack means that peeling is stuck, which gives `SettledAtClosure`
  and the refinement of `Peeling`. `NestingBounded` needs that the activations
  are of different decoded blocks in number at most `decodedCount`.
  Of `MobileCoder`: `DecodesExactly` from `CoderInv`. Its core is `EdgesDue`: an
  edge of two blocks or more is in `state.edges` and in the old or the new list
  of every activation, and each known block of it is the block of an activation
  that has not come to it yet. So a nested call that replaces the list loses no
  edge, and when no activation is left no edge holds a known block; no edge is
  down to an unknown block (`NoneSingle`), whence peeling is stuck. `FramesKept`
  relates edges and frames both ways: a frame is used up or has an edge with all
  its unknown blocks, and an edge's blocks are those of a frame. `XorExact` says
  what a sum leaves of a cut block, and needs that known blocks are exact.
* `OpticalTransferProofs`: types, the wraps of both counters among them; a
  result `Failed` was computed from what `heard` and `metadata` hold then, and
  both are frozen once there is a result.
* `SignerProofs`, of `AirSigner`: `FreshNeverRefused` by an invariant over the lists in
  memory; `SerialUse` by an invariant that says where a nonce is kept at each
  step of the one process in the critical section, and counts its answers against
  the losses so far; `RefusalsAreAnswered` by `RefusalInv`: whatever overlaps or
  fails, every nonce in the file, refused, or in a list that is not its writer's
  own is answered, one step before, or lost with its process.
  Of `MultiSign`: every list of signatures in a message has one transaction
  and different signers, the last signer is an account key whose signature was
  applied, and the nonce's session has the same transaction. The assumptions
  are the typing of the constants only.
* `WalletAdapterProofs`: two invariants in turn. `BusInv`, about the adapter
  alone: the waiting calls, the pending request and the armed timeouts are the
  same, and at most one connect is in flight. `ScreenInv`, which needs it: a
  pending request that was heard of is the modal's, and a request whose answer
  has settled a call is no longer active, is on screen only when its response
  was read and the scanner has its PIN, and is not what a scanner that looks
  was last fitted with, so that no answer is used again. `ScannerInv`: the PINs of
  loops, imports and session are of requests the scanner was shown, the request on
  screen gets its own only by the effects, and while no import was late there is
  one loop, which `rafRef` names, with the PIN the effects last ran with. That
  gives `ShownGetsItsOwn`.
* `ReactHooksProofs`: the page's animator runs the send hook's own specification
  (`PageHasTheSendHook`). Of that, one invariant: the properties and `Alone`,
  which says that a single deferred start saw the inputs that are rendered,
  unless effects are due, and that an unmount which is not `orphaned` leaves
  none. `DoneIsPrompt` adds `Fresh`: while no start saw as done what is done no
  more, no deferred start has seen a done, and a running loop has only if it is
  still shown.
  `CameraIsReleased` by `CameraInv`: while the last attempt still asks, no
  camera runs, so that the one it is granted is the only one. `ScanIsCurrent`
  by `ScanInv`: the scan effect in force has a cleanup and the password the
  effects ran with, and, until an import is late, a loop that looks is its loop
  and is the one `rafRef` names, so that the cleanup ends it.
* `FrostProofs`: `KeysAgree` from `Drawn`, which says that a slot and a key hold
  polynomials that were drawn, of which a device that never restarted has one.
  `Quorate` from `SharesIssued` (every share in the aggregator was signed by
  its device for the package it names) and one entry a participant, so that T
  entries are T devices.
* `KeyProofs`, of `Ledger`: `WritesAll` from `WholeInv`, which says that what was
  written of a transaction is its bytes up to where writing has come, and all of
  them once an answer is awaited, each chunk with room in an APDU. `OwnAnswers`
  needs `Clear` (every earlier call sent one command and was answered), under
  which everything queued or on the wire is of the call under way.
  Of `PhoneKeys`: `KeyInv` says of each call in flight what it holds (`CallFits`):
  an id that nobody was told of and no other call has, a list read that is the stored one
  until two updates meet, and, for an import past its check, a key that no entry
  listed so far has. `EntriesFit` says where an entry's key is from: from
  elsewhere, exported, or generated under that entry's own id; what was exported
  was generated by a call that reported success, or came from elsewhere. That the list without an id keeps the rest (`Without`, a
  recursive function) is proved by the least length at which it would not.
  Of `Keychain`: `ChainInv` adds that at most one process holds a label no two
  met over, that one about to store or delete there finds nothing printed, and
  that one about to export finds its key.
* `ChainProofs`, of `Squads`: an index has at most one transaction, of one of two
  kinds, and keeps it; the approvers of a proposal built approvals of its index
  (`ProposalsFit`), and an approval's builder found nothing there or what is
  there now (`IxFits`), which gives `ExecutesWhatIsApproved`. Of `Online`: `OnlineInv`
  says that whatever file, signer, node, chain and calls hold is a transaction
  that was ordered and built from its order. `CarriedOutAsOrdered` counts:
  transactions that landed with equal instructions map one to one to orders.
  `ReviewShowsTheOrder` needs that the accounts `wallet.rs` writes are where
  `inspector.rs` looks (`InspectorReads`). `ReportedIsLanded` is inductive alone.

The assumptions on constants are typings, and these: a key that comes from
elsewhere is none that the phone generates, nor the mark for no key
(`KeysAreOwn`; what the phone exported is imported again, through `exported`); the
marks for no key and no content are neither (`KeysAreKeys`,
`ContentsAreContents`); data is not the mark for an unknown block
(`FramesCover`); an order is one of the commands' (`OrdersAreCommands`).
The theorems are about the components' own specifications: a behaviour of
`LocalState` is one of `AirSigner`'s `Spec`, `KeySpec`, `ChainSpec` and
`CoderSpec`, all but one of which stand still, and one of `OnChain` is one of
`SquadsSpec` and `OnlineSpec`, one of which stands still.

Only model-checked: the liveness properties (`CallsReturn`, `ReceiveReturns`,
`Delivers`, `AbleFinish`, `EveryCallSettles`, `PayloadSent`, `ScanSettles`,
`EveryoneFinishes`, `CallsEnd`), which are beyond TLAPS. Every invariant and
every action property of a passing run is a theorem. What the three
violation runs refute stays a finding of TLC.
Proved and not run: the type invariants, `NestingBounded`, `NoFalseRefusal`,
`NoDropletForgotten`, `SettledAtClosure`, `NothingDropped`, `BlocksAuthentic`,
`PendingIsActive`, `DoneIsTrue`.
`PeelClosure` is defined as a least fixed point by quantification, without
recursion, so that the proofs can use it, and `propagate` is a stack of
activations in both decoders for the same reason.

## 6. Not modelled

The cipher and the key derivation are predicates (which key opens which
ciphertext). QR images are left out: a frame that cannot be read is a frame
missed. The web pages, the mobile screens and the Kotlin and Swift bridges are
forms and bindings around what is modelled; the phone's own inspector repeats
the Rust one in part. `send`, `recv`, `bench` and the network-interface check of
`airgap` keep no state. `create_ata`, the password meter, the slot query, fees
and the label file of `key list` have no caller, no state or no effect on what
is checked; `advance_round`, which has no caller either, makes with the fields
its caller must fill in what `AdvanceRound(r, r.of)` makes. That a caller signs twice with the same nonces is
a behaviour of `Frost`, but the crate promises nothing there that a property
could hold it to.

## 7. What is left

`OpticalTransfer` with sessions of different lengths; the phone's inspector
beside `Inspector`; a refinement that joins `OpticalTransfer` to `LTDecoder`,
which now share `Peeling` only by its closure.
