# A TLA+ model of libsignal-zig

libsignal-zig implements the Signal protocol in Zig behind a C API: one-to-one
sessions (X3DH/PQXDH and the Double Ratchet, with the SPQR post-quantum ratchet
mixed in), group messaging with sender keys, and sealed sender. This directory
holds TLA+ modules of its stateful core, the TLC runs that check them on small
instances and TLAPS proofs of the properties that matter most. Paths below are
relative to `src/` of the repository unless they start with `include/` or `examples/`.

## Inventory

| Component | State | Operations | Hard behaviour | What makes it correct |
|---|---|---|---|---|
| session establishment (`session_builder.zig`, `ratchet/alice.zig`, `ratchet/bob.zig`) | the record in the session store; identity and pre-key stores | `processPreKeyBundle`; the set-up branch of `decryptPreKeyMessage` | several store calls that can fail or be cut short; set-up messages that arrive late or again; missing one-time or Kyber pre-keys | a one-time pre-key is spent before its session exists and sets up one session; both sides derive the same keys or nothing is stored; the identity is saved first |
| session cipher (`session_cipher.zig`) | `SessionState` inside the record | `encrypt`, `decryptMessage`, `decryptPreKeyMessage`, `getMessageKeys` | messages lost, repeated, reordered, across ratchet steps and replaced sessions | no chain key seals twice; no message opens twice; the ratchets stay in step |
| session state and record (`state/session_state.zig`, `state/session_record.zig`) | receiver chains, skipped keys, archived states | `getOrComputeMessageKeys`, `addReceiverChain`, `archiveCurrentState`, `promoteState`, `serialize` | bounds on chains, keys, jumps, archived states; what a store round trip drops | bounded lists, no live key lost |
| sender keys (`group_session_builder.zig`, `group_cipher.zig`) | one sender key record per sender and distribution id | `createSession`, `processSession`, `encrypt`, `decrypt` | distributions and messages reordered against each other; rotation | iterations never reused; a member reads what it was granted and is never ahead |
| SPQR (`spqr.zig`, `spqr/state.zig`, `chain.zig`, `authenticator.zig`, `poly_codec.zig`) | a state machine, a chain of epochs, a MAC key; all serialized into the session state | `send`, `recv` on every message | a six-message-kind exchange cut into chunks, driven only by the traffic of both sides | both sides add the same secret at the same epoch; MAC keys in step; roles swap; it gets on |
| sealed sender (`sealed_sender.zig`) | none | V1/V2 seal and open, certificates, multi-recipient splitting | expiry, certificate chain, unusual recipients | planned |
| incremental MAC (`incremental_mac.zig`, the MAC part of `ffi/crypto.zig`) | a chunk buffer, a list of MACs, a count of those returned; a chunk index | `update`, `finalize` of both sides | slices across chunk boundaries; calls that fail midway | slicing does not matter; the MACs come once and in order; a refusal is final |
| protobuf codec, PKCS#7 (`proto.zig`, `aes_cbc` in `session_builder.zig`) | none | pure functions | boundaries | planned |
| FFI session bridge (`ffi/session.zig`) | none between calls; during one the host's callbacks, the record and the session state it makes | `signal_process_prekey_bundle`, `signal_encrypt_message`, `signal_decrypt_message`, `signal_decrypt_pre_key_message`, the four group calls | a callback that fails or never returns between two stores; who frees what the call made; calls of the peer meanwhile | each call is a whole step or one that was cut short, nothing else; what it made is freed once |
| store interfaces (`include/signal_ffi.h`, `storage.zig`) | six stores of the host | load, store, save, remove, mark used | stores that ignore a request, trust everyone, or fail | a load answers what was stored last |
| C example (`examples/c/main.c`) | six `kv_t` per party, arrays of rows that own their bytes | the store callbacks; `test_session`, `test_group`; tests of pure functions | ownership of rows, copies, handles, buffers when a library call fails in between; a full store | no leak, no double free; one row per key; the tests pass |
| C++ example (`examples/cpp/main.cpp`) | `std::map`s | the same | the same, without rows | the same |
| FFI handles and errors (rest of `ffi/*.zig`, `c_api.zig`) | handles and buffers | about 250 accessors and constructors | ownership across the boundary | not modelled |
| primitives, ids, usernames, fingerprints, error tables | none | pure computation | - | assumed ideal, or out of reach |

Interaction: the FFI builds a `SessionBuilder`, `SessionCipher` or `GroupCipher`
around the host's store callbacks for one call. Every call is load, change,
store. A session record passes through `serialize`/`deserialize` at each load
and store (`ffi/session.zig:138-149`; the test stores do the same, and the
example hosts serialize once more), which is
why the modules apply `Serialize` to whatever is stored. `SessionCipher` calls
`spqr.send`/`spqr.recv` for every message and mixes the key it gets into the
message key. The host calls one operation at a time: the code has no lock.

How the modules fit together:

    MapStores  <==  HostStores              one store of a host: map, rows and heap
    Session    <==  SessionCalls            one-to-one sessions: calls, callbacks
                      ^ ExampleHosts        programs of the hosts over SessionCalls
    SenderKeys        <- GroupHosts         programs of the hosts over SenderKeys
    Spqr              <- SpqrRounds         the test's schedule over Spqr
    IncrementalMac

`A <== B` means that B implements A, which a run checks as a refinement;
`A <- B` that B extends A.

## The modules

### Session

Two parties, their stores and a network that keeps every message ever sent, so
that any of them may arrive late, several times or never.

| Code | Model |
|---|---|
| `SessionRecord` of a party in its session store | `session[p]` (`current`, `previous`) |
| `PreKeyStore`, `KyberPreKeyStore`, `IdentityKeyStore` | `preKeys`, `kyberUsed`, `identities` |
| `KeyPair.generate` | `nextKey` |
| `processPreKeyBundle` | `ProcessPreKeyBundle`; cut short after `saveIdentity`: `AbandonProcessing` |
| `encrypt` | `Encrypt` |
| `decryptMessage` | `DecryptMessage` |
| `decryptPreKeyMessage`, message of the current session | `DecryptInSession` (it returns without `storeSession`) |
| `decryptPreKeyMessage`, new session | `EstablishSession`; cut short after one, two or three store calls: `AbandonEstablishing` |
| `archiveCurrentState` and `storeSession` | `ArchiveCurrentState` |

Key material is symbolic: a key pair is a number, a Diffie-Hellman output is the
set of the two key pairs, and a root or chain secret is the handshake with the
sequence of outputs mixed in since. Two secrets are equal exactly when the code
computes the same bytes, with ideal primitives. A message opens when both ends
derived the same message key, which is what its MAC decides. Calls that fail and
change nothing in the stores are not actions: they would be stuttering steps.
`isTrustedIdentity` always answers yes, as it does in the test stores.
`None` stands for Zig's null.

The model keeps of SPQR only the counters of epoch 0. A session of this code
never leaves that epoch: the initiator sends pre_key messages for ever
(`pending_pre_key` is never cleared, `session_cipher.zig:100`), and its peer
decrypts pre_key messages of the current session without storing the record
(`:226`), so the responder's stored state machine sees one chunk of a header
that takes two. `PqKey` and `pqSend` are `EpochDir.keyAt` and `nextKey` of that
epoch.

### SenderKeys

One sender and one distribution id, any set of members. `senderKey` is the
sender's own record, `memberKey[r]` the one of member `r`; a record is a
generation (the random chain key and signing key) and an iteration.
`CreateSession` and `DistributeExisting` are the two ways through
`createSession`; `DropSenderKey` is the host removing the record, or the record
no longer parsing, which `createSession` treats alike; `ProcessSession`,
`Encrypt` and `Decrypt` are the other calls.

### SessionCalls and ExampleHosts

`SessionCalls` opens up the steps of `Session`. A call of the C interface is the
sequence of store callbacks it makes (`Callbacks`, `NewSessionCallbacks`), one
step each; `call[p]` keeps what the library holds on its stack meanwhile: the
callbacks to come, the message or bundle, the record that `load_session` gave.
At every callback the host may fail (`Fail`), which also stands for a process
that dies there, since all that outlives either is the stores; it may refuse
the identity (`is_trusted_identity`), have no session or pre-key
(`load_session`, `load_pre_key`), or the message may turn out not to open
(`Reject`). The two parties' calls interleave freely; a host makes one call at a
time. A step of `Session` is taken at the callback that makes it final: the
`store_session` that ends each call (`StoreInitiated`, `StoreSealed`,
`StoreOpened`, `StoreEstablished`), or the return without one
(`ReturnPlaintext`).

The refinement `Atomic` gives back to the pre-key stores what a call still in
progress took from them (`AtomicPreKeys`, `AtomicKyberUsed`): in `Session` a call that ends early is an
`AbandonProcessing` or `AbandonEstablishing` step, taken here when the call
returns, and otherwise everything happens at once. `SessionImplemented` then
says that every behaviour is one of `Session`, so that what holds there holds
for calls that are interrupted anywhere. `owners` and `freed` follow the session
state that a call makes: which variables will free it, and how often it was.

`host` chooses the callbacks: `any` keeps the stores as the interface asks;
`c` and `cpp` are the examples, whose callbacks never fail, trust everyone and
do nothing in `remove_pre_key` and `mark_kyber_pre_key_used`
(`examples/c/main.c:128-132, 167, 220`). `ExampleHosts` runs either any calls in
any order or the sequence of calls in `test_session`, with the checks the
examples make after each (`Expected`); a check that fails ends the process.

### GroupHosts

Over `SenderKeys`, either any calls or `test_group` of the examples.

### MapStores and HostStores

One store of a host, whichever of the six (`kind`). `MapStores` is the C++
example: a map, and callbacks that run in steps, since the library functions
they call (`signal_*_deserialize`, `signal_*_serialize`,
`signal_privatekey_get_public_key`) can fail in between. It has no memory and
says what a store promises. `HostStores` is the C example: `rows` that own
`bytes`, and for every step of a callback what is allocated, freed and held: the
copy of a row (`copy`), the handle made of it, which the bridge destroys
(`handle`), the library's buffer (`buffer`), the private key (`private`). The
allocator may hand out any free block, the one just freed included. `Contents`
maps the rows to the map; a put counts when it is in the row, although the
callback still frees its buffer (`FreeBuffer`).

### Spqr and SpqrRounds

`Spqr` is the state machine of `spqr/state.zig`: `sm`, `chain` and `auth` are the
fields of `SpqrState`, one action per branch of `nextSendChunk` (`SampleKeys`,
`SendHdr`, `StartEk`, `SendEk`, `SendCt1`, `StartCt2`, `SendCt2`, `SendAck`,
`SendNone`) and per outcome of `receiveChunk` (`Refuse`, `Ignore`,
`CollectChunk`, `ReceiveHdr`, `ReceiveCt1`, `ReceiveEk`, `ReceiveCt2`,
`ReceiveCt1Ack`). The transport is a reliable queue in each direction, the
assumption of `spqr/state.zig:15-19`. An object is named by the key pair and the
encapsulation it belongs to, a MAC by the epoch secrets in the authenticator's
key, the epoch and the object; so a MAC verifies exactly when the code's would.
A decoder completes when it holds as many distinct chunks as the object has and
yields a mixed object when they come from different ones. The keys within an
epoch are left out: on this transport each message names the next index.
`ek_ct1_ack` chunks are treated as `ek` chunks, since the flag they set
(`ek_ct1_ack_received`) is never read.

`SpqrRounds` restricts `Spqr` to the schedule of `spqrStep` in
`integration_test.zig:742-766`.

### IncrementalMac

A sender (`Incremental` and its `macs_emitted`) and a receiver (`Validating`) of one
attachment, each fed by its host in slices of its own choice through
`signal_incremental_mac_update`/`_finalize` (`Update`, `Finalize`) and
`signal_validating_mac_update`/`_finalize` (`ValidatingUpdate`,
`ValidatingFinalize`). The copying loop is a recursive function over the bytes of
the slice (`Fed`, `Checked`, one `PutByte` or `CheckByte` each), which is what the
loop does, chunk-sized copies being an optimisation; the case of a buffer still full after a refusal is kept. A chunk's
MAC is the chunk. `ChunksOf` is the reference: the chunks of the whole content.
The second disjuncts of `Update` and `Finalize` are the failure to copy the result
for the caller (`ffi/crypto.zig:282, 298`). The hosts make no update after
finalize; a second finalize is allowed.

### Proof modules

`SessionProofs`, `HostStoresProofs`, `SpqrProofs` and `IncrementalMacProofs` extend
the modules of those names with their theorems, `SenderKeysProofs` extends
`GroupHosts` and so `SenderKeys`.
`SessionReplayProofs` goes on from `SessionProofs` and `SessionRatchetProofs` from
that; `SessionCallsProofs` extends `ExampleHosts` and `SessionProofs`. `MCSession` and `MCExampleHosts` name the bundles that the
configurations use.

## The runs

| Run | Bounds | Shows |
|---|---|---|
| `session` (`MCSession.cfg`) | a bundle without one-time pre-key, whose set-up messages can be replayed, and one with a one-time and a Kyber pre-key; only Alice has a Kyber store; 6 key pairs drawn, 5 messages, forward jumps of 2, 1 skipped key, 2 chains, 1 archived state | `SealingKeysUnique`, `OneTimeKeySpent`, `OneSessionPerOneTimeKey`, `WhisperOpensOnce`, `IdentityBeforeSession`, `AheadOpens`, `HandshakesAgree` |
| `session_calls` (`MCExampleHosts.cfg`) | both bundles, Kyber stores on both sides, 2 messages, 4 key pairs, 1 one-time pre-key per party; all three hosts | `SessionImplemented`, `ExamplesPass` |
| `host_stores` (`HostStores.cfg`) | 3 keys, 2 rows, 2 records, 5 blocks, 1 block lost; all six kinds | `HeapAccounted`, `KeysDistinct`, `MapStoresImplemented` |
| `senderkeys` (`GroupHosts.cfg`) | 2 members, 2 generations, 3 messages | `SenderKeysUnique`, `NeverAhead`, `ReadsWithinGrant`, `GroupExamplePasses` |
| `Spqr_inorder` | objects of 2, 4, 3 and 3 chunks, 3 epochs, 6 messages under way per direction | `EpochSecretsAgree`, `NoInvalidMac`, `RolesExclusive` |
| `SpqrRounds` | the chunk counts of ML-KEM-768 (2, 36, 30, 4), 3 epochs | `EpochAdvances` under the test's schedule |
| `IncrementalMac` | 2 byte values, chunks of 2 bytes, up to 5 bytes on each side in slices of up to 4 | `MacsOfContent`, `GenuineAccepted`, `AcceptedAgrees`, `RefusedForGood` |
| `session_prekeyonly`, `session_overtaken`, `state_freed`, `spqr_stall`, `spqr_keyed` | smallest that show it | the disagreements below |

Why the bounds suffice. Six key pairs are two set-ups and two ratchet steps, or
three set-ups: enough for crossing and replaced sessions, for a reply, and for a
replay against the state of the one before. Five messages let one chain lose,
overtake and repeat. Limits of the code (25,000 jumps, 2,000 keys, 5 chains, 40
archived states) are constants, set to values the runs can exceed. Three epochs
of SPQR return each party to its first role. Five bytes in chunks of two are two
full chunks and a partial one, and a slice of four on a buffer of one spans two
boundaries. Two messages and four key pairs in `session_calls` are a set-up, its
message and a reply, or two crossing set-ups, cut off at every callback; longer
histories are the business of `session`, whose steps the calls implement. Three
keys for two rows fill a store with a row to replace and a key that has no room;
five blocks are two rows, a buffer or copy, a handle and one to spare, so that an
allocation always has a choice. The theorems hold for all values.

Fairness. `Spec` of each module has none: its properties are about safety.
`SpecRounds` has weak fairness of the round, which is the test's loop; `FairSpec`
of `Spqr` has weak fairness of each party's sends and receives, that is, hosts
that keep talking and a transport that keeps delivering, and it is used only to
show that this does not suffice. `ExampleStep` is weakly fair in `ExampleHosts`
and `GroupHosts`: the examples are sequential programs and the processor runs
their next statement; hosts that call at will have no fairness. Deadlock is
checked except where the program really stops: in `SpqrRounds`, whose bound on
epochs ends the loop, in the examples, which end, and in `HostStores`, where a
full store aborts.

## What the runs found

* `PreKeyOnlyBeforeReply`: `include/signal_ffi.h:603` says the first message is a
  PreKeySignalMessage and the subsequent ones are SignalMessages. The initiator
  sends pre_key messages for the life of the session, also after a reply.
* `OvertakenOpens`: the cache of skipped message keys
  (`state/session_state.zig:178, 195`) is not written by `serialize` (`:251`), so
  it never survives the call that filled it and an overtaken message is lost.
* `StateFreedOnce`: in `processPreKeyBundle` the record takes the session state
  (`session_builder.zig:148`) while the `errdefer` of line 89 stays in force, so
  a `store_session` that fails leaves the state freed twice.
  `session_cipher.zig:304` avoids the same thing on purpose.
* `EpochAdvances` under free interleaving: the SPQR exchange can stall with
  nothing lost or reordered. CT1 chunks that arrive while the header is being
  sent are ignored (`spqr/state.zig:303`); CT1 is abandoned half sent when the
  encapsulation key is complete (`:256`); its pending MAC is dropped (`:222`); an
  acknowledgement that came before CT2's last chunk is not repeated unless the
  initiator goes on sending (`:465`). The tests send in strict rounds.
* `EveryMessageKeyed`: `addEpoch` moves `send_epoch` at once (`spqr/chain.zig:99`),
  so between header and CT2 the responder's messages name an epoch its peer
  cannot derive; `recv` maps the error to a null key (`spqr/state.zig:141`), and
  the message keys of the two ends differ.

Seen while modelling, without a run of their own:

* `include/signal_ffi.h:493` says a distribution message establishes or advances
  the ratchet; `processSession` (`group_session_builder.zig:196`) overwrites the
  record whatever its iteration, so a late or repeated one sets it back.
* `fromZigError` (`ffi/error.zig:210`) numbers errors otherwise than the header:
  a missing session or key identifier is 70 (`DUPLICATED_MESSAGE` in
  `include/signal_ffi.h:252`), a duplicate message 90 (`UNRECOGNIZED_ADDRESS`), an
  invalid session 82, an invalid key 40 (`SESSION_NOT_FOUND`), an invalid message
  30, an invalid signature 41.
* `getIdentityKeyPair` (`ffi/session.zig:177`) frees neither handle when the
  callback fails at the public key, so the private key stays in memory; it is the
  one leak `HeapAccounted` admits (`lost`).
* `encrypt`, `decryptMessage` and `decryptPreKeyMessage` do not free the message
  or plaintext they made when `store_session` fails (`session_cipher.zig:131, 180,
  305`).
* `include/signal_ffi.h:597` lets a host set unused callbacks to NULL, and
  `markKyberPreKeyUsed` takes that for success (`ffi/session.zig:368`), but
  `removePreKey` for a failure (`:288`), after the identity was saved.
* `include/signal_ffi.h:17` says strings written to `const char **` are to be freed
  with `signal_free_string`; `signal_address_get_name` (`ffi/address.zig:56`) and
  `signal_error_get_message` (`ffi/error.zig:288`) hand out strings that their
  object goes on owning, and both examples rightly do not free them
  (`examples/c/main.c:67`).
* `signal_encrypt_message` is declared with seven parameters
  (`include/signal_ffi.h:613`) and takes five (`ffi/session.zig:471`).

And in the tests: the test `incremental mac detects
corruption` (`incremental_mac.zig:200-201`) expects `update` to accept a corrupted
full chunk and `finalize` to refuse it; the code refuses it in `update`
(`:132, :156`).

## What is proved

All for every value of the constants, from the assumptions named in the modules;
TLC evaluates each of them on some run.

* `Session`: `PartyAssumption`, `KeyAssumption`, `LimitAssumption`,
  `StateAssumption` (null is no session state).
* `SessionCalls` and `ExampleHosts`: `HostAssumption`, `CallAssumption` (null is no
  call), `ExampleAssumption` (the examples have a one-time pre-key and publish the
  bundle they use).
* `SenderKeys`: `NoneAssumption`; `GroupHosts`: `MemberAssumption` (there is a
  member); `HostStores`: `AnswerAssumption`,
  `BoundAssumption`; `Spqr`: `PartyAssumption`, `ChunkAssumption` (an object has
  two chunks or more, the header included), `BoundAssumption`; `IncrementalMac`:
  `ByteAssumption`, `SizeAssumption` (a chunk has a byte).

* `SessionProofs!TypeCorrect`. One lemma per operator (`CreateChainType`,
  `AdvancedType`, `SerializeType`, `ArchivedType`, ...), then one per stored record
  (`BundleStep`, `EncryptStep`, `DecryptStep`, `EstablishStep`, `ArchiveStep`) that says
  what the call leaves in it; the step lemma only combines them.
* `SessionProofs!OneTimeKeySpentCorrect`, `IdentityBeforeSessionCorrect`. Both
  rest on `StatesStep`: a state in a record after a step was there before, up to
  its chains, or is new, and new states come from two calls only; and on
  `StoresStep`: pre-keys are never put back and identities never forgotten.
* `SessionProofs!SealingKeysUniqueCorrect`. Uniqueness is not inductive: a step
  could seal with a chain that another message used. `SealingInv` adds that every
  key pair in a current state or a message was drawn before (`KeysDrawnBefore`),
  that a stored sending chain lies ahead of everything sealed with it
  (`ChainsAhead`) and that the two parties' chains differ (`ChainsApart`). A new
  sending chain always contains a key pair just drawn (`CreateChainKeys`), so it
  differs from every secret there is (`NewChainSealing`), and archived states never
  become current again.
* `SessionProofs!HandshakesAgreeCorrect`, `OneSessionPerOneTimeKeyCorrect`. A
  session is accepted when its first message opens, and a message opens on a
  state without chains only under a secret made from the very same handshake
  (`OpensFirst`); messages are never taken back, so the agreement lasts. That a
  one-time pre-key sets up one session needs `SlotsApart`: of all places in a
  record, current and archived, two never hold accepted sessions of one key;
  since a key that was used is in no store any more (`OneTimeKeySpent`), the next
  session cannot be of it, and archiving only moves places (`ArchivedType`).
* `SessionReplayProofs!WhisperOpensOnceCorrect`. That a message has not opened
  twice says nothing of the state that has to refuse it. `ReplayInv` adds that a
  party still on the session of a message it opened has moved past it
  (`OpenedPassed`): a chain with its secret lies behind its counter, and no later
  ratchet step yields that secret, since secrets only grow longer and no two
  chains are of one length (`ChainsOrdered`). That the party cannot come back to a
  session it has left is because whisper messages are sealed by the responder
  alone (`WhispersFromResponder`) and the initiator, who reads them, never sets up
  a handshake twice (`HandshakesDrawn`). That nothing is opened from the cache of
  skipped keys holds because `Serialize` empties it (`NothingSkipped`).
* `SessionRatchetProofs!AheadOpensCorrect`. That a message opens says nothing of
  the states that led to it: the two ends must have computed the same secrets.
  They can be named, because `decryptPreKeyMessage` stores no state after the one
  that sets up the session: the initiator's first chain, the responder's and the
  initiator's second are all that a session can have (`FirstSecret`, `ReplySecret`,
  `SecondSecret`). `InStep` says where each end stands: every current state holds
  the root of its place and just one chain for each ratchet key of its peer, and
  every message was sealed under the secret of its place. A message of another
  place does not open, since its secret has another length (`InitiatorOpens`,
  `ResponderOpens`); a state that leaves its place goes on to the next
  (`OpensByStep`). Without a one-time pre-key the responder may set a session up
  again with another reply key, on which an initiator who has read the first is
  not in step. `OneReplyKey` excludes this for the others: the one-time pre-key
  of a session in which a reply was sealed is in no store any more. The proof
  rests on `OneTimeKeySpent`, `SealingInv` and `ReplayInv`.
* `SenderKeysProofs`: `TypeCorrect`, `SenderKeysUniqueCorrect`, `NeverAheadCorrect`
  and `ReadsWithinGrantCorrect` from one invariant: generations and texts used lie
  below their counters, the sender is in front of every message, distribution and
  member of its generation, and each member's record descends from a distribution
  it processed. `GroupHostsImplement` shows that the group programs, `test_group`
  among them, make no step that is not one of `SenderKeys`, and `GroupHostsSafe`
  that these properties hold of them.
* `HostStoresProofs`: `TypeCorrect`, `HeapAccountedCorrect`, `KeysDistinctCorrect`,
  for any number of keys, blocks and rows. That every live block has one owner is
  not inductive: whether a free is right depends on what the callback holds when
  it comes to it. `Inv` adds that (`FrameHolds`: one block at most, which one
  depending on the last step done, with the record the frame is about) and that
  rows hold records (`RowsHoldRecords`). The steps change the heap in six ways
  (`Acquire`, `Exchange`, `Discard`, `Leave`, `ReplaceHeap`, `AppendHeap`), one lemma
  each.
* `HostStoresProofs!Implements`: the C host's store refines `MapStores`. Under `Inv`
  a key has one row, so the map read off the rows is well defined (`ContentsIs`);
  blocks taken and given back are never those of a row, so it stays the same
  (`AcquireMap`, `DiscardMap`), and `kv_put` changes it at one key (`RowPut`,
  `PutMap`), also when the allocator hands the freed block out again.

* `SpqrProofs`: `TypeCorrect`, `EpochSecretsAgreeCorrect`, `NoInvalidMacCorrect` and
  `RolesExclusiveCorrect` from `InvCorrect`, for any chunk counts and any
  interleaving of sends and receipts. `Inv` says that the parties are in the same
  epoch, one of them waiting for a header, or one of them is a single key ahead
  (`InStep`); and that every chunk under way or collected, and every MAC kept for
  later, is of the object its sender is sending in that epoch (`Links`). Its hard
  part is a responder that completes the encapsulation key: only counting shows
  that its peer has sent all of it by then. The decoder holds as many distinct
  indices as the object has chunks, and the peer numbers what it sends without
  gaps (`EkComplete`, `CountedChunks`).
* `IncrementalMacProofs`: `TypeCorrect`, `MacsOfContentCorrect`,
  `GenuineAcceptedCorrect`, `AcceptedAgreesCorrect`, `RefusedForGoodCorrect` from
  `InvCorrect`. `Inv` names the position in the content each object has reached:
  the MACs are those of the whole chunks before it, the buffer is the rest, or
  the object is stuck at the chunk it refused. What a slice does is a recursive
  function over its bytes; that it keeps `Inv` is shown from the least byte at
  which it would not, which needs no induction theorem.
* `SessionCallsProofs`: `CallsTypeCorrect`, and `CallsImplementSession`: every
  behaviour of a host that keeps its stores, in which callbacks fail, processes
  die between two of them and the peer's calls come in between, is one of
  `Session`, so that the theorems above speak of interrupted calls too. What is to
  be shown at a call's last callback is that nothing it relies on has gone stale.
  `CallsInv` says so for each callback still to come: the record loaded is the
  one in the store, the message is one the peer sent, the one-time pre-key was
  there and is now given up, and what was taken from the stores is just what an
  abandoned call of `Session` takes. The peer's steps cannot disturb it
  (`Undisturbed`), a step of the party itself moves on to the next callback
  (`ReadOnlyWell`, `TrustedWell`, `RemovePreKeyWell`, ...), and each callback is then
  matched with a step of `Session` or none (`StoreEstablishedImplements`,
  `EndImplements`, ...). For the examples `CallsInv` adds that `test_session` never
  decrypts before something was encrypted (`ExampleWell`). That `Session` and its
  instance compute the same values is proved operator by operator
  (`SameRecords`, ..., `SameOpening`).

Every invariant that a passing run checks on `Session`, `SenderKeys`, `HostStores`,
`Spqr`, `IncrementalMac` and `SessionCalls` is a theorem. Only model-checked: the
liveness properties `EpochAdvances`, `ExamplesPass` and `GroupExamplePasses`, which
rest on fairness and are out of the proof system's reach. The five properties
that fail are not theorems, of course.

## Not modelled

Cryptography (assumed ideal), wire formats and record encodings except for what
they drop, registration ids and timestamps, and everything the inventory marks
as planned. Concurrent calls of one host on one record are outside the contract
of a library without locks. Loss in SPQR is outside the assumption its header
states.
A stored session has receiver chains of two ratchet keys at most (`StateInStep`
in `SessionRatchetProofs`), so nothing is checked about the fifth and later
receiver chains of `addReceiverChain`.

Of the example hosts: the tests of keys, Kyber, fingerprints, usernames and
accounts, which call pure functions once and compare the result; `malloc`
returning NULL, which they do not look at; and row keys longer than 511
characters, which `kv_put` cuts off (names are UUIDs or phone numbers). Of the
C interface: the accessors and constructors, which keep no state, the numbers of
the error codes and sealed sender. Of the library's memory: only what passes
through a store callback and the session state of a call.

## Plan

1. Done: `Session`, `SenderKeys`, `Spqr` with `SpqrRounds`, `IncrementalMac`; the
   hosts: `MapStores`, `HostStores`, `SessionCalls`, `ExampleHosts`, `GroupHosts`;
   the proofs about all of these.
2. Proofs: the operators of item 3, for which `SessionRatchetProofs` and
   `SessionReplayProofs` have lemmas about receiver chains.
3. `ReceiverChains`: `getOrComputeMessageKeys` and `addReceiverChain` as an
   algorithm on a state held in memory, with 32-bit counters, against a
   reference of which keys are still derivable.
4. `SpqrSession`: `Spqr` with its per-epoch counters, driven by the messages of a
   session that does store its state, to compare message keys end to end.
5. `SealedSender`, `Varint` (the protobuf codec and its `@intCast`s), PKCS#7: pure
   operators against reference definitions, and the multi-recipient message.
