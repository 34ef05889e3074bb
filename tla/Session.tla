------------------------------- MODULE Session -------------------------------
(***************************************************************************)
(* Two parties keep one Double Ratchet session with each other:            *)
(* SessionBuilder.processPreKeyBundle, SessionCipher.encrypt,              *)
(* decryptMessage and decryptPreKeyMessage, over the session, pre-key,     *)
(* Kyber pre-key and identity stores of the host.                          *)
(*                                                                         *)
(* Key material is symbolic: a key pair is a number drawn from nextKey, a  *)
(* Diffie-Hellman output is the set of the two key pairs, and a root or    *)
(* chain secret is the handshake together with every output mixed in since.*)
(* Two secrets are equal exactly when the code would compute equal bytes.  *)
(*                                                                         *)
(* The SPQR ratchet is the per-direction counter of its epoch 0; README.md *)
(* says why a session established by this code never leaves that epoch.    *)
(***************************************************************************)
EXTENDS Integers, Sequences, FiniteSets

CONSTANTS
    Alice, Bob,         \* the two parties
    None,               \* Zig's null: no session state, no one-time pre-key
    OneTimeKeys,        \* ids of the one-time pre-keys each party starts with
    Bundles,            \* the kinds of pre-key bundle that are published
    KyberStores,        \* parties whose host passes a kyber_pre_key_store
    MaxForwardJumps, MaxMessageKeys, MaxReceiverChains, MaxArchivedStates,
    MaxPqJump,          \* DEFAULT_MAX_JUMP of spqr/chain.zig
    MaxKey, MaxSent     \* bounds of the model: key pairs drawn, messages sent

Party == {Alice, Bob}

Peer(p) == IF p = Alice THEN Bob ELSE Alice

\* Each party's signed pre-key is the key pair drawn first.
SignedPreKey(p) == IF p = Alice THEN 1 ELSE 2

OptionalKey == OneTimeKeys \union {None}

Bundle == [opk : OptionalKey, kem : BOOLEAN]

ASSUME PartyAssumption == Alice # Bob

ASSUME KeyAssumption ==
    /\ None \notin OneTimeKeys
    /\ Bundles \subseteq Bundle
    /\ KyberStores \subseteq Party

ASSUME LimitAssumption ==
    /\ MaxForwardJumps \in Nat
    /\ MaxMessageKeys \in Nat
    /\ MaxReceiverChains \in Nat \ {0}
    /\ MaxArchivedStates \in Nat
    /\ MaxPqJump \in Nat

-----------------------------------------------------------------------------
(* Key material and messages *)

\* What X3DH or PQXDH hashes: the initiator's base key, the responder's
\* signed pre-key, its one-time pre-key if any, the Kyber secret if any.
Handshake == [base : Nat, spk : Nat, opk : OptionalKey, kem : BOOLEAN]

Secret == [hs : Handshake, dhs : Seq(SUBSET Nat)]

ChainKey == [secret : Secret, index : Nat]

\* counter selects the key within the chain, pqr is the SPQR key mixed in,
\* identified by its index in the SPQR chain (0 for none).
MessageKey == [secret : Secret, counter : Nat, pqr : Nat]

ReceiverChain ==
    [ratchet : Nat, secret : Secret, index : Nat, skipped : SUBSET Nat]

\* hs also names the session (alice_base_key) and says its version: 4 when
\* the Kyber secret was mixed in, 3 otherwise. pending stands for
\* pending_pre_key and pending_kyber_pre_key, whose contents are in hs.
SessionState ==
    [hs : Handshake, pending : BOOLEAN, root : Secret,
     ratchet : Nat, chain : ChainKey, chains : Seq(ReceiverChain),
     pqSend : Nat, pqRecv : Nat]

SessionRecord ==
    [current : SessionState \union {None}, previous : Seq(SessionState)]

ASSUME StateAssumption == None \notin SessionState

\* hs is the header of a pre_key message; a whisper message has none and its
\* decryption does not read the field.
Message ==
    [from : Party, kind : {"pre_key", "whisper"}, hs : Handshake,
     ratchet : Nat, counter : Nat, pq : Nat, key : MessageKey, text : Nat]

InitialSecret(hs) == [hs |-> hs, dhs |-> <<>>]

\* One KDF call yields the next root key and a chain key; both are named by
\* the same secret.
CreateChain(root, their, our) ==
    [root EXCEPT !.dhs = Append(@, {their, our})]

MessageKeys(secret, counter, pqr) ==
    [secret |-> secret, counter |-> counter, pqr |-> pqr]

-----------------------------------------------------------------------------
(* SessionState *)

AddReceiverChain(chains, their, secret) ==
    LET all == Append(chains, [ratchet |-> their, secret |-> secret,
                               index |-> 0, skipped |-> {}])
    IN  IF Len(all) > MaxReceiverChains THEN Tail(all) ELSE all

ChainsFor(st, their) ==
    {i \in DOMAIN st.chains : st.chains[i].ratchet = their}

HasChain(st, their) == ChainsFor(st, their) # {}

FindReceiverChain(st, their) == CHOOSE i \in ChainsFor(st, their) : TRUE

Newest(S, n) == {c \in S : Cardinality({d \in S : d > c}) < n}

\* getOrComputeMessageKeys yields a key unless it reports DuplicateMessage or
\* a jump that is too long.
Derivable(rc, counter) ==
    \/ counter \in rc.skipped
    \/ /\ rc.index <= counter
       /\ counter - rc.index <= MaxForwardJumps

\* A key from the skipped cache was computed without the SPQR key.
DerivedKey(rc, counter, pqr) ==
    MessageKeys(rc.secret, counter, IF counter \in rc.skipped THEN 0 ELSE pqr)

\* Faulty variant: the chain stays at the message just read.
AdvancedShort(rc, counter) ==
    IF counter \in rc.skipped
    THEN [rc EXCEPT !.skipped = @ \ {counter}]
    ELSE [rc EXCEPT !.index = counter,
                    !.skipped = Newest(@ \union (rc.index .. counter - 1),
                                       MaxMessageKeys)]

Advanced(rc, counter) ==
    IF counter \in rc.skipped
    THEN [rc EXCEPT !.skipped = @ \ {counter}]
    ELSE [rc EXCEPT !.index = counter + 1,
                    !.skipped = Newest(@ \union (rc.index .. counter - 1),
                                       MaxMessageKeys)]

\* serialize writes a receiver chain's ratchet key and chain key, not its
\* message_keys: a stored and reloaded state has an empty cache.
Serialize(st) ==
    [st EXCEPT !.chains = [i \in DOMAIN @ |-> [@[i] EXCEPT !.skipped = {}]]]

-----------------------------------------------------------------------------
(* decryptWhisperMessage on a state held in memory *)

\* The SPQR key for the message, 0 when the session has no SPQR state or the
\* index was passed already or lies too far ahead.
PqKey(st, m) ==
    IF st.hs.kem /\ st.pqRecv < m.pq /\ m.pq <= st.pqRecv + MaxPqJump
    THEN m.pq ELSE 0

PqReceived(st, m) ==
    IF PqKey(st, m) = 0 THEN st ELSE [st EXCEPT !.pqRecv = m.pq]

\* Faulty variant: the root key of the sending half-step is not kept.
DhRatchetHalf(st, their, fresh) ==
    LET recv == CreateChain(st.root, their, st.ratchet)
        send == CreateChain(recv, their, fresh)
    IN  [st EXCEPT !.root = recv,
                   !.ratchet = fresh,
                   !.chain = [secret |-> send, index |-> 0],
                   !.chains = AddReceiverChain(@, their, recv)]

\* fresh is the key pair generated for the new sending chain.
DhRatchet(st, their, fresh) ==
    LET recv == CreateChain(st.root, their, st.ratchet)
        send == CreateChain(recv, their, fresh)
    IN  [st EXCEPT !.root = send,
                   !.ratchet = fresh,
                   !.chain = [secret |-> send, index |-> 0],
                   !.chains = AddReceiverChain(@, their, recv)]

Receiving(st, m, fresh) ==
    IF HasChain(st, m.ratchet) THEN PqReceived(st, m)
    ELSE DhRatchet(PqReceived(st, m), m.ratchet, fresh)

\* Faulty variant: any derivable key is taken, the MAC is not compared.
OpensUnverified(st, m, fresh) ==
    LET s  == Receiving(st, m, fresh)
        rc == s.chains[FindReceiverChain(s, m.ratchet)]
    IN  Derivable(rc, m.counter)

\* The message passes the MAC when both ends derived the same message key.
Opens(st, m, fresh) ==
    LET s  == Receiving(st, m, fresh)
        rc == s.chains[FindReceiverChain(s, m.ratchet)]
    IN  /\ Derivable(rc, m.counter)
        /\ DerivedKey(rc, m.counter, PqKey(st, m)) = m.key

AfterOpen(st, m, fresh) ==
    LET s == Receiving(st, m, fresh)
        i == FindReceiverChain(s, m.ratchet)
    IN  [s EXCEPT !.chains[i] = Advanced(@, m.counter)]

KeysDrawn(st, m) == IF HasChain(st, m.ratchet) THEN 0 ELSE 1

-----------------------------------------------------------------------------
VARIABLES
    session,       \* session store: the record each party keeps for its peer
    preKeys,       \* pre-key store: one-time pre-keys still present
    kyberUsed,     \* parties whose Kyber pre-key was marked used
    identities,    \* parties that have saved the peer's identity key
    nextKey,       \* the next key pair to be generated
    sent,          \* number of plaintexts encrypted so far
    network,       \* every message ever sent: it may arrive late, twice, never
    opened,        \* history: the texts each party decrypted
    reopened       \* history: the texts it decrypted more than once

vars == <<session, preKeys, kyberUsed, identities, nextKey, sent, network,
          opened, reopened>>

NewRecord == [current |-> None, previous |-> <<>>]

Init ==
    /\ session = [p \in Party |-> NewRecord]
    /\ preKeys = [p \in Party |-> OneTimeKeys]
    /\ kyberUsed = {}
    /\ identities = {}
    /\ nextKey = 3
    /\ sent = 0
    /\ network = {}
    /\ opened = [p \in Party |-> {}]
    /\ reopened = [p \in Party |-> {}]

HasSession(p) == session[p].current # None

Archived(record) ==
    IF record.current = None THEN record.previous
    ELSE LET all == <<Serialize(record.current)>> \o record.previous
         IN  SubSeq(all, 1, IF Len(all) > MaxArchivedStates
                            THEN Len(all) - 1 ELSE Len(all))

PromoteState(record, st) ==
    [current |-> Serialize(st), previous |-> Archived(record)]

\* Faulty variant: the state is stored in the place of the record.
StoreCurrentOnly(p, st) ==
    session' = [session EXCEPT ![p] = Serialize(st)]

\* storeSession with the current state replaced in place.
StoreCurrent(p, st) ==
    session' = [session EXCEPT ![p].current = Serialize(st)]

RecordOpening(p, m) ==
    /\ opened' = [opened EXCEPT ![p] = @ \union {m.text}]
    /\ reopened' = [reopened EXCEPT ![p] = @ \union ({m.text} \intersect opened[p])]

-----------------------------------------------------------------------------
(* SessionBuilder *)

InitiatorState(hs, ratchet) ==
    LET send == CreateChain(InitialSecret(hs), hs.spk, ratchet)
    IN  [hs |-> hs, pending |-> TRUE, root |-> send, ratchet |-> ratchet,
         chain |-> [secret |-> send, index |-> 0],
         chains |-> AddReceiverChain(<<>>, hs.spk, InitialSecret(hs)),
         pqSend |-> 0, pqRecv |-> 0]

\* Faulty variant: the process dies before the identity key is saved, with the
\* session already stored.
ProcessPreKeyBundleLateIdentity(p) ==
    /\ nextKey + 1 <= MaxKey
    /\ \E b \in Bundles :
         LET hs == [base |-> nextKey, spk |-> SignedPreKey(Peer(p)),
                    opk |-> b.opk, kem |-> b.kem]
         IN  session' = [session EXCEPT
                 ![p] = PromoteState(@, InitiatorState(hs, nextKey + 1))]
    /\ nextKey' = nextKey + 2
    /\ UNCHANGED <<preKeys, kyberUsed, identities, sent, network, opened,
                   reopened>>

\* The host fetched one of the peer's bundles; it may hold an old one whose
\* one-time pre-key was used before.
ProcessPreKeyBundle(p) ==
    /\ nextKey + 1 <= MaxKey
    /\ \E b \in Bundles :
         LET hs == [base |-> nextKey, spk |-> SignedPreKey(Peer(p)),
                    opk |-> b.opk, kem |-> b.kem]
         IN  session' = [session EXCEPT
                 ![p] = PromoteState(@, InitiatorState(hs, nextKey + 1))]
    /\ identities' = identities \union {p}
    /\ nextKey' = nextKey + 2
    /\ UNCHANGED <<preKeys, kyberUsed, sent, network, opened, reopened>>

\* saveIdentity comes before storeSession: if loading or storing the record
\* fails or the process dies in between, only the identity key is saved.
AbandonProcessing(p) ==
    /\ identities' = identities \union {p}
    /\ UNCHANGED <<session, preKeys, kyberUsed, nextKey, sent, network,
                   opened, reopened>>

-----------------------------------------------------------------------------
(* SessionCipher *)

\* The message that encrypt seals for party p whose current state is st.
Sealed(p, st, text) ==
    LET pq == IF st.hs.kem THEN st.pqSend + 1 ELSE 0
    IN  [from |-> p, kind |-> IF st.pending THEN "pre_key" ELSE "whisper",
         hs |-> st.hs, ratchet |-> st.ratchet, counter |-> st.chain.index,
         pq |-> pq, text |-> text,
         key |-> MessageKeys(st.chain.secret, st.chain.index, pq)]

\* Faulty variant: the chain key used to seal is kept.
AfterSealingUnmoved(st) ==
    [st EXCEPT !.pqSend = IF st.hs.kem THEN @ + 1 ELSE @]

AfterSealing(st) ==
    [st EXCEPT !.chain.index = @ + 1,
               !.pqSend = IF st.hs.kem THEN @ + 1 ELSE @]

\* The message leaves only after storeSession succeeded; a crash or a store
\* error before that changes nothing, a crash after it loses the message.
Encrypt(p) ==
    /\ HasSession(p)
    /\ sent < MaxSent
    /\ LET st == session[p].current
       IN  /\ network' = network \union {Sealed(p, st, sent)}
           /\ StoreCurrent(p, AfterSealing(st))
    /\ sent' = sent + 1
    /\ UNCHANGED <<preKeys, kyberUsed, identities, nextKey, opened, reopened>>

\* Only the current state is tried. A message that does not open leaves the
\* stored record as it was.
DecryptMessage(p, m) ==
    /\ m.from = Peer(p)
    /\ m.kind = "whisper"
    /\ HasSession(p)
    /\ LET st == session[p].current
       IN  /\ nextKey + KeysDrawn(st, m) <= MaxKey + 1
           /\ Opens(st, m, nextKey)
           /\ StoreCurrent(p, AfterOpen(st, m, nextKey))
           /\ nextKey' = nextKey + KeysDrawn(st, m)
    /\ RecordOpening(p, m)
    /\ UNCHANGED <<preKeys, kyberUsed, identities, sent, network>>

\* The message names the base key of the current session.
IsCurrent(p, m) ==
    /\ HasSession(p)
    /\ session[p].current.hs.base = m.hs.base

\* decryptPreKeyMessage on the current session returns the plaintext without
\* storing the record.
DecryptInSession(p, m) ==
    /\ m.from = Peer(p)
    /\ m.kind = "pre_key"
    /\ IsCurrent(p, m)
    /\ Opens(session[p].current, m, nextKey)
    /\ RecordOpening(p, m)
    /\ UNCHANGED <<session, preKeys, kyberUsed, identities, nextKey, sent,
                   network>>

\* The Kyber secret is mixed in only if the host passed a Kyber store.
ResponderState(p, m) ==
    LET hs == [m.hs EXCEPT !.kem = @ /\ p \in KyberStores]
    IN  [hs |-> hs, pending |-> FALSE, root |-> InitialSecret(hs),
         ratchet |-> m.hs.spk,
         chain |-> [secret |-> InitialSecret(hs), index |-> 0],
         chains |-> <<>>, pqSend |-> 0, pqRecv |-> 0]

\* decryptPreKeyMessage goes on to set up a new session: the message is not
\* of the current one and its pre-keys are still in the stores.
Establishing(p, m) ==
    /\ m.from = Peer(p)
    /\ m.kind = "pre_key"
    /\ ~IsCurrent(p, m)
    /\ m.hs.spk = SignedPreKey(p)
    /\ m.hs.opk \in preKeys[p] \union {None}

\* Faulty variant: the one-time pre-key stays in the store.
KeepPreKey(p, m) == UNCHANGED preKeys

ConsumePreKey(p, m) ==
    preKeys' = [preKeys EXCEPT ![p] = @ \ {m.hs.opk}]

MarkKyberPreKeyUsed(p, m) ==
    kyberUsed' = IF m.hs.kem /\ p \in KyberStores
                 THEN kyberUsed \union {p} ELSE kyberUsed

EstablishSession(p, m) ==
    /\ Establishing(p, m)
    /\ nextKey <= MaxKey
    /\ LET st == ResponderState(p, m)
       IN  /\ Opens(st, m, nextKey)
           /\ session' = [session EXCEPT
                  ![p] = PromoteState(@, AfterOpen(st, m, nextKey))]
    /\ identities' = identities \union {p}
    /\ ConsumePreKey(p, m)
    /\ MarkKyberPreKeyUsed(p, m)
    /\ nextKey' = nextKey + 1
    /\ RecordOpening(p, m)
    /\ UNCHANGED <<sent, network>>

\* saveIdentity, removePreKey and markKyberPreKeyUsed come before the message
\* is decrypted and the record stored. A store callback that fails, a message
\* damaged on the way or a process that dies leaves the first steps done.
AbandonEstablishing(p, m, steps) ==
    /\ Establishing(p, m)
    /\ identities' = identities \union {p}
    /\ IF steps >= 2 THEN ConsumePreKey(p, m) ELSE UNCHANGED preKeys
    /\ IF steps >= 3 THEN MarkKyberPreKeyUsed(p, m) ELSE UNCHANGED kyberUsed
    /\ UNCHANGED <<session, nextKey, sent, network, opened, reopened>>

\* The host resets a session: archiveCurrentState, then storeSession.
ArchiveCurrentState(p) ==
    /\ HasSession(p)
    /\ session' = [session EXCEPT
           ![p] = [current |-> None, previous |-> Archived(@)]]
    /\ UNCHANGED <<preKeys, kyberUsed, identities, nextKey, sent, network,
                   opened, reopened>>

Next ==
    \E p \in Party :
        \/ ProcessPreKeyBundle(p)
        \/ AbandonProcessing(p)
        \/ Encrypt(p)
        \/ ArchiveCurrentState(p)
        \/ \E m \in network :
              \/ DecryptMessage(p, m)
              \/ DecryptInSession(p, m)
              \/ EstablishSession(p, m)
              \/ \E steps \in 1 .. 3 : AbandonEstablishing(p, m, steps)

Spec == Init /\ [][Next]_vars

-----------------------------------------------------------------------------
(* Properties *)

\* Type invariant of the stores, the network and the histories.
TypeOK ==
    /\ session \in [Party -> SessionRecord]
    /\ preKeys \in [Party -> SUBSET OneTimeKeys]
    /\ kyberUsed \subseteq Party
    /\ identities \subseteq Party
    /\ nextKey \in Nat
    /\ sent \in Nat
    /\ network \subseteq Message
    /\ opened \in [Party -> SUBSET Nat]
    /\ reopened \in [Party -> SUBSET Nat]

\* Every state in a record, current or archived.
States(record) ==
    {record.previous[i] : i \in DOMAIN record.previous}
      \union ({record.current} \ {None})

\* The sessions p set up from a message of its peer.
Accepted(p) == {st \in States(session[p]) : ~st.pending}

\* No chain key is ever used to seal two messages, whatever sessions are set
\* up, replayed, archived or replaced in between: encrypt stores the advanced
\* chain before it returns and every new sending chain has a fresh key pair.
SealingKeysUnique ==
    \A m, n \in network :
        m.key.secret = n.key.secret /\ m.key.counter = n.key.counter => m = n

\* A one-time pre-key is gone from the pre-key store before a session that
\* used it is stored, also when the process dies between the store calls.
OneTimeKeySpent ==
    \A p \in Party : \A st \in Accepted(p) : st.hs.opk \notin preKeys[p]

\* A one-time pre-key sets up at most one stored session: a message replayed
\* after its session was archived cannot bring the session back.
OneSessionPerOneTimeKey ==
    \A p \in Party :
        LET all == <<session[p].current>> \o session[p].previous
        IN  \A i, j \in DOMAIN all :
                /\ {all[i], all[j]} \subseteq Accepted(p)
                /\ all[i].hs.opk = all[j].hs.opk
                /\ all[i].hs.opk # None
                => i = j

\* decryptPreKeyMessage stores a session only for a handshake that the peer
\* has itself sealed a message under, Kyber secret included: a responder
\* without a Kyber store never keeps a session that disagrees.
HandshakesAgree ==
    \A p \in Party : \A st \in Accepted(p) :
        \E m \in network : m.from = Peer(p) /\ m.key.secret.hs = st.hs

\* The record that decryptMessage stores keeps a whisper message from being
\* decrypted a second time, however often and late it is delivered.
WhisperOpensOnce ==
    \A p \in Party : \A m \in network :
        m.from = Peer(p) /\ m.kind = "whisper" => m.text \notin reopened[p]

\* Once a session is stored, the peer's identity key has been saved: no crash
\* between the store calls of either set-up leaves a session without it.
IdentityBeforeSession ==
    \A p \in Party : States(session[p]) # {} => p \in identities

\* p is on the session m was sealed in, and m lies ahead of what p received
\* under its ratchet key and in the SPQR chain.
Ahead(p, m) ==
    /\ m.from = Peer(p)
    /\ HasSession(p)
    /\ LET st == session[p].current
       IN  /\ st.hs = m.key.secret.hs
           /\ \/ \E i \in ChainsFor(st, m.ratchet) :
                    Derivable(st.chains[i], m.counter)
              \/ /\ \A i \in DOMAIN st.chains : st.chains[i].ratchet < m.ratchet
                 /\ m.counter <= MaxForwardJumps
           /\ st.hs.kem => PqKey(st, m) # 0

\* The two ratchets stay in step: a message of the current session that was
\* not skipped opens, whichever messages were lost, repeated or overtaken and
\* although the responder drops what it derives from later pre_key messages.
\* Without a one-time pre-key a replay may set the session up anew, with
\* another ratchet key, so those sessions are left out.
AheadOpens ==
    \A p \in Party : \A m \in network :
        Ahead(p, m) /\ m.hs.opk # None => Opens(session[p].current, m, nextKey)

-----------------------------------------------------------------------------
(* What comments of the repository say and the code does not do *)

\* include/signal_ffi.h: the first message is a PreKeySignalMessage and the
\* subsequent ones are SignalMessages; read leniently, once the initiator has
\* received a reply and ratcheted away from its first ratchet key.
PreKeyOnlyBeforeReply ==
    \A m \in network : m.kind = "pre_key" => m.ratchet = m.hs.base + 1

\* state/session_state.zig: the keys of skipped messages are cached, and the
\* cache is looked up first; so a message that was overtaken in its chain
\* still opens when it arrives.
OvertakenOpens ==
    \A p \in Party : \A m \in network :
        /\ m.from = Peer(p)
        /\ m.text \notin opened[p]
        /\ HasSession(p)
        /\ session[p].current.hs = m.key.secret.hs
        /\ HasChain(session[p].current, m.ratchet)
        => Opens(session[p].current, m, nextKey)

=============================================================================
