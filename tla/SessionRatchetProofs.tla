------------------------ MODULE SessionRatchetProofs ------------------------
(***************************************************************************)
(* AheadOpens, for any constants of Session: the ratchets of the two       *)
(* parties stay in step. decryptPreKeyMessage stores no state after the    *)
(* one that set up the session, so a session has three sending chains at   *)
(* most: the initiator's first, the responder's, the initiator's second.   *)
(* The inductive invariant names their secrets.                            *)
(***************************************************************************)
EXTENDS SessionReplayProofs

\* The initiator's chain until the reply; its ratchet key pair was drawn next
\* after the base key.
FirstSecret(hs) == CreateChain(InitialSecret(hs), hs.spk, hs.base + 1)

\* The responder's chain, with the key pair drawn on setting up the session.
ReplySecret(hs, key) == CreateChain(FirstSecret(hs), hs.base + 1, key)

\* The initiator's chain from the reply on.
SecondSecret(hs, key, next) == CreateChain(ReplySecret(hs, key), key, next)

\* The responder has sealed a message with the key pair.
Replied(messages, hs, key) ==
    \E m \in messages : m.kind = "whisper" /\ m.hs = hs /\ m.ratchet = key

\* Exactly one receiver chain is of the ratchet key, and has the secret.
OneChain(chains, their, secret) ==
    \E i \in DOMAIN chains :
        /\ chains[i].ratchet = their /\ chains[i].secret = secret
        /\ \A j \in DOMAIN chains : chains[j].ratchet = their => j = i

RatchetsIn(chains, S) == \A i \in DOMAIN chains : chains[i].ratchet \in S

\* The initiator has not opened a reply.
BeforeReply(st) ==
    /\ st.ratchet = st.hs.base + 1
    /\ st.root = FirstSecret(st.hs)
    /\ RatchetsIn(st.chains, {st.hs.spk})

\* The initiator has opened the reply and drawn a new ratchet key pair.
AfterReply(messages, st, key) ==
    /\ Replied(messages, st.hs, key) /\ key < st.ratchet
    /\ st.root = SecondSecret(st.hs, key, st.ratchet)
    /\ RatchetsIn(st.chains, {st.hs.spk, key})
    /\ OneChain(st.chains, key, ReplySecret(st.hs, key))

InitiatorInStep(messages, p, st) ==
    /\ st.hs.spk = SignedPreKey(Peer(p))
    /\ BeforeReply(st) \/ \E key \in Nat : AfterReply(messages, st, key)

ResponderInStep(p, st) ==
    /\ st.hs.spk = SignedPreKey(p)
    /\ st.hs.base + 1 < st.ratchet
    /\ st.root = ReplySecret(st.hs, st.ratchet)
    /\ RatchetsIn(st.chains, {st.hs.base + 1})
    /\ OneChain(st.chains, st.hs.base + 1, FirstSecret(st.hs))

StateInStep(messages, p, st) ==
    /\ st.hs.base >= 3 /\ st.chain.secret = st.root
    /\ IF st.pending THEN InitiatorInStep(messages, p, st)
       ELSE ResponderInStep(p, st)

InitiatorSealed(messages, m) ==
    /\ m.hs.spk = SignedPreKey(Peer(m.from))
    /\ \/ m.ratchet = m.hs.base + 1 /\ m.key.secret = FirstSecret(m.hs)
       \/ \E key \in Nat :
             /\ Replied(messages, m.hs, key) /\ key < m.ratchet
             /\ m.key.secret = SecondSecret(m.hs, key, m.ratchet)

ResponderSealed(m) ==
    /\ m.hs.spk = SignedPreKey(m.from)
    /\ m.hs.base + 1 < m.ratchet
    /\ m.key.secret = ReplySecret(m.hs, m.ratchet)

MessageInStep(messages, m) ==
    /\ m.hs.base >= 3
    /\ m.key = MessageKeys(m.key.secret, m.counter, m.pq)
    /\ ~m.hs.kem => m.pq = 0
    /\ m.kind = "pre_key" => InitiatorSealed(messages, m)
    /\ m.kind = "whisper" => ResponderSealed(m)

\* The two ends of a session have derived their secrets from the same outputs.
InStep ==
    /\ \A p \in Party :
          HasSession(p) => StateInStep(network, p, session[p].current)
    /\ \A m \in network : MessageInStep(network, m)

\* A session of a one-time pre-key is set up once, so it has one reply key.
OneReplyKey ==
    \A m \in network : m.kind = "whisper" /\ m.hs.opk # None =>
        /\ m.hs.opk \notin preKeys[m.from]
        /\ \A n \in network :
              n.kind = "whisper" /\ n.hs = m.hs => n.ratchet = m.ratchet
        /\ \A p \in Party :
              /\ HasSession(p) /\ ~session[p].current.pending
              /\ session[p].current.hs = m.hs
              => session[p].current.ratchet = m.ratchet

\* The inductive invariant of AheadOpens, beside those it rests on.
RatchetInv == InStep /\ OneReplyKey

-----------------------------------------------------------------------------
(* The secrets *)

\* Each of a session's secrets has one output more than the one before.
LEMMA SecretsLength ==
  ASSUME NEW hs \in Handshake, NEW key \in Nat, NEW next \in Nat
  PROVE  /\ InitialSecret(hs) \in Secret /\ Len(InitialSecret(hs).dhs) = 0
         /\ FirstSecret(hs) \in Secret /\ Len(FirstSecret(hs).dhs) = 1
         /\ ReplySecret(hs, key) \in Secret /\ Len(ReplySecret(hs, key).dhs) = 2
         /\ SecondSecret(hs, key, next) \in Secret
         /\ Len(SecondSecret(hs, key, next).dhs) = 3
         /\ FirstSecret(hs).hs = hs /\ ReplySecret(hs, key).hs = hs
         /\ SecondSecret(hs, key, next).hs = hs
<1>1. hs.base \in Nat /\ hs.spk \in Nat /\ hs.base + 1 \in Nat
  BY DEF Handshake
<1>2. /\ InitialSecret(hs) \in Secret /\ Len(InitialSecret(hs).dhs) = 0
      /\ InitialSecret(hs).hs = hs
  BY InitialSecretType DEF InitialSecret
<1>3. /\ FirstSecret(hs) \in Secret /\ FirstSecret(hs).hs = hs
      /\ Len(FirstSecret(hs).dhs) = 1
  <2>1. /\ FirstSecret(hs) \in Secret
        /\ FirstSecret(hs).hs = InitialSecret(hs).hs
        /\ Len(FirstSecret(hs).dhs) = Len(InitialSecret(hs).dhs) + 1
    BY <1>1, <1>2, CreateChainType, CreateChainLength DEF FirstSecret
  <2> QED
    BY <1>2, <2>1
<1>4. /\ ReplySecret(hs, key) \in Secret /\ ReplySecret(hs, key).hs = hs
      /\ Len(ReplySecret(hs, key).dhs) = 2
  <2>1. /\ ReplySecret(hs, key) \in Secret
        /\ ReplySecret(hs, key).hs = FirstSecret(hs).hs
        /\ Len(ReplySecret(hs, key).dhs) = Len(FirstSecret(hs).dhs) + 1
    BY <1>1, <1>3, CreateChainType, CreateChainLength DEF ReplySecret
  <2> QED
    BY <1>3, <2>1
<1>5. /\ SecondSecret(hs, key, next) \in Secret
      /\ SecondSecret(hs, key, next).hs = hs
      /\ Len(SecondSecret(hs, key, next).dhs) = 3
  <2>1. /\ SecondSecret(hs, key, next) \in Secret
        /\ SecondSecret(hs, key, next).hs = ReplySecret(hs, key).hs
        /\ Len(SecondSecret(hs, key, next).dhs) = Len(ReplySecret(hs, key).dhs) + 1
    BY <1>4, CreateChainType, CreateChainLength DEF SecondSecret
  <2> QED
    BY <1>4, <2>1
<1> QED
  BY <1>2, <1>3, <1>4, <1>5

\* Either end computes a Diffie-Hellman output from its own key pair.
LEMMA CreateChainBothWays ==
  \A root, their, our : CreateChain(root, their, our) = CreateChain(root, our, their)
<1> TAKE root, their, our
<1>1. {their, our} = {our, their}
  OBVIOUS
<1> QED
  BY <1>1 DEF CreateChain

-----------------------------------------------------------------------------
(* The receiver chains *)

\* What addReceiverChain leaves when the ratchet key is a new one.
LEMMA AddedChain ==
  ASSUME NEW chains \in Seq(ReceiverChain), NEW their \in Nat,
         NEW secret \in Secret, NEW S, RatchetsIn(chains, S), their \notin S
  PROVE  LET all == AddReceiverChain(chains, their, secret)
         IN  /\ RatchetsIn(all, S \union {their})
             /\ OneChain(all, their, secret)
             /\ \A i \in DOMAIN all : all[i].ratchet = their =>
                   all[i].index = 0 /\ all[i].skipped = {}
<1> DEFINE new == [ratchet |-> their, secret |-> secret,
                   index |-> 0, skipped |-> {}]
           all == AddReceiverChain(chains, their, secret)
<1>1. /\ Len(all) \in Nat \ {0} /\ DOMAIN all = 1 .. Len(all)
      /\ all[Len(all)] = new
      /\ \E d \in {0, 1} : \A i \in 1 .. Len(all) : i # Len(all) =>
            i + d \in DOMAIN chains /\ all[i] = chains[i + d]
  BY AddReceiverChainElements
<1>2. /\ new.ratchet = their /\ new.secret = secret
      /\ new.index = 0 /\ new.skipped = {}
  OBVIOUS
<1> HIDE DEF new, all
<1>3. PICK n \in Nat \ {0} : n = Len(all)
  BY <1>1
<1>4. n \in DOMAIN all /\ all[n] = new
  <2>1. n \in 1 .. n
    OBVIOUS
  <2> QED
    BY <1>1, <1>3, <2>1
<1>5. \A i \in DOMAIN all : i # n => all[i].ratchet \in S
  BY <1>1, <1>3 DEF RatchetsIn
<1>6. \A i \in DOMAIN all : all[i].ratchet = their => i = n
  BY <1>5
<1>7. RatchetsIn(all, S \union {their})
  BY <1>2, <1>4, <1>5 DEF RatchetsIn
<1>8. OneChain(all, their, secret)
  BY <1>2, <1>4, <1>6 DEF OneChain
<1>9. \A i \in DOMAIN all : all[i].ratchet = their =>
         all[i].index = 0 /\ all[i].skipped = {}
  BY <1>2, <1>4, <1>6
<1> QED
  BY <1>7, <1>8, <1>9 DEF all

\* Reading a message and storing the state keep each chain's key and secret.
LEMMA StoredChains ==
  ASSUME NEW st \in SessionState, NEW m \in Message, NEW fresh \in Nat
  PROVE  LET s == Serialize(AfterOpen(st, m, fresh)).chains
             r == Receiving(st, m, fresh).chains
         IN  /\ DOMAIN s = DOMAIN r
             /\ \A i \in DOMAIN r : s[i].ratchet = r[i].ratchet
                                    /\ s[i].secret = r[i].secret
<1> DEFINE r == Receiving(st, m, fresh)
           k == FindReceiverChain(r, m.ratchet)
           a == AfterOpen(st, m, fresh)
<1>1. r \in SessionState /\ a \in SessionState
  BY ReceivingType, AfterOpenType
<1>2. a.chains = [r.chains EXCEPT ![k] = Advanced(@, m.counter)]
  <2>1. a = [r EXCEPT !.chains = [r.chains EXCEPT ![k] = Advanced(@, m.counter)]]
    BY DEF AfterOpen
  <2> HIDE DEF a, r, k
  <2> QED
    BY <1>1, <2>1 DEF SessionState
<1> HIDE DEF r, a, k
<1>3. \A counter : \A rc \in ReceiverChain :
        /\ Advanced(rc, counter).ratchet = rc.ratchet
        /\ Advanced(rc, counter).secret = rc.secret
  BY DEF Advanced, ReceiverChain
<1>4. /\ DOMAIN a.chains = DOMAIN r.chains
      /\ \A i \in DOMAIN r.chains :
           /\ a.chains[i].ratchet = r.chains[i].ratchet
           /\ a.chains[i].secret = r.chains[i].secret
  <2>1. \A i \in DOMAIN r.chains : r.chains[i] \in ReceiverChain
    BY <1>1, ChainsType
  <2> QED
    BY <1>2, <1>3, <2>1
<1>5. /\ DOMAIN Serialize(a).chains = DOMAIN a.chains
      /\ \A i \in DOMAIN a.chains :
           /\ Serialize(a).chains[i].ratchet = a.chains[i].ratchet
           /\ Serialize(a).chains[i].secret = a.chains[i].secret
  BY <1>1, SerializeChains
<1> QED
  BY <1>4, <1>5 DEF a, r

\* Both predicates depend on those two only.
LEMMA SameChains ==
  ASSUME NEW s, NEW r, DOMAIN s = DOMAIN r,
         \A i \in DOMAIN r : s[i].ratchet = r[i].ratchet /\ s[i].secret = r[i].secret
  PROVE  /\ \A S : RatchetsIn(r, S) => RatchetsIn(s, S)
         /\ \A their, secret : OneChain(r, their, secret) => OneChain(s, their, secret)
BY DEF RatchetsIn, OneChain

\* The receiver chains in which decryptWhisperMessage looks up the key.
LEMMA ReceivingChains ==
  ASSUME NEW st \in SessionState, NEW m \in Message, NEW fresh \in Nat
  PROVE  LET r == Receiving(st, m, fresh)
         IN  /\ HasChain(st, m.ratchet) => r.chains = st.chains
             /\ ~HasChain(st, m.ratchet) =>
                  r.chains = AddReceiverChain(st.chains, m.ratchet,
                                 CreateChain(st.root, m.ratchet, st.ratchet))
<1> DEFINE pq == PqReceived(st, m)
<1>1. /\ pq \in SessionState /\ pq.root = st.root /\ pq.ratchet = st.ratchet
      /\ pq.chains = st.chains
  BY PqReceivedType
<1>2. m.ratchet \in Nat
  BY MessageType
<1>3. ASSUME HasChain(st, m.ratchet)
      PROVE  Receiving(st, m, fresh).chains = st.chains
  BY <1>1, <1>3 DEF Receiving
<1>4. ASSUME ~HasChain(st, m.ratchet)
      PROVE  Receiving(st, m, fresh).chains =
               AddReceiverChain(st.chains, m.ratchet,
                                CreateChain(st.root, m.ratchet, st.ratchet))
  <2>1. Receiving(st, m, fresh) = DhRatchet(pq, m.ratchet, fresh)
    BY <1>4 DEF Receiving
  <2> HIDE DEF pq
  <2>2. DhRatchet(pq, m.ratchet, fresh).chains =
          AddReceiverChain(pq.chains, m.ratchet,
                           CreateChain(pq.root, m.ratchet, pq.ratchet))
    BY <1>1, <1>2, DhRatchetType
  <2> QED
    BY <1>1, <2>1, <2>2
<1> QED
  BY <1>3, <1>4

\* The chain that is found is of the message's ratchet key.
LEMMA FoundChain ==
  ASSUME NEW s, NEW their, NEW secret, OneChain(s.chains, their, secret)
  PROVE  /\ FindReceiverChain(s, their) \in DOMAIN s.chains
         /\ s.chains[FindReceiverChain(s, their)].ratchet = their
         /\ s.chains[FindReceiverChain(s, their)].secret = secret
<1>1. PICK i \in DOMAIN s.chains :
        /\ s.chains[i].ratchet = their /\ s.chains[i].secret = secret
        /\ \A j \in DOMAIN s.chains : s.chains[j].ratchet = their => j = i
  BY DEF OneChain
<1>2. ChainsFor(s, their) = {i}
  BY <1>1 DEF ChainsFor
<1>3. FindReceiverChain(s, their) = i
  BY <1>2 DEF FindReceiverChain
<1> QED
  BY <1>1, <1>3

\* A message opens only with the secret of the chain it is looked up in.
LEMMA OpensSecret ==
  ASSUME NEW st, NEW m, NEW fresh, Opens(st, m, fresh)
  PROVE  LET r == Receiving(st, m, fresh)
         IN  r.chains[FindReceiverChain(r, m.ratchet)].secret = m.key.secret
<1> DEFINE r == Receiving(st, m, fresh)
           rc == r.chains[FindReceiverChain(r, m.ratchet)]
<1>1. DerivedKey(rc, m.counter, PqKey(st, m)) = m.key
  BY DEF Opens
<1> HIDE DEF rc
<1>2. DerivedKey(rc, m.counter, PqKey(st, m)).secret = rc.secret
  BY DEF DerivedKey, MessageKeys
<1> QED
  BY <1>1, <1>2 DEF rc

\* With the right secret, a message that is not behind the chain opens.
LEMMA OpensWith ==
  ASSUME NEW st, NEW m, NEW fresh,
         m.key = MessageKeys(m.key.secret, m.counter, m.pq),
         PqKey(st, m) = m.pq,
         OneChain(Receiving(st, m, fresh).chains, m.ratchet, m.key.secret),
         \A i \in DOMAIN Receiving(st, m, fresh).chains :
             Receiving(st, m, fresh).chains[i].ratchet = m.ratchet =>
                 /\ Derivable(Receiving(st, m, fresh).chains[i], m.counter)
                 /\ Receiving(st, m, fresh).chains[i].skipped = {}
  PROVE  Opens(st, m, fresh)
<1> DEFINE r == Receiving(st, m, fresh)
           rc == r.chains[FindReceiverChain(r, m.ratchet)]
<1> HIDE DEF r
<1>1. OneChain(r.chains, m.ratchet, m.key.secret)
  BY DEF r
<1>2. /\ FindReceiverChain(r, m.ratchet) \in DOMAIN r.chains
      /\ rc.ratchet = m.ratchet /\ rc.secret = m.key.secret
  BY <1>1, FoundChain
<1>3. Derivable(rc, m.counter) /\ rc.skipped = {}
  BY <1>2 DEF r
<1> HIDE DEF rc
<1>4. DerivedKey(rc, m.counter, m.pq) = MessageKeys(rc.secret, m.counter, m.pq)
  BY <1>3 DEF DerivedKey
<1>5. DerivedKey(rc, m.counter, PqKey(st, m)) = m.key
  BY <1>2, <1>4
<1> QED
  BY <1>3, <1>5 DEF Opens, r, rc

-----------------------------------------------------------------------------
(* Messages of a session that is in step open *)

\* decryptWhisperMessage has the chain already.
LEMMA OpensOld ==
  ASSUME NEW st \in SessionState, NEW m \in Message, NEW fresh \in Nat,
         NothingSkipped(st), OneChain(st.chains, m.ratchet, m.key.secret),
         m.key = MessageKeys(m.key.secret, m.counter, m.pq),
         PqKey(st, m) = m.pq,
         \/ \E i \in ChainsFor(st, m.ratchet) : Derivable(st.chains[i], m.counter)
         \/ \A i \in DOMAIN st.chains : st.chains[i].ratchet < m.ratchet
  PROVE  Opens(st, m, fresh)
<1>1. PICK i \in DOMAIN st.chains :
        /\ st.chains[i].ratchet = m.ratchet
        /\ \A j \in DOMAIN st.chains : st.chains[j].ratchet = m.ratchet => j = i
  BY DEF OneChain
<1>2. ~(st.chains[i].ratchet < m.ratchet)
  BY <1>1, MessageType
<1>3. HasChain(st, m.ratchet) /\ ChainsFor(st, m.ratchet) = {i}
  BY <1>1 DEF HasChain, ChainsFor
<1>4. Derivable(st.chains[i], m.counter) /\ st.chains[i].skipped = {}
  BY <1>2, <1>3 DEF NothingSkipped
<1>5. Receiving(st, m, fresh).chains = st.chains
  BY <1>3, ReceivingChains
<1> QED
  BY <1>1, <1>4, <1>5, OpensWith

\* decryptWhisperMessage takes a ratchet step and begins the chain.
LEMMA OpensNew ==
  ASSUME NEW st \in SessionState, NEW m \in Message, NEW fresh \in Nat,
         NEW S, RatchetsIn(st.chains, S), m.ratchet \notin S,
         m.key.secret = CreateChain(st.root, m.ratchet, st.ratchet),
         m.key = MessageKeys(m.key.secret, m.counter, m.pq),
         PqKey(st, m) = m.pq,
         \/ \E i \in ChainsFor(st, m.ratchet) : Derivable(st.chains[i], m.counter)
         \/ m.counter <= MaxForwardJumps
  PROVE  Opens(st, m, fresh)
<1> DEFINE r == Receiving(st, m, fresh)
<1>1. ChainsFor(st, m.ratchet) = {} /\ ~HasChain(st, m.ratchet)
  BY DEF RatchetsIn, ChainsFor, HasChain
<1>2. r.chains = AddReceiverChain(st.chains, m.ratchet, m.key.secret)
  BY <1>1, ReceivingChains
<1> HIDE DEF r
<1>3. /\ st.chains \in Seq(ReceiverChain) /\ m.ratchet \in Nat
      /\ m.counter \in Nat /\ m.key.secret \in Secret
  <2>1. m.key \in MessageKey
    BY MessageType
  <2> QED
    BY <2>1, ChainsType, MessageType DEF MessageKey
<1>4. /\ OneChain(r.chains, m.ratchet, m.key.secret)
      /\ \A i \in DOMAIN r.chains : r.chains[i].ratchet = m.ratchet =>
            r.chains[i].index = 0 /\ r.chains[i].skipped = {}
  <2>1. PICK chains \in Seq(ReceiverChain), their \in Nat, secret \in Secret :
          chains = st.chains /\ their = m.ratchet /\ secret = m.key.secret
    BY <1>3
  <2>2. RatchetsIn(chains, S) /\ their \notin S
    BY <2>1
  <2>3. PICK all : all = AddReceiverChain(chains, their, secret)
    OBVIOUS
  <2>4. /\ OneChain(all, their, secret)
        /\ \A i \in DOMAIN all : all[i].ratchet = their =>
              all[i].index = 0 /\ all[i].skipped = {}
    <3>1. LET new == AddReceiverChain(chains, their, secret)
          IN  /\ OneChain(new, their, secret)
              /\ \A i \in DOMAIN new : new[i].ratchet = their =>
                    new[i].index = 0 /\ new[i].skipped = {}
      BY <2>2, AddedChain
    <3> QED
      BY <2>3, <3>1
  <2>5. r.chains = all
    BY <1>2, <2>1, <2>3
  <2> QED
    BY <2>1, <2>4, <2>5
<1>5. m.counter <= MaxForwardJumps
  BY <1>1
<1>6. 0 <= m.counter /\ m.counter - 0 <= MaxForwardJumps
  BY <1>3, <1>5, LimitAssumption
<1>7. \A i \in DOMAIN r.chains : r.chains[i].ratchet = m.ratchet =>
         Derivable(r.chains[i], m.counter) /\ r.chains[i].skipped = {}
  BY <1>4, <1>6 DEF Derivable
<1> QED
  BY <1>4, <1>7, OpensWith DEF r

\* A message of the peer in the initiator's session, when the responder has
\* used no other ratchet key in it.
LEMMA ReplyOpens ==
  ASSUME NEW messages, NEW p \in Party, NEW st \in SessionState,
         NEW m \in Message, NEW fresh \in Nat,
         NothingSkipped(st), InitiatorInStep(messages, p, st), st.hs.base >= 3,
         ResponderSealed(m), m.hs = st.hs,
         m.key = MessageKeys(m.key.secret, m.counter, m.pq),
         PqKey(st, m) = m.pq,
         \A key : Replied(messages, st.hs, key) => key = m.ratchet,
         \/ \E i \in ChainsFor(st, m.ratchet) : Derivable(st.chains[i], m.counter)
         \/ /\ \A i \in DOMAIN st.chains : st.chains[i].ratchet < m.ratchet
            /\ m.counter <= MaxForwardJumps
  PROVE  Opens(st, m, fresh)
<1>1. m.key.secret = ReplySecret(st.hs, m.ratchet) /\ st.hs.base + 1 < m.ratchet
  BY DEF ResponderSealed
<1>2. CASE BeforeReply(st)
  <2>1. st.hs.spk \in 1 .. 2
    BY SignedPreKeyType, PeerType DEF InitiatorInStep
  <2>2. m.ratchet \notin {st.hs.spk}
    <3>1. st.hs.base \in Nat /\ m.ratchet \in Nat
      BY MessageType DEF SessionState, Handshake
    <3> QED
      BY <1>1, <2>1, <3>1
  <2>3. m.key.secret = CreateChain(st.root, m.ratchet, st.ratchet)
    BY <1>1, <1>2, CreateChainBothWays DEF BeforeReply, ReplySecret
  <2>4. RatchetsIn(st.chains, {st.hs.spk})
    BY <1>2 DEF BeforeReply
  <2> QED
    BY <2>2, <2>3, <2>4, OpensNew
<1>3. ASSUME NEW key \in Nat, AfterReply(messages, st, key)
      PROVE  Opens(st, m, fresh)
  <2>1. key = m.ratchet
    BY <1>3 DEF AfterReply
  <2>2. OneChain(st.chains, m.ratchet, m.key.secret)
    BY <1>1, <1>3, <2>1 DEF AfterReply
  <2> QED
    BY <2>2, OpensOld
<1> QED
  BY <1>2, <1>3 DEF InitiatorInStep

\* A message of the initiator in the responder's session, when the responder
\* has used no other ratchet key in it than its present one.
LEMMA FirstOrSecondOpens ==
  ASSUME NEW messages, NEW p \in Party, NEW st \in SessionState,
         NEW m \in Message, NEW fresh \in Nat,
         NothingSkipped(st), ResponderInStep(p, st),
         InitiatorSealed(messages, m), m.hs = st.hs,
         m.key = MessageKeys(m.key.secret, m.counter, m.pq),
         PqKey(st, m) = m.pq,
         \A key : Replied(messages, st.hs, key) => key = st.ratchet,
         \/ \E i \in ChainsFor(st, m.ratchet) : Derivable(st.chains[i], m.counter)
         \/ /\ \A i \in DOMAIN st.chains : st.chains[i].ratchet < m.ratchet
            /\ m.counter <= MaxForwardJumps
  PROVE  Opens(st, m, fresh)
<1>1. CASE m.ratchet = st.hs.base + 1 /\ m.key.secret = FirstSecret(st.hs)
  <2>1. OneChain(st.chains, m.ratchet, m.key.secret)
    BY <1>1 DEF ResponderInStep
  <2> QED
    BY <2>1, OpensOld
<1>2. ASSUME NEW key \in Nat, Replied(messages, st.hs, key), key < m.ratchet,
             m.key.secret = SecondSecret(st.hs, key, m.ratchet)
      PROVE  Opens(st, m, fresh)
  <2>1. key = st.ratchet
    BY <1>2
  <2>2. m.key.secret = CreateChain(st.root, m.ratchet, st.ratchet)
    BY <1>2, <2>1, CreateChainBothWays DEF ResponderInStep, SecondSecret
  <2>3. m.ratchet \notin {st.hs.base + 1}
    <3>1. st.hs.base \in Nat /\ m.ratchet \in Nat
      BY MessageType DEF SessionState, Handshake
    <3>2. st.hs.base + 1 < key
      BY <2>1 DEF ResponderInStep
    <3> QED
      BY <1>2, <3>1, <3>2
  <2>4. RatchetsIn(st.chains, {st.hs.base + 1})
    BY DEF ResponderInStep
  <2> QED
    BY <2>2, <2>3, <2>4, OpensNew
<1> QED
  BY <1>1, <1>2 DEF InitiatorSealed

\* The secret names the handshake of the header.
LEMMA HeaderHandshake ==
  ASSUME NEW messages, NEW m \in Message, MessageInStep(messages, m)
  PROVE  m.key.secret.hs = m.hs
<1>1. m.hs \in Handshake /\ m.ratchet \in Nat
  BY MessageType
<1>2. m.kind \in {"pre_key", "whisper"}
  BY DEF Message
<1>3. \A key \in Nat : /\ FirstSecret(m.hs).hs = m.hs
                       /\ ReplySecret(m.hs, m.ratchet).hs = m.hs
                       /\ SecondSecret(m.hs, key, m.ratchet).hs = m.hs
  BY <1>1, SecretsLength
<1> QED
  BY <1>1, <1>2, <1>3 DEF MessageInStep, InitiatorSealed, ResponderSealed

\* While both ends are in step and the session has one reply key, what is
\* ahead opens.
LEMMA RatchetSuffices == TypeOK /\ ReplayInv /\ RatchetInv => AheadOpens
<1> SUFFICES ASSUME TypeOK, ReplayInv, RatchetInv,
                    NEW p \in Party, NEW m \in network,
                    Ahead(p, m), m.hs.opk # None
             PROVE  Opens(session[p].current, m, nextKey)
  BY DEF AheadOpens
<1> DEFINE st == session[p].current
<1>1. /\ m \in Message /\ nextKey \in Nat /\ HasSession(p)
      /\ m.from = Peer(p) /\ st.hs = m.key.secret.hs
  BY DEF TypeOK, Ahead
<1>2. st \in SessionState /\ NothingSkipped(st)
  BY <1>1, CurrentType DEF ReplayInv, CurrentOrdered
<1>3. StateInStep(network, p, st) /\ MessageInStep(network, m)
  BY <1>1 DEF RatchetInv, InStep
<1>4. m.hs = st.hs
  BY <1>1, <1>3, HeaderHandshake
<1>5. /\ \/ \E i \in ChainsFor(st, m.ratchet) : Derivable(st.chains[i], m.counter)
         \/ /\ \A i \in DOMAIN st.chains : st.chains[i].ratchet < m.ratchet
            /\ m.counter <= MaxForwardJumps
      /\ st.hs.kem => PqKey(st, m) # 0
  BY DEF Ahead
<1>6. \A q \in Party, n \in network :
        n.kind = "whisper" /\ n.hs = st.hs =>
          /\ \A l \in network : l.kind = "whisper" /\ l.hs = st.hs
                                  => l.ratchet = n.ratchet
          /\ HasSession(q) /\ ~session[q].current.pending
               /\ session[q].current.hs = st.hs
                 => session[q].current.ratchet = n.ratchet
  BY <1>4 DEF RatchetInv, OneReplyKey
<1> HIDE DEF st
<1>7. PqKey(st, m) = m.pq
  BY <1>3, <1>4, <1>5 DEF PqKey, MessageInStep
<1>8. SignedPreKey(p) # SignedPreKey(Peer(p)) /\ Peer(Peer(p)) = p
  BY PartyAssumption DEF SignedPreKey, Peer, Party
<1>9. m.key = MessageKeys(m.key.secret, m.counter, m.pq) /\ st.hs.base >= 3
  BY <1>3 DEF MessageInStep, StateInStep
<1>10. m.kind \in {"pre_key", "whisper"}
  BY <1>1 DEF Message
<1>11. CASE st.pending
  <2>1. InitiatorInStep(network, p, st)
    BY <1>3, <1>11 DEF StateInStep
  <2>2. m.kind = "whisper"
    BY <1>1, <1>3, <1>4, <1>8, <1>10, <2>1
       DEF MessageInStep, InitiatorSealed, InitiatorInStep
  <2>3. ResponderSealed(m)
    BY <1>3, <2>2 DEF MessageInStep
  <2>4. \A key : Replied(network, st.hs, key) => key = m.ratchet
    BY <1>4, <1>6, <2>2 DEF Replied
  <2>5. Opens(st, m, nextKey)
    BY <1>1, <1>2, <1>4, <1>5, <1>7, <1>9, <2>1, <2>3, <2>4, ReplyOpens
  <2> QED
    BY <2>5 DEF st
<1>12. CASE ~st.pending
  <2>1. ResponderInStep(p, st)
    BY <1>3, <1>12 DEF StateInStep
  <2>2. m.kind = "pre_key"
    BY <1>1, <1>3, <1>4, <1>8, <1>10, <2>1
       DEF MessageInStep, ResponderSealed, ResponderInStep
  <2>3. InitiatorSealed(network, m)
    BY <1>3, <2>2 DEF MessageInStep
  <2>4. \A key : Replied(network, st.hs, key) => key = st.ratchet
    BY <1>1, <1>6, <1>12 DEF Replied, st
  <2>5. Opens(st, m, nextKey)
    BY <1>1, <1>2, <1>4, <1>5, <1>7, <1>9, <2>1, <2>3, <2>4, FirstOrSecondOpens
  <2> QED
    BY <2>5 DEF st
<1> QED
  BY <1>11, <1>12

-----------------------------------------------------------------------------
(* The states that the operations store *)

\* A message of a new ratchet key opens with the chain that the ratchet step
\* begins, and the state goes on from its secret.
LEMMA OpensByStep ==
  ASSUME NEW st \in SessionState, NEW m \in Message, NEW fresh \in Nat,
         Opens(st, m, fresh),
         NEW S, RatchetsIn(st.chains, S), m.ratchet \notin S
  PROVE  LET c == Serialize(AfterOpen(st, m, fresh))
         IN  /\ m.key.secret = CreateChain(st.root, m.ratchet, st.ratchet)
             /\ c.hs = st.hs /\ c.pending = st.pending /\ c.ratchet = fresh
             /\ c.root = CreateChain(m.key.secret, m.ratchet, fresh)
             /\ c.chain.secret = c.root
             /\ RatchetsIn(c.chains, S \union {m.ratchet})
             /\ OneChain(c.chains, m.ratchet, m.key.secret)
<1> DEFINE r == Receiving(st, m, fresh)
           a == AfterOpen(st, m, fresh)
           c == Serialize(a)
           recv == CreateChain(st.root, m.ratchet, st.ratchet)
           send == CreateChain(recv, m.ratchet, fresh)
<1>1. ~HasChain(st, m.ratchet)
  BY DEF RatchetsIn, ChainsFor, HasChain
<1>2. r.chains = AddReceiverChain(st.chains, m.ratchet, recv)
  BY <1>1, ReceivingChains
<1>3. r.root = send /\ r.ratchet = fresh /\ r.chain = [secret |-> send, index |-> 0]
  BY <1>1, ReceivingType
<1>4. /\ a \in SessionState /\ a.hs = st.hs /\ a.pending = st.pending
      /\ a.root = r.root /\ a.ratchet = r.ratchet /\ a.chain = r.chain
  BY AfterOpenType
<1>5. /\ DOMAIN c.chains = DOMAIN r.chains
      /\ \A i \in DOMAIN r.chains :
            /\ c.chains[i].ratchet = r.chains[i].ratchet
            /\ c.chains[i].secret = r.chains[i].secret
  BY StoredChains
<1>6. r.chains[FindReceiverChain(r, m.ratchet)].secret = m.key.secret
  BY OpensSecret
<1> HIDE DEF r, a
<1>7. /\ c.hs = st.hs /\ c.pending = st.pending /\ c.ratchet = fresh
      /\ c.root = send /\ c.chain.secret = c.root
  <2>1. /\ c.hs = a.hs /\ c.pending = a.pending /\ c.ratchet = a.ratchet
        /\ c.root = a.root /\ c.chain = a.chain
    BY <1>4, SerializeType
  <2> HIDE DEF c, send
  <2>2. c.chain = [secret |-> send, index |-> 0]
    BY <1>3, <1>4, <2>1
  <2>3. c.chain.secret = send
    BY <2>2
  <2> QED
    BY <1>3, <1>4, <2>1, <2>3
<1> HIDE DEF c, send
<1>8. RatchetsIn(r.chains, S \union {m.ratchet}) /\ OneChain(r.chains, m.ratchet, recv)
  <2>1. /\ st.chains \in Seq(ReceiverChain) /\ m.ratchet \in Nat
        /\ st.root \in Secret /\ st.ratchet \in Nat
    BY MessageType, ChainsType DEF SessionState
  <2>2. recv \in Secret
    BY <2>1, CreateChainType
  <2> HIDE DEF recv
  <2>3. PICK chains \in Seq(ReceiverChain), their \in Nat, secret \in Secret :
          chains = st.chains /\ their = m.ratchet /\ secret = recv
    BY <2>1, <2>2
  <2>4. PICK all : all = AddReceiverChain(chains, their, secret)
    OBVIOUS
  <2>5. RatchetsIn(chains, S) /\ their \notin S
    BY <2>3
  <2>6. RatchetsIn(all, S \union {their}) /\ OneChain(all, their, secret)
    BY <2>4, <2>5, AddedChain
  <2>7. r.chains = all
    BY <1>2, <2>3, <2>4
  <2> QED
    BY <2>3, <2>6, <2>7
<1>9. m.key.secret = recv
  BY <1>6, <1>8, FoundChain
<1>10. /\ RatchetsIn(c.chains, S \union {m.ratchet})
       /\ OneChain(c.chains, m.ratchet, recv)
  BY <1>5, <1>8, SameChains
<1> QED
  BY <1>7, <1>9, <1>10 DEF c, a, send, recv

\* A message of a known ratchet key opens with its chain, and the ratchet
\* stays where it is.
LEMMA OpensInChain ==
  ASSUME NEW st \in SessionState, NEW m \in Message, NEW fresh \in Nat,
         HasChain(st, m.ratchet)
  PROVE  LET c == Serialize(AfterOpen(st, m, fresh))
         IN  /\ c.hs = st.hs /\ c.pending = st.pending
             /\ c.ratchet = st.ratchet /\ c.root = st.root /\ c.chain = st.chain
             /\ \A S : RatchetsIn(st.chains, S) => RatchetsIn(c.chains, S)
             /\ \A their, secret : OneChain(st.chains, their, secret)
                                     => OneChain(c.chains, their, secret)
<1> DEFINE r == Receiving(st, m, fresh)
           a == AfterOpen(st, m, fresh)
           c == Serialize(a)
<1>1. r.chains = st.chains
  BY ReceivingChains
<1>2. r.root = st.root /\ r.ratchet = st.ratchet /\ r.chain = st.chain
  BY ReceivingType
<1>3. /\ a \in SessionState /\ a.hs = st.hs /\ a.pending = st.pending
      /\ a.root = r.root /\ a.ratchet = r.ratchet /\ a.chain = r.chain
  BY AfterOpenType
<1>4. /\ DOMAIN c.chains = DOMAIN r.chains
      /\ \A i \in DOMAIN r.chains :
            /\ c.chains[i].ratchet = r.chains[i].ratchet
            /\ c.chains[i].secret = r.chains[i].secret
  BY StoredChains
<1> HIDE DEF r, a
<1>5. /\ c.hs = a.hs /\ c.pending = a.pending /\ c.ratchet = a.ratchet
      /\ c.root = a.root /\ c.chain = a.chain
  BY <1>3, SerializeType
<1> HIDE DEF c
<1>6. /\ \A S : RatchetsIn(st.chains, S) => RatchetsIn(c.chains, S)
      /\ \A their, secret : OneChain(st.chains, their, secret)
                              => OneChain(c.chains, their, secret)
  BY <1>1, <1>4, SameChains
<1> QED
  BY <1>2, <1>3, <1>5, <1>6 DEF c, a

\* The initiator opens a message of the responder: it keeps its ratchet, or
\* leaves its first chain for the second.
LEMMA InitiatorOpens ==
  ASSUME NEW messages, NEW p \in Party, NEW st \in SessionState,
         NEW m \in messages, m \in Message, NEW fresh \in Nat, m.ratchet < fresh,
         Opens(st, m, fresh), st.pending, StateInStep(messages, p, st),
         m.kind = "whisper", ResponderSealed(m), m.key.secret.hs = st.hs
  PROVE  StateInStep(messages, p, Serialize(AfterOpen(st, m, fresh)))
<1> DEFINE c == Serialize(AfterOpen(st, m, fresh))
<1>1. /\ m.hs \in Handshake /\ st.hs \in Handshake
      /\ m.ratchet \in Nat /\ st.ratchet \in Nat
      /\ st.hs.base \in Nat /\ st.hs.base >= 3
  BY MessageType DEF SessionState, Handshake, StateInStep
<1>2. m.hs = st.hs
  <2>1. m.key.secret = ReplySecret(m.hs, m.ratchet)
    BY DEF ResponderSealed
  <2> QED
    BY <1>1, <2>1, SecretsLength
<1>3. /\ m.key.secret = ReplySecret(st.hs, m.ratchet)
      /\ st.hs.base + 1 < m.ratchet /\ Len(m.key.secret.dhs) = 2
  BY <1>1, <1>2, SecretsLength DEF ResponderSealed
<1>4. st.hs.spk = SignedPreKey(Peer(p)) /\ st.hs.spk \in 1 .. 2
  BY SignedPreKeyType, PeerType DEF StateInStep, InitiatorInStep
<1>5. m.ratchet # st.hs.spk
  BY <1>1, <1>3, <1>4
<1>6. CASE BeforeReply(st)
  <2>1. PICK S : S = {st.hs.spk}
    OBVIOUS
  <2>2. RatchetsIn(st.chains, S) /\ m.ratchet \notin S
    BY <1>5, <1>6, <2>1 DEF BeforeReply
  <2>3. /\ c.hs = st.hs /\ c.pending = st.pending /\ c.ratchet = fresh
        /\ c.root = CreateChain(m.key.secret, m.ratchet, fresh)
        /\ c.chain.secret = c.root
        /\ RatchetsIn(c.chains, S \union {m.ratchet})
        /\ OneChain(c.chains, m.ratchet, m.key.secret)
    BY <2>2, OpensByStep
  <2> HIDE DEF c
  <2>4. RatchetsIn(c.chains, {c.hs.spk, m.ratchet})
    <3>1. S \union {m.ratchet} = {c.hs.spk, m.ratchet}
      BY <2>1, <2>3
    <3> QED
      BY <2>3, <3>1
  <2>5. AfterReply(messages, c, m.ratchet)
    BY <1>2, <1>3, <2>3, <2>4 DEF AfterReply, Replied, SecondSecret
  <2>6. StateInStep(messages, p, c)
    BY <1>1, <1>4, <2>3, <2>5 DEF StateInStep, InitiatorInStep
  <2> QED
    BY <2>6 DEF c
<1>7. ASSUME NEW key \in Nat, AfterReply(messages, st, key)
      PROVE  StateInStep(messages, p, c)
  <2>1. m.ratchet = key
    <3> SUFFICES ASSUME m.ratchet # key PROVE FALSE
      OBVIOUS
    <3>1. RatchetsIn(st.chains, {st.hs.spk, key})
          /\ m.ratchet \notin {st.hs.spk, key}
      BY <1>5, <1>7 DEF AfterReply
    <3>2. m.key.secret = CreateChain(st.root, m.ratchet, st.ratchet)
      BY <3>1, OpensByStep
    <3>3. st.root \in Secret /\ Len(st.root.dhs) = 3
      BY <1>1, <1>7, SecretsLength DEF AfterReply
    <3>4. PICK root \in Secret, their \in Nat, our \in Nat :
            root = st.root /\ their = m.ratchet /\ our = st.ratchet
      BY <1>1, <3>3
    <3>5. Len(CreateChain(root, their, our).dhs) = Len(root.dhs) + 1
      BY CreateChainLength
    <3>6. Len(m.key.secret.dhs) = 3 + 1
      BY <3>2, <3>3, <3>4, <3>5
    <3> QED
      BY <1>3, <3>6
  <2>2. HasChain(st, m.ratchet)
    BY <1>7, <2>1 DEF AfterReply, OneChain, HasChain, ChainsFor
  <2>3. /\ c.hs = st.hs /\ c.pending = st.pending
        /\ c.ratchet = st.ratchet /\ c.root = st.root /\ c.chain = st.chain
        /\ \A S : RatchetsIn(st.chains, S) => RatchetsIn(c.chains, S)
        /\ \A their, secret : OneChain(st.chains, their, secret)
                                => OneChain(c.chains, their, secret)
    BY <2>2, OpensInChain
  <2> HIDE DEF c
  <2>4. AfterReply(messages, c, key)
    BY <1>7, <2>3 DEF AfterReply
  <2> QED
    BY <1>1, <1>4, <2>3, <2>4 DEF StateInStep, InitiatorInStep
<1> QED
  BY <1>6, <1>7 DEF StateInStep, InitiatorInStep

\* The responder sets up the session from a message of the initiator's first
\* chain; one of the second does not open.
LEMMA ResponderOpens ==
  ASSUME NEW messages, NEW p \in Party, NEW m \in Message, NEW fresh \in Nat,
         m.ratchet < fresh, m.hs.spk = SignedPreKey(p), m.hs.base >= 3,
         InitiatorSealed(messages, m), Opens(ResponderState(p, m), m, fresh)
  PROVE  LET c == Serialize(AfterOpen(ResponderState(p, m), m, fresh))
         IN  StateInStep(messages, p, c) /\ ~c.pending /\ c.hs = m.hs
<1> DEFINE st == ResponderState(p, m)
           c == Serialize(AfterOpen(st, m, fresh))
<1>1. /\ st \in SessionState /\ st.hs \in Handshake /\ st.hs.base = m.hs.base
      /\ st.hs.spk = m.hs.spk /\ st.pending = FALSE /\ st.chains = <<>>
      /\ st.root = InitialSecret(st.hs) /\ st.ratchet = m.hs.spk
  BY ResponderStateType DEF SessionState
<1>2. Opens(st, m, fresh)
  OBVIOUS
<1> HIDE DEF st
<1>3. /\ m.hs \in Handshake /\ m.ratchet \in Nat /\ m.hs.base \in Nat
      /\ m.hs.spk \in Nat
  BY MessageType DEF Handshake
<1>4. RatchetsIn(st.chains, {}) /\ m.ratchet \notin {}
  BY <1>1 DEF RatchetsIn
<1>5. /\ m.key.secret = CreateChain(st.root, m.ratchet, st.ratchet)
      /\ c.hs = st.hs /\ c.pending = st.pending /\ c.ratchet = fresh
      /\ c.root = CreateChain(m.key.secret, m.ratchet, fresh)
      /\ c.chain.secret = c.root
      /\ RatchetsIn(c.chains, {} \union {m.ratchet})
      /\ OneChain(c.chains, m.ratchet, m.key.secret)
  BY <1>1, <1>2, <1>4, OpensByStep
<1> HIDE DEF c
<1>6. m.key.secret.hs = st.hs /\ Len(m.key.secret.dhs) = 0 + 1
  <2>1. /\ st.root \in Secret /\ Len(st.root.dhs) = 0 /\ st.root.hs = st.hs
    BY <1>1, SecretsLength DEF InitialSecret
  <2>2. PICK root \in Secret, their \in Nat, our \in Nat :
          root = st.root /\ their = m.ratchet /\ our = st.ratchet
    BY <1>1, <1>3, <2>1
  <2>3. /\ CreateChain(root, their, our).hs = root.hs
        /\ Len(CreateChain(root, their, our).dhs) = Len(root.dhs) + 1
    BY CreateChainLength
  <2> QED
    BY <1>5, <2>1, <2>2, <2>3
<1>7. m.ratchet = m.hs.base + 1 /\ m.key.secret = FirstSecret(m.hs)
  <2>1. \A key \in Nat : Len(SecondSecret(m.hs, key, m.ratchet).dhs) = 3
    BY <1>3, SecretsLength
  <2> QED
    BY <1>6, <2>1 DEF InitiatorSealed
<1>8. st.hs = m.hs
  BY <1>3, <1>6, <1>7, SecretsLength
<1>9. c.root = ReplySecret(c.hs, c.ratchet)
  BY <1>5, <1>7, <1>8 DEF ReplySecret
<1>10. {} \union {m.ratchet} = {c.hs.base + 1}
  BY <1>5, <1>7, <1>8
<1>11. ResponderInStep(p, c)
  BY <1>5, <1>7, <1>8, <1>9, <1>10 DEF ResponderInStep
<1>12. StateInStep(messages, p, c) /\ ~c.pending /\ c.hs = m.hs
  BY <1>1, <1>5, <1>8, <1>11 DEF StateInStep
<1> QED
  BY <1>12 DEF c, st

-----------------------------------------------------------------------------
(* Every step keeps the invariant *)

\* Messages are never taken out of the network.
LEMMA MoreMessages ==
  ASSUME NEW messages, NEW more, messages \subseteq more
  PROVE  /\ \A p, st : StateInStep(messages, p, st) => StateInStep(more, p, st)
         /\ \A m : MessageInStep(messages, m) => MessageInStep(more, m)
<1>1. \A hs, key : Replied(messages, hs, key) => Replied(more, hs, key)
  BY DEF Replied
<1>2. \A st, key : AfterReply(messages, st, key) => AfterReply(more, st, key)
  BY <1>1 DEF AfterReply
<1>3. \A p, st : StateInStep(messages, p, st) => StateInStep(more, p, st)
  BY <1>2 DEF StateInStep, InitiatorInStep
<1>4. \A m : InitiatorSealed(messages, m) => InitiatorSealed(more, m)
  BY <1>1 DEF InitiatorSealed
<1>5. \A m : MessageInStep(messages, m) => MessageInStep(more, m)
  BY <1>4 DEF MessageInStep
<1> QED
  BY <1>3, <1>5

\* encrypt stores a state that is as much in step.
LEMMA SealingInStep ==
  ASSUME NEW messages, NEW p \in Party, NEW st \in SessionState,
         StateInStep(messages, p, st)
  PROVE  LET c == Serialize(AfterSealing(st))
         IN  /\ StateInStep(messages, p, c) /\ c.pending = st.pending
             /\ c.hs = st.hs /\ c.ratchet = st.ratchet
<1> DEFINE a == AfterSealing(st)
           c == Serialize(a)
<1>1. /\ a \in SessionState /\ a.hs = st.hs /\ a.pending = st.pending
      /\ a.root = st.root /\ a.ratchet = st.ratchet
      /\ a.chain.secret = st.chain.secret
  <2>1. 0 \in Nat
    OBVIOUS
  <2> QED
    BY <2>1, SealingType
<1>2. a.chains = st.chains
  BY SealingOrdered
<1> HIDE DEF a
<1>3. /\ c.hs = a.hs /\ c.pending = a.pending /\ c.root = a.root
      /\ c.ratchet = a.ratchet /\ c.chain = a.chain
  BY <1>1, SerializeType
<1>4. /\ DOMAIN c.chains = DOMAIN a.chains
      /\ \A i \in DOMAIN a.chains :
            /\ c.chains[i].ratchet = a.chains[i].ratchet
            /\ c.chains[i].secret = a.chains[i].secret
  BY <1>1, SerializeChains
<1> HIDE DEF c
<1>5. /\ \A S : RatchetsIn(st.chains, S) => RatchetsIn(c.chains, S)
      /\ \A their, secret : OneChain(st.chains, their, secret)
                              => OneChain(c.chains, their, secret)
  BY <1>2, <1>4, SameChains
<1>6. /\ c.hs = st.hs /\ c.pending = st.pending /\ c.root = st.root
      /\ c.ratchet = st.ratchet /\ c.chain.secret = st.chain.secret
  BY <1>1, <1>3
<1>7. BeforeReply(st) => BeforeReply(c)
  BY <1>5, <1>6 DEF BeforeReply
<1>8. \A key : AfterReply(messages, st, key) => AfterReply(messages, c, key)
  BY <1>5, <1>6 DEF AfterReply
<1>9. ResponderInStep(p, st) => ResponderInStep(p, c)
  BY <1>5, <1>6 DEF ResponderInStep
<1>10. StateInStep(messages, p, c)
  BY <1>6, <1>7, <1>8, <1>9 DEF StateInStep, InitiatorInStep
<1> QED
  BY <1>6, <1>10 DEF c, a

\* processPreKeyBundle stores a state that awaits the reply.
LEMMA InitiatingInStep ==
  ASSUME NEW messages, NEW p \in Party, NEW hs \in Handshake,
         hs.base >= 3, hs.spk = SignedPreKey(Peer(p))
  PROVE  LET c == Serialize(InitiatorState(hs, hs.base + 1))
         IN  StateInStep(messages, p, c) /\ c.pending
<1>1. PICK next \in Nat : next = hs.base + 1
  BY DEF Handshake
<1> DEFINE a == InitiatorState(hs, next)
           c == Serialize(a)
           rc == [ratchet |-> hs.spk, secret |-> InitialSecret(hs),
                  index |-> 0, skipped |-> {}]
           send == CreateChain(InitialSecret(hs), hs.spk, next)
<1>2. FirstSecret(hs) = send
  BY <1>1 DEF FirstSecret
<1>3. a.chains = <<rc>>
  BY FirstChain DEF InitiatorState
<1>4. /\ a \in SessionState /\ a.hs = hs /\ a.pending = TRUE
      /\ a.root = FirstSecret(hs) /\ a.ratchet = next
      /\ a.chain = [secret |-> FirstSecret(hs), index |-> 0]
  <2>1. /\ a \in SessionState /\ a.hs = hs /\ a.pending = TRUE
        /\ a.root = send /\ a.ratchet = next
        /\ a.chain = [secret |-> send, index |-> 0]
    BY InitiatorStateType
  <2> QED
    BY <1>2, <2>1
<1> HIDE DEF a
<1>5. /\ c.hs = a.hs /\ c.pending = a.pending /\ c.root = a.root
      /\ c.ratchet = a.ratchet /\ c.chain = a.chain
  BY <1>4, SerializeType
<1>6. /\ DOMAIN c.chains = DOMAIN a.chains
      /\ \A i \in DOMAIN a.chains : c.chains[i].ratchet = a.chains[i].ratchet
  BY <1>4, SerializeChains
<1>7. rc.ratchet = hs.spk
  OBVIOUS
<1> HIDE DEF c, rc
<1>8. RatchetsIn(c.chains, {hs.spk})
  BY <1>3, <1>6, <1>7 DEF RatchetsIn
<1>9. c.chain.secret = FirstSecret(hs)
  BY <1>4, <1>5
<1>10. BeforeReply(c)
  BY <1>1, <1>4, <1>5, <1>8 DEF BeforeReply
<1>11. StateInStep(messages, p, c) /\ c.pending
  BY <1>4, <1>5, <1>9, <1>10 DEF StateInStep, InitiatorInStep
<1> QED
  BY <1>1, <1>11 DEF c, a

\* A responder's session takes no whisper message: only the responder itself
\* seals them.
LEMMA OnlyInitiatorOpens ==
  ASSUME TypeOK, ReplayInv, RatchetInv, NEW p \in Party, NEW m \in network,
         Opening(p, m)
  PROVE  /\ session[p].current.pending /\ ResponderSealed(m)
         /\ m.key.secret.hs = session[p].current.hs
<1> DEFINE st == session[p].current
<1>1. /\ m \in Message /\ m.from = Peer(p) /\ m.kind = "whisper"
      /\ HasSession(p) /\ st \in SessionState
      /\ Opens(st, m, nextKey) /\ nextKey \in Nat
  BY DEF Opening, TypeOK
<1>2. /\ ChainsOrdered(st) /\ NothingSkipped(st)
      /\ StateInStep(network, p, st) /\ MessageInStep(network, m)
  BY <1>1 DEF ReplayInv, CurrentOrdered, RatchetInv, InStep
<1> HIDE DEF st
<1>3. m.key.secret.hs = st.hs
  BY <1>1, <1>2, OpeningPasses
<1>4. m.hs = st.hs
  BY <1>1, <1>2, <1>3, HeaderHandshake
<1>5. ResponderSealed(m)
  BY <1>1, <1>2 DEF MessageInStep
<1>6. SignedPreKey(p) # SignedPreKey(Peer(p))
  BY PartyAssumption DEF SignedPreKey, Peer, Party
<1>7. st.pending
  BY <1>1, <1>2, <1>4, <1>5, <1>6
     DEF StateInStep, ResponderInStep, ResponderSealed
<1> QED
  BY <1>3, <1>5, <1>7 DEF st

\* The message that a new session was set up from.
LEMMA RespondingInStep ==
  ASSUME TypeOK, SealingInv, RatchetInv, NEW p \in Party, NEW m \in network,
         Responding(p, m)
  PROVE  LET c == session'[p].current
         IN  /\ StateInStep(network, p, c) /\ ~c.pending /\ c.hs = m.hs
             /\ m.hs.spk = SignedPreKey(p)
             /\ m.hs.opk \in preKeys[p] \union {None}
<1>1. /\ m \in Message /\ m.kind = "pre_key" /\ m.hs.spk = SignedPreKey(p)
      /\ m.hs.opk \in preKeys[p] \union {None}
      /\ Opens(ResponderState(p, m), m, nextKey)
      /\ session'[p].current =
            Serialize(AfterOpen(ResponderState(p, m), m, nextKey))
  BY DEF Responding
<1>2. InitiatorSealed(network, m) /\ m.hs.base >= 3
  BY <1>1 DEF RatchetInv, InStep, MessageInStep
<1>3. nextKey \in Nat /\ m.ratchet < nextKey
  <2>1. nextKey \in Nat /\ m.ratchet \in 0 .. nextKey - 1
    BY DEF TypeOK, SealingInv, KeysDrawnBefore, Drawn
  <2> QED
    BY <2>1
<1>4. PICK k \in Nat : k = nextKey
  BY <1>3
<1>5. LET c == Serialize(AfterOpen(ResponderState(p, m), m, k))
      IN  StateInStep(network, p, c) /\ ~c.pending /\ c.hs = m.hs
  BY <1>1, <1>2, <1>3, <1>4, ResponderOpens
<1> QED
  BY <1>1, <1>4, <1>5

\* The current state of a party after a step is in step with the messages. An
\* accepted session has its ratchet key from before, or its one-time pre-key
\* was still in the store.
LEMMA CurrentInStep ==
  ASSUME TypeOK, ReplayInv, SealingInv, RatchetInv, [Next]_vars,
         NEW p \in Party, HasSession(p)'
  PROVE  LET c == session'[p].current
         IN  /\ StateInStep(network, p, c)
             /\ c.pending
                \/ /\ HasSession(p) /\ ~session[p].current.pending
                   /\ c.hs = session[p].current.hs
                   /\ c.ratchet = session[p].current.ratchet
                \/ /\ c.hs.spk = SignedPreKey(p)
                   /\ c.hs.opk \in preKeys[p] \union {None}
<1> DEFINE st == session[p].current
           c == session'[p].current
<1>1. nextKey \in Nat /\ nextKey >= 3
  BY DEF TypeOK, SealingInv, KeysDrawnBefore
<1>2. HasSession(p) => StateInStep(network, p, st)
  BY DEF RatchetInv, InStep
<1>3. CASE session'[p] = session[p]
  BY <1>2, <1>3 DEF HasSession
<1>4. CASE Sealing(p)
  <2>1. HasSession(p) /\ st \in SessionState /\ c = Serialize(AfterSealing(st))
    BY <1>4 DEF Sealing
  <2> HIDE DEF c, st
  <2>2. /\ StateInStep(network, p, c) /\ c.pending = st.pending
        /\ c.hs = st.hs /\ c.ratchet = st.ratchet
    BY <1>2, <2>1, SealingInStep
  <2> QED
    BY <2>1, <2>2 DEF c, st
<1>5. CASE Initiating(p)
  <2>1. PICK hs \in Handshake :
          /\ hs.base = nextKey /\ hs.spk = SignedPreKey(Peer(p))
          /\ c = Serialize(InitiatorState(hs, nextKey + 1))
    BY <1>5 DEF Initiating
  <2>2. c = Serialize(InitiatorState(hs, hs.base + 1)) /\ hs.base >= 3
    BY <1>1, <2>1
  <2> HIDE DEF c
  <2>3. StateInStep(network, p, c) /\ c.pending
    BY <2>1, <2>2, InitiatingInStep
  <2> QED
    BY <2>3 DEF c
<1>6. ASSUME NEW m \in network, Opening(p, m)
      PROVE  StateInStep(network, p, c) /\ c.pending
  <2>1. /\ m \in Message /\ m.kind = "whisper" /\ HasSession(p)
        /\ st \in SessionState /\ Opens(st, m, nextKey)
        /\ c = Serialize(AfterOpen(st, m, nextKey))
    BY <1>6 DEF Opening
  <2>2. st.pending /\ ResponderSealed(m) /\ m.key.secret.hs = st.hs
    BY <1>6, OnlyInitiatorOpens
  <2>3. m.ratchet < nextKey
    <3>1. m.ratchet \in 0 .. nextKey - 1
      BY DEF SealingInv, KeysDrawnBefore, Drawn
    <3> QED
      BY <1>1, <3>1
  <2> HIDE DEF c, st
  <2>4. PICK k \in Nat : k = nextKey
    BY <1>1
  <2>5. StateInStep(network, p, Serialize(AfterOpen(st, m, k)))
    BY <1>2, <2>1, <2>2, <2>3, <2>4, InitiatorOpens
  <2>6. AfterOpen(st, m, k) \in SessionState /\ AfterOpen(st, m, k).pending = st.pending
    BY <2>1, AfterOpenType
  <2>7. Serialize(AfterOpen(st, m, k)).pending = st.pending
    BY <2>6, SerializeType
  <2> QED
    BY <2>1, <2>2, <2>4, <2>5, <2>7
<1>7. ASSUME NEW m \in network, Responding(p, m)
      PROVE  /\ StateInStep(network, p, c)
             /\ c.hs.spk = SignedPreKey(p)
             /\ c.hs.opk \in preKeys[p] \union {None}
  BY <1>7, RespondingInStep
<1> HIDE DEF c, st
<1>8. \/ session'[p] = session[p] \/ Sealing(p) \/ Initiating(p)
      \/ \E m \in network : Opening(p, m)
      \/ \E m \in network : Responding(p, m)
  BY CurrentStep
<1> QED
  BY <1>3, <1>4, <1>5, <1>6, <1>7, <1>8 DEF c, st

\* What encrypt seals is in step when the state is.
LEMMA SealedInStep ==
  ASSUME NEW messages, NEW p \in Party, NEW st \in SessionState,
         NEW text \in Nat, StateInStep(messages, p, st)
  PROVE  LET m == Sealed(p, st, text)
         IN  /\ MessageInStep(messages, m) /\ m.from = p
             /\ m.hs = st.hs /\ m.ratchet = st.ratchet
             /\ m.kind = "whisper" => ~st.pending
<1> DEFINE m == Sealed(p, st, text)
           pq == IF st.hs.kem THEN st.pqSend + 1 ELSE 0
<1>1. m = [from |-> p, kind |-> IF st.pending THEN "pre_key" ELSE "whisper",
           hs |-> st.hs, ratchet |-> st.ratchet, counter |-> st.chain.index,
           pq |-> pq, text |-> text,
           key |-> MessageKeys(st.chain.secret, st.chain.index, pq)]
  BY DEF Sealed
<1>2. ~st.hs.kem => pq = 0
  OBVIOUS
<1>3. \A secret, counter, pqr : MessageKeys(secret, counter, pqr).secret = secret
  BY DEF MessageKeys
<1> HIDE DEF m, pq
<1>4. /\ m.from = p /\ m.kind = (IF st.pending THEN "pre_key" ELSE "whisper")
      /\ m.hs = st.hs /\ m.ratchet = st.ratchet
      /\ m.counter = st.chain.index /\ m.pq = pq
      /\ m.key = MessageKeys(st.chain.secret, st.chain.index, pq)
  BY <1>1
<1>5. m.key.secret = st.root
  BY <1>3, <1>4 DEF StateInStep
<1>6. m.key = MessageKeys(m.key.secret, m.counter, m.pq)
  BY <1>3, <1>4
<1>7. st.pending => InitiatorSealed(messages, m)
  BY <1>4, <1>5
     DEF StateInStep, InitiatorInStep, InitiatorSealed, BeforeReply, AfterReply
<1>8. ~st.pending => ResponderSealed(m)
  BY <1>4, <1>5 DEF StateInStep, ResponderInStep, ResponderSealed
<1>9. MessageInStep(messages, m)
  BY <1>2, <1>4, <1>6, <1>7, <1>8 DEF MessageInStep, StateInStep
<1> QED
  BY <1>4, <1>9 DEF m

\* A message in the network after a step was there, or is what a party has
\* sealed with its current state.
LEMMA MessageFrom ==
  ASSUME TypeOK, RatchetInv, [Next]_vars, NEW m \in network'
  PROVE  /\ network \subseteq network' /\ MessageInStep(network, m)
         /\ \/ m \in network
            \/ \E p \in Party :
                 /\ HasSession(p) /\ m.from = p
                 /\ m.hs = session[p].current.hs
                 /\ m.ratchet = session[p].current.ratchet
                 /\ m.kind = "whisper" => ~session[p].current.pending
<1>1. sent \in Nat
  BY DEF TypeOK
<1>2. ASSUME NEW p \in Party, HasSession(p),
             session[p].current \in SessionState,
             m = Sealed(p, session[p].current, sent)
      PROVE  /\ MessageInStep(network, m) /\ m.from = p
             /\ m.hs = session[p].current.hs
             /\ m.ratchet = session[p].current.ratchet
             /\ m.kind = "whisper" => ~session[p].current.pending
  <2>1. StateInStep(network, p, session[p].current)
    BY <1>2 DEF RatchetInv, InStep
  <2>2. PICK st \in SessionState, text \in Nat :
          st = session[p].current /\ text = sent
    BY <1>1, <1>2
  <2>3. LET n == Sealed(p, st, text)
        IN  /\ MessageInStep(network, n) /\ n.from = p
            /\ n.hs = st.hs /\ n.ratchet = st.ratchet
            /\ n.kind = "whisper" => ~st.pending
    BY <2>1, <2>2, SealedInStep
  <2> QED
    BY <1>2, <2>2, <2>3
<1>3. \A n \in network : MessageInStep(network, n)
  BY DEF RatchetInv, InStep
<1> QED
  BY <1>2, <1>3, MessagesStep

\* Both ends stay in step.
LEMMA InStepStep ==
  TypeOK /\ ReplayInv /\ SealingInv /\ RatchetInv /\ [Next]_vars => InStep'
<1> SUFFICES ASSUME TypeOK, ReplayInv, SealingInv, RatchetInv, [Next]_vars
             PROVE  InStep'
  OBVIOUS
<1>1. network \subseteq network'
  BY MessagesStep
<1>2. ASSUME NEW p \in Party, HasSession(p)'
      PROVE  StateInStep(network', p, session'[p].current)
  BY <1>1, <1>2, CurrentInStep, MoreMessages
<1>3. ASSUME NEW m \in network' PROVE MessageInStep(network', m)
  BY <1>1, <1>3, MessageFrom, MoreMessages
<1> QED
  BY <1>2, <1>3 DEF InStep

\* The session of a one-time pre-key keeps its reply key.
LEMMA OneReplyKeyStep ==
  TypeOK /\ ReplayInv /\ SealingInv /\ OneTimeKeySpent /\ RatchetInv
    /\ [Next]_vars => OneReplyKey'
<1> SUFFICES ASSUME TypeOK, ReplayInv, SealingInv, OneTimeKeySpent, RatchetInv,
                    [Next]_vars, NEW m \in network',
                    m.kind = "whisper", m.hs.opk # None
             PROVE  /\ m.hs.opk \notin preKeys'[m.from]
                    /\ \A n \in network' :
                          n.kind = "whisper" /\ n.hs = m.hs
                            => n.ratchet = m.ratchet
                    /\ \A p \in Party :
                          /\ HasSession(p)' /\ ~session'[p].current.pending
                          /\ session'[p].current.hs = m.hs
                          => session'[p].current.ratchet = m.ratchet
  BY DEF OneReplyKey
<1>1. \A p, q \in Party : SignedPreKey(p) = SignedPreKey(q) => p = q
  BY DEF SignedPreKey, Party
<1>2. ASSUME NEW n \in network', n.kind = "whisper"
      PROVE  /\ n.from \in Party /\ n.hs.spk = SignedPreKey(n.from)
             /\ \/ n \in network
                \/ LET st == session[n.from].current
                   IN  /\ HasSession(n.from) /\ ~st.pending
                       /\ n.hs = st.hs /\ n.ratchet = st.ratchet
  <2>1. n \in Message
    BY NextType DEF TypeOK
  <2>2. n.hs.spk = SignedPreKey(n.from)
    BY <1>2, MessageFrom DEF MessageInStep, ResponderSealed
  <2> QED
    BY <1>2, <2>1, <2>2, MessageType, MessageFrom
<1>3. m.hs.opk \notin preKeys[m.from]
  <2>1. CASE m \in network
    BY <2>1 DEF RatchetInv, OneReplyKey
  <2>2. CASE /\ HasSession(m.from) /\ ~session[m.from].current.pending
             /\ m.hs = session[m.from].current.hs
    <3>1. session[m.from].current \in Accepted(m.from)
      BY <2>2 DEF Accepted, States, HasSession
    <3> QED
      BY <1>2, <2>2, <3>1 DEF OneTimeKeySpent
  <2> QED
    BY <1>2, <2>1, <2>2
<1>4. ASSUME NEW p \in Party, HasSession(p), ~session[p].current.pending,
             session[p].current.hs = m.hs
      PROVE  session[p].current.ratchet = m.ratchet
  <2>1. CASE m \in network
    BY <1>4, <2>1 DEF RatchetInv, OneReplyKey
  <2>2. CASE m.ratchet = session[m.from].current.ratchet
    <3>1. m.hs.spk = SignedPreKey(p)
      BY <1>4 DEF RatchetInv, InStep, StateInStep, ResponderInStep
    <3>2. p = m.from
      BY <1>1, <1>2, <3>1
    <3> QED
      BY <2>2, <3>2
  <2> QED
    BY <1>2, <2>1, <2>2
<1>5. m.hs.opk \notin preKeys'[m.from]
  BY <1>2, <1>3, StoresStep
<1>6. ASSUME NEW n \in network', n.kind = "whisper", n.hs = m.hs
      PROVE  n.ratchet = m.ratchet
  <2>1. CASE /\ HasSession(n.from) /\ ~session[n.from].current.pending
             /\ n.hs = session[n.from].current.hs
             /\ n.ratchet = session[n.from].current.ratchet
    BY <1>2, <1>4, <1>6, <2>1
  <2>2. CASE n \in network /\ m \in network
    BY <1>6, <2>2 DEF RatchetInv, OneReplyKey
  <2>3. CASE /\ n \in network
             /\ HasSession(m.from) /\ ~session[m.from].current.pending
             /\ m.hs = session[m.from].current.hs
             /\ m.ratchet = session[m.from].current.ratchet
    BY <1>2, <1>6, <2>3 DEF RatchetInv, OneReplyKey
  <2> QED
    BY <1>2, <1>6, <2>1, <2>2, <2>3
<1>7. ASSUME NEW p \in Party, HasSession(p)', ~session'[p].current.pending,
             session'[p].current.hs = m.hs
      PROVE  session'[p].current.ratchet = m.ratchet
  <2>1. CASE /\ session'[p].current.hs.spk = SignedPreKey(p)
             /\ session'[p].current.hs.opk \in preKeys[p] \union {None}
    <3>1. p = m.from
      BY <1>1, <1>2, <1>7, <2>1
    <3> QED
      BY <1>3, <1>7, <2>1, <3>1
  <2>2. CASE /\ HasSession(p) /\ ~session[p].current.pending
             /\ session'[p].current.hs = session[p].current.hs
             /\ session'[p].current.ratchet = session[p].current.ratchet
    BY <1>4, <1>7, <2>2
  <2> QED
    BY <1>7, <2>1, <2>2, CurrentInStep
<1> QED
  BY <1>5, <1>6, <1>7

\* There is no session and no message at first.
LEMMA InitRatchet == Init => RatchetInv
<1> SUFFICES ASSUME Init PROVE RatchetInv
  OBVIOUS
<1>1. network = {} /\ \A p \in Party : ~HasSession(p)
  BY DEF Init, NewRecord, HasSession
<1> QED
  BY <1>1 DEF RatchetInv, InStep, OneReplyKey

\* The two ratchets stay in step: in a session set up with a one-time pre-key,
\* every message that was not skipped opens when it arrives, whichever
\* messages were lost, repeated or overtaken, although decryptPreKeyMessage
\* drops the state it derives from each later pre_key message.
THEOREM AheadOpensCorrect == Spec => []AheadOpens
<1> DEFINE All == ReplayInv /\ SealingInv /\ RatchetInv
<1>1. Init => All
  BY InitReplay, InitSealing, InitRatchet
<1>2. TypeOK /\ OneTimeKeySpent /\ All /\ [Next]_vars => All'
  BY NextReplay, NextSealing, InStepStep, OneReplyKeyStep DEF RatchetInv
<1>3. TypeOK /\ All => AheadOpens
  BY RatchetSuffices
<1> QED
  BY <1>1, <1>2, <1>3, TypeCorrect, OneTimeKeySpentCorrect, PTL DEF Spec

=============================================================================
