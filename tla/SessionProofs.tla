---------------------------- MODULE SessionProofs ----------------------------
(***************************************************************************)
(* Proofs about Session, for any one-time pre-keys, bundles, Kyber stores, *)
(* limits and bounds.                                                      *)
(***************************************************************************)
EXTENDS Session, SequenceTheorems, TLAPS

-----------------------------------------------------------------------------
(* Types of the operators *)

\* RootKey.createChain returns key material.
LEMMA CreateChainType ==
  ASSUME NEW root \in Secret, NEW their \in Nat, NEW our \in Nat
  PROVE  CreateChain(root, their, our) \in Secret
BY AppendProperties DEF CreateChain, Secret

\* X3DH or PQXDH returns key material.
LEMMA InitialSecretType ==
  ASSUME NEW hs \in Handshake PROVE InitialSecret(hs) \in Secret
BY EmptySeq DEF InitialSecret, Secret

\* addReceiverChain keeps a list of receiver chains.
LEMMA AddReceiverChainType ==
  ASSUME NEW chains \in Seq(ReceiverChain), NEW their \in Nat,
         NEW secret \in Secret
  PROVE  AddReceiverChain(chains, their, secret) \in Seq(ReceiverChain)
<1> DEFINE rc == [ratchet |-> their, secret |-> secret,
                  index |-> 0, skipped |-> {}]
<1>1. rc \in ReceiverChain
  BY DEF ReceiverChain
<1>2. Append(chains, rc) \in Seq(ReceiverChain) /\ Append(chains, rc) # <<>>
  BY <1>1, AppendProperties
<1>3. Tail(Append(chains, rc)) \in Seq(ReceiverChain)
  BY <1>2, HeadTailProperties
<1> QED
  BY <1>2, <1>3 DEF AddReceiverChain

\* getOrComputeMessageKeys keeps a receiver chain.
LEMMA AdvancedType ==
  ASSUME NEW rc \in ReceiverChain, NEW counter \in Nat
  PROVE  Advanced(rc, counter) \in ReceiverChain
<1>1. rc.skipped \in SUBSET Nat /\ rc.index \in Nat
  BY DEF ReceiverChain
<1>2. rc.index .. counter - 1 \subseteq Nat
  BY <1>1
<1>3. Newest(rc.skipped \union (rc.index .. counter - 1), MaxMessageKeys)
        \in SUBSET Nat
  BY <1>1, <1>2 DEF Newest
<1> DEFINE kept == Newest(rc.skipped \union (rc.index .. counter - 1),
                          MaxMessageKeys)
<1> HIDE DEF kept
<1>4. CASE counter \in rc.skipped
  BY <1>1, <1>4 DEF Advanced, ReceiverChain
<1>5. CASE counter \notin rc.skipped
  <2>1. Advanced(rc, counter) =
            [rc EXCEPT !.index = counter + 1, !.skipped = kept]
    BY <1>5 DEF Advanced, kept
  <2>2. kept \in SUBSET Nat
    BY <1>3 DEF kept
  <2> QED
    <3>1. counter + 1 \in Nat
      OBVIOUS
    <3>2. \A n \in Nat, S \in SUBSET Nat :
            [rc EXCEPT !.index = n, !.skipped = S] \in ReceiverChain
      BY DEF ReceiverChain
    <3> QED
      BY <2>1, <2>2, <3>1, <3>2, Zenon
<1> QED
  BY <1>4, <1>5

\* A serialized session state is a session state.
LEMMA SerializeType ==
  ASSUME NEW st \in SessionState
  PROVE  /\ Serialize(st) \in SessionState
         /\ Serialize(st).hs = st.hs
         /\ Serialize(st).pending = st.pending
         /\ Serialize(st).root = st.root
         /\ Serialize(st).ratchet = st.ratchet
         /\ Serialize(st).chain = st.chain
<1> DEFINE cs == [i \in DOMAIN st.chains |->
                     [st.chains[i] EXCEPT !.skipped = {}]]
<1>1. st.chains \in Seq(ReceiverChain)
  BY DEF SessionState
<1>2. \A rc \in ReceiverChain : [rc EXCEPT !.skipped = {}] \in ReceiverChain
  BY DEF ReceiverChain
<1>3. cs \in Seq(ReceiverChain)
  <2>1. Len(st.chains) \in Nat /\ DOMAIN st.chains = 1 .. Len(st.chains)
    BY <1>1, LenProperties
  <2>2. \A i \in 1 .. Len(st.chains) : st.chains[i] \in ReceiverChain
    BY <1>1, ElementOfSeq
  <2>3. cs \in [1 .. Len(st.chains) -> ReceiverChain]
    BY <1>2, <2>1, <2>2
  <2> HIDE DEF cs
  <2> QED
    BY <2>1, <2>3, SeqDef
<1>4. Serialize(st) = [st EXCEPT !.chains = cs]
  BY DEF Serialize
<1> HIDE DEF cs
<1> QED
  BY <1>3, <1>4 DEF SessionState

\* spqr.recv touches only the SPQR counter.
LEMMA PqReceivedType ==
  ASSUME NEW st \in SessionState, NEW m \in Message
  PROVE  /\ PqReceived(st, m) \in SessionState
         /\ PqReceived(st, m).hs = st.hs
         /\ PqReceived(st, m).pending = st.pending
         /\ PqReceived(st, m).root = st.root
         /\ PqReceived(st, m).ratchet = st.ratchet
         /\ PqReceived(st, m).chain = st.chain
         /\ PqReceived(st, m).chains = st.chains
BY DEF PqReceived, SessionState, Message

\* A Diffie-Hellman ratchet step renews the root and the sending chain.
LEMMA DhRatchetType ==
  ASSUME NEW st \in SessionState, NEW their \in Nat, NEW fresh \in Nat
  PROVE  LET recv == CreateChain(st.root, their, st.ratchet)
             send == CreateChain(recv, their, fresh)
         IN  /\ DhRatchet(st, their, fresh) \in SessionState
             /\ DhRatchet(st, their, fresh).hs = st.hs
             /\ DhRatchet(st, their, fresh).pending = st.pending
             /\ DhRatchet(st, their, fresh).root = send
             /\ DhRatchet(st, their, fresh).ratchet = fresh
             /\ DhRatchet(st, their, fresh).chain =
                    [secret |-> send, index |-> 0]
             /\ DhRatchet(st, their, fresh).chains =
                    AddReceiverChain(st.chains, their, recv)
<1> DEFINE recv == CreateChain(st.root, their, st.ratchet)
           send == CreateChain(recv, their, fresh)
<1>1. recv \in Secret /\ send \in Secret
  BY CreateChainType DEF SessionState
<1>2. AddReceiverChain(st.chains, their, recv) \in Seq(ReceiverChain)
  BY <1>1, AddReceiverChainType DEF SessionState
<1>3. [secret |-> send, index |-> 0] \in ChainKey
  BY <1>1 DEF ChainKey
<1>4. DhRatchet(st, their, fresh) =
        [st EXCEPT !.root = send, !.ratchet = fresh,
                   !.chain = [secret |-> send, index |-> 0],
                   !.chains = AddReceiverChain(st.chains, their, recv)]
  BY DEF DhRatchet, SessionState
<1> HIDE DEF recv, send
<1>5. QED
  BY <1>1, <1>2, <1>3, <1>4 DEF SessionState, recv, send

\* The keys a message names are key pairs.
LEMMA MessageType ==
  ASSUME NEW m \in Message
  PROVE  /\ m.ratchet \in Nat /\ m.counter \in Nat /\ m.pq \in Nat
         /\ m.hs \in Handshake /\ m.key \in MessageKey /\ m.text \in Nat
         /\ m.from \in Party
BY DEF Message

\* What decryptWhisperMessage changes before it looks up the message key: all
\* but the SPQR counter and the chains is as after a ratchet step, or as it was.
LEMMA ReceivingType ==
  ASSUME NEW st \in SessionState, NEW m \in Message, NEW fresh \in Nat
  PROVE  LET r == Receiving(st, m, fresh)
             send == CreateChain(CreateChain(st.root, m.ratchet, st.ratchet),
                                 m.ratchet, fresh)
         IN  /\ r \in SessionState
             /\ r.hs = st.hs /\ r.pending = st.pending
             /\ \/ /\ HasChain(st, m.ratchet)
                   /\ r.root = st.root /\ r.ratchet = st.ratchet
                   /\ r.chain = st.chain
                \/ /\ ~HasChain(st, m.ratchet)
                   /\ r.root = send /\ r.ratchet = fresh
                   /\ r.chain = [secret |-> send, index |-> 0]
<1> DEFINE pq == PqReceived(st, m)
<1>1. /\ pq \in SessionState
      /\ pq.hs = st.hs /\ pq.pending = st.pending /\ pq.root = st.root
      /\ pq.ratchet = st.ratchet /\ pq.chain = st.chain
  BY PqReceivedType
<1> HIDE DEF pq
<1>2. m.ratchet \in Nat
  BY MessageType
<1>3. CASE HasChain(st, m.ratchet)
  <2>1. Receiving(st, m, fresh) = pq
    BY <1>3 DEF Receiving, pq
  <2> QED
    BY <1>1, <1>3, <2>1
<1>4. CASE ~HasChain(st, m.ratchet)
  <2>1. Receiving(st, m, fresh) = DhRatchet(pq, m.ratchet, fresh)
    BY <1>4 DEF Receiving, pq
  <2> QED
    BY <1>1, <1>2, <1>4, <2>1, DhRatchetType
<1> QED
  BY <1>3, <1>4

\* decryptWhisperMessage leaves a session state of the same handshake.
LEMMA AfterOpenType ==
  ASSUME NEW st \in SessionState, NEW m \in Message, NEW fresh \in Nat
  PROVE  LET r == Receiving(st, m, fresh)
             a == AfterOpen(st, m, fresh)
         IN  /\ a \in SessionState
             /\ a.hs = st.hs /\ a.pending = st.pending
             /\ a.root = r.root /\ a.ratchet = r.ratchet /\ a.chain = r.chain
<1> DEFINE r == Receiving(st, m, fresh)
           i == FindReceiverChain(r, m.ratchet)
           cs == [r.chains EXCEPT ![i] = Advanced(@, m.counter)]
<1>1. r \in SessionState /\ r.hs = st.hs /\ r.pending = st.pending
  BY ReceivingType
<1>2. AfterOpen(st, m, fresh) = [r EXCEPT !.chains = cs]
  BY DEF AfterOpen
<1> HIDE DEF r, i
<1>3. cs \in Seq(ReceiverChain)
  <2>1. r.chains \in Seq(ReceiverChain) /\ m.counter \in Nat
    BY <1>1, MessageType DEF SessionState
  <2>2. /\ Len(r.chains) \in Nat /\ DOMAIN r.chains = 1 .. Len(r.chains)
        /\ \A j \in 1 .. Len(r.chains) : r.chains[j] \in ReceiverChain
    BY <2>1, LenProperties, ElementOfSeq
  <2>3. CASE i \in DOMAIN r.chains
    <3>1. Advanced(r.chains[i], m.counter) \in ReceiverChain
      BY <2>1, <2>2, <2>3, AdvancedType
    <3> QED
      BY <2>1, <2>2, <2>3, <3>1, ExceptSeq
  <2>4. CASE i \notin DOMAIN r.chains
    <3>1. cs = r.chains
      BY <2>2, <2>1, <2>4, LenProperties
    <3> QED
      BY <2>1, <3>1
  <2> QED
    BY <2>3, <2>4
<1> HIDE DEF cs
<1>4. \A c \in Seq(ReceiverChain) :
        LET a == [r EXCEPT !.chains = c]
        IN  /\ a \in SessionState
            /\ a.hs = r.hs /\ a.pending = r.pending
            /\ a.root = r.root /\ a.ratchet = r.ratchet /\ a.chain = r.chain
  BY <1>1 DEF SessionState
<1> QED
  BY <1>1, <1>2, <1>3, <1>4 DEF r

-----------------------------------------------------------------------------
(* Session records *)

\* archiveCurrentState and promoteState keep only a serialized copy of the
\* current state, in front, and behind it the states archived before.
LEMMA ArchivedType ==
  ASSUME NEW record \in SessionRecord
  PROVE  /\ Archived(record) \in Seq(SessionState)
         /\ \A i \in DOMAIN Archived(record) :
              IF record.current = None
              THEN i \in DOMAIN record.previous
                   /\ Archived(record)[i] = record.previous[i]
              ELSE \/ i = 1 /\ Archived(record)[i] = Serialize(record.current)
                   \/ /\ i \in Nat /\ i > 1 /\ i - 1 \in DOMAIN record.previous
                      /\ Archived(record)[i] = record.previous[i - 1]
<1>1. record.previous \in Seq(SessionState)
  BY DEF SessionRecord
<1>2. CASE record.current = None
  BY <1>1, <1>2 DEF Archived
<1>3. CASE record.current # None
  <2> DEFINE first == Serialize(record.current)
             prev == record.previous
             all == <<first>> \o prev
             n == IF Len(all) > MaxArchivedStates THEN Len(all) - 1 ELSE Len(all)
  <2>1. first \in SessionState
    BY <1>3, SerializeType DEF SessionRecord
  <2> HIDE DEF first
  <2>2. prev \in Seq(SessionState)
    BY <1>1
  <2> HIDE DEF prev
  <2>3. /\ <<first>> \in Seq(SessionState)
        /\ Len(<<first>>) = 1 /\ <<first>>[1] = first
    BY <2>1
  <2>4. /\ all \in Seq(SessionState)
        /\ Len(all) = 1 + Len(prev)
        /\ \A i \in 1 .. Len(all) :
              all[i] = IF i <= 1 THEN <<first>>[i] ELSE prev[i - 1]
    BY <2>2, <2>3, ConcatProperties
  <2> HIDE DEF all
  <2>5. /\ Len(prev) \in Nat /\ DOMAIN prev = 1 .. Len(prev)
        /\ Len(all) \in Nat
    BY <2>2, <2>4, LenProperties
  <2>6. \A i \in 1 .. Len(all) :
          \/ i = 1 /\ all[i] = first
          \/ /\ i \in Nat /\ i > 1 /\ i - 1 \in DOMAIN prev
             /\ all[i] = prev[i - 1]
    <3> TAKE i \in 1 .. Len(all)
    <3>1. CASE i = 1
      BY <2>3, <2>4, <2>5, <3>1
    <3>2. CASE i > 1
      BY <2>4, <2>5, <3>2
    <3> QED
      BY <3>1, <3>2
  <2>7. n \in 0 .. Len(all)
    BY <2>4, <2>5, LimitAssumption
  <2>8. \A i \in 1 .. n : all[i] \in SessionState
    BY <2>4, <2>5, <2>7, ElementOfSeq
  <2> HIDE DEF n
  <2>9. /\ SubSeq(all, 1, n) \in Seq(SessionState)
        /\ Len(SubSeq(all, 1, n)) = n
        /\ \A i \in 1 .. n : SubSeq(all, 1, n)[i] = all[i]
    <3>1. n \in Int /\ 1 \in Int
      BY <2>5, <2>7
    <3>2. /\ SubSeq(all, 1, n) \in Seq(SessionState)
          /\ Len(SubSeq(all, 1, n)) = IF 1 <= n THEN n - 1 + 1 ELSE 0
          /\ \A i \in 1 .. n - 1 + 1 : SubSeq(all, 1, n)[i] = all[1 + i - 1]
      BY <2>8, <3>1, SubSeqProperties
    <3> QED
      BY <2>5, <2>7, <3>2
  <2>10. DOMAIN SubSeq(all, 1, n) = 1 .. n
    BY <2>9, LenProperties
  <2>11. Archived(record) = SubSeq(all, 1, n)
    BY <1>3 DEF Archived, all, first, prev, n
  <2>12. \A i \in 1 .. n : i \in 1 .. Len(all)
    BY <2>5, <2>7
  <2> QED
    BY <1>3, <2>6, <2>9, <2>10, <2>11, <2>12 DEF first, prev
<1> QED
  BY <1>2, <1>3

\* What the record of a party holds after it stored a new current state.
LEMMA PromoteStateType ==
  ASSUME NEW record \in SessionRecord, NEW st \in SessionState
  PROVE  /\ PromoteState(record, st) \in SessionRecord
         /\ PromoteState(record, st).current = Serialize(st)
         /\ PromoteState(record, st).previous = Archived(record)
BY ArchivedType, SerializeType DEF PromoteState, SessionRecord

\* The state processPreKeyBundle builds.
LEMMA InitiatorStateType ==
  ASSUME NEW hs \in Handshake, NEW ratchet \in Nat
  PROVE  LET st == InitiatorState(hs, ratchet)
             send == CreateChain(InitialSecret(hs), hs.spk, ratchet)
         IN  /\ st \in SessionState
             /\ st.hs = hs /\ st.pending = TRUE
             /\ st.root = send /\ st.ratchet = ratchet
             /\ st.chain = [secret |-> send, index |-> 0]
<1> DEFINE send == CreateChain(InitialSecret(hs), hs.spk, ratchet)
           cs == AddReceiverChain(<<>>, hs.spk, InitialSecret(hs))
<1>1. hs.spk \in Nat
  BY DEF Handshake
<1>2. InitialSecret(hs) \in Secret /\ send \in Secret
  BY <1>1, InitialSecretType, CreateChainType
<1>3. cs \in Seq(ReceiverChain)
  BY <1>1, <1>2, EmptySeq, AddReceiverChainType
<1>4. InitiatorState(hs, ratchet) =
        [hs |-> hs, pending |-> TRUE, root |-> send, ratchet |-> ratchet,
         chain |-> [secret |-> send, index |-> 0], chains |-> cs,
         pqSend |-> 0, pqRecv |-> 0]
  BY DEF InitiatorState
<1> HIDE DEF send, cs
<1> QED
  BY <1>2, <1>3, <1>4 DEF SessionState, ChainKey, send

\* The state decryptPreKeyMessage builds; it has no receiver chain.
LEMMA ResponderStateType ==
  ASSUME NEW p \in Party, NEW m \in Message
  PROVE  LET st == ResponderState(p, m)
         IN  /\ st \in SessionState
             /\ st.hs.base = m.hs.base /\ st.hs.opk = m.hs.opk
             /\ st.hs.spk = m.hs.spk
             /\ st.pending = FALSE /\ st.chains = <<>>
             /\ st.root = InitialSecret(st.hs) /\ st.ratchet = m.hs.spk
             /\ ~HasChain(st, m.ratchet)
<1> DEFINE hs == [m.hs EXCEPT !.kem = @ /\ p \in KyberStores]
<1>1. /\ hs \in Handshake /\ hs.base = m.hs.base /\ hs.opk = m.hs.opk
      /\ hs.spk = m.hs.spk /\ m.hs.spk \in Nat
  BY MessageType DEF Handshake
<1>2. ResponderState(p, m) =
        [hs |-> hs, pending |-> FALSE, root |-> InitialSecret(hs),
         ratchet |-> m.hs.spk,
         chain |-> [secret |-> InitialSecret(hs), index |-> 0],
         chains |-> <<>>, pqSend |-> 0, pqRecv |-> 0]
  BY DEF ResponderState
<1> HIDE DEF hs
<1>3. InitialSecret(hs) \in Secret
  BY <1>1, InitialSecretType
<1>4. DOMAIN ResponderState(p, m).chains = {}
  BY <1>2
<1> QED
  BY <1>1, <1>2, <1>3, <1>4, EmptySeq
     DEF SessionState, ChainKey, HasChain, ChainsFor

\* The first receiver chain of a state stays alone.
LEMMA FirstChain ==
  \A their, secret :
     AddReceiverChain(<<>>, their, secret) =
        <<[ratchet |-> their, secret |-> secret, index |-> 0, skipped |-> {}]>>
<1> TAKE their, secret
<1> DEFINE rc == [ratchet |-> their, secret |-> secret,
                  index |-> 0, skipped |-> {}]
<1>1. Append(<<>>, rc) = <<rc>> /\ Len(<<rc>>) = 1
  OBVIOUS
<1>2. AddReceiverChain(<<>>, their, secret) =
        IF Len(Append(<<>>, rc)) > MaxReceiverChains
        THEN Tail(Append(<<>>, rc)) ELSE Append(<<>>, rc)
  BY DEF AddReceiverChain
<1> HIDE DEF rc
<1>3. ~(1 > MaxReceiverChains)
  BY LimitAssumption
<1>4. AddReceiverChain(<<>>, their, secret) = <<rc>>
  BY <1>1, <1>2, <1>3
<1> QED
  BY <1>4 DEF rc

\* A message opens on a state without receiver chains only if it was sealed
\* with the chain that a ratchet step yields.
LEMMA OpensFirst ==
  ASSUME NEW st \in SessionState, NEW m \in Message, NEW fresh \in Nat,
         st.chains = <<>>, Opens(st, m, fresh)
  PROVE  m.key.secret = CreateChain(st.root, m.ratchet, st.ratchet)
<1> DEFINE pq == PqReceived(st, m)
           s  == Receiving(st, m, fresh)
           recv == CreateChain(st.root, m.ratchet, st.ratchet)
           rc == [ratchet |-> m.ratchet, secret |-> recv, index |-> 0, skipped |-> {}]
<1>1. /\ pq \in SessionState /\ pq.root = st.root /\ pq.ratchet = st.ratchet
      /\ pq.chains = <<>>
  BY PqReceivedType
<1>2. m.ratchet \in Nat
  BY MessageType
<1>3. s = DhRatchet(pq, m.ratchet, fresh)
  BY DEF Receiving, HasChain, ChainsFor
<1> HIDE DEF pq, s
<1>4. s.chains = AddReceiverChain(<<>>, m.ratchet, recv)
  <2>1. DhRatchet(pq, m.ratchet, fresh).chains =
          AddReceiverChain(pq.chains, m.ratchet,
                           CreateChain(pq.root, m.ratchet, pq.ratchet))
    BY <1>1, <1>2, DhRatchetType
  <2> QED
    BY <1>1, <1>3, <2>1
<1> HIDE DEF recv
<1>5. s.chains = <<rc>>
  BY <1>4, FirstChain
<1>6. rc.ratchet = m.ratchet /\ rc.secret = recv
  OBVIOUS
<1> HIDE DEF rc
<1>7. FindReceiverChain(s, m.ratchet) = 1 /\ s.chains[1] = rc
  BY <1>5, <1>6 DEF FindReceiverChain, ChainsFor
<1>8. DerivedKey(s.chains[FindReceiverChain(s, m.ratchet)],
                 m.counter, PqKey(st, m)) = m.key
  BY DEF Opens, s
<1>9. DerivedKey(rc, m.counter, PqKey(st, m)) = m.key
  BY <1>7, <1>8
<1>10. DerivedKey(rc, m.counter, PqKey(st, m)).secret = rc.secret
  BY DEF DerivedKey, MessageKeys
<1> QED
  BY <1>6, <1>9, <1>10 DEF recv

\* What encrypt seals, and the state it stores.
LEMMA SealingType ==
  ASSUME NEW p \in Party, NEW st \in SessionState, NEW text \in Nat
  PROVE  /\ Sealed(p, st, text) \in Message
         /\ Sealed(p, st, text).from = p
         /\ Sealed(p, st, text).text = text
         /\ Sealed(p, st, text).ratchet = st.ratchet
         /\ Sealed(p, st, text).key.secret = st.chain.secret
         /\ Sealed(p, st, text).key.counter = st.chain.index
         /\ AfterSealing(st) \in SessionState
         /\ AfterSealing(st).hs = st.hs
         /\ AfterSealing(st).pending = st.pending
         /\ AfterSealing(st).root = st.root
         /\ AfterSealing(st).ratchet = st.ratchet
         /\ AfterSealing(st).chain.secret = st.chain.secret
         /\ AfterSealing(st).chain.index = st.chain.index + 1
<1>1. /\ st.hs \in Handshake /\ st.ratchet \in Nat /\ st.pqSend \in Nat
      /\ st.chain \in ChainKey /\ st.hs.kem \in BOOLEAN
  BY DEF SessionState, Handshake
<1>2. st.chain.secret \in Secret /\ st.chain.index \in Nat
  BY <1>1 DEF ChainKey
<1> DEFINE pq == IF st.hs.kem THEN st.pqSend + 1 ELSE 0
<1>3. pq \in Nat
  BY <1>1
<1>4. Sealed(p, st, text) =
        [from |-> p, kind |-> IF st.pending THEN "pre_key" ELSE "whisper",
         hs |-> st.hs, ratchet |-> st.ratchet, counter |-> st.chain.index,
         pq |-> pq, text |-> text,
         key |-> [secret |-> st.chain.secret, counter |-> st.chain.index,
                  pqr |-> pq]]
  BY DEF Sealed, MessageKeys
<1> DEFINE ck == [st.chain EXCEPT !.index = @ + 1]
           ps == IF st.hs.kem THEN st.pqSend + 1 ELSE st.pqSend
<1>5. /\ ck \in ChainKey /\ ck.secret = st.chain.secret
      /\ ck.index = st.chain.index + 1
  BY <1>1 DEF ChainKey
<1>6. ps \in Nat
  BY <1>1
<1>7. AfterSealing(st) = [st EXCEPT !.chain = ck, !.pqSend = ps]
  BY DEF AfterSealing, SessionState
<1> HIDE DEF pq, ck, ps
<1>8. Sealed(p, st, text) \in Message
  BY <1>1, <1>2, <1>3, <1>4 DEF Message, MessageKey
<1>9. /\ Sealed(p, st, text).from = p
      /\ Sealed(p, st, text).text = text
      /\ Sealed(p, st, text).ratchet = st.ratchet
      /\ Sealed(p, st, text).key.secret = st.chain.secret
      /\ Sealed(p, st, text).key.counter = st.chain.index
  BY <1>4
<1>10. \A c \in ChainKey, n \in Nat :
         LET a == [st EXCEPT !.chain = c, !.pqSend = n]
         IN  /\ a \in SessionState /\ a.hs = st.hs /\ a.pending = st.pending
             /\ a.root = st.root /\ a.ratchet = st.ratchet /\ a.chain = c
  BY DEF SessionState
<1>11. /\ AfterSealing(st) \in SessionState
       /\ AfterSealing(st).hs = st.hs
       /\ AfterSealing(st).pending = st.pending
       /\ AfterSealing(st).root = st.root
       /\ AfterSealing(st).ratchet = st.ratchet
       /\ AfterSealing(st).chain = ck
  <2> DEFINE a == [st EXCEPT !.chain = ck, !.pqSend = ps]
  <2>1. ck \in ChainKey
    BY <1>5
  <2>2. /\ a \in SessionState /\ a.hs = st.hs /\ a.pending = st.pending
        /\ a.root = st.root /\ a.ratchet = st.ratchet /\ a.chain = ck
    BY <2>1, <1>6, <1>10
  <2> HIDE DEF a
  <2>3. AfterSealing(st) = a
    BY <1>7 DEF a
  <2> QED
    BY <2>2, <2>3
<1>12. /\ AfterSealing(st).chain.secret = st.chain.secret
       /\ AfterSealing(st).chain.index = st.chain.index + 1
  <2>1. AfterSealing(st).chain = ck
    BY <1>11
  <2> QED
    BY <1>5, <2>1
<1> QED
  BY <1>8, <1>9, <1>11, <1>12, Zenon

-----------------------------------------------------------------------------
(* Type correctness *)

\* A signed pre-key is a key pair.
LEMMA SignedPreKeyType == \A p \in Party : SignedPreKey(p) \in 1 .. 2
BY DEF SignedPreKey

\* A party's peer is a party.
LEMMA PeerType == \A p \in Party : Peer(p) \in Party
BY DEF Peer, Party

\* Init gives the stores, the network and the histories their types.
LEMMA InitType == Init => TypeOK
BY EmptySeq DEF Init, TypeOK, NewRecord, SessionRecord

\* What storeSession is given for the current state.
LEMMA StoreCurrentType ==
  ASSUME TypeOK, NEW p \in Party, HasSession(p), NEW st \in SessionState,
         StoreCurrent(p, st)
  PROVE  /\ session' \in [Party -> SessionRecord]
         /\ session'[p].current = Serialize(st)
         /\ session'[p].previous = session[p].previous
         /\ \A q \in Party \ {p} : session'[q] = session[q]
<1>1. Serialize(st) \in SessionState
  BY SerializeType
<1>2. \A r \in SessionRecord, s \in SessionState :
        /\ [r EXCEPT !.current = s] \in SessionRecord
        /\ [r EXCEPT !.current = s].current = s
        /\ [r EXCEPT !.current = s].previous = r.previous
  BY DEF SessionRecord
<1>3. session \in [Party -> SessionRecord]
  BY DEF TypeOK
<1>4. session' = [session EXCEPT ![p] = [session[p] EXCEPT !.current = Serialize(st)]]
  BY <1>3 DEF StoreCurrent
<1>5. [session[p] EXCEPT !.current = Serialize(st)] \in SessionRecord
  BY <1>1, <1>2, <1>3
<1>6. session'[p] = [session[p] EXCEPT !.current = Serialize(st)]
  BY <1>3, <1>4
<1> QED
  BY <1>1, <1>2, <1>3, <1>4, <1>5, <1>6

\* The current state of a party that has a session.
LEMMA CurrentType ==
  ASSUME TypeOK, NEW p \in Party, HasSession(p)
  PROVE  session[p].current \in SessionState
BY DEF TypeOK, HasSession, SessionRecord

\* The session processPreKeyBundle stores.
LEMMA BundleStep ==
  ASSUME TypeOK, NEW p \in Party, ProcessPreKeyBundle(p)
  PROVE  \E hs \in Handshake :
           LET send == CreateChain(InitialSecret(hs), hs.spk, nextKey + 1)
               c == session'[p].current
           IN  /\ hs.spk \in 1 .. 2
               /\ session' \in [Party -> SessionRecord]
               /\ session'[p].previous = Archived(session[p])
               /\ \A q \in Party \ {p} : session'[q] = session[q]
               /\ c \in SessionState /\ c.hs = hs /\ c.pending
               /\ c.root = send /\ c.ratchet = nextKey + 1
               /\ c.chain = [secret |-> send, index |-> 0]
<1>1. PICK b \in Bundles :
        session' = [session EXCEPT ![p] = PromoteState(@, InitiatorState(
            [base |-> nextKey, spk |-> SignedPreKey(Peer(p)),
             opk |-> b.opk, kem |-> b.kem], nextKey + 1))]
  BY DEF ProcessPreKeyBundle
<1> DEFINE hs == [base |-> nextKey, spk |-> SignedPreKey(Peer(p)),
                  opk |-> b.opk, kem |-> b.kem]
           st == InitiatorState(hs, nextKey + 1)
<1>2. hs \in Handshake /\ hs.spk \in 1 .. 2 /\ nextKey + 1 \in Nat
  BY KeyAssumption, SignedPreKeyType, PeerType DEF TypeOK, Handshake, Bundle
<1>3. session \in [Party -> SessionRecord]
  BY DEF TypeOK
<1>4. session' = [session EXCEPT ![p] = PromoteState(@, st)]
  BY <1>1
<1> HIDE DEF hs
<1>5. /\ st \in SessionState /\ st.hs = hs /\ st.pending = TRUE
      /\ st.root = CreateChain(InitialSecret(hs), hs.spk, nextKey + 1)
      /\ st.ratchet = nextKey + 1
      /\ st.chain = [secret |-> st.root, index |-> 0]
  <2> DEFINE n == nextKey + 1
  <2>1. n \in Nat
    BY <1>2
  <2> HIDE DEF n
  <2>2. st = InitiatorState(hs, n)
    BY DEF n
  <2> HIDE DEF st
  <2>3. /\ st \in SessionState /\ st.hs = hs /\ st.pending = TRUE
        /\ st.root = CreateChain(InitialSecret(hs), hs.spk, n)
        /\ st.ratchet = n
        /\ st.chain = [secret |-> CreateChain(InitialSecret(hs), hs.spk, n),
                       index |-> 0]
    BY <1>2, <2>1, <2>2, InitiatorStateType
  <2> QED
    BY <2>3 DEF n
<1> HIDE DEF st
<1>6. /\ PromoteState(session[p], st) \in SessionRecord
      /\ PromoteState(session[p], st).current = Serialize(st)
      /\ PromoteState(session[p], st).previous = Archived(session[p])
  BY <1>3, <1>5, PromoteStateType
<1>7. /\ session'[p] = PromoteState(session[p], st)
      /\ session' \in [Party -> SessionRecord]
      /\ \A q \in Party \ {p} : session'[q] = session[q]
  BY <1>3, <1>4, <1>6
<1>8. /\ Serialize(st) \in SessionState
      /\ Serialize(st).hs = hs /\ Serialize(st).pending = TRUE
      /\ Serialize(st).root = st.root /\ Serialize(st).ratchet = nextKey + 1
      /\ Serialize(st).chain = [secret |-> st.root, index |-> 0]
  BY <1>5, SerializeType
<1> QED
  BY <1>2, <1>5, <1>6, <1>7, <1>8

\* The record encrypt stores, and the message it returns.
LEMMA EncryptStep ==
  ASSUME TypeOK, NEW p \in Party, Encrypt(p)
  PROVE  LET st == session[p].current
             c == session'[p].current
         IN  /\ HasSession(p)
             /\ session' \in [Party -> SessionRecord]
             /\ session'[p].previous = session[p].previous
             /\ \A q \in Party \ {p} : session'[q] = session[q]
             /\ st \in SessionState /\ c \in SessionState
             /\ c.hs = st.hs /\ c.pending = st.pending
             /\ c.root = st.root /\ c.ratchet = st.ratchet
             /\ c.chain.secret = st.chain.secret
             /\ c.chain.index = st.chain.index + 1
             /\ \E n \in Message :
                   /\ network' = network \union {n}
                   /\ n.ratchet = st.ratchet
                   /\ n.key.secret = st.chain.secret
                   /\ n.key.counter = st.chain.index
<1> DEFINE st == session[p].current
<1>1. HasSession(p) /\ sent \in Nat
  BY DEF Encrypt, TypeOK
<1>2. st \in SessionState
  BY <1>1, CurrentType
<1>3. /\ network' = network \union {Sealed(p, st, sent)}
      /\ StoreCurrent(p, AfterSealing(st))
  BY DEF Encrypt
<1> HIDE DEF st
<1> DEFINE a == AfterSealing(st)
<1>4. /\ a \in SessionState /\ a.hs = st.hs /\ a.pending = st.pending
      /\ a.root = st.root /\ a.ratchet = st.ratchet
      /\ a.chain.secret = st.chain.secret
      /\ a.chain.index = st.chain.index + 1
  BY <1>2, SealingType, 0 \in Nat
<1>5. /\ Sealed(p, st, sent) \in Message
      /\ Sealed(p, st, sent).ratchet = st.ratchet
      /\ Sealed(p, st, sent).key.secret = st.chain.secret
      /\ Sealed(p, st, sent).key.counter = st.chain.index
  BY <1>1, <1>2, SealingType
<1> HIDE DEF a
<1>6. StoreCurrent(p, a)
  BY <1>3 DEF a
<1>7. /\ session' \in [Party -> SessionRecord]
      /\ session'[p].current = Serialize(a)
      /\ session'[p].previous = session[p].previous
      /\ \A q \in Party \ {p} : session'[q] = session[q]
  BY <1>1, <1>4, <1>6, StoreCurrentType
<1>8. /\ Serialize(a) \in SessionState /\ Serialize(a).hs = a.hs
      /\ Serialize(a).pending = a.pending /\ Serialize(a).root = a.root
      /\ Serialize(a).ratchet = a.ratchet /\ Serialize(a).chain = a.chain
  BY <1>4, SerializeType
<1>9. \E n \in Message :
        /\ network' = network \union {n}
        /\ n.ratchet = st.ratchet
        /\ n.key.secret = st.chain.secret
        /\ n.key.counter = st.chain.index
  BY <1>3, <1>5
<1> QED
  BY <1>1, <1>2, <1>4, <1>7, <1>8, <1>9 DEF st

\* The record decryptMessage stores.
LEMMA DecryptStep ==
  ASSUME TypeOK, NEW p \in Party, NEW m \in network, DecryptMessage(p, m)
  PROVE  LET st == session[p].current
             c == session'[p].current
             send == CreateChain(CreateChain(st.root, m.ratchet, st.ratchet),
                                 m.ratchet, nextKey)
         IN  /\ HasSession(p)
             /\ session' \in [Party -> SessionRecord]
             /\ session'[p].previous = session[p].previous
             /\ \A q \in Party \ {p} : session'[q] = session[q]
             /\ st \in SessionState /\ c \in SessionState
             /\ c.hs = st.hs /\ c.pending = st.pending
             /\ \/ /\ nextKey' = nextKey
                   /\ c.root = st.root /\ c.ratchet = st.ratchet
                   /\ c.chain = st.chain
                \/ /\ nextKey' = nextKey + 1
                   /\ c.root = send /\ c.ratchet = nextKey
                   /\ c.chain = [secret |-> send, index |-> 0]
<1> DEFINE st == session[p].current
           a == AfterOpen(st, m, nextKey)
           r == Receiving(st, m, nextKey)
           send == CreateChain(CreateChain(st.root, m.ratchet, st.ratchet),
                               m.ratchet, nextKey)
<1>1. /\ HasSession(p) /\ m \in Message /\ nextKey \in Nat
      /\ StoreCurrent(p, a) /\ nextKey' = nextKey + KeysDrawn(st, m)
  BY DEF DecryptMessage, TypeOK
<1>2. st \in SessionState
  BY <1>1, CurrentType
<1> HIDE DEF st
<1>3. /\ a \in SessionState /\ a.hs = st.hs /\ a.pending = st.pending
      /\ a.root = r.root /\ a.ratchet = r.ratchet /\ a.chain = r.chain
  BY <1>1, <1>2, AfterOpenType
<1>4. \/ /\ HasChain(st, m.ratchet)
         /\ r.root = st.root /\ r.ratchet = st.ratchet /\ r.chain = st.chain
      \/ /\ ~HasChain(st, m.ratchet)
         /\ r.root = send /\ r.ratchet = nextKey
         /\ r.chain = [secret |-> send, index |-> 0]
  BY <1>1, <1>2, ReceivingType
<1> HIDE DEF a, r, send
<1>5. /\ session' \in [Party -> SessionRecord]
      /\ session'[p].current = Serialize(a)
      /\ session'[p].previous = session[p].previous
      /\ \A q \in Party \ {p} : session'[q] = session[q]
  BY <1>1, <1>3, StoreCurrentType
<1>6. /\ Serialize(a) \in SessionState /\ Serialize(a).hs = a.hs
      /\ Serialize(a).pending = a.pending /\ Serialize(a).root = a.root
      /\ Serialize(a).ratchet = a.ratchet /\ Serialize(a).chain = a.chain
  BY <1>3, SerializeType
<1>7. \/ HasChain(st, m.ratchet) /\ nextKey' = nextKey
      \/ ~HasChain(st, m.ratchet) /\ nextKey' = nextKey + 1
  BY <1>1 DEF KeysDrawn
<1> QED
  BY <1>1, <1>2, <1>3, <1>4, <1>5, <1>6, <1>7 DEF st, send

\* The record decryptPreKeyMessage stores for a new session.
LEMMA EstablishStep ==
  ASSUME TypeOK, NEW p \in Party, NEW m \in network, EstablishSession(p, m)
  PROVE  LET c == session'[p].current
             recv == CreateChain(InitialSecret(c.hs), m.ratchet, m.hs.spk)
             send == CreateChain(recv, m.ratchet, nextKey)
         IN  /\ session' \in [Party -> SessionRecord]
             /\ session'[p].previous = Archived(session[p])
             /\ \A q \in Party \ {p} : session'[q] = session[q]
             /\ c \in SessionState /\ c.hs.opk = m.hs.opk
             /\ c.hs = ResponderState(p, m).hs /\ c.hs = m.key.secret.hs
             /\ c.pending = FALSE /\ m.hs.spk \in 1 .. 2
             /\ c.root = send /\ c.ratchet = nextKey
             /\ c.chain = [secret |-> send, index |-> 0]
<1> DEFINE st == ResponderState(p, m)
           a == AfterOpen(st, m, nextKey)
           r == Receiving(st, m, nextKey)
           send == CreateChain(CreateChain(st.root, m.ratchet, st.ratchet),
                               m.ratchet, nextKey)
<1>1. /\ m \in Message /\ nextKey \in Nat
      /\ session' = [session EXCEPT ![p] = PromoteState(@, a)]
      /\ m.hs.spk = SignedPreKey(p) /\ Opens(st, m, nextKey)
  BY DEF EstablishSession, Establishing, TypeOK
<1>2. /\ st \in SessionState /\ st.hs.opk = m.hs.opk /\ st.pending = FALSE
      /\ st.root = InitialSecret(st.hs) /\ st.ratchet = m.hs.spk
      /\ ~HasChain(st, m.ratchet) /\ st.chains = <<>>
  BY <1>1, ResponderStateType
<1> HIDE DEF st
<1>12. m.key.secret.hs = st.hs
  <2>1. m.key.secret = CreateChain(st.root, m.ratchet, st.ratchet)
    BY <1>1, <1>2, OpensFirst
  <2>2. st.root \in Secret /\ st.root.hs = st.hs
    BY <1>2 DEF SessionState, InitialSecret
  <2> QED
    BY <2>1, <2>2 DEF CreateChain, Secret
<1>3. /\ a \in SessionState /\ a.hs = st.hs /\ a.pending = st.pending
      /\ a.root = r.root /\ a.ratchet = r.ratchet /\ a.chain = r.chain
  BY <1>1, <1>2, AfterOpenType
<1>4. /\ r.root = send /\ r.ratchet = nextKey
      /\ r.chain = [secret |-> send, index |-> 0]
  BY <1>1, <1>2, ReceivingType
<1> HIDE DEF a, r
<1>5. session \in [Party -> SessionRecord]
  BY DEF TypeOK
<1>6. /\ PromoteState(session[p], a) \in SessionRecord
      /\ PromoteState(session[p], a).current = Serialize(a)
      /\ PromoteState(session[p], a).previous = Archived(session[p])
  BY <1>3, <1>5, PromoteStateType
<1>7. /\ session'[p] = PromoteState(session[p], a)
      /\ session' \in [Party -> SessionRecord]
      /\ \A q \in Party \ {p} : session'[q] = session[q]
  BY <1>1, <1>5, <1>6
<1>8. /\ Serialize(a) \in SessionState /\ Serialize(a).hs = a.hs
      /\ Serialize(a).pending = a.pending /\ Serialize(a).root = a.root
      /\ Serialize(a).ratchet = a.ratchet /\ Serialize(a).chain = a.chain
  BY <1>3, SerializeType
<1>9. send = CreateChain(CreateChain(InitialSecret(st.hs), m.ratchet, m.hs.spk),
                         m.ratchet, nextKey)
  BY <1>2
<1> HIDE DEF send
<1>10. m.hs.spk \in 1 .. 2
  BY <1>1, SignedPreKeyType
<1>11. session'[p].current.hs = st.hs
  BY <1>3, <1>6, <1>7, <1>8
<1> QED
  BY <1>2, <1>3, <1>4, <1>6, <1>7, <1>8, <1>9, <1>10, <1>11, <1>12 DEF st

\* The record stored after archiveCurrentState.
LEMMA ArchiveStep ==
  ASSUME TypeOK, NEW p \in Party, ArchiveCurrentState(p)
  PROVE  /\ session' \in [Party -> SessionRecord]
         /\ session'[p].current = None
         /\ session'[p].previous = Archived(session[p])
         /\ \A q \in Party \ {p} : session'[q] = session[q]
<1> DEFINE rec == [current |-> None, previous |-> Archived(session[p])]
<1>1. /\ session \in [Party -> SessionRecord]
      /\ session' = [session EXCEPT ![p] = rec]
  BY DEF TypeOK, ArchiveCurrentState
<1>2. Archived(session[p]) \in Seq(SessionState)
  BY <1>1, ArchivedType
<1>3. rec \in SessionRecord /\ rec.current = None
      /\ rec.previous = Archived(session[p])
  BY <1>2 DEF SessionRecord
<1> HIDE DEF rec
<1> QED
  BY <1>1, <1>3

\* Every step keeps the types.
LEMMA NextType == TypeOK /\ [Next]_vars => TypeOK'
<1> SUFFICES ASSUME TypeOK, [Next]_vars PROVE TypeOK'
  OBVIOUS
<1> USE DEF TypeOK
<1>1. CASE UNCHANGED vars
  BY <1>1 DEF vars
<1>2. ASSUME NEW p \in Party, ProcessPreKeyBundle(p) PROVE TypeOK'
  <2>1. session' \in [Party -> SessionRecord]
    BY <1>2, BundleStep
  <2> QED
    BY <1>2, <2>1 DEF ProcessPreKeyBundle
<1>3. ASSUME NEW p \in Party, AbandonProcessing(p) PROVE TypeOK'
  BY <1>3 DEF AbandonProcessing
<1>4. ASSUME NEW p \in Party, Encrypt(p) PROVE TypeOK'
  <2>1. session' \in [Party -> SessionRecord] /\ network' \subseteq Message
    BY <1>4, EncryptStep
  <2> QED
    BY <1>4, <2>1 DEF Encrypt
<1>5. ASSUME NEW p \in Party, ArchiveCurrentState(p) PROVE TypeOK'
  <2>1. session' \in [Party -> SessionRecord]
    BY <1>5, ArchiveStep
  <2> QED
    BY <1>5, <2>1 DEF ArchiveCurrentState
<1>6. ASSUME NEW p \in Party, NEW m \in network, RecordOpening(p, m)
      PROVE  /\ opened' \in [Party -> SUBSET Nat]
             /\ reopened' \in [Party -> SUBSET Nat]
  BY <1>6, MessageType DEF RecordOpening
<1>7. ASSUME NEW p \in Party, NEW m \in network, DecryptMessage(p, m)
      PROVE  TypeOK'
  <2>1. session' \in [Party -> SessionRecord]
    BY <1>7, DecryptStep, Zenon
  <2>2. nextKey' \in Nat
    BY <1>7 DEF DecryptMessage, KeysDrawn
  <2> QED
    BY <1>6, <1>7, <2>1, <2>2 DEF DecryptMessage
<1>8. ASSUME NEW p \in Party, NEW m \in network, DecryptInSession(p, m)
      PROVE  TypeOK'
  BY <1>6, <1>8 DEF DecryptInSession
<1>9. ASSUME NEW p \in Party, NEW m \in network, EstablishSession(p, m)
      PROVE  TypeOK'
  <2>1. session' \in [Party -> SessionRecord]
    BY <1>9, EstablishStep
  <2> QED
    BY <1>6, <1>9, <2>1
       DEF EstablishSession, ConsumePreKey, MarkKyberPreKeyUsed
<1>10. ASSUME NEW p \in Party, NEW m \in network, NEW steps \in 1 .. 3,
              AbandonEstablishing(p, m, steps)
       PROVE  TypeOK'
  BY <1>10 DEF AbandonEstablishing, ConsumePreKey, MarkKyberPreKeyUsed
<1> QED
  BY <1>1, <1>2, <1>3, <1>4, <1>5, <1>7, <1>8, <1>9, <1>10 DEF Next

\* The stores, the network and the histories keep their types: in particular
\* every chain key, ratchet key and archived state that a call derives, stores
\* or loads is well formed, whatever messages arrive.
THEOREM TypeCorrect == Spec => []TypeOK
BY InitType, NextType, PTL DEF Spec

-----------------------------------------------------------------------------
(* One-time pre-keys and identities *)

\* A state set up by processPreKeyBundle, or by decryptPreKeyMessage after the
\* one-time pre-key was removed, from a message that opens on it; both save the
\* identity key first.
NewState(p, st) ==
    /\ p \in identities'
    /\ \/ st.pending
       \/ /\ st.hs.opk \notin preKeys'[p]
          /\ \E m \in network : m.from = Peer(p) /\ m.key.secret.hs = st.hs

\* A state that is in a record was there before, up to its chains.
Kept(p, st) ==
    \E old \in States(session[p]) : st.hs = old.hs /\ st.pending = old.pending

\* The states of a record after its current state was archived.
LEMMA ArchivedStates ==
  ASSUME TypeOK, NEW p \in Party,
         NEW i \in DOMAIN Archived(session[p])
  PROVE  Kept(p, Archived(session[p])[i])
<1> DEFINE record == session[p]
<1>1. record \in SessionRecord
  BY DEF TypeOK
<1>2. CASE record.current # None /\ Archived(record)[i] = Serialize(record.current)
  <2>1. record.current \in SessionState /\ record.current \in States(record)
    BY <1>1, <1>2 DEF SessionRecord, States
  <2> QED
    BY <1>2, <2>1, SerializeType DEF Kept
<1>3. ASSUME NEW j \in DOMAIN record.previous,
             Archived(record)[i] = record.previous[j]
      PROVE  Kept(p, Archived(record)[i])
  BY <1>3 DEF Kept, States
<1>4. \/ record.current # None /\ Archived(record)[i] = Serialize(record.current)
      \/ \E j \in DOMAIN record.previous : Archived(record)[i] = record.previous[j]
  BY <1>1, ArchivedType
<1> QED
  BY <1>2, <1>3, <1>4

\* The calls that write a party's record.
LEMMA RecordStep ==
  ASSUME TypeOK, [Next]_vars, NEW p \in Party
  PROVE  \/ session'[p] = session[p]
         \/ ProcessPreKeyBundle(p) \/ Encrypt(p) \/ ArchiveCurrentState(p)
         \/ \E m \in network : DecryptMessage(p, m) \/ EstablishSession(p, m)
<1>1. CASE UNCHANGED vars
  BY <1>1 DEF vars
<1>2. ASSUME NEW q \in Party, q # p,
             \/ ProcessPreKeyBundle(q) \/ Encrypt(q) \/ ArchiveCurrentState(q)
             \/ \E m \in network : DecryptMessage(q, m) \/ EstablishSession(q, m)
      PROVE  session'[p] = session[p]
  <2>1. CASE ProcessPreKeyBundle(q)
    BY <1>2, <2>1, BundleStep
  <2>2. CASE Encrypt(q)
    BY <1>2, <2>2, EncryptStep
  <2>3. CASE ArchiveCurrentState(q)
    BY <1>2, <2>3, ArchiveStep
  <2>4. ASSUME NEW m \in network, DecryptMessage(q, m)
        PROVE  session'[p] = session[p]
    BY <1>2, <2>4, DecryptStep
  <2>5. ASSUME NEW m \in network, EstablishSession(q, m)
        PROVE  session'[p] = session[p]
    BY <1>2, <2>5, EstablishStep
  <2> QED
    BY <1>2, <2>1, <2>2, <2>3, <2>4, <2>5
<1>3. ASSUME NEW q \in Party,
             \/ AbandonProcessing(q)
             \/ \E m \in network :
                   \/ DecryptInSession(q, m)
                   \/ \E steps \in 1 .. 3 : AbandonEstablishing(q, m, steps)
      PROVE  session'[p] = session[p]
  BY <1>3 DEF AbandonProcessing, DecryptInSession, AbandonEstablishing
<1>4. CASE Next
  <2>1. PICK q \in Party :
          \/ ProcessPreKeyBundle(q) \/ Encrypt(q) \/ ArchiveCurrentState(q)
          \/ \E m \in network : DecryptMessage(q, m) \/ EstablishSession(q, m)
          \/ AbandonProcessing(q)
          \/ \E m \in network :
                \/ DecryptInSession(q, m)
                \/ \E steps \in 1 .. 3 : AbandonEstablishing(q, m, steps)
    BY <1>4, Zenon DEF Next
  <2> QED
    BY <1>2, <1>3, <2>1
<1> QED
  BY <1>1, <1>4

\* A state that is in a record after a step was there before, serialized
\* perhaps and with its chains moved on, or is new.
LEMMA StatesStep ==
  ASSUME TypeOK, [Next]_vars, NEW p \in Party,
         NEW st \in States(session'[p])
  PROVE  Kept(p, st) \/ NewState(p, st)
<1>1. CASE session'[p] = session[p]
  BY <1>1 DEF Kept
<1>2. ASSUME HasSession(p), st.hs = session[p].current.hs,
             st.pending = session[p].current.pending
      PROVE  Kept(p, st)
  BY <1>2 DEF Kept, States, HasSession
<1>3. ASSUME session'[p].previous = session[p].previous,
             st # session'[p].current
      PROVE  Kept(p, st)
  BY <1>3 DEF Kept, States
<1>4. ASSUME session'[p].previous = Archived(session[p]),
             st # session'[p].current
      PROVE  Kept(p, st)
  BY <1>4, ArchivedStates DEF States
<1>5. CASE ProcessPreKeyBundle(p)
  <2>1. /\ session'[p].previous = Archived(session[p])
        /\ session'[p].current.pending
    BY <1>5, BundleStep
  <2> QED
    BY <1>4, <1>5, <2>1 DEF NewState, ProcessPreKeyBundle
<1>6. CASE Encrypt(p)
  <2>1. /\ HasSession(p)
        /\ session'[p].previous = session[p].previous
        /\ session'[p].current.hs = session[p].current.hs
        /\ session'[p].current.pending = session[p].current.pending
    BY <1>6, EncryptStep
  <2> QED
    BY <1>2, <1>3, <2>1
<1>7. CASE ArchiveCurrentState(p)
  <2>1. /\ session'[p].previous = Archived(session[p])
        /\ session'[p].current = None
    BY <1>7, ArchiveStep
  <2>2. PICK i \in DOMAIN Archived(session[p]) : st = Archived(session[p])[i]
    BY <2>1 DEF States
  <2> QED
    BY <2>2, ArchivedStates
<1>8. ASSUME NEW m \in network, DecryptMessage(p, m) PROVE Kept(p, st)
  <2>1. /\ HasSession(p)
        /\ session'[p].previous = session[p].previous
        /\ session'[p].current.hs = session[p].current.hs
        /\ session'[p].current.pending = session[p].current.pending
    BY <1>8, DecryptStep
  <2> QED
    BY <1>2, <1>3, <2>1
<1>9. ASSUME NEW m \in network, EstablishSession(p, m)
      PROVE  Kept(p, st) \/ NewState(p, st)
  <2>1. /\ session'[p].previous = Archived(session[p])
        /\ session'[p].current.hs.opk = m.hs.opk
        /\ session'[p].current.hs = m.key.secret.hs
    BY <1>9, EstablishStep
  <2>2. /\ preKeys'[p] = preKeys[p] \ {m.hs.opk} /\ p \in identities'
        /\ m.from = Peer(p)
    BY <1>9 DEF EstablishSession, Establishing, ConsumePreKey, TypeOK
  <2> QED
    BY <1>4, <2>1, <2>2 DEF NewState
<1> QED
  BY <1>1, <1>5, <1>6, <1>7, <1>8, <1>9, RecordStep

\* Pre-keys are never put back and a saved identity is never forgotten.
LEMMA StoresStep ==
  ASSUME TypeOK, [Next]_vars, NEW p \in Party
  PROVE  preKeys'[p] \subseteq preKeys[p] /\ identities \subseteq identities'
<1>1. CASE UNCHANGED vars
  BY <1>1 DEF vars
<1>2. CASE Next
  BY <1>2 DEF Next, TypeOK, ProcessPreKeyBundle, AbandonProcessing, Encrypt,
     ArchiveCurrentState, DecryptMessage, DecryptInSession, EstablishSession,
     AbandonEstablishing, ConsumePreKey
<1> QED
  BY <1>1, <1>2

\* OneTimeKeySpent holds at the start and every step keeps it: a state in a
\* record was there with fewer keys spent, or is new.
LEMMA OneTimeKeySpentStep ==
  OneTimeKeySpent /\ TypeOK /\ [Next]_vars => OneTimeKeySpent'
<1> SUFFICES ASSUME OneTimeKeySpent, TypeOK, [Next]_vars,
                    NEW p \in Party, NEW st \in States(session'[p]),
                    ~st.pending
             PROVE  st.hs.opk \notin preKeys'[p]
  BY Zenon DEF OneTimeKeySpent, Accepted
<1>1. CASE Kept(p, st)
  <2>1. PICK old \in States(session[p]) :
          st.hs = old.hs /\ st.pending = old.pending
    BY <1>1 DEF Kept
  <2>2. old.hs.opk \notin preKeys[p]
    BY <2>1 DEF OneTimeKeySpent, Accepted
  <2> QED
    BY <2>1, <2>2, StoresStep
<1>2. CASE NewState(p, st)
  BY <1>2 DEF NewState
<1> QED
  BY <1>1, <1>2, StatesStep

\* Every step keeps IdentityBeforeSession, by the same two cases.
LEMMA IdentityBeforeSessionStep ==
  IdentityBeforeSession /\ TypeOK /\ [Next]_vars => IdentityBeforeSession'
<1> SUFFICES ASSUME IdentityBeforeSession, TypeOK, [Next]_vars,
                    NEW p \in Party, NEW st \in States(session'[p])
             PROVE  p \in identities'
  BY DEF IdentityBeforeSession
<1>1. CASE Kept(p, st)
  BY <1>1, StoresStep DEF Kept, IdentityBeforeSession
<1>2. CASE NewState(p, st)
  BY <1>2 DEF NewState
<1> QED
  BY <1>1, <1>2, StatesStep

\* Every message stays on the network.
LEMMA NetworkStep ==
  ASSUME [Next]_vars PROVE network \subseteq network'
<1>1. CASE UNCHANGED vars
  BY <1>1 DEF vars
<1>2. CASE Next
  BY <1>2 DEF Next, ProcessPreKeyBundle, AbandonProcessing, Encrypt,
     ArchiveCurrentState, DecryptMessage, DecryptInSession, EstablishSession,
     AbandonEstablishing
<1> QED
  BY <1>1, <1>2

\* Every step keeps HandshakesAgree: the handshake of a new session is that of
\* the message it was set up from, and the message remains.
LEMMA HandshakesAgreeStep ==
  HandshakesAgree /\ TypeOK /\ [Next]_vars => HandshakesAgree'
<1> SUFFICES ASSUME HandshakesAgree, TypeOK, [Next]_vars,
                    NEW p \in Party, NEW st \in States(session'[p]),
                    ~st.pending
             PROVE  \E m \in network' : m.from = Peer(p) /\ m.key.secret.hs = st.hs
  BY Zenon DEF HandshakesAgree, Accepted
<1>1. CASE Kept(p, st)
  <2>1. PICK old \in States(session[p]) :
          st.hs = old.hs /\ st.pending = old.pending
    BY <1>1 DEF Kept
  <2>2. \E m \in network : m.from = Peer(p) /\ m.key.secret.hs = old.hs
    BY <2>1 DEF HandshakesAgree, Accepted
  <2> QED
    BY <2>1, <2>2, NetworkStep
<1>2. CASE NewState(p, st)
  BY <1>2, NetworkStep DEF NewState
<1> QED
  BY <1>1, <1>2, StatesStep

\* There is no state in any record at first.
LEMMA NoStatesAtFirst == Init => \A p \in Party : States(session[p]) = {}
BY DEF Init, NewRecord, States

\* decryptPreKeyMessage removes the one-time pre-key before it stores the
\* session that used it, whatever store call fails in between.
THEOREM OneTimeKeySpentCorrect == Spec => []OneTimeKeySpent
<1>1. Init => OneTimeKeySpent
  BY NoStatesAtFirst DEF OneTimeKeySpent, Accepted
<1> QED
  BY <1>1, TypeCorrect, OneTimeKeySpentStep, PTL DEF Spec

\* processPreKeyBundle and decryptPreKeyMessage save the peer's identity key
\* before they store a session with it.
THEOREM IdentityBeforeSessionCorrect == Spec => []IdentityBeforeSession
<1>1. Init => IdentityBeforeSession
  BY NoStatesAtFirst DEF IdentityBeforeSession
<1> QED
  BY <1>1, TypeCorrect, IdentityBeforeSessionStep, PTL DEF Spec

\* Not two sessions accepted with one one-time pre-key.
KeysApart(st, old) ==
    st.pending \/ old.pending \/ st.hs.opk # old.hs.opk \/ st.hs.opk = None

\* OneSessionPerOneTimeKey by the slots of the record.
SlotsApart ==
    \A p \in Party :
        /\ HasSession(p) =>
              \A i \in DOMAIN session[p].previous :
                  KeysApart(session[p].current, session[p].previous[i])
        /\ \A i, j \in DOMAIN session[p].previous :
              i # j => KeysApart(session[p].previous[i], session[p].previous[j])

\* The states archived from a record whose slots are apart are apart.
LEMMA ArchivedApart ==
  ASSUME TypeOK, SlotsApart, NEW p \in Party,
         NEW i \in DOMAIN Archived(session[p]),
         NEW j \in DOMAIN Archived(session[p]), i # j
  PROVE  KeysApart(Archived(session[p])[i], Archived(session[p])[j])
<1> DEFINE record == session[p]
           prev == record.previous
           cur == record.current
<1>1. record \in SessionRecord
  BY DEF TypeOK
<1>2. \A k, l \in DOMAIN prev : k # l => KeysApart(prev[k], prev[l])
  BY DEF SlotsApart
<1>3. CASE cur = None
  <2>1. /\ i \in DOMAIN prev /\ Archived(record)[i] = prev[i]
        /\ j \in DOMAIN prev /\ Archived(record)[j] = prev[j]
    BY <1>1, <1>3, ArchivedType
  <2> QED
    BY <1>2, <2>1
<1>4. CASE cur # None
  <2>1. cur \in SessionState
    BY <1>1, <1>4 DEF SessionRecord
  <2>2. Serialize(cur).hs = cur.hs /\ Serialize(cur).pending = cur.pending
    BY <2>1, SerializeType
  <2>3. \A k \in DOMAIN prev : KeysApart(cur, prev[k])
    BY <1>4 DEF SlotsApart, HasSession
  <2>4. \A k \in DOMAIN prev : /\ KeysApart(Serialize(cur), prev[k])
                               /\ KeysApart(prev[k], Serialize(cur))
    BY <2>2, <2>3 DEF KeysApart
  <2> DEFINE At1(k) == k = 1 /\ Archived(record)[k] = Serialize(cur)
             Later(k) == /\ k \in Nat /\ k > 1 /\ k - 1 \in DOMAIN prev
                         /\ Archived(record)[k] = prev[k - 1]
  <2>5. \A k \in DOMAIN Archived(record) : At1(k) \/ Later(k)
    BY <1>1, <1>4, ArchivedType
  <2>6. CASE At1(i) /\ Later(j)
    BY <2>4, <2>6
  <2>7. CASE Later(i) /\ At1(j)
    BY <2>4, <2>7
  <2>8. CASE Later(i) /\ Later(j)
    <3>1. i - 1 # j - 1
      BY <2>8
    <3> QED
      BY <1>2, <2>8, <3>1
  <2> QED
    BY <2>5, <2>6, <2>7, <2>8
<1> QED
  BY <1>3, <1>4

\* A state put in front of the archived ones is apart from them: it is of a
\* handshake of the party's own, or its one-time pre-key was still there.
LEMMA PromotedApart ==
  ASSUME TypeOK, OneTimeKeySpent, NEW p \in Party, NEW st,
         st.pending \/ st.hs.opk \in preKeys[p] \union {None},
         NEW i \in DOMAIN Archived(session[p])
  PROVE  KeysApart(st, Archived(session[p])[i])
<1> DEFINE a == Archived(session[p])[i]
<1>1. PICK old \in States(session[p]) : a.hs = old.hs /\ a.pending = old.pending
  BY ArchivedStates DEF Kept
<1>2. ~old.pending => old.hs.opk \notin preKeys[p]
  BY DEF OneTimeKeySpent, Accepted
<1> QED
  BY <1>1, <1>2 DEF KeysApart

\* Every step keeps the slots apart.
LEMMA SlotsApartStep ==
  SlotsApart /\ OneTimeKeySpent /\ TypeOK /\ [Next]_vars => SlotsApart'
<1> DEFINE Apart(record) ==
      /\ record.current # None =>
            \A i \in DOMAIN record.previous :
               KeysApart(record.current, record.previous[i])
      /\ \A i, j \in DOMAIN record.previous : i # j =>
            KeysApart(record.previous[i], record.previous[j])
<1> SUFFICES ASSUME SlotsApart, OneTimeKeySpent, TypeOK, [Next]_vars,
                    NEW p \in Party
             PROVE  Apart(session'[p])
  BY DEF SlotsApart, HasSession
<1>1. Apart(session[p])
  BY DEF SlotsApart, HasSession
<1>2. ASSUME HasSession(p), session'[p].previous = session[p].previous,
             session'[p].current.hs = session[p].current.hs,
             session'[p].current.pending = session[p].current.pending
      PROVE  Apart(session'[p])
  BY <1>1, <1>2 DEF KeysApart, HasSession
<1>3. ASSUME session'[p].previous = Archived(session[p]),
             \/ session'[p].current = None
             \/ session'[p].current.pending
             \/ session'[p].current.hs.opk \in preKeys[p] \union {None}
      PROVE  Apart(session'[p])
  <2>1. \A i, j \in DOMAIN session'[p].previous : i # j =>
            KeysApart(session'[p].previous[i], session'[p].previous[j])
    BY <1>3, ArchivedApart
  <2>2. session'[p].current # None =>
          \A i \in DOMAIN session'[p].previous :
             KeysApart(session'[p].current, session'[p].previous[i])
    BY <1>3, PromotedApart
  <2> QED
    BY <2>1, <2>2
<1>4. CASE session'[p] = session[p]
  BY <1>1, <1>4
<1>5. CASE ProcessPreKeyBundle(p)
  <2>1. /\ session'[p].previous = Archived(session[p])
        /\ session'[p].current.pending
    BY <1>5, BundleStep
  <2> QED
    BY <1>3, <2>1
<1>6. CASE Encrypt(p)
  <2>1. /\ HasSession(p)
        /\ session'[p].previous = session[p].previous
        /\ session'[p].current.hs = session[p].current.hs
        /\ session'[p].current.pending = session[p].current.pending
    BY <1>6, EncryptStep
  <2> QED
    BY <1>2, <2>1
<1>7. CASE ArchiveCurrentState(p)
  <2>1. /\ session'[p].previous = Archived(session[p])
        /\ session'[p].current = None
    BY <1>7, ArchiveStep
  <2> QED
    BY <1>3, <2>1
<1>8. ASSUME NEW m \in network, DecryptMessage(p, m) PROVE Apart(session'[p])
  <2>1. /\ HasSession(p)
        /\ session'[p].previous = session[p].previous
        /\ session'[p].current.hs = session[p].current.hs
        /\ session'[p].current.pending = session[p].current.pending
    BY <1>8, DecryptStep
  <2> QED
    BY <1>2, <2>1
<1>9. ASSUME NEW m \in network, EstablishSession(p, m)
      PROVE  Apart(session'[p])
  <2>1. /\ session'[p].previous = Archived(session[p])
        /\ session'[p].current.hs.opk = m.hs.opk
    BY <1>9, EstablishStep
  <2>2. m.hs.opk \in preKeys[p] \union {None}
    BY <1>9 DEF EstablishSession, Establishing
  <2> QED
    BY <1>3, <2>1, <2>2
<1> HIDE DEF Apart
<1> QED
  BY <1>4, <1>5, <1>6, <1>7, <1>8, <1>9, RecordStep

\* Slots that are apart hold at most one session per one-time pre-key.
LEMMA SlotsApartSuffices == TypeOK /\ SlotsApart => OneSessionPerOneTimeKey
<1> SUFFICES ASSUME TypeOK, SlotsApart, NEW p \in Party
             PROVE  LET all == <<session[p].current>> \o session[p].previous
                    IN  \A i, j \in DOMAIN all :
                            /\ {all[i], all[j]} \subseteq Accepted(p)
                            /\ all[i].hs.opk = all[j].hs.opk
                            /\ all[i].hs.opk # None
                            => i = j
  BY Zenon DEF OneSessionPerOneTimeKey
<1> DEFINE cur == session[p].current
           prev == session[p].previous
           all == <<cur>> \o prev
<1>1. /\ cur \in SessionState \union {None}
      /\ prev \in Seq(SessionState)
  BY DEF TypeOK, SessionRecord
<1>2. /\ cur # None => \A k \in DOMAIN prev : KeysApart(cur, prev[k])
      /\ \A k, l \in DOMAIN prev : k # l => KeysApart(prev[k], prev[l])
  BY DEF SlotsApart, HasSession
<1>3. \A st \in Accepted(p) : st # None /\ ~st.pending
  <2>1. \A k \in DOMAIN prev : prev[k] # None
    <3>1. \A k \in DOMAIN prev : prev[k] \in SessionState
      BY <1>1, LenProperties, ElementOfSeq
    <3> QED
      BY <3>1, StateAssumption
  <2> QED
    BY <2>1 DEF Accepted, States
<1> HIDE DEF cur, prev
<1>4. /\ Len(<<cur>>) = 1 /\ <<cur>>[1] = cur
      /\ <<cur>> \in Seq(SessionState \union {None})
      /\ prev \in Seq(SessionState \union {None})
      /\ Len(prev) \in Nat /\ DOMAIN prev = 1 .. Len(prev)
  BY <1>1, LenProperties, ElementOfSeq, SeqDef
<1>5. /\ all \in Seq(SessionState \union {None})
      /\ Len(all) = 1 + Len(prev)
      /\ \A i \in 1 .. Len(all) : all[i] = IF i <= 1 THEN <<cur>>[i] ELSE prev[i - 1]
  BY <1>4, ConcatProperties
<1>6. DOMAIN all = 1 .. 1 + Len(prev)
  BY <1>5, LenProperties
<1> HIDE DEF all
<1>7. \A i \in DOMAIN all :
        \/ i = 1 /\ all[i] = cur
        \/ /\ i \in Nat /\ i > 1 /\ i - 1 \in DOMAIN prev
           /\ all[i] = prev[i - 1]
  BY <1>4, <1>5, <1>6
<1>8. ASSUME NEW i \in DOMAIN all, NEW j \in DOMAIN all,
             all[i] \in Accepted(p), all[j] \in Accepted(p),
             all[i].hs.opk = all[j].hs.opk, all[i].hs.opk # None, i # j
      PROVE  FALSE
  <2>1. /\ ~all[i].pending /\ ~all[j].pending
        /\ all[i] # None /\ all[j] # None
    BY <1>3, <1>8
  <2>2. ~KeysApart(all[i], all[j]) /\ ~KeysApart(all[j], all[i])
    BY <1>8, <2>1 DEF KeysApart
  <2>3. CASE i = 1
    <3>1. all[i] = cur /\ j - 1 \in DOMAIN prev /\ all[j] = prev[j - 1]
      BY <1>7, <1>8, <2>3
    <3> QED
      BY <1>2, <2>1, <2>2, <3>1
  <2>4. CASE j = 1
    <3>1. all[j] = cur /\ i - 1 \in DOMAIN prev /\ all[i] = prev[i - 1]
      BY <1>7, <1>8, <2>4
    <3> QED
      BY <1>2, <2>1, <2>2, <3>1
  <2>5. CASE i # 1 /\ j # 1
    <3>1. /\ i \in Nat /\ i - 1 \in DOMAIN prev /\ all[i] = prev[i - 1]
          /\ j \in Nat /\ j - 1 \in DOMAIN prev /\ all[j] = prev[j - 1]
      BY <1>7, <2>5
    <3>2. i - 1 # j - 1
      BY <1>8, <3>1
    <3> QED
      BY <1>2, <2>2, <3>1, <3>2
  <2> QED
    BY <2>3, <2>4, <2>5
<1> QED
  BY <1>8 DEF all, cur, prev

\* One one-time pre-key sets up at most one session that a record keeps, as
\* current or archived state, whatever is replayed, archived or abandoned: it
\* is gone from the pre-key store before the session is stored.
THEOREM OneSessionPerOneTimeKeyCorrect == Spec => []OneSessionPerOneTimeKey
<1>1. Init => SlotsApart
  BY DEF Init, NewRecord, SlotsApart, HasSession
<1> QED
  BY <1>1, TypeCorrect, OneTimeKeySpentCorrect, SlotsApartStep,
     SlotsApartSuffices, PTL DEF Spec

\* A session that decryptPreKeyMessage stored belongs to a handshake, with or
\* without the Kyber secret, that the peer sealed a message under.
THEOREM HandshakesAgreeCorrect == Spec => []HandshakesAgree
<1>1. Init => HandshakesAgree
  BY NoStatesAtFirst DEF HandshakesAgree, Accepted
<1> QED
  BY <1>1, TypeCorrect, HandshakesAgreeStep, PTL DEF Spec

-----------------------------------------------------------------------------
(* No chain key seals two messages *)

\* The key pairs whose Diffie-Hellman outputs were mixed into a secret.
KeysOf(secret) == UNION {secret.dhs[i] : i \in DOMAIN secret.dhs}

\* The key pairs drawn so far, signed pre-keys included.
Drawn == 0 .. nextKey - 1

\* A new key pair has never been used: those of the current sessions and of
\* the messages sent, signed pre-keys included, were drawn before.
KeysDrawnBefore ==
    /\ nextKey >= 3
    /\ \A p \in Party : HasSession(p) =>
          /\ session[p].current.ratchet \in Drawn
          /\ KeysOf(session[p].current.root) \subseteq Drawn
          /\ KeysOf(session[p].current.chain.secret) \subseteq Drawn
    /\ \A m \in network : m.ratchet \in Drawn /\ KeysOf(m.key.secret) \subseteq Drawn

\* The stored sending chain lies ahead of all that was sealed with it.
ChainsAhead ==
    \A p \in Party : \A m \in network :
        HasSession(p) /\ m.key.secret = session[p].current.chain.secret
          => m.key.counter < session[p].current.chain.index

\* The two parties never seal with the same chain.
ChainsApart ==
    HasSession(Alice) /\ HasSession(Bob)
      => session[Alice].current.chain.secret # session[Bob].current.chain.secret

\* The inductive invariant of SealingKeysUnique.
SealingInv == KeysDrawnBefore /\ ChainsAhead /\ ChainsApart /\ SealingKeysUnique

\* A chain depends on the two key pairs of its last ratchet step and on all
\* those before them.
LEMMA CreateChainKeys ==
  ASSUME NEW root \in Secret, NEW their \in Nat, NEW our \in Nat
  PROVE  KeysOf(CreateChain(root, their, our)) = KeysOf(root) \union {their, our}
<1> DEFINE new == CreateChain(root, their, our)
<1>1. root.dhs \in Seq(SUBSET Nat) /\ {their, our} \in SUBSET Nat
  BY DEF Secret
<1>2. new.dhs = Append(root.dhs, {their, our})
  BY DEF CreateChain, Secret
<1> HIDE DEF new
<1>3. /\ Len(root.dhs) \in Nat /\ DOMAIN root.dhs = 1 .. Len(root.dhs)
      /\ DOMAIN new.dhs = 1 .. Len(root.dhs) + 1
      /\ \A i \in 1 .. Len(root.dhs) : new.dhs[i] = root.dhs[i]
      /\ new.dhs[Len(root.dhs) + 1] = {their, our}
  BY <1>1, <1>2, LenProperties, AppendProperties
<1>4. ASSUME NEW k \in KeysOf(new) PROVE k \in KeysOf(root) \union {their, our}
  <2>1. PICK i \in 1 .. Len(root.dhs) + 1 : k \in new.dhs[i]
    BY <1>3 DEF KeysOf
  <2>2. CASE i \in 1 .. Len(root.dhs)
    BY <1>3, <2>1, <2>2 DEF KeysOf
  <2>3. CASE i = Len(root.dhs) + 1
    BY <1>3, <2>1, <2>3
  <2> QED
    BY <1>3, <2>2, <2>3
<1>5. ASSUME NEW k \in KeysOf(root) PROVE k \in KeysOf(new)
  <2>1. PICK i \in 1 .. Len(root.dhs) : k \in root.dhs[i]
    BY <1>3 DEF KeysOf
  <2>2. i \in 1 .. Len(root.dhs) + 1
    BY <1>3
  <2> QED
    BY <1>3, <2>1, <2>2 DEF KeysOf
<1>6. {their, our} \subseteq KeysOf(new)
  <2>1. Len(root.dhs) + 1 \in DOMAIN new.dhs
    BY <1>3
  <2> QED
    BY <1>3, <2>1 DEF KeysOf
<1> QED
  BY <1>4, <1>5, <1>6 DEF new

\* Nothing was mixed into the secret of a handshake.
LEMMA InitialSecretKeys == \A hs : KeysOf(InitialSecret(hs)) = {}
BY DEF KeysOf, InitialSecret

\* There is no session and no message at first.
LEMMA InitSealing == Init => SealingInv
<1> SUFFICES ASSUME Init PROVE SealingInv
  OBVIOUS
<1>1. /\ \A p \in Party : ~HasSession(p)
      /\ network = {} /\ nextKey = 3
  BY DEF Init, NewRecord, HasSession
<1>2. KeysDrawnBefore
  BY <1>1 DEF KeysDrawnBefore
<1>3. ChainsAhead /\ ChainsApart /\ SealingKeysUnique
  BY <1>1 DEF ChainsAhead, ChainsApart, SealingKeysUnique, Party
<1> QED
  BY <1>2, <1>3 DEF SealingInv

\* Nothing that the invariant speaks of changes.
LEMMA UnmovedSealing ==
  ASSUME SealingInv, UNCHANGED <<session, nextKey, network>>
  PROVE  SealingInv'
BY DEF SealingInv, KeysDrawnBefore, ChainsAhead, ChainsApart,
       SealingKeysUnique, HasSession, Drawn

\* A party begins a sending chain with a key pair just drawn.
LEMMA NewChainSealing ==
  ASSUME TypeOK, SealingInv, NEW p \in Party,
         network' = network,
         nextKey' \in Nat, nextKey' > nextKey,
         \A q \in Party \ {p} : session'[q] = session[q],
         session'[p].current.ratchet \in Drawn',
         KeysOf(session'[p].current.root) \subseteq Drawn',
         session'[p].current.chain =
            [secret |-> session'[p].current.root, index |-> 0],
         NEW k \in KeysOf(session'[p].current.root), k \notin Drawn
  PROVE  SealingInv'
<1> DEFINE c == session'[p].current
<1>1. Drawn \subseteq Drawn'
  <2>1. nextKey \in Nat
    BY DEF TypeOK
  <2>2. \A a, b \in Nat : b > a => 0 .. a - 1 \subseteq 0 .. b - 1
    OBVIOUS
  <2>3. 0 .. nextKey - 1 \subseteq 0 .. nextKey' - 1
    BY <2>1, <2>2
  <2> QED
    BY <2>3 DEF Drawn
<1>2. c.chain.secret = c.root
  OBVIOUS
<1>3. \A q \in Party \ {p} : HasSession(q)' => HasSession(q)
  BY DEF HasSession
<1>4. \A m \in network : m.key.secret # c.chain.secret
  BY <1>2 DEF SealingInv, KeysDrawnBefore
<1>5. \A q \in Party \ {p} :
        HasSession(q) => session[q].current.chain.secret # c.chain.secret
  BY <1>2 DEF SealingInv, KeysDrawnBefore
<1>6. KeysDrawnBefore'
  BY <1>1, <1>2, <1>3 DEF SealingInv, KeysDrawnBefore, HasSession, TypeOK
<1>7. ChainsAhead'
  <2>1. \A q \in Party \ {p}, m \in network :
          HasSession(q) /\ m.key.secret = session[q].current.chain.secret
            => m.key.counter < session[q].current.chain.index
    BY DEF SealingInv, ChainsAhead
  <2> QED
    BY <1>3, <1>4, <2>1 DEF ChainsAhead
<1>8. ChainsApart'
  BY <1>3, <1>5, PartyAssumption DEF ChainsApart, Party
<1>9. SealingKeysUnique'
  BY DEF SealingInv, SealingKeysUnique
<1> QED
  BY <1>6, <1>7, <1>8, <1>9 DEF SealingInv

\* Every step keeps the invariant.
LEMMA NextSealing == TypeOK /\ SealingInv /\ [Next]_vars => SealingInv'
<1> SUFFICES ASSUME TypeOK, SealingInv, [Next]_vars PROVE SealingInv'
  OBVIOUS
<1>1. nextKey \in Nat /\ nextKey >= 3 /\ network \subseteq Message
  BY DEF TypeOK, SealingInv, KeysDrawnBefore
<1>2. ASSUME NEW p \in Party, ProcessPreKeyBundle(p) PROVE SealingInv'
  <2>1. PICK hs \in Handshake :
          LET send == CreateChain(InitialSecret(hs), hs.spk, nextKey + 1)
              c == session'[p].current
          IN  /\ hs.spk \in 1 .. 2
              /\ \A q \in Party \ {p} : session'[q] = session[q]
              /\ c.root = send /\ c.ratchet = nextKey + 1
              /\ c.chain = [secret |-> send, index |-> 0]
    BY <1>2, BundleStep, Zenon
  <2>2. network' = network /\ nextKey' = nextKey + 2
    BY <1>2 DEF ProcessPreKeyBundle
  <2>3. KeysOf(session'[p].current.root) = {hs.spk, nextKey + 1}
    BY <1>1, <2>1, InitialSecretType, InitialSecretKeys, CreateChainKeys
  <2>4. /\ {hs.spk, nextKey + 1} \subseteq Drawn'
        /\ nextKey + 1 \notin Drawn
        /\ nextKey' \in Nat /\ nextKey' > nextKey
    BY <1>1, <2>1, <2>2 DEF Drawn
  <2> QED
    BY <2>1, <2>2, <2>3, <2>4, NewChainSealing
<1>3. ASSUME NEW p \in Party, Encrypt(p) PROVE SealingInv'
  <2> DEFINE st == session[p].current
             c == session'[p].current
  <2>1. /\ HasSession(p)
        /\ st \in SessionState
        /\ c.root = st.root /\ c.ratchet = st.ratchet
        /\ c.chain.secret = st.chain.secret
        /\ c.chain.index = st.chain.index + 1
        /\ \A q \in Party \ {p} : session'[q] = session[q]
    BY <1>3, EncryptStep
  <2>2. PICK n \in Message :
          /\ network' = network \union {n}
          /\ n.ratchet = st.ratchet
          /\ n.key.secret = st.chain.secret
          /\ n.key.counter = st.chain.index
    BY <1>3, EncryptStep
  <2>3. nextKey' = nextKey
    BY <1>3 DEF Encrypt
  <2>4. st.chain.index \in Nat
    BY <2>1 DEF SessionState, ChainKey
  <2> HIDE DEF st, c
  <2>5. /\ st.ratchet \in Drawn /\ KeysOf(st.root) \subseteq Drawn
        /\ KeysOf(st.chain.secret) \subseteq Drawn
    BY <2>1 DEF SealingInv, KeysDrawnBefore, st
  <2>6. \A m \in network :
          m.key.secret = st.chain.secret => m.key.counter < st.chain.index
    BY <2>1 DEF SealingInv, ChainsAhead, st
  <2>7. \A q \in Party \ {p} : HasSession(q)' <=> HasSession(q)
    BY <2>1 DEF HasSession
  <2>8. \A q \in Party \ {p} : HasSession(q) =>
          session[q].current.chain.secret # st.chain.secret
    BY <2>1 DEF SealingInv, ChainsApart, Party, st
  <2>9. KeysDrawnBefore'
    BY <2>1, <2>2, <2>3, <2>5, <2>7 DEF SealingInv, KeysDrawnBefore, Drawn, c
  <2>10. ChainsAhead'
    <3>1. ASSUME NEW m \in network', m.key.secret = c.chain.secret
          PROVE  m.key.counter < c.chain.index
      <4>1. CASE m = n
        BY <2>1, <2>2, <2>4, <4>1
      <4>2. CASE m \in network
        <5>1. m.key.counter < st.chain.index /\ m.key.counter \in Nat
          BY <1>1, <2>1, <2>6, <3>1, <4>2 DEF Message, MessageKey
        <5> QED
          BY <2>1, <2>4, <5>1
      <4> QED
        BY <2>2, <4>1, <4>2
    <3>2. ASSUME NEW q \in Party \ {p}, NEW m \in network', HasSession(q),
                 m.key.secret = session[q].current.chain.secret
          PROVE  m.key.counter < session[q].current.chain.index
      <4>1. m # n
        BY <2>2, <2>8, <3>2
      <4> QED
        BY <2>2, <3>2, <4>1 DEF SealingInv, ChainsAhead
    <3> QED
      BY <2>1, <2>7, <3>1, <3>2 DEF ChainsAhead, c
  <2>11. ChainsApart'
    BY <2>1, <2>7, <2>8, PartyAssumption DEF ChainsApart, Party, c
  <2>12. SealingKeysUnique'
    <3>1. \A m \in network : ~(/\ m.key.secret = n.key.secret
                               /\ m.key.counter = n.key.counter)
      BY <2>2, <2>4, <2>6
    <3> QED
      BY <2>2, <3>1 DEF SealingInv, SealingKeysUnique
  <2> QED
    BY <2>9, <2>10, <2>11, <2>12 DEF SealingInv
<1>4. ASSUME NEW p \in Party, ArchiveCurrentState(p) PROVE SealingInv'
  <2>1. /\ ~HasSession(p)'
        /\ \A q \in Party \ {p} : session'[q] = session[q]
    BY <1>4, ArchiveStep DEF HasSession
  <2>2. network' = network /\ nextKey' = nextKey
    BY <1>4 DEF ArchiveCurrentState
  <2>3. \A q \in Party : HasSession(q)' => session'[q] = session[q] /\ HasSession(q)
    BY <2>1 DEF HasSession
  <2> QED
    BY <2>2, <2>3 DEF SealingInv, KeysDrawnBefore, ChainsAhead, ChainsApart,
       SealingKeysUnique, Drawn, Party
<1>5. ASSUME NEW p \in Party, NEW m \in network, DecryptMessage(p, m)
      PROVE  SealingInv'
  <2> DEFINE st == session[p].current
             c == session'[p].current
             recv == CreateChain(st.root, m.ratchet, st.ratchet)
             send == CreateChain(recv, m.ratchet, nextKey)
  <2>1. /\ HasSession(p)
        /\ \A q \in Party \ {p} : session'[q] = session[q]
        /\ st \in SessionState /\ c \in SessionState
        /\ \/ /\ nextKey' = nextKey
              /\ c.root = st.root /\ c.ratchet = st.ratchet
              /\ c.chain = st.chain
           \/ /\ nextKey' = nextKey + 1
              /\ c.root = send /\ c.ratchet = nextKey
              /\ c.chain = [secret |-> send, index |-> 0]
    BY <1>5, DecryptStep
  <2>2. network' = network
    BY <1>5 DEF DecryptMessage
  <2>3. /\ m.ratchet \in Drawn /\ st.ratchet \in Drawn
        /\ KeysOf(st.root) \subseteq Drawn
    BY <2>1 DEF SealingInv, KeysDrawnBefore
  <2>4. /\ m.ratchet \in Nat /\ st.ratchet \in Nat /\ st.root \in Secret
    BY <1>1, <2>1, MessageType DEF SessionState
  <2> HIDE DEF st, c
  <2>5. CASE nextKey' = nextKey /\ c.root = st.root /\ c.ratchet = st.ratchet
             /\ c.chain = st.chain
    <3>1. \A q \in Party : HasSession(q)' =>
            /\ HasSession(q)
            /\ session'[q].current.root = session[q].current.root
            /\ session'[q].current.ratchet = session[q].current.ratchet
            /\ session'[q].current.chain = session[q].current.chain
      BY <2>1, <2>5 DEF HasSession, st, c
    <3> QED
      BY <2>2, <2>5, <3>1 DEF SealingInv, KeysDrawnBefore, ChainsAhead,
         ChainsApart, SealingKeysUnique, Drawn, Party
  <2>6. CASE /\ nextKey' = nextKey + 1
             /\ c.root = send /\ c.ratchet = nextKey
             /\ c.chain = [secret |-> send, index |-> 0]
    <3>1. KeysOf(send) = KeysOf(st.root)
                           \union {m.ratchet, st.ratchet, nextKey}
      <4>1. nextKey \in Nat
        BY <1>1
      <4>2. recv \in Secret /\ KeysOf(recv) = KeysOf(st.root) \union {m.ratchet, st.ratchet}
        BY <2>4, CreateChainType, CreateChainKeys
      <4> HIDE DEF recv
      <4>3. KeysOf(send) = KeysOf(recv) \union {m.ratchet, nextKey}
        BY <2>4, <4>1, <4>2, CreateChainKeys
      <4> QED
        BY <4>2, <4>3
    <3>2. /\ Drawn \subseteq Drawn' /\ nextKey \in Drawn' /\ nextKey \notin Drawn
          /\ nextKey' \in Nat /\ nextKey' > nextKey
      BY <1>1, <2>6 DEF Drawn
    <3> HIDE DEF send
    <3>3. KeysOf(c.root) \subseteq Drawn' /\ nextKey \in KeysOf(c.root)
      BY <2>3, <2>6, <3>1, <3>2
    <3> QED
      BY <2>1, <2>2, <2>6, <3>2, <3>3, NewChainSealing DEF c
  <2> QED
    BY <2>1, <2>5, <2>6
<1>6. ASSUME NEW p \in Party, NEW m \in network, EstablishSession(p, m)
      PROVE  SealingInv'
  <2> DEFINE c == session'[p].current
             recv == CreateChain(InitialSecret(c.hs), m.ratchet, m.hs.spk)
             send == CreateChain(recv, m.ratchet, nextKey)
  <2>1. /\ \A q \in Party \ {p} : session'[q] = session[q]
        /\ c \in SessionState /\ m.hs.spk \in 1 .. 2
        /\ c.root = send /\ c.ratchet = nextKey
        /\ c.chain = [secret |-> send, index |-> 0]
    BY <1>6, EstablishStep
  <2>2. network' = network /\ nextKey' = nextKey + 1
    BY <1>6 DEF EstablishSession
  <2>3. m.ratchet \in Drawn /\ m.ratchet \in Nat /\ c.hs \in Handshake
    BY <1>1, <2>1, MessageType DEF SealingInv, KeysDrawnBefore, SessionState
  <2> HIDE DEF c
  <2>4. KeysOf(send) = {m.ratchet, m.hs.spk, nextKey}
    <3>1. InitialSecret(c.hs) \in Secret /\ KeysOf(InitialSecret(c.hs)) = {}
      BY <2>3, InitialSecretType, InitialSecretKeys
    <3>2. recv \in Secret /\ KeysOf(recv) = {m.ratchet, m.hs.spk}
      BY <2>1, <2>3, <3>1, CreateChainType, CreateChainKeys
    <3> HIDE DEF recv
    <3> QED
      BY <1>1, <2>3, <3>2, CreateChainKeys
  <2>5. /\ Drawn \subseteq Drawn' /\ nextKey \in Drawn' /\ nextKey \notin Drawn
        /\ nextKey' \in Nat /\ nextKey' > nextKey /\ m.hs.spk \in Drawn'
    BY <1>1, <2>1, <2>2 DEF Drawn
  <2> HIDE DEF send
  <2>6. KeysOf(c.root) \subseteq Drawn' /\ nextKey \in KeysOf(c.root)
    BY <2>1, <2>3, <2>4, <2>5
  <2> QED
    BY <2>1, <2>2, <2>5, <2>6, NewChainSealing DEF c
<1>7. ASSUME NEW p \in Party,
             \/ AbandonProcessing(p)
             \/ \E m \in network :
                   \/ DecryptInSession(p, m)
                   \/ \E steps \in 1 .. 3 : AbandonEstablishing(p, m, steps)
      PROVE  SealingInv'
  BY <1>7, UnmovedSealing
     DEF AbandonProcessing, DecryptInSession, AbandonEstablishing
<1>8. CASE UNCHANGED vars
  BY <1>8, UnmovedSealing DEF vars
<1> QED
  BY <1>2, <1>3, <1>4, <1>5, <1>6, <1>7, <1>8 DEF Next

\* No chain key seals two messages, for any number of sessions, ratchet steps,
\* replays, archivings and failures: encrypt stores the advanced chain first,
\* and every new sending chain depends on a key pair drawn for it.
THEOREM SealingKeysUniqueCorrect == Spec => []SealingKeysUnique
<1>1. SealingInv => SealingKeysUnique
  BY DEF SealingInv
<1> QED
  BY <1>1, InitSealing, NextSealing, TypeCorrect, PTL DEF Spec

=============================================================================
