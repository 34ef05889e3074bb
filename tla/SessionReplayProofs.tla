------------------------- MODULE SessionReplayProofs -------------------------
(***************************************************************************)
(* WhisperOpensOnce, for any constants of Session: once decryptMessage has *)
(* stored the record, no redelivery of the message opens, whatever         *)
(* sessions were set up, archived or replaced in between.                  *)
(***************************************************************************)
EXTENDS SessionProofs

\* The root is the handshake's and longer than all receiver chains, which were
\* begun at different ratchet steps.
ChainsOrdered(st) ==
    /\ st.root.hs = st.hs /\ st.chain.secret.hs = st.hs
    /\ \A i \in DOMAIN st.chains :
          /\ st.chains[i].secret.hs = st.hs
          /\ Len(st.chains[i].secret.dhs) < Len(st.root.dhs)
    /\ \A i, j \in DOMAIN st.chains :
          Len(st.chains[i].secret.dhs) = Len(st.chains[j].secret.dhs) => i = j

\* The caches of a stored state are empty.
NothingSkipped(st) == \A i \in DOMAIN st.chains : st.chains[i].skipped = {}

\* The state has moved past the key of the message: no later ratchet step
\* yields its chain, and a chain that is still there lies behind it.
Passed(st, m) ==
    /\ Len(m.key.secret.dhs) <= Len(st.root.dhs)
    /\ \A i \in DOMAIN st.chains :
          st.chains[i].secret = m.key.secret => m.counter < st.chains[i].index

-----------------------------------------------------------------------------
(* The operators *)

\* A ratchet step mixes one more output into the secret of a handshake.
LEMMA CreateChainLength ==
  ASSUME NEW root \in Secret, NEW their \in Nat, NEW our \in Nat
  PROVE  /\ CreateChain(root, their, our).hs = root.hs
         /\ Len(CreateChain(root, their, our).dhs) = Len(root.dhs) + 1
         /\ Len(root.dhs) \in Nat
<1>1. root.dhs \in Seq(SUBSET Nat) /\ {their, our} \in SUBSET Nat
  BY DEF Secret
<1>2. /\ CreateChain(root, their, our).hs = root.hs
      /\ CreateChain(root, their, our).dhs = Append(root.dhs, {their, our})
  BY DEF CreateChain, Secret
<1> QED
  BY <1>1, <1>2, LenProperties, AppendProperties

\* The receiver chains of a state are receiver chains.
LEMMA ChainsType ==
  ASSUME NEW st \in SessionState
  PROVE  /\ st.chains \in Seq(ReceiverChain)
         /\ Len(st.chains) \in Nat /\ DOMAIN st.chains = 1 .. Len(st.chains)
         /\ st.root \in Secret /\ Len(st.root.dhs) \in Nat
         /\ \A i \in DOMAIN st.chains :
              /\ st.chains[i] \in ReceiverChain
              /\ st.chains[i].secret \in Secret
              /\ Len(st.chains[i].secret.dhs) \in Nat
              /\ st.chains[i].index \in Nat
<1>1. st.chains \in Seq(ReceiverChain) /\ st.root \in Secret
  BY DEF SessionState
<1>2. \A s \in Secret : Len(s.dhs) \in Nat
  BY LenProperties DEF Secret
<1>3. \A rc \in ReceiverChain : rc.secret \in Secret /\ rc.index \in Nat
  BY DEF ReceiverChain
<1>4. /\ Len(st.chains) \in Nat /\ DOMAIN st.chains = 1 .. Len(st.chains)
      /\ \A i \in DOMAIN st.chains : st.chains[i] \in ReceiverChain
  BY <1>1, LenProperties, ElementOfSeq
<1> QED
  BY <1>1, <1>2, <1>3, <1>4

\* addReceiverChain puts the new chain last; the others keep their order, and
\* the oldest one may be gone.
LEMMA AddReceiverChainElements ==
  ASSUME NEW chains \in Seq(ReceiverChain), NEW their \in Nat,
         NEW secret \in Secret
  PROVE  LET new == [ratchet |-> their, secret |-> secret,
                     index |-> 0, skipped |-> {}]
             all == AddReceiverChain(chains, their, secret)
         IN  /\ Len(all) \in Nat \ {0} /\ DOMAIN all = 1 .. Len(all)
             /\ all[Len(all)] = new
             /\ \E d \in {0, 1} : \A i \in 1 .. Len(all) : i # Len(all) =>
                   i + d \in DOMAIN chains /\ all[i] = chains[i + d]
<1> DEFINE new == [ratchet |-> their, secret |-> secret,
                   index |-> 0, skipped |-> {}]
           long == Append(chains, new)
           all == AddReceiverChain(chains, their, secret)
<1>1. new \in ReceiverChain
  BY DEF ReceiverChain
<1>2. all = IF Len(long) > MaxReceiverChains THEN Tail(long) ELSE long
  BY DEF AddReceiverChain
<1> HIDE DEF new, all
<1>3. /\ long \in Seq(ReceiverChain) /\ Len(long) = Len(chains) + 1
      /\ \A i \in 1 .. Len(chains) : long[i] = chains[i]
      /\ long[Len(chains) + 1] = new
      /\ Len(chains) \in Nat /\ DOMAIN chains = 1 .. Len(chains)
  BY <1>1, AppendProperties, LenProperties
<1> HIDE DEF long
<1>4. CASE all = long
  <2>1. DOMAIN all = 1 .. Len(all) /\ Len(all) = Len(chains) + 1
    BY <1>3, <1>4, LenProperties
  <2>2. \A i \in 1 .. Len(all) : i # Len(all) =>
          i + 0 \in DOMAIN chains /\ all[i] = chains[i + 0]
    BY <1>3, <1>4, <2>1
  <2>3. all[Len(all)] = new /\ Len(all) \in Nat \ {0}
    BY <1>3, <1>4, <2>1
  <2> QED
    BY <2>1, <2>2, <2>3 DEF new, all
<1>5. CASE all = Tail(long) /\ Len(long) > MaxReceiverChains
  <2>1. Len(chains) \in Nat \ {0}
    BY <1>3, <1>5, LimitAssumption
  <2>2. /\ Tail(long) \in Seq(ReceiverChain)
        /\ Len(Tail(long)) = Len(long) - 1
        /\ \A i \in 1 .. Len(Tail(long)) : Tail(long)[i] = long[i + 1]
    <3>1. long # <<>>
      BY <1>3, <2>1
    <3> QED
      BY <1>3, <3>1, HeadTailProperties
  <2>3. DOMAIN all = 1 .. Len(all) /\ Len(all) = Len(chains)
    BY <1>3, <1>5, <2>2, LenProperties
  <2>4. \A i \in 1 .. Len(all) : i # Len(all) =>
          i + 1 \in DOMAIN chains /\ all[i] = chains[i + 1]
    BY <1>3, <1>5, <2>2, <2>3
  <2>5. all[Len(all)] = new
    BY <1>3, <1>5, <2>1, <2>2, <2>3
  <2> QED
    BY <2>1, <2>3, <2>4, <2>5 DEF new, all
<1> QED
  BY <1>2, <1>4, <1>5

\* Storing a state empties the caches and keeps the rest of each chain.
LEMMA SerializeChains ==
  ASSUME NEW st \in SessionState
  PROVE  /\ DOMAIN Serialize(st).chains = DOMAIN st.chains
         /\ \A i \in DOMAIN st.chains :
              /\ Serialize(st).chains[i].ratchet = st.chains[i].ratchet
              /\ Serialize(st).chains[i].secret = st.chains[i].secret
              /\ Serialize(st).chains[i].index = st.chains[i].index
              /\ Serialize(st).chains[i].skipped = {}
<1> DEFINE cs == [i \in DOMAIN st.chains |->
                     [st.chains[i] EXCEPT !.skipped = {}]]
<1>1. Serialize(st).chains = cs
  BY DEF Serialize, SessionState
<1>2. \A rc \in ReceiverChain :
        /\ [rc EXCEPT !.skipped = {}].ratchet = rc.ratchet
        /\ [rc EXCEPT !.skipped = {}].secret = rc.secret
        /\ [rc EXCEPT !.skipped = {}].index = rc.index
        /\ [rc EXCEPT !.skipped = {}].skipped = {}
  BY DEF ReceiverChain
<1>3. \A i \in DOMAIN st.chains : st.chains[i] \in ReceiverChain
  BY ChainsType
<1> QED
  BY <1>1, <1>2, <1>3

\* Storing a state keeps the order of its chains and what it has passed.
LEMMA SerializeOrdered ==
  ASSUME NEW st \in SessionState
  PROVE  /\ NothingSkipped(Serialize(st))
         /\ ChainsOrdered(st) => ChainsOrdered(Serialize(st))
         /\ \A m : Passed(st, m) => Passed(Serialize(st), m)
<1> DEFINE s == Serialize(st)
<1>1. s.hs = st.hs /\ s.root = st.root /\ s.chain = st.chain
  BY SerializeType
<1>2. /\ DOMAIN s.chains = DOMAIN st.chains
      /\ \A i \in DOMAIN st.chains :
           /\ s.chains[i].secret = st.chains[i].secret
           /\ s.chains[i].index = st.chains[i].index
           /\ s.chains[i].skipped = {}
  BY SerializeChains
<1> HIDE DEF s
<1>3. NothingSkipped(s)
  BY <1>2 DEF NothingSkipped
<1>4. ChainsOrdered(st) => ChainsOrdered(s)
  BY <1>1, <1>2 DEF ChainsOrdered
<1>5. \A m : Passed(st, m) => Passed(s, m)
  BY <1>1, <1>2 DEF Passed
<1> QED
  BY <1>3, <1>4, <1>5 DEF s

\* Sealing a message does not touch the receiving side.
LEMMA SealingOrdered ==
  ASSUME NEW st \in SessionState
  PROVE  /\ AfterSealing(st).chains = st.chains
         /\ ChainsOrdered(st) => ChainsOrdered(AfterSealing(st))
         /\ \A m : Passed(st, m) => Passed(AfterSealing(st), m)
<1>1. AfterSealing(st).chains = st.chains
  BY DEF AfterSealing, SessionState
<1>2. /\ AfterSealing(st).hs = st.hs /\ AfterSealing(st).root = st.root
      /\ AfterSealing(st).chain.secret = st.chain.secret
  <2>1. Alice \in Party /\ 0 \in Nat
    BY DEF Party
  <2> QED
    BY <2>1, SealingType
<1> QED
  BY <1>1, <1>2 DEF ChainsOrdered, Passed

\* Where decryptWhisperMessage looks for the key: in a chain that was there, or
\* in the one that a ratchet step has just begun, one output longer than the
\* root was. Nothing is in a cache, and what was passed stays passed.
LEMMA ReceivingOrdered ==
  ASSUME NEW st \in SessionState, NEW m \in Message, NEW fresh \in Nat,
         ChainsOrdered(st), NothingSkipped(st)
  PROVE  LET r == Receiving(st, m, fresh)
             i == FindReceiverChain(r, m.ratchet)
         IN  /\ r \in SessionState /\ ChainsOrdered(r) /\ NothingSkipped(r)
             /\ i \in DOMAIN r.chains
             /\ \/ r.chains = st.chains
                \/ Len(r.chains[i].secret.dhs) = Len(st.root.dhs) + 1
             /\ \A n \in Message : Passed(st, n) => Passed(r, n)
<1> DEFINE pq == PqReceived(st, m)
           r == Receiving(st, m, fresh)
           i == FindReceiverChain(r, m.ratchet)
<1>1. /\ pq \in SessionState
      /\ pq.hs = st.hs /\ pq.root = st.root /\ pq.ratchet = st.ratchet
      /\ pq.chain = st.chain /\ pq.chains = st.chains
  BY PqReceivedType
<1>2. m.ratchet \in Nat
  BY MessageType
<1>3. r \in SessionState /\ r.hs = st.hs
  BY ReceivingType
<1>4. CASE HasChain(st, m.ratchet)
  <2>1. r = pq
    BY <1>4 DEF Receiving
  <2> HIDE DEF r, pq
  <2>2. /\ r.root = st.root /\ r.chain = st.chain
        /\ r.chains = st.chains
    BY <1>1, <2>1
  <2>3. ChainsOrdered(r) /\ NothingSkipped(r)
    BY <1>3, <2>2 DEF ChainsOrdered, NothingSkipped
  <2>4. i \in DOMAIN r.chains
    BY <1>4, <2>2 DEF FindReceiverChain, HasChain, ChainsFor
  <2>5. \A n \in Message : Passed(st, n) => Passed(r, n)
    BY <2>2 DEF Passed
  <2> QED
    BY <1>3, <2>2, <2>3, <2>4, <2>5 DEF r
<1>5. CASE ~HasChain(st, m.ratchet)
  <2> DEFINE recv == CreateChain(st.root, m.ratchet, st.ratchet)
             send == CreateChain(recv, m.ratchet, fresh)
             new == [ratchet |-> m.ratchet, secret |-> recv,
                     index |-> 0, skipped |-> {}]
             n == Len(r.chains)
  <2>1. r = DhRatchet(pq, m.ratchet, fresh)
    BY <1>5 DEF Receiving
  <2> HIDE DEF r, pq
  <2>2. /\ r.root = send
        /\ r.chain = [secret |-> send, index |-> 0]
        /\ r.chains = AddReceiverChain(st.chains, m.ratchet, recv)
    BY <1>1, <1>2, <2>1, DhRatchetType
  <2>3. /\ st.root \in Secret /\ st.ratchet \in Nat /\ Len(st.root.dhs) \in Nat
        /\ st.chains \in Seq(ReceiverChain) /\ st.root.hs = st.hs
    BY ChainsType DEF SessionState, ChainsOrdered
  <2>4. /\ recv \in Secret /\ recv.hs = st.hs
        /\ Len(recv.dhs) = Len(st.root.dhs) + 1
    <3>1. recv \in Secret
      BY <1>2, <2>3, CreateChainType
    <3>2. recv.hs = st.root.hs /\ Len(recv.dhs) = Len(st.root.dhs) + 1
      BY <1>2, <2>3, CreateChainLength
    <3> QED
      BY <2>3, <3>1, <3>2
  <2>5. /\ send \in Secret /\ send.hs = st.hs
        /\ Len(send.dhs) = Len(st.root.dhs) + 2
    <3> HIDE DEF recv
    <3>1. send \in Secret /\ send.hs = recv.hs
          /\ Len(send.dhs) = Len(recv.dhs) + 1
      BY <1>2, <2>4, CreateChainType, CreateChainLength
    <3> QED
      BY <2>3, <2>4, <3>1
  <2> HIDE DEF recv, send
  <2>6. /\ n \in Nat \ {0} /\ DOMAIN r.chains = 1 .. n /\ r.chains[n] = new
        /\ \E d \in {0, 1} : \A k \in 1 .. n : k # n =>
              k + d \in DOMAIN st.chains /\ r.chains[k] = st.chains[k + d]
    <3>1. /\ r.chains = AddReceiverChain(st.chains, m.ratchet, recv)
          /\ st.chains \in Seq(ReceiverChain) /\ recv \in Secret
      BY <2>2, <2>3, <2>4
    <3> HIDE DEF new
    <3>2. /\ Len(r.chains) \in Nat \ {0} /\ DOMAIN r.chains = 1 .. Len(r.chains)
          /\ r.chains[Len(r.chains)] = new
      BY <1>2, <3>1, AddReceiverChainElements DEF new
    <3> DEFINE all == AddReceiverChain(st.chains, m.ratchet, recv)
    <3>3. \E d \in {0, 1} : \A k \in 1 .. Len(all) : k # Len(all) =>
              k + d \in DOMAIN st.chains /\ all[k] = st.chains[k + d]
      BY <1>2, <3>1, AddReceiverChainElements, Zenon
    <3>4. r.chains = all
      BY <3>1
    <3> HIDE DEF all
    <3> QED
      BY <3>2, <3>3, <3>4
  <2>7. PICK d \in {0, 1} : \A k \in 1 .. n : k # n =>
            k + d \in DOMAIN st.chains /\ r.chains[k] = st.chains[k + d]
    BY <2>6
  <2>8. /\ new.ratchet = m.ratchet /\ new.secret = recv /\ new.skipped = {}
    OBVIOUS
  <2> HIDE DEF n, new
  <2>9. \A k \in DOMAIN st.chains :
          /\ st.chains[k].secret.hs = st.hs
          /\ Len(st.chains[k].secret.dhs) < Len(st.root.dhs)
          /\ Len(st.chains[k].secret.dhs) \in Nat
          /\ st.chains[k].skipped = {}
          /\ st.chains[k].ratchet # m.ratchet
    BY <1>5, ChainsType
       DEF ChainsOrdered, NothingSkipped, HasChain, ChainsFor
  <2>10. ChainsOrdered(r)
    <3>1. r.root.hs = r.hs /\ r.chain.secret.hs = r.hs
      BY <1>3, <2>2, <2>5
    <3>2. ASSUME NEW k \in DOMAIN r.chains
          PROVE  /\ r.chains[k].secret.hs = r.hs
                 /\ Len(r.chains[k].secret.dhs) < Len(r.root.dhs)
      <4>1. CASE k = n
        BY <1>3, <2>2, <2>3, <2>4, <2>5, <2>6, <2>8, <4>1
      <4>2. CASE k # n
        <5>1. k + d \in DOMAIN st.chains /\ r.chains[k] = st.chains[k + d]
          BY <2>6, <2>7, <4>2
        <5>2. /\ r.chains[k].secret.hs = st.hs
              /\ Len(r.chains[k].secret.dhs) < Len(st.root.dhs)
              /\ Len(r.chains[k].secret.dhs) \in Nat
          BY <2>9, <5>1
        <5> QED
          BY <1>3, <2>2, <2>3, <2>5, <5>2
      <4> QED
        BY <4>1, <4>2
    <3>3. ASSUME NEW k \in DOMAIN r.chains, NEW l \in DOMAIN r.chains,
                 Len(r.chains[k].secret.dhs) = Len(r.chains[l].secret.dhs)
          PROVE  k = l
      <4>1. ASSUME NEW j \in DOMAIN r.chains, j # n
            PROVE  Len(r.chains[j].secret.dhs) # Len(r.chains[n].secret.dhs)
        <5>1. j + d \in DOMAIN st.chains /\ r.chains[j] = st.chains[j + d]
          BY <2>6, <2>7, <4>1
        <5>2. /\ Len(r.chains[j].secret.dhs) < Len(st.root.dhs)
              /\ Len(r.chains[j].secret.dhs) \in Nat
          BY <2>9, <5>1
        <5> QED
          BY <2>3, <2>4, <2>6, <2>8, <5>2
      <4>2. CASE k = n \/ l = n
        BY <2>6, <3>3, <4>1, <4>2
      <4>3. CASE k # n /\ l # n
        <5>1. /\ k + d \in DOMAIN st.chains /\ r.chains[k] = st.chains[k + d]
              /\ l + d \in DOMAIN st.chains /\ r.chains[l] = st.chains[l + d]
          BY <2>6, <2>7, <4>3
        <5>2. k + d = l + d
          BY <3>3, <5>1 DEF ChainsOrdered
        <5>3. k \in Int /\ l \in Int /\ d \in Int
          BY <2>6
        <5>4. \A a, b, c \in Int : a + c = b + c => a = b
          OBVIOUS
        <5> QED
          BY <5>2, <5>3, <5>4
      <4> QED
        BY <4>2, <4>3
    <3> QED
      BY <3>1, <3>2, <3>3 DEF ChainsOrdered
  <2>11. NothingSkipped(r)
    BY <2>6, <2>7, <2>8, <2>9 DEF NothingSkipped
  <2>12. i = n
    <3>1. \A k \in DOMAIN r.chains : r.chains[k].ratchet = m.ratchet <=> k = n
      BY <2>6, <2>7, <2>8, <2>9
    <3>2. ChainsFor(r, m.ratchet) = {n}
      BY <2>6, <3>1 DEF ChainsFor
    <3> QED
      BY <3>2 DEF FindReceiverChain
  <2>13. ASSUME NEW msg \in Message, Passed(st, msg) PROVE Passed(r, msg)
    <3>1. /\ Len(msg.key.secret.dhs) <= Len(st.root.dhs)
          /\ Len(msg.key.secret.dhs) \in Nat
      BY <2>13, LenProperties DEF Passed, Message, MessageKey, Secret
    <3>2. recv # msg.key.secret
      BY <2>3, <2>4, <3>1
    <3>4. Len(msg.key.secret.dhs) <= Len(r.root.dhs)
      BY <2>2, <2>3, <2>5, <3>1
    <3>3. ASSUME NEW k \in DOMAIN r.chains,
                 r.chains[k].secret = msg.key.secret
          PROVE  msg.counter < r.chains[k].index
      <4>1. k # n
        BY <2>6, <2>8, <3>2, <3>3
      <4>2. k + d \in DOMAIN st.chains /\ r.chains[k] = st.chains[k + d]
        BY <2>6, <2>7, <4>1
      <4> QED
        BY <2>13, <3>3, <4>2 DEF Passed
    <3> QED
      BY <3>3, <3>4 DEF Passed
  <2> QED
    BY <1>3, <2>4, <2>6, <2>8, <2>10, <2>11, <2>12, <2>13 DEF r
<1> QED
  BY <1>4, <1>5

\* A message that opens was not passed before and is passed afterwards, with
\* all that was passed before.
LEMMA OpeningPasses ==
  ASSUME NEW st \in SessionState, NEW m \in Message, NEW fresh \in Nat,
         ChainsOrdered(st), NothingSkipped(st), Opens(st, m, fresh)
  PROVE  LET a == AfterOpen(st, m, fresh)
         IN  /\ ~Passed(st, m) /\ m.key.secret.hs = st.hs
             /\ a \in SessionState /\ ChainsOrdered(a) /\ Passed(a, m)
             /\ \A n \in Message : Passed(st, n) => Passed(a, n)
<1> DEFINE r == Receiving(st, m, fresh)
           i == FindReceiverChain(r, m.ratchet)
           rc == r.chains[i]
           a == AfterOpen(st, m, fresh)
           adv == Advanced(rc, m.counter)
<1>1. /\ r \in SessionState /\ ChainsOrdered(r) /\ NothingSkipped(r)
      /\ i \in DOMAIN r.chains
      /\ \/ r.chains = st.chains
         \/ Len(rc.secret.dhs) = Len(st.root.dhs) + 1
      /\ \A n \in Message : Passed(st, n) => Passed(r, n)
  BY ReceivingOrdered
<1>2. /\ a \in SessionState /\ a.hs = st.hs
      /\ a.root = r.root /\ a.chain = r.chain
  BY AfterOpenType
<1>3. r.hs = st.hs /\ st.root \in Secret /\ Len(st.root.dhs) \in Nat
  BY ReceivingType, ChainsType
<1>4. Derivable(rc, m.counter) /\ DerivedKey(rc, m.counter, PqKey(st, m)) = m.key
  BY DEF Opens
<1>5. a = [r EXCEPT !.chains[i] = adv]
  BY DEF AfterOpen
<1> HIDE DEF r, i, rc, a, adv
<1>6. /\ rc \in ReceiverChain /\ rc.index \in Nat /\ rc.skipped = {}
      /\ m.counter \in Nat
  <2>1. rc = r.chains[i]
    BY DEF rc
  <2>2. rc \in ReceiverChain /\ rc.index \in Nat
    BY <1>1, <2>1, ChainsType
  <2>3. rc.skipped = {}
    BY <1>1, <2>1 DEF NothingSkipped
  <2> QED
    BY <2>2, <2>3, MessageType
<1>7. rc.index <= m.counter
  BY <1>4, <1>6 DEF Derivable
<1>8. rc.secret = m.key.secret
  BY <1>4 DEF DerivedKey, MessageKeys
<1>9. adv.secret = rc.secret /\ adv.index = m.counter + 1
  BY <1>6 DEF adv, Advanced, ReceiverChain
<1>10. /\ DOMAIN a.chains = DOMAIN r.chains /\ a.chains[i] = adv
       /\ \A k \in DOMAIN r.chains : k # i => a.chains[k] = r.chains[k]
  BY <1>1, <1>5 DEF SessionState
<1>11. \A k \in DOMAIN r.chains : a.chains[k].secret = r.chains[k].secret
  BY <1>9, <1>10 DEF rc
<1>12. ~Passed(st, m)
  <2>1. CASE r.chains = st.chains
    BY <1>1, <1>6, <1>7, <1>8, <2>1 DEF Passed, rc
  <2>2. CASE Len(rc.secret.dhs) = Len(st.root.dhs) + 1
    BY <1>3, <1>8, <2>2 DEF Passed
  <2> QED
    BY <1>1, <2>1, <2>2
<1>13. ChainsOrdered(a)
  <2>1. a.root.hs = a.hs /\ a.chain.secret.hs = a.hs
    BY <1>1, <1>2, <1>3 DEF ChainsOrdered
  <2>2. \A k \in DOMAIN a.chains :
          /\ a.chains[k].secret.hs = a.hs
          /\ Len(a.chains[k].secret.dhs) < Len(a.root.dhs)
    BY <1>1, <1>2, <1>3, <1>10, <1>11 DEF ChainsOrdered
  <2>3. \A k, l \in DOMAIN a.chains :
          Len(a.chains[k].secret.dhs) = Len(a.chains[l].secret.dhs) => k = l
    BY <1>1, <1>10, <1>11 DEF ChainsOrdered
  <2> QED
    BY <2>1, <2>2, <2>3 DEF ChainsOrdered
<1>14. Passed(a, m)
  <2>1. Len(rc.secret.dhs) < Len(r.root.dhs)
    BY <1>1 DEF ChainsOrdered, rc
  <2>2. Len(rc.secret.dhs) \in Nat /\ Len(r.root.dhs) \in Nat
    BY <1>1, ChainsType DEF rc
  <2>3. Len(m.key.secret.dhs) <= Len(a.root.dhs)
    BY <1>2, <1>8, <2>1, <2>2
  <2>4. ASSUME NEW k \in DOMAIN a.chains, a.chains[k].secret = m.key.secret
        PROVE  m.counter < a.chains[k].index
    <3>1. r.chains[k].secret = r.chains[i].secret /\ k \in DOMAIN r.chains
      BY <1>8, <1>10, <1>11, <2>4 DEF rc
    <3>2. k = i
      BY <1>1, <3>1 DEF ChainsOrdered
    <3> QED
      BY <1>6, <1>9, <1>10, <3>2
  <2> QED
    BY <2>3, <2>4 DEF Passed
<1>15. ASSUME NEW n \in Message, Passed(st, n) PROVE Passed(a, n)
  <2>1. Passed(r, n) /\ n.counter \in Nat
    BY <1>1, <1>15, MessageType
  <2>2. ASSUME NEW k \in DOMAIN a.chains, a.chains[k].secret = n.key.secret
        PROVE  n.counter < a.chains[k].index
    <3>1. n.counter < r.chains[k].index
      BY <1>10, <1>11, <2>1, <2>2 DEF Passed
    <3>2. CASE k = i
      BY <1>6, <1>7, <1>9, <1>10, <2>1, <3>1, <3>2 DEF rc
    <3>3. CASE k # i
      BY <1>10, <2>2, <3>1, <3>3
    <3> QED
      BY <3>2, <3>3
  <2> QED
    BY <1>2, <2>1, <2>2 DEF Passed
<1>16. m.key.secret.hs = st.hs
  BY <1>1, <1>3, <1>8 DEF ChainsOrdered, rc
<1> QED
  BY <1>2, <1>12, <1>13, <1>14, <1>15, <1>16 DEF a

\* The state processPreKeyBundle builds is in order.
LEMMA InitiatorOrdered ==
  ASSUME NEW hs \in Handshake, NEW ratchet \in Nat
  PROVE  ChainsOrdered(InitiatorState(hs, ratchet))
<1> DEFINE st == InitiatorState(hs, ratchet)
           first == InitialSecret(hs)
           send == CreateChain(first, hs.spk, ratchet)
           new == [ratchet |-> hs.spk, secret |-> first, index |-> 0, skipped |-> {}]
<1>1. /\ hs.spk \in Nat /\ first \in Secret /\ first.hs = hs
      /\ Len(first.dhs) = 0
  BY InitialSecretType DEF Handshake, InitialSecret
<1>2. st.hs = hs /\ st.root = send /\ st.chain.secret = send
  <2>1. /\ st.hs = hs /\ st.root = send
        /\ st.chain = [secret |-> send, index |-> 0]
    BY InitiatorStateType
  <2> HIDE DEF st, send
  <2> QED
    BY <2>1
<1>3. st.chains = AddReceiverChain(<<>>, hs.spk, first)
  BY DEF InitiatorState
<1> HIDE DEF st, first
<1>4. send.hs = hs /\ Len(send.dhs) = 1
  <2>1. send.hs = first.hs /\ Len(send.dhs) = Len(first.dhs) + 1
    BY <1>1, CreateChainLength
  <2> QED
    BY <1>1, <2>1
<1>5. st.chains = <<new>>
  BY <1>3, FirstChain
<1>6. new.secret = first
  OBVIOUS
<1> HIDE DEF send, new
<1>7. \A i \in DOMAIN st.chains : st.chains[i].secret = first
  BY <1>5, <1>6
<1>8. \A i, j \in DOMAIN st.chains : i = j
  BY <1>5
<1> QED
  BY <1>1, <1>2, <1>4, <1>7, <1>8 DEF ChainsOrdered, st

\* So is the state decryptPreKeyMessage builds.
LEMMA ResponderOrdered ==
  ASSUME NEW p \in Party, NEW m \in Message
  PROVE  LET st == ResponderState(p, m)
         IN  st \in SessionState /\ ChainsOrdered(st) /\ NothingSkipped(st)
<1> DEFINE st == ResponderState(p, m)
<1>1. /\ st \in SessionState /\ st.root = InitialSecret(st.hs)
      /\ st.chains = <<>>
  BY ResponderStateType
<1>2. st.chain.secret = InitialSecret(st.hs)
  BY DEF ResponderState
<1> HIDE DEF st
<1> QED
  BY <1>1, <1>2 DEF ChainsOrdered, NothingSkipped, InitialSecret, st

-----------------------------------------------------------------------------
(* The inductive invariant *)

\* Every plaintext is sealed once; the histories hold texts of the past.
TextsUnique ==
    /\ \A m \in network : m.text < sent
    /\ \A m, n \in network : m.text = n.text => m = n
    /\ \A p \in Party : \A t \in opened[p] \union reopened[p] : t < sent

\* A new handshake is none of those before.
HandshakesDrawn ==
    /\ \A m \in network : m.key.secret.hs.base < nextKey
    /\ \A p \in Party :
          HasSession(p) => session[p].current.hs.base < nextKey

\* Only the party whose pre-keys the handshake used seals whisper messages.
WhispersFromResponder ==
    /\ \A p \in Party :
          HasSession(p) /\ ~session[p].current.pending
            => session[p].current.hs.spk = SignedPreKey(p)
    /\ \A m \in network :
          m.kind = "whisper" => m.key.secret.hs.spk = SignedPreKey(m.from)

CurrentOrdered ==
    \A p \in Party :
        HasSession(p) => /\ ChainsOrdered(session[p].current)
                         /\ NothingSkipped(session[p].current)

\* A party that is still on the session of a whisper message it has opened
\* has moved past it.
OpenedPassed ==
    \A p \in Party : \A m \in network :
        /\ m.from = Peer(p) /\ m.kind = "whisper" /\ m.text \in opened[p]
        /\ HasSession(p) /\ session[p].current.hs = m.key.secret.hs
        => Passed(session[p].current, m)

\* The inductive invariant of WhisperOpensOnce.
ReplayInv ==
    /\ TextsUnique /\ HandshakesDrawn /\ WhispersFromResponder
    /\ CurrentOrdered /\ OpenedPassed /\ WhisperOpensOnce

\* There is no session, no message and no history at first.
LEMMA InitReplay == Init => ReplayInv
<1> SUFFICES ASSUME Init PROVE ReplayInv
  OBVIOUS
<1>1. /\ network = {} /\ \A p \in Party : ~HasSession(p)
      /\ \A p \in Party : opened[p] = {} /\ reopened[p] = {}
  BY DEF Init, NewRecord, HasSession
<1> QED
  BY <1>1 DEF ReplayInv, TextsUnique, HandshakesDrawn, WhispersFromResponder,
     CurrentOrdered, OpenedPassed, WhisperOpensOnce

-----------------------------------------------------------------------------
(* What a step does to the current states, the network and the histories *)

\* encrypt stores the state with its chain advanced.
Sealing(p) ==
    /\ Encrypt(p) /\ HasSession(p) /\ session[p].current \in SessionState
    /\ session'[p].current = Serialize(AfterSealing(session[p].current))

\* decryptMessage stores the state that has opened the message.
Opening(p, m) ==
    /\ m \in Message /\ m.from = Peer(p) /\ m.kind = "whisper"
    /\ HasSession(p) /\ session[p].current \in SessionState
    /\ Opens(session[p].current, m, nextKey)
    /\ session'[p].current = Serialize(AfterOpen(session[p].current, m, nextKey))

\* processPreKeyBundle stores a state with a base key just drawn.
Initiating(p) ==
    \E hs \in Handshake :
        /\ hs.base = nextKey /\ nextKey' = nextKey + 2
        /\ hs.spk = SignedPreKey(Peer(p))
        /\ session'[p].current = Serialize(InitiatorState(hs, nextKey + 1))

\* decryptPreKeyMessage stores the new state that has opened the message.
Responding(p, m) ==
    /\ m \in Message /\ m.kind = "pre_key"
    /\ m.hs.spk = SignedPreKey(p) /\ m.hs.opk \in preKeys[p] \union {None}
    /\ Opens(ResponderState(p, m), m, nextKey)
    /\ session'[p].current =
          Serialize(AfterOpen(ResponderState(p, m), m, nextKey))

\* The current state of a party after a step.
LEMMA CurrentStep ==
  ASSUME TypeOK, [Next]_vars, NEW p \in Party, HasSession(p)'
  PROVE  \/ session'[p] = session[p]
         \/ Sealing(p) \/ Initiating(p)
         \/ \E m \in network : Opening(p, m)
         \/ \E m \in network : Responding(p, m)
<1>1. CASE ProcessPreKeyBundle(p)
  <2>1. PICK b \in Bundles :
          session' = [session EXCEPT ![p] = PromoteState(@, InitiatorState(
              [base |-> nextKey, spk |-> SignedPreKey(Peer(p)),
               opk |-> b.opk, kem |-> b.kem], nextKey + 1))]
    BY <1>1 DEF ProcessPreKeyBundle
  <2> DEFINE hs == [base |-> nextKey, spk |-> SignedPreKey(Peer(p)),
                    opk |-> b.opk, kem |-> b.kem]
  <2>2. /\ hs \in Handshake /\ hs.base = nextKey
        /\ hs.spk = SignedPreKey(Peer(p))
    BY KeyAssumption, SignedPreKeyType, PeerType
       DEF TypeOK, Handshake, Bundle
  <2> HIDE DEF hs
  <2>3. session'[p].current = Serialize(InitiatorState(hs, nextKey + 1))
    BY <2>1 DEF hs, PromoteState, TypeOK
  <2>4. nextKey' = nextKey + 2
    BY <1>1 DEF ProcessPreKeyBundle
  <2> QED
    BY <2>2, <2>3, <2>4 DEF Initiating
<1>2. CASE Encrypt(p)
  <2>1. HasSession(p) /\ session[p].current \in SessionState
    BY <1>2, CurrentType DEF Encrypt
  <2>2. StoreCurrent(p, AfterSealing(session[p].current))
    BY <1>2 DEF Encrypt
  <2>3. AfterSealing(session[p].current) \in SessionState
    <3>1. 0 \in Nat
      OBVIOUS
    <3> QED
      BY <2>1, <3>1, SealingType
  <2> QED
    BY <1>2, <2>1, <2>2, <2>3, StoreCurrentType DEF Sealing
<1>3. CASE ArchiveCurrentState(p)
  BY <1>3, ArchiveStep DEF HasSession
<1>4. ASSUME NEW m \in network, DecryptMessage(p, m) PROVE Opening(p, m)
  <2>1. /\ HasSession(p) /\ m \in Message /\ nextKey \in Nat
        /\ m.from = Peer(p) /\ m.kind = "whisper"
        /\ session[p].current \in SessionState
    BY <1>4, CurrentType DEF DecryptMessage, TypeOK
  <2>2. /\ Opens(session[p].current, m, nextKey)
        /\ StoreCurrent(p, AfterOpen(session[p].current, m, nextKey))
    BY <1>4 DEF DecryptMessage
  <2>3. AfterOpen(session[p].current, m, nextKey) \in SessionState
    BY <2>1, AfterOpenType
  <2> QED
    BY <2>1, <2>2, <2>3, StoreCurrentType DEF Opening
<1>5. ASSUME NEW m \in network, EstablishSession(p, m) PROVE Responding(p, m)
  <2>1. /\ m \in Message /\ m.kind = "pre_key" /\ m.hs.spk = SignedPreKey(p)
        /\ m.hs.opk \in preKeys[p] \union {None}
        /\ Opens(ResponderState(p, m), m, nextKey)
    BY <1>5 DEF EstablishSession, Establishing, TypeOK
  <2>2. session' = [session EXCEPT
          ![p] = PromoteState(@, AfterOpen(ResponderState(p, m), m, nextKey))]
    BY <1>5 DEF EstablishSession
  <2>3. session'[p].current =
          Serialize(AfterOpen(ResponderState(p, m), m, nextKey))
    BY <2>2 DEF PromoteState, TypeOK
  <2> QED
    BY <2>1, <2>3 DEF Responding
<1> QED
  BY <1>1, <1>2, <1>3, <1>4, <1>5, RecordStep

\* encrypt adds a message to the network, nothing else does.
LEMMA MessagesStep ==
  ASSUME TypeOK, [Next]_vars
  PROVE  /\ nextKey' \in Nat /\ nextKey' >= nextKey
         /\ \/ network' = network /\ sent' = sent
            \/ \E p \in Party :
                 /\ HasSession(p) /\ session[p].current \in SessionState
                 /\ network' =
                      network \union {Sealed(p, session[p].current, sent)}
                 /\ sent' = sent + 1
                 /\ opened' = opened /\ reopened' = reopened
<1>1. nextKey \in Nat
  BY DEF TypeOK
<1>2. CASE UNCHANGED vars
  BY <1>1, <1>2 DEF vars
<1>3. ASSUME NEW p \in Party, Encrypt(p)
      PROVE  /\ nextKey' = nextKey
             /\ HasSession(p) /\ session[p].current \in SessionState
             /\ network' = network \union {Sealed(p, session[p].current, sent)}
             /\ sent' = sent + 1
             /\ opened' = opened /\ reopened' = reopened
  BY <1>3, CurrentType DEF Encrypt
<1>4. ASSUME NEW p \in Party,
             \/ ProcessPreKeyBundle(p) \/ AbandonProcessing(p)
             \/ ArchiveCurrentState(p)
             \/ \E m \in network :
                  \/ DecryptMessage(p, m) \/ DecryptInSession(p, m)
                  \/ EstablishSession(p, m)
                  \/ \E steps \in 1 .. 3 : AbandonEstablishing(p, m, steps)
      PROVE  /\ network' = network /\ sent' = sent
             /\ nextKey' \in {nextKey, nextKey + 1, nextKey + 2}
  BY <1>1, <1>4 DEF ProcessPreKeyBundle, AbandonProcessing, ArchiveCurrentState,
     DecryptMessage, KeysDrawn, DecryptInSession, EstablishSession,
     AbandonEstablishing
<1> QED
  BY <1>1, <1>2, <1>3, <1>4 DEF Next

\* What a party has opened after a step, or opened again.
LEMMA OpenedStep ==
  ASSUME TypeOK, [Next]_vars, NEW p \in Party,
         NEW t \in opened'[p] \union reopened'[p]
  PROVE  \/ t \in opened[p] /\ t \notin reopened'[p]
         \/ t \in reopened[p]
         \/ \E m \in network :
               /\ m.from = Peer(p) /\ m.text = t
               /\ t \in reopened'[p] => t \in opened[p]
               /\ DecryptMessage(p, m) \/ m.kind = "pre_key"
<1>1. CASE opened' = opened /\ reopened' = reopened
  BY <1>1
<1>2. ASSUME NEW q \in Party, NEW m \in network, RecordOpening(q, m)
      PROVE  \/ opened'[p] = opened[p] /\ reopened'[p] = reopened[p]
             \/ /\ q = p /\ opened'[p] = opened[p] \union {m.text}
                /\ reopened'[p] =
                     reopened[p] \union ({m.text} \intersect opened[p])
  BY <1>2 DEF RecordOpening, TypeOK
<1>3. ASSUME NEW q \in Party, NEW m \in network,
             DecryptMessage(q, m) \/ DecryptInSession(q, m) \/ EstablishSession(q, m)
      PROVE  /\ RecordOpening(q, m) /\ m.from = Peer(q)
             /\ DecryptMessage(q, m) \/ m.kind = "pre_key"
  BY <1>3 DEF DecryptMessage, DecryptInSession, EstablishSession, Establishing
<1>4. ASSUME NEW q \in Party,
             \/ ProcessPreKeyBundle(q) \/ AbandonProcessing(q)
             \/ ArchiveCurrentState(q) \/ Encrypt(q)
             \/ \E m \in network, steps \in 1 .. 3 :
                   AbandonEstablishing(q, m, steps)
      PROVE  opened' = opened /\ reopened' = reopened
  BY <1>4 DEF ProcessPreKeyBundle, AbandonProcessing, ArchiveCurrentState,
     Encrypt, AbandonEstablishing
<1>5. CASE UNCHANGED vars
  BY <1>1, <1>5 DEF vars
<1>6. CASE \E q \in Party, m \in network :
              DecryptMessage(q, m) \/ DecryptInSession(q, m) \/ EstablishSession(q, m)
  <2>1. PICK q \in Party, m \in network :
              DecryptMessage(q, m) \/ DecryptInSession(q, m) \/ EstablishSession(q, m)
    BY <1>6
  <2>2. /\ RecordOpening(q, m) /\ m.from = Peer(q)
        /\ DecryptMessage(q, m) \/ m.kind = "pre_key"
    BY <1>3, <2>1
  <2>3. CASE opened'[p] = opened[p] /\ reopened'[p] = reopened[p]
    BY <2>3
  <2>4. CASE /\ q = p /\ opened'[p] = opened[p] \union {m.text}
             /\ reopened'[p] = reopened[p] \union ({m.text} \intersect opened[p])
    BY <2>2, <2>4
  <2> QED
    BY <1>2, <2>2, <2>3, <2>4
<1> QED
  BY <1>1, <1>4, <1>5, <1>6 DEF Next

\* The current state of a party after a step is in order, and is of the same
\* session as before, past all that it had passed, or of a new session: one the
\* party has set up, or one a message of its peer was sealed in.
LEMMA CurrentAfter ==
  ASSUME TypeOK, ReplayInv, [Next]_vars, NEW p \in Party, HasSession(p)'
  PROVE  LET st == session[p].current
             c == session'[p].current
         IN  /\ ChainsOrdered(c) /\ NothingSkipped(c)
             /\ \/ /\ HasSession(p) /\ c.hs = st.hs /\ c.pending = st.pending
                   /\ \A n \in Message : Passed(st, n) => Passed(c, n)
                \/ c.pending /\ c.hs.base = nextKey /\ nextKey' = nextKey + 2
                \/ /\ c.hs.spk = SignedPreKey(p)
                   /\ \E m \in network : c.hs = m.key.secret.hs
<1> DEFINE st == session[p].current
           c == session'[p].current
<1>1. nextKey \in Nat
  BY DEF TypeOK
<1>2. HasSession(p) => ChainsOrdered(st) /\ NothingSkipped(st)
  BY DEF ReplayInv, CurrentOrdered
<1>3. CASE session'[p] = session[p]
  BY <1>2, <1>3 DEF HasSession
<1>4. CASE Sealing(p)
  <2> DEFINE a == AfterSealing(st)
  <2>1. HasSession(p) /\ st \in SessionState /\ c = Serialize(a)
    BY <1>4 DEF Sealing
  <2>2. a \in SessionState /\ a.hs = st.hs /\ a.pending = st.pending
    <3>1. 0 \in Nat
      OBVIOUS
    <3> QED
      BY <2>1, <3>1, SealingType
  <2>3. ChainsOrdered(a) /\ \A n \in Message : Passed(st, n) => Passed(a, n)
    BY <1>2, <2>1, SealingOrdered
  <2> HIDE DEF a, c, st
  <2>4. c.hs = a.hs /\ c.pending = a.pending
    BY <2>1, <2>2, SerializeType
  <2>5. /\ ChainsOrdered(c) /\ NothingSkipped(c)
        /\ \A n \in Message : Passed(st, n) => Passed(c, n)
    BY <2>1, <2>2, <2>3, SerializeOrdered
  <2> QED
    BY <2>1, <2>2, <2>4, <2>5 DEF c, st
<1>5. CASE Initiating(p)
  <2>1. PICK hs \in Handshake :
          /\ hs.base = nextKey /\ nextKey' = nextKey + 2
          /\ c = Serialize(InitiatorState(hs, nextKey + 1))
    BY <1>5 DEF Initiating
  <2> DEFINE n == nextKey + 1
             a == InitiatorState(hs, n)
  <2>2. n \in Nat
    BY <1>1
  <2>3. c = Serialize(a)
    BY <2>1
  <2> HIDE DEF n, c
  <2>4. a \in SessionState /\ a.hs = hs /\ a.pending = TRUE
    BY <2>2, InitiatorStateType
  <2>5. ChainsOrdered(a)
    BY <2>2, InitiatorOrdered
  <2> HIDE DEF a
  <2>6. /\ ChainsOrdered(c) /\ NothingSkipped(c)
        /\ c.hs = hs /\ c.pending = TRUE
    BY <2>3, <2>4, <2>5, SerializeType, SerializeOrdered
  <2> QED
    BY <2>1, <2>6 DEF c
<1>6. ASSUME NEW m \in network, Opening(p, m)
      PROVE  /\ ChainsOrdered(c) /\ NothingSkipped(c)
             /\ HasSession(p) /\ c.hs = st.hs /\ c.pending = st.pending
             /\ \A n \in Message : Passed(st, n) => Passed(c, n)
  <2> DEFINE a == AfterOpen(st, m, nextKey)
  <2>1. /\ HasSession(p) /\ st \in SessionState /\ m \in Message
        /\ Opens(st, m, nextKey) /\ c = Serialize(a)
    BY <1>6 DEF Opening
  <2> HIDE DEF c, st
  <2>2. /\ a \in SessionState /\ a.hs = st.hs /\ a.pending = st.pending
    BY <1>1, <2>1, AfterOpenType
  <2>3. ChainsOrdered(a) /\ \A n \in Message : Passed(st, n) => Passed(a, n)
    BY <1>1, <1>2, <2>1, OpeningPasses
  <2> HIDE DEF a
  <2>4. c.hs = a.hs /\ c.pending = a.pending
    BY <2>1, <2>2, SerializeType
  <2>5. /\ ChainsOrdered(c) /\ NothingSkipped(c)
        /\ \A n \in Message : Passed(st, n) => Passed(c, n)
    BY <2>1, <2>2, <2>3, SerializeOrdered
  <2> QED
    BY <2>1, <2>2, <2>4, <2>5
<1>7. ASSUME NEW m \in network, Responding(p, m)
      PROVE  /\ ChainsOrdered(c) /\ NothingSkipped(c)
             /\ c.hs.spk = SignedPreKey(p) /\ c.hs = m.key.secret.hs
  <2> DEFINE new == ResponderState(p, m)
             a == AfterOpen(new, m, nextKey)
  <2>1. /\ m \in Message /\ m.hs.spk = SignedPreKey(p)
        /\ Opens(new, m, nextKey) /\ c = Serialize(a)
    BY <1>7 DEF Responding
  <2>2. /\ new \in SessionState /\ ChainsOrdered(new) /\ NothingSkipped(new)
        /\ new.hs.spk = m.hs.spk
    BY <2>1, ResponderOrdered, ResponderStateType
  <2> HIDE DEF c, new
  <2>3. /\ a \in SessionState /\ a.hs = new.hs
        /\ ChainsOrdered(a) /\ m.key.secret.hs = new.hs
    BY <1>1, <2>1, <2>2, AfterOpenType, OpeningPasses
  <2> HIDE DEF a
  <2>4. c.hs = a.hs /\ ChainsOrdered(c) /\ NothingSkipped(c)
    BY <2>1, <2>3, SerializeType, SerializeOrdered
  <2> QED
    BY <2>1, <2>2, <2>3, <2>4
<1> HIDE DEF c, st
<1>8. \/ session'[p] = session[p]
      \/ Sealing(p) \/ Initiating(p)
      \/ \E m \in network : Opening(p, m)
      \/ \E m \in network : Responding(p, m)
  BY CurrentStep
<1> QED
  BY <1>3, <1>4, <1>5, <1>6, <1>7, <1>8 DEF c, st

\* decryptMessage takes only what was not passed, and passes it.
LEMMA DecryptPasses ==
  ASSUME TypeOK, ReplayInv, [Next]_vars, NEW p \in Party, NEW m \in network,
         DecryptMessage(p, m)
  PROVE  /\ HasSession(p) /\ session[p].current.hs = m.key.secret.hs
         /\ ~Passed(session[p].current, m)
         /\ Passed(session'[p].current, m)
<1> DEFINE st == session[p].current
           c == session'[p].current
           a == AfterOpen(st, m, nextKey)
<1>1. /\ HasSession(p) /\ m \in Message /\ nextKey \in Nat
      /\ Opens(st, m, nextKey) /\ StoreCurrent(p, a)
  BY DEF DecryptMessage, TypeOK
<1>2. st \in SessionState /\ ChainsOrdered(st) /\ NothingSkipped(st)
  BY <1>1, CurrentType DEF ReplayInv, CurrentOrdered
<1> HIDE DEF st
<1>3. /\ ~Passed(st, m) /\ m.key.secret.hs = st.hs
      /\ a \in SessionState /\ Passed(a, m)
  BY <1>1, <1>2, OpeningPasses
<1> HIDE DEF a
<1>4. c = Serialize(a)
  BY <1>1, <1>3, StoreCurrentType
<1>5. Passed(c, m)
  BY <1>3, <1>4, SerializeOrdered
<1> QED
  BY <1>1, <1>3, <1>5 DEF st

-----------------------------------------------------------------------------
(* Every step keeps the invariant *)

\* A new message carries a plaintext that is in no history.
LEMMA TextsUniqueStep ==
  ReplayInv /\ TypeOK /\ [Next]_vars => TextsUnique'
<1> SUFFICES ASSUME ReplayInv, TypeOK, [Next]_vars PROVE TextsUnique'
  OBVIOUS
<1>1. sent \in Nat /\ \A m \in network : m.text \in Nat
  BY MessageType DEF TypeOK
<1>2. TextsUnique
  BY DEF ReplayInv
<1>3. ASSUME NEW p \in Party, NEW t \in opened'[p] \union reopened'[p]
      PROVE  t < sent
  BY <1>2, <1>3, OpenedStep DEF TextsUnique
<1>4. CASE network' = network /\ sent' = sent
  BY <1>2, <1>3, <1>4 DEF TextsUnique
<1>5. ASSUME NEW q \in Party, session[q].current \in SessionState,
             network' = network \union {Sealed(q, session[q].current, sent)},
             sent' = sent + 1
      PROVE  TextsUnique'
  <2> DEFINE n == Sealed(q, session[q].current, sent)
  <2>1. n.text = sent
    BY <1>1, <1>5, SealingType
  <2>2. network' = network \union {n}
    BY <1>5
  <2> HIDE DEF n
  <2>3. \A m \in network : m.text < sent /\ m.text < sent + 1
    BY <1>1, <1>2 DEF TextsUnique
  <2>4. \A m \in network' : m.text < sent'
    BY <1>1, <1>5, <2>1, <2>2, <2>3
  <2>5. \A m, l \in network' : m.text = l.text => m = l
    BY <1>1, <1>2, <2>1, <2>2, <2>3 DEF TextsUnique
  <2>6. \A p \in Party : \A t \in opened'[p] \union reopened'[p] : t < sent'
    <3>1. \A p \in Party : \A t \in opened'[p] \union reopened'[p] : t \in Nat
      BY NextType DEF TypeOK
    <3> QED
      BY <1>1, <1>3, <1>5, <3>1
  <2> QED
    BY <2>4, <2>5, <2>6 DEF TextsUnique
<1> QED
  BY <1>4, <1>5, MessagesStep

\* A message that is new in the network: whose key it was sealed with.
LEMMA NewMessage ==
  ASSUME TypeOK, ReplayInv, [Next]_vars, NEW m \in network'
  PROVE  \/ m \in network
         \/ \E p \in Party :
              /\ HasSession(p) /\ m.from = p /\ m.text = sent
              /\ m.key.secret.hs = session[p].current.hs
              /\ m.kind = "whisper" => ~session[p].current.pending
              /\ opened' = opened /\ reopened' = reopened
<1>1. ASSUME NEW p \in Party, HasSession(p),
             session[p].current \in SessionState,
             m = Sealed(p, session[p].current, sent)
      PROVE  /\ m.from = p /\ m.text = sent
             /\ m.key.secret.hs = session[p].current.hs
             /\ m.kind = "whisper" => ~session[p].current.pending
  <2> DEFINE st == session[p].current
  <2>1. sent \in Nat /\ st.chain.secret.hs = st.hs
    BY <1>1 DEF TypeOK, ReplayInv, CurrentOrdered, ChainsOrdered
  <2>2. /\ m.from = p /\ m.text = sent
        /\ m.key.secret = st.chain.secret
    BY <1>1, <2>1, SealingType
  <2>3. m.kind = IF st.pending THEN "pre_key" ELSE "whisper"
    BY <1>1 DEF Sealed
  <2> HIDE DEF st
  <2>4. m.kind = "whisper" => ~st.pending
    BY <2>3
  <2> QED
    BY <2>1, <2>2, <2>4 DEF st
<1> QED
  BY <1>1, MessagesStep

\* A new handshake has a base key just drawn, every other one was there.
LEMMA HandshakesDrawnStep ==
  ReplayInv /\ TypeOK /\ [Next]_vars => HandshakesDrawn'
<1> SUFFICES ASSUME ReplayInv, TypeOK, [Next]_vars PROVE HandshakesDrawn'
  OBVIOUS
<1>1. nextKey \in Nat /\ nextKey' \in Nat /\ nextKey' >= nextKey
  BY MessagesStep DEF TypeOK
<1>2. HandshakesDrawn
  BY DEF ReplayInv
<1>3. \A hs \in Handshake : hs.base \in Nat
  BY DEF Handshake
<1>4. ASSUME NEW m \in network' PROVE m.key.secret.hs.base < nextKey'
  <2>1. m.key.secret.hs.base < nextKey
    BY <1>2, NewMessage DEF HandshakesDrawn
  <2>2. m.key.secret.hs \in Handshake
    BY NextType DEF TypeOK, Message, MessageKey, Secret
  <2> QED
    BY <1>1, <1>3, <2>1, <2>2
<1>5. ASSUME NEW p \in Party, HasSession(p)'
      PROVE  session'[p].current.hs.base < nextKey'
  <2> DEFINE c == session'[p].current
  <2>1. c \in SessionState /\ c.hs.base \in Nat
    BY <1>3, <1>5, NextType DEF TypeOK, SessionRecord, HasSession, SessionState
  <2>2. CASE HasSession(p) /\ c.hs = session[p].current.hs
    <3>1. c.hs.base < nextKey
      BY <1>2, <2>2 DEF HandshakesDrawn
    <3> QED
      BY <1>1, <2>1, <3>1
  <2>3. CASE c.hs.base = nextKey /\ nextKey' = nextKey + 2
    BY <1>1, <2>3
  <2>4. ASSUME NEW m \in network, c.hs = m.key.secret.hs
        PROVE  c.hs.base < nextKey'
    <3>1. c.hs.base < nextKey
      BY <1>2, <2>4 DEF HandshakesDrawn
    <3> QED
      BY <1>1, <2>1, <3>1
  <2> QED
    BY <1>5, <2>2, <2>3, <2>4, CurrentAfter
<1> QED
  BY <1>4, <1>5 DEF HandshakesDrawn

\* A session accepted from a message is one of the party's own pre-keys, and
\* only such a session's state is not pending.
LEMMA WhispersFromResponderStep ==
  ReplayInv /\ TypeOK /\ [Next]_vars => WhispersFromResponder'
<1> SUFFICES ASSUME ReplayInv, TypeOK, [Next]_vars
             PROVE  WhispersFromResponder'
  OBVIOUS
<1>1. WhispersFromResponder
  BY DEF ReplayInv
<1>2. ASSUME NEW p \in Party, HasSession(p)', ~session'[p].current.pending
      PROVE  session'[p].current.hs.spk = SignedPreKey(p)
  BY <1>1, <1>2, CurrentAfter DEF WhispersFromResponder
<1>3. ASSUME NEW m \in network', m.kind = "whisper"
      PROVE  m.key.secret.hs.spk = SignedPreKey(m.from)
  BY <1>1, <1>3, NewMessage DEF WhispersFromResponder
<1> QED
  BY <1>2, <1>3 DEF WhispersFromResponder

\* A message in a party's history of openings was there before it was opened.
LEMMA OpenedBefore ==
  ASSUME TypeOK, ReplayInv, [Next]_vars, NEW p \in Party, NEW m \in network',
         m.text \in opened'[p] \union reopened'[p]
  PROVE  m \in network
<1>1. CASE opened' = opened /\ reopened' = reopened /\ m.text = sent
  <2>1. sent < sent /\ sent \in Nat
    BY <1>1 DEF ReplayInv, TextsUnique, TypeOK
  <2> QED
    BY <2>1
<1> QED
  BY <1>1, NewMessage

\* What has been opened stays passed while the session lasts; another session
\* has another handshake.
LEMMA OpenedPassedStep ==
  ReplayInv /\ TypeOK /\ [Next]_vars => OpenedPassed'
<1> SUFFICES ASSUME ReplayInv, TypeOK, [Next]_vars,
                    NEW p \in Party, NEW m \in network',
                    m.from = Peer(p), m.kind = "whisper", m.text \in opened'[p],
                    HasSession(p)',
                    session'[p].current.hs = m.key.secret.hs
             PROVE  Passed(session'[p].current, m)
  BY DEF OpenedPassed
<1>1. m \in network /\ m \in Message
  BY OpenedBefore DEF TypeOK
<1>2. ASSUME m.text \in opened[p] PROVE Passed(session'[p].current, m)
  <2>1. CASE /\ HasSession(p)
             /\ session'[p].current.hs = session[p].current.hs
             /\ \A n \in Message :
                   Passed(session[p].current, n) => Passed(session'[p].current, n)
    <3>1. Passed(session[p].current, m)
      BY <1>1, <1>2, <2>1 DEF ReplayInv, OpenedPassed
    <3> QED
      BY <1>1, <2>1, <3>1
  <2>2. session'[p].current.hs.base # nextKey
    <3>1. m.key.secret.hs.base < nextKey /\ nextKey \in Nat
      BY <1>1 DEF ReplayInv, HandshakesDrawn, TypeOK
    <3> QED
      BY <3>1
  <2>3. session'[p].current.hs.spk # SignedPreKey(p)
    <3>1. m.key.secret.hs.spk = SignedPreKey(Peer(p))
      BY <1>1 DEF ReplayInv, WhispersFromResponder
    <3>2. SignedPreKey(Peer(p)) # SignedPreKey(p)
      BY PartyAssumption DEF SignedPreKey, Peer, Party
    <3> QED
      BY <3>1, <3>2
  <2> QED
    BY <2>1, <2>2, <2>3, CurrentAfter
<1>3. ASSUME NEW n \in network, n.text = m.text,
             DecryptMessage(p, n) \/ n.kind = "pre_key"
      PROVE  Passed(session'[p].current, m)
  <2>1. n = m
    BY <1>1, <1>3 DEF ReplayInv, TextsUnique
  <2>2. DecryptMessage(p, m)
    BY <1>3, <2>1
  <2> QED
    BY <1>1, <2>2, DecryptPasses
<1>4. \/ m.text \in opened[p] \/ m.text \in reopened[p]
      \/ \E n \in network : /\ n.text = m.text
                            /\ DecryptMessage(p, n) \/ n.kind = "pre_key"
  BY OpenedStep
<1>5. m.text \notin reopened[p]
  BY <1>1 DEF ReplayInv, WhisperOpensOnce
<1> QED
  BY <1>2, <1>3, <1>4, <1>5

\* So a whisper message that opens has not been opened before.
LEMMA WhisperOpensOnceStep ==
  ReplayInv /\ TypeOK /\ [Next]_vars => WhisperOpensOnce'
<1> SUFFICES ASSUME ReplayInv, TypeOK, [Next]_vars,
                    NEW p \in Party, NEW m \in network',
                    m.from = Peer(p), m.kind = "whisper",
                    m.text \in reopened'[p]
             PROVE  FALSE
  BY DEF WhisperOpensOnce
<1>1. m \in network
  BY OpenedBefore
<1>2. m.text \notin reopened[p]
  BY <1>1 DEF ReplayInv, WhisperOpensOnce
<1>3. PICK n \in network : /\ n.text = m.text /\ m.text \in opened[p]
                           /\ DecryptMessage(p, n) \/ n.kind = "pre_key"
  BY <1>2, OpenedStep
<1>4. n = m
  BY <1>1, <1>3 DEF ReplayInv, TextsUnique
<1>5. DecryptMessage(p, m)
  BY <1>3, <1>4
<1>6. /\ HasSession(p) /\ session[p].current.hs = m.key.secret.hs
      /\ ~Passed(session[p].current, m)
  BY <1>1, <1>5, DecryptPasses
<1> QED
  BY <1>1, <1>3, <1>6 DEF ReplayInv, OpenedPassed

\* Every step keeps the invariant.
LEMMA NextReplay == ReplayInv /\ TypeOK /\ [Next]_vars => ReplayInv'
<1>1. ReplayInv /\ TypeOK /\ [Next]_vars => CurrentOrdered'
  BY CurrentAfter DEF CurrentOrdered
<1> QED
  BY <1>1, TextsUniqueStep, HandshakesDrawnStep, WhispersFromResponderStep,
     OpenedPassedStep, WhisperOpensOnceStep DEF ReplayInv

\* A whisper message opens at most once, however often and late it is
\* delivered and whatever sessions were set up, archived, replaced or set up
\* again in between: decryptMessage stores the record with the chain advanced
\* past the message before it returns, and the chain never comes back.
THEOREM WhisperOpensOnceCorrect == Spec => []WhisperOpensOnce
<1>1. ReplayInv => WhisperOpensOnce
  BY DEF ReplayInv
<1> QED
  BY <1>1, InitReplay, NextReplay, TypeCorrect, PTL DEF Spec

=============================================================================
