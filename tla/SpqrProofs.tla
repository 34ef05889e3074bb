----------------------------- MODULE SpqrProofs -----------------------------
(***************************************************************************)
(* Theorems about Spqr, for any number of chunks, any bounds and any       *)
(* parties: on a transport that keeps its order the two state machines     *)
(* stay in step, so that their epoch secrets agree, their roles swap       *)
(* without overlap and no MAC is refused.                                  *)
(***************************************************************************)
EXTENDS Spqr, SequenceTheorems, FiniteSetTheorems, TLAPS

-----------------------------------------------------------------------------
(* Types *)

\* Each party has one peer, which is the other one.
LEMMA PeerProperties ==
  ASSUME NEW p \in Party
  PROVE  /\ Peer(p) \in Party /\ Peer(p) # p /\ Peer(Peer(p)) = p
         /\ \A r \in Party : r = p \/ r = Peer(p)
BY PartyAssumption DEF Peer, Party

\* Every object takes more than one chunk.
LEMMA ChunkBounds ==
  /\ HdrChunks \in Nat /\ EkChunks \in Nat
  /\ Ct1Chunks \in Nat /\ Ct2Chunks \in Nat
  /\ HdrChunks > 1 /\ EkChunks > 1 /\ Ct1Chunks > 1 /\ Ct2Chunks > 1
  /\ Chunks["hdr"] = HdrChunks /\ Chunks["ek"] = EkChunks
  /\ Chunks["ct1"] = Ct1Chunks /\ Chunks["ct2"] = Ct2Chunks
  /\ \A k \in Kind : Chunks[k] \in Nat /\ Chunks[k] > 1
<1>1. \A k \in Kind : Chunks[k] \in Nat /\ Chunks[k] > 1
  BY ChunkAssumption
<1>2. /\ Chunks["hdr"] = HdrChunks /\ Chunks["ek"] = EkChunks
      /\ Chunks["ct1"] = Ct1Chunks /\ Chunks["ct2"] = Ct2Chunks
  BY DEF Chunks
<1>3. {"hdr", "ek", "ct1", "ct2"} \subseteq Kind
  BY DEF Kind
<1> QED
  BY <1>1, <1>2, <1>3

\* The values of nothing have their types.
LEMMA NothingTypes ==
  /\ NoObject \in Object /\ Mixed \in Object
  /\ NoMac \in Mac /\ NoChunk \in Chunk
  /\ \A tag \in Tag : Fresh(tag) \in StateMachine
<1>1. NoObject \in Object /\ Mixed \in Object
  BY DEF NoObject, Mixed, Object, Kind
<1>2. <<>> \in Seq(EpochKey)
  BY EmptySeq
<1>3. NoMac \in Mac /\ NoChunk \in Chunk
  BY <1>1, <1>2 DEF NoMac, NoChunk, Mac, Chunk
<1>4. ASSUME NEW tag \in Tag
      PROVE  Fresh(tag) \in StateMachine
  BY <1>1, <1>3 DEF Fresh, StateMachine
<1> QED
  BY <1>1, <1>3, <1>4

\* The objects of a state are objects.
LEMMA ObjectTypes ==
  ASSUME NEW s \in StateMachine
  PROVE  /\ Hdr(s) \in Object /\ Ek(s) \in Object
         /\ Ct1(s) \in Object /\ Ct2(s) \in Object
         /\ s.ek \in Object /\ s.ct1 \in Object
BY DEF StateMachine, Object, Kind, Hdr, Ek, Ct1, Ct2

\* What goes under way is a message.
LEMMA EmittedType ==
  ASSUME TypeOK, NEW p \in Party, NEW payload \in Kind \union {"ct1_ack", "none"},
         NEW chunk \in Chunk, NEW mac \in Mac
  PROVE  /\ Epoch(p) \in Nat
         /\ [epoch |-> Epoch(p), payload |-> payload,
             chunk |-> chunk, mac |-> mac] \in Message
<1>1. chain[p] \in Seq(EpochKey)
  BY DEF TypeOK
<1>2. Epoch(p) \in Nat
  BY <1>1, LenProperties DEF Epoch
<1> QED
  BY <1>2 DEF Message

\* So is what carries the chunk at some index of an object.
LEMMA EmittedChunkType ==
  ASSUME TypeOK, NEW p \in Party, NEW obj \in Object, NEW i \in Nat
  PROVE  /\ [obj |-> obj, index |-> i] \in Chunk
         /\ MacOf(p, obj) \in Mac
         /\ (IF i = 0 THEN MacOf(p, obj) ELSE NoMac) \in Mac
<1>1. Epoch(p) \in Nat
  BY EmittedType, NothingTypes DEF Kind
<1>2. auth[p] \in Seq(EpochKey)
  BY DEF TypeOK
<1> QED
  BY <1>1, <1>2, NothingTypes DEF Chunk, Mac, MacOf

\* Sending keeps the types.
LEMMA EmitTypes ==
  ASSUME TypeOK, NEW p \in Party, NEW payload \in Kind \union {"ct1_ack", "none"},
         NEW chunk \in Chunk, NEW mac \in Mac, Emit(p, payload, chunk, mac)
  PROVE  /\ channel' \in [Party -> Seq(Message)]
         /\ chain' \in [Party -> Seq(EpochKey)]
         /\ auth' \in [Party -> Seq(EpochKey)]
<1> DEFINE n == [epoch |-> Epoch(p), payload |-> payload,
                 chunk |-> chunk, mac |-> mac]
<1>1. n \in Message
  BY EmittedType
<1>2. /\ channel' = [channel EXCEPT ![Peer(p)] = Append(@, n)]
      /\ UNCHANGED <<chain, auth>>
  BY DEF Emit
<1> HIDE DEF n
<1>3. Append(channel[Peer(p)], n) \in Seq(Message)
  BY <1>1, AppendProperties, PeerProperties DEF TypeOK
<1> QED
  BY <1>2, <1>3 DEF TypeOK

\* Sending a chunk keeps the types.
LEMMA EmitChunkTypes ==
  ASSUME TypeOK, NEW p \in Party, NEW obj \in Object, obj.kind \in Kind,
         NEW i \in Nat, EmitChunk(p, obj, i)
  PROVE  /\ channel' \in [Party -> Seq(Message)]
         /\ chain' \in [Party -> Seq(EpochKey)]
         /\ auth' \in [Party -> Seq(EpochKey)]
<1> DEFINE chunk == [obj |-> obj, index |-> i]
           mac == IF i = 0 THEN MacOf(p, obj) ELSE NoMac
<1>1. chunk \in Chunk /\ mac \in Mac
  BY EmittedChunkType
<1>2. Emit(p, obj.kind, chunk, mac)
  BY DEF EmitChunk
<1> HIDE DEF chunk, mac
<1> QED
  BY <1>1, <1>2, EmitTypes

\* A party that takes a new state keeps the type of all states.
LEMMA BecomeType ==
  ASSUME TypeOK, NEW p \in Party, NEW s \in StateMachine, Become(p, s)
  PROVE  sm' \in [Party -> StateMachine] /\ sm'[p] = s
BY DEF TypeOK, Become

\* The states a party reaches by sending are states.
LEMMA SendTypes ==
  ASSUME TypeOK, NEW p \in Party, Send(p)
  PROVE  TypeOK'
<1> DEFINE s == sm[p]
<1>1. /\ s \in StateMachine /\ s.next \in Nat /\ s.keys \in Nat /\ s.encaps \in Nat
      /\ drawn \in Nat /\ s.mac \in [Kind -> Mac]
  BY DEF TypeOK, StateMachine
<1>2. /\ Hdr(s) \in Object /\ Ek(s) \in Object /\ Ct1(s) \in Object
      /\ Ct2(s) \in Object /\ Hdr(s).kind \in Kind /\ Ek(s).kind \in Kind
      /\ Ct1(s).kind \in Kind /\ Ct2(s).kind \in Kind
  BY <1>1, ObjectTypes DEF Hdr, Ek, Ct1, Ct2, Kind
<1>3. s.next + 1 \in Nat /\ 1 \in Nat /\ 0 \in Nat /\ drawn + 1 \in Nat
  BY <1>1
<1>4. [s EXCEPT !.next = @ + 1] \in StateMachine
  BY <1>1, <1>3 DEF StateMachine
<1> HIDE DEF s
<1>5. CASE SampleKeys(p)
  <2> DEFINE t == [Fresh("hdr_sending") EXCEPT !.keys = drawn + 1, !.next = 1]
  <2>1. Fresh("hdr_sending") \in StateMachine
    BY NothingTypes DEF Tag
  <2>2. t \in StateMachine
    BY <1>3, <2>1 DEF StateMachine
  <2>3. Become(p, t) /\ EmitChunk(p, Hdr(t), 0) /\ drawn' = drawn + 1
    BY <1>5 DEF SampleKeys
  <2>4. Hdr(t) \in Object /\ Hdr(t).kind \in Kind
    BY <2>2, ObjectTypes DEF Hdr, Kind
  <2> HIDE DEF t
  <2> QED
    BY <1>3, <2>2, <2>3, <2>4, EmitChunkTypes, BecomeType DEF TypeOK
<1>6. CASE SendHdr(p)
  BY <1>1, <1>2, <1>4, <1>6, EmitChunkTypes, BecomeType DEF SendHdr, TypeOK, s
<1>7. CASE StartEk(p)
  <2>1. [s EXCEPT !.tag = "ek_sending", !.next = 1] \in StateMachine
    BY <1>1, <1>3 DEF StateMachine, Tag
  <2> QED
    BY <1>1, <1>2, <1>3, <1>7, <2>1, EmitChunkTypes, BecomeType
    DEF StartEk, TypeOK, s
<1>8. CASE SendEk(p)
  <2>1. AfterLastEk(s) \in StateMachine
    BY <1>1, <1>3, NothingTypes DEF StateMachine, Tag, AfterLastEk
  <2> DEFINE t == IF s.next + 1 >= EkChunks THEN AfterLastEk(s)
                  ELSE [s EXCEPT !.next = @ + 1]
  <2>2. t \in StateMachine
    BY <1>4, <2>1
  <2>3. Become(p, t) /\ EmitChunk(p, Ek(s), s.next) /\ drawn' = drawn
    BY <1>8 DEF SendEk, s
  <2> HIDE DEF t
  <2> QED
    BY <1>1, <1>2, <2>2, <2>3, EmitChunkTypes, BecomeType DEF TypeOK
<1>9. CASE SendCt1(p)
  BY <1>1, <1>2, <1>4, <1>9, EmitChunkTypes, BecomeType DEF SendCt1, TypeOK, s
<1>10. CASE StartCt2(p)
  <2>1. [s EXCEPT !.tag = "ct2_sending", !.next = 1] \in StateMachine
    BY <1>1, <1>3 DEF StateMachine, Tag
  <2> QED
    BY <1>1, <1>2, <1>3, <1>10, <2>1, EmitChunkTypes, BecomeType
    DEF StartCt2, TypeOK, s
<1>11. CASE SendCt2(p)
  BY <1>1, <1>2, <1>4, <1>11, EmitChunkTypes, BecomeType DEF SendCt2, TypeOK, s
<1>12. CASE SendAck(p)
  BY <1>1, <1>12, EmitTypes, NothingTypes DEF SendAck, TypeOK
<1>13. CASE SendNone(p)
  BY <1>1, <1>13, EmitTypes, NothingTypes DEF SendNone, TypeOK
<1> QED
  BY <1>5, <1>6, <1>7, <1>8, <1>9, <1>10, <1>11, <1>12, <1>13 DEF Send

\* The first message under way, and what is left without it.
LEMMA TakenTypes ==
  ASSUME TypeOK, NEW p \in Party, channel[p] # <<>>
  PROVE  /\ Head(channel[p]) \in Message
         /\ Tail(channel[p]) \in Seq(Message)
         /\ Take(p) => channel' \in [Party -> Seq(Message)]
<1>1. Head(channel[p]) \in Message /\ Tail(channel[p]) \in Seq(Message)
  BY HeadTailProperties DEF TypeOK
<1> QED
  BY <1>1 DEF Take, TypeOK

\* A decoder holds chunks, of one index at most one.
LEMMA AddChunkProperties ==
  ASSUME NEW dec \in SUBSET Chunk, NEW c \in Chunk
  PROVE  /\ AddChunk(dec, c) \in SUBSET Chunk
         /\ AddChunk(dec, c) # {}
         /\ AddChunk(dec, c) \subseteq dec \union {c}
         /\ dec \subseteq AddChunk(dec, c)
BY DEF AddChunk

\* What is assembled from chunks is an object.
LEMMA AssembledType ==
  ASSUME NEW dec \in SUBSET Chunk, dec # {}
  PROVE  Assembled(dec) \in Object
BY NothingTypes DEF Assembled, Chunk

\* A state that collects a message has collected a chunk for its kind.
LEMMA CollectedProperties ==
  ASSUME NEW s \in StateMachine, NEW m \in Message, Collects(s, m)
  PROVE  /\ m.payload \in Kind
         /\ Collected(s, m) \in StateMachine
         /\ Collected(s, m).dec[m.payload] = AddChunk(s.dec[m.payload], m.chunk)
         /\ Collected(s, m).mac[m.payload] =
               IF m.chunk.index = 0 THEN m.mac ELSE s.mac[m.payload]
         /\ AssembledBy(s, m) = Assembled(AddChunk(s.dec[m.payload], m.chunk))
         /\ AssembledBy(s, m) \in Object
<1>1. m.payload \in Kind
  BY DEF Collects, Kind
<1>2. /\ m.chunk \in Chunk /\ m.mac \in Mac
      /\ s.dec \in [Kind -> SUBSET Chunk] /\ s.mac \in [Kind -> Mac]
  BY DEF Message, StateMachine
<1>3. /\ AddChunk(s.dec[m.payload], m.chunk) \in SUBSET Chunk
      /\ AddChunk(s.dec[m.payload], m.chunk) # {}
  BY <1>1, <1>2, AddChunkProperties
<1>4. (IF m.chunk.index = 0 THEN m.mac ELSE s.mac[m.payload]) \in Mac
  BY <1>1, <1>2
<1>5. /\ Collected(s, m) =
            [s EXCEPT !.dec = [s.dec EXCEPT ![m.payload] = AddChunk(@, m.chunk)],
                      !.mac = [s.mac EXCEPT ![m.payload] =
                          IF m.chunk.index = 0 THEN m.mac ELSE @]]
  BY DEF Collected, StateMachine
<1>6. /\ Collected(s, m).dec = [s.dec EXCEPT ![m.payload] = AddChunk(@, m.chunk)]
      /\ Collected(s, m).mac = [s.mac EXCEPT ![m.payload] =
             IF m.chunk.index = 0 THEN m.mac ELSE @]
  BY <1>5 DEF StateMachine
<1>7. Collected(s, m).dec \in [Kind -> SUBSET Chunk]
      /\ Collected(s, m).mac \in [Kind -> Mac]
  BY <1>1, <1>2, <1>3, <1>4, <1>6
<1>8. Collected(s, m) \in StateMachine
  BY <1>5, <1>6, <1>7 DEF StateMachine
<1>9. /\ Collected(s, m).dec[m.payload] = AddChunk(s.dec[m.payload], m.chunk)
      /\ Collected(s, m).mac[m.payload] =
            IF m.chunk.index = 0 THEN m.mac ELSE s.mac[m.payload]
  BY <1>1, <1>2, <1>6
<1>10. AssembledBy(s, m) = Assembled(AddChunk(s.dec[m.payload], m.chunk))
  BY <1>9 DEF AssembledBy
<1> QED
  BY <1>1, <1>3, <1>8, <1>9, <1>10, AssembledType

\* The key of an epoch has its type on both sides.
LEMMA EpochKeyTypes ==
  ASSUME NEW s \in StateMachine, NEW ep \in Nat, NEW ct2 \in Object
  PROVE  Encapsulated(s, ep) \in EpochKey /\ Decapsulated(s, ct2, ep) \in EpochKey
<1>1. s.keys \in Nat /\ s.encaps \in Nat /\ ct2.encaps \in Nat
  BY DEF StateMachine, Object
<1> QED
  BY <1>1 DEF Encapsulated, Decapsulated, EpochKey

\* The states a party reaches by receiving are states.
LEMMA ReceiveTypes ==
  ASSUME TypeOK, NEW p \in Party, Receive(p)
  PROVE  TypeOK'
<1> DEFINE m == Head(channel[p])
           s == sm[p]
<1>1. /\ m \in Message /\ channel' \in [Party -> Seq(Message)]
      /\ m.epoch \in Nat /\ AddedEpoch(m) \in Nat /\ m.epoch + 1 \in Nat
  <2>1. channel[p] # <<>> /\ Take(p)
    BY DEF Receive
  <2>2. m \in Message /\ channel' \in [Party -> Seq(Message)]
    BY <2>1, TakenTypes
  <2> HIDE DEF m
  <2>3. m.epoch \in Nat
    BY <2>2 DEF Message
  <2> QED
    BY <2>2, <2>3 DEF AddedEpoch
<1>2. /\ s \in StateMachine /\ drawn \in Nat /\ drawn + 1 \in Nat
      /\ chain \in [Party -> Seq(EpochKey)] /\ auth \in [Party -> Seq(EpochKey)]
      /\ s.tag \in Tag
  BY DEF TypeOK, StateMachine
<1>3. /\ sm \in [Party -> StateMachine] /\ Epoch(p) \in Nat
      /\ \A tag \in Tag : NextRole(tag) \in Tag
  BY EmittedType, NothingTypes DEF TypeOK, NextRole, Tag, Kind
<1> HIDE DEF m
<1>4. Refuse(p, m) \/ Ignore(p, m) \/ CollectChunk(p, m) \/ ReceiveCt1(p, m)
      \/ ReceiveCt2(p, m) \/ ReceiveHdr(p, m) \/ ReceiveEk(p, m)
      \/ ReceiveCt1Ack(p, m)
  BY DEF Receive, m
<1>5. ASSUME Collects(s, m)
      PROVE  /\ Collected(s, m) \in StateMachine
             /\ AssembledBy(s, m) \in Object /\ AssembledBy(s, m).keys \in Nat
  <2>1. Collected(s, m) \in StateMachine /\ AssembledBy(s, m) \in Object
    BY <1>1, <1>2, <1>5, CollectedProperties
  <2> QED
    BY <2>1 DEF Object
<1>6. Verifies(s, m) => Collects(s, m)
  BY DEF Verifies, Completes
<1>7. CASE Refuse(p, m) \/ Ignore(p, m)
  BY <1>1, <1>7 DEF Refuse, Ignore, TypeOK
<1>8. CASE CollectChunk(p, m)
  BY <1>1, <1>2, <1>5, <1>8, BecomeType DEF CollectChunk, TypeOK
<1>9. CASE ReceiveCt1(p, m)
  <2> DEFINE t == [s EXCEPT
               !.tag = IF @ = "ek_sending" THEN "ek_sending_ct1" ELSE @,
               !.ct1 = AssembledBy(s, m),
               !.dec["ct1"] = {}, !.mac["ct1"] = NoMac]
  <2>1. AssembledBy(s, m) \in Object /\ Become(p, t) /\ UNCHANGED <<chain, auth, drawn>>
    BY <1>5, <1>6, <1>9 DEF ReceiveCt1
  <2>2. (IF s.tag = "ek_sending" THEN "ek_sending_ct1" ELSE s.tag) \in Tag
    BY <1>2 DEF Tag
  <2>3. t \in StateMachine
    BY <1>2, <2>1, <2>2, NothingTypes DEF StateMachine
  <2> HIDE DEF t
  <2> QED
    BY <1>1, <1>2, <2>1, <2>3, BecomeType DEF TypeOK
<1>10. CASE ReceiveCt2(p, m)
  <2> DEFINE key == Decapsulated(s, AssembledBy(s, m), m.epoch)
  <2>1. key \in EpochKey
    BY <1>1, <1>2, <1>5, <1>6, <1>10, EpochKeyTypes DEF ReceiveCt2
  <2>2. /\ chain' = [chain EXCEPT ![p] = Append(@, key)]
        /\ auth' = [auth EXCEPT ![p] = Append(@, key)]
        /\ Become(p, Fresh(NextRole(s.tag))) /\ drawn' = drawn
    BY <1>10 DEF ReceiveCt2
  <2> HIDE DEF key
  <2>3. /\ Append(chain[p], key) \in Seq(EpochKey)
        /\ Append(auth[p], key) \in Seq(EpochKey)
    BY <1>2, <2>1, AppendProperties
  <2>4. Fresh(NextRole(s.tag)) \in StateMachine
    BY <1>2, <1>3, NothingTypes
  <2>5. chain' \in [Party -> Seq(EpochKey)] /\ auth' \in [Party -> Seq(EpochKey)]
    BY <1>2, <2>2, <2>3
  <2> QED
    BY <1>1, <1>2, <2>2, <2>4, <2>5, BecomeType DEF TypeOK
<1>11. CASE ReceiveHdr(p, m)
  <2> DEFINE t == [Fresh("ct1_sending") EXCEPT
                 !.keys = AssembledBy(s, m).keys, !.encaps = drawn + 1]
             key == Encapsulated(t, AddedEpoch(m))
  <2>1. /\ chain' = [chain EXCEPT ![p] = Append(@, key)]
        /\ Become(p, t) /\ drawn' = drawn + 1 /\ auth' = auth
    BY <1>11 DEF ReceiveHdr
  <2>2. AssembledBy(s, m).keys \in Nat
    BY <1>5, <1>6, <1>11 DEF ReceiveHdr
  <2>3. Fresh("ct1_sending") \in StateMachine
    BY NothingTypes DEF Tag
  <2>4. t \in StateMachine
    BY <1>2, <2>2, <2>3 DEF StateMachine
  <2>5. key \in EpochKey
    BY <1>1, <2>4, EpochKeyTypes, NothingTypes
  <2> HIDE DEF t, key
  <2>6. Append(chain[p], key) \in Seq(EpochKey)
    BY <1>2, <2>5, AppendProperties
  <2>7. chain' \in [Party -> Seq(EpochKey)]
    BY <1>2, <2>1, <2>6
  <2> QED
    BY <1>1, <1>2, <2>1, <2>4, <2>7, BecomeType DEF TypeOK
<1>12. CASE ReceiveEk(p, m)
  <2>1. /\ Become(p, [Collected(s, m) EXCEPT !.ek = AssembledBy(s, m)])
        /\ UNCHANGED <<chain, auth, drawn>>
    BY <1>12 DEF ReceiveEk
  <2>2. [Collected(s, m) EXCEPT !.ek = AssembledBy(s, m)] \in StateMachine
    BY <1>5, <1>6, <1>12 DEF ReceiveEk, StateMachine
  <2> QED
    BY <1>1, <1>2, <2>1, <2>2, BecomeType DEF TypeOK
<1>13. CASE ReceiveCt1Ack(p, m)
  <2> DEFINE key == Encapsulated(s, Epoch(p))
  <2>1. key \in EpochKey
    BY <1>2, <1>3, EpochKeyTypes, NothingTypes
  <2>2. /\ auth' = [auth EXCEPT ![p] = Append(@, key)]
        /\ Become(p, Fresh(NextRole(s.tag))) /\ UNCHANGED <<chain, drawn>>
    BY <1>13 DEF ReceiveCt1Ack
  <2> HIDE DEF key
  <2>3. Append(auth[p], key) \in Seq(EpochKey)
    BY <1>2, <2>1, AppendProperties
  <2>4. Fresh(NextRole(s.tag)) \in StateMachine
    BY <1>2, <1>3, NothingTypes
  <2>5. auth' \in [Party -> Seq(EpochKey)]
    BY <1>2, <2>2, <2>3
  <2> QED
    BY <1>1, <1>2, <2>2, <2>4, <2>5, BecomeType DEF TypeOK
<1> QED
  BY <1>4, <1>7, <1>8, <1>9, <1>10, <1>11, <1>12, <1>13

\* The first state has its types.
LEMMA InitTypes == Init => TypeOK
<1> SUFFICES ASSUME Init PROVE TypeOK
  OBVIOUS
<1>1. \A S : <<>> \in Seq(S)
  BY EmptySeq
<1>2. sm \in [Party -> StateMachine]
  BY NothingTypes DEF Init, Tag
<1>3. chain \in [Party -> Seq(EpochKey)] /\ auth \in [Party -> Seq(EpochKey)]
  BY <1>1 DEF Init
<1>4. channel \in [Party -> Seq(Message)]
  BY <1>1 DEF Init
<1> QED
  BY <1>2, <1>3, <1>4 DEF Init, TypeOK

\* The two states and everything under way keep their types in every step.
THEOREM TypeCorrect == Spec => []TypeOK
<1>1. TypeOK /\ [Next]_vars => TypeOK'
  <2> SUFFICES ASSUME TypeOK, [Next]_vars PROVE TypeOK'
    OBVIOUS
  <2>1. CASE Next
    BY <2>1, SendTypes, ReceiveTypes DEF Next
  <2>2. CASE UNCHANGED vars
    BY <2>2 DEF vars, TypeOK
  <2> QED
    BY <2>1, <2>2
<1> QED
  BY <1>1, InitTypes, PTL DEF Spec

-----------------------------------------------------------------------------
(* The inductive invariant: p is the sender of one direction, q its receiver *)

Initiating ==
    {"unsampled", "hdr_sending", "ek_sending", "ek_sending_ct1", "waiting_ct2"}

SendingEk == {"ek_sending", "ek_sending_ct1"}

Responding == {"ct1_sending", "ct2_sending"}

Ciphertext == {"ct1", "ct2"}

LastKey(p) == chain[p][Epoch(p)]

Ahead(p, q) == Epoch(p) = Epoch(q) + 1

\* A party with this tag may have sent chunks of this kind in its epoch: an
\* epoch begins with the ciphertext of one party and goes on with its keys.
Sent(k, tag) ==
    \/ k = "ct1" /\ tag # "waiting_hdr"
    \/ k = "ct2" /\ tag \notin {"waiting_hdr", "ct1_sending"}
    \/ k = "hdr" /\ tag \in Initiating \ {"unsampled"}
    \/ k = "ek" /\ tag \in SendingEk \union {"waiting_ct2"}

EkSent(s) == IF s.tag = "waiting_ct2" THEN EkChunks ELSE s.next

\* The object of this kind that p sends in its epoch.
ObjectOf(p, k) ==
    IF k \in Ciphertext
    THEN [kind |-> k, keys |-> LastKey(p).keys, encaps |-> LastKey(p).encaps]
    ELSE [kind |-> k, keys |-> sm[p].keys, encaps |-> 0]

ChunkFits(p, k, c) ==
    /\ Sent(k, sm[p].tag) /\ c.obj = ObjectOf(p, k)
    /\ k = "ek" => c.index < EkSent(sm[p])

\* The authenticator is one key behind the chain while p sends ciphertext.
MacFits(p, k, a) ==
    \/ a = NoMac
    \/ /\ Sent(k, sm[p].tag) /\ a.obj = ObjectOf(p, k) /\ a.ep = Epoch(p)
       /\ chain[p] = IF k \in Ciphertext THEN Append(a.auth, LastKey(p))
                     ELSE a.auth

Fits(p, m) ==
    /\ m.epoch <= Epoch(p)
    /\ m.epoch = Epoch(p) /\ m.payload \in Kind =>
          ChunkFits(p, m.payload, m.chunk) /\ MacFits(p, m.payload, m.mac)

\* What q still has to read of an older epoch is nothing it collects.
Recent(p, q, m) ==
    /\ sm[q].tag = "waiting_hdr" \/ Ahead(q, p) => m.epoch = Epoch(p)
    /\ sm[q].tag # "waiting_hdr" /\ m.payload \in Ciphertext =>
          m.epoch = Epoch(p) /\ Ahead(p, q)

\* The transport keeps the order: the new epoch's messages come last, and in
\* an epoch the keys follow the ciphertext.
Follows(ep, m, n) ==
    m.epoch = ep =>
        /\ n.epoch = ep
        /\ m.payload \in {"hdr", "ek"} => n.payload \notin Ciphertext

UnderWay(p, q) ==
    /\ \A m \in Range(channel[q]) : Fits(p, m) /\ Recent(p, q, m)
    /\ \A i, j \in DOMAIN channel[q] :
          i < j => Follows(Epoch(p), channel[q][i], channel[q][j])

\* The kinds of chunks a party with this tag has a use for.
Collecting(tag) ==
    {k \in Kind : \/ k = "hdr" /\ tag = "waiting_hdr"
                  \/ k = "ek" /\ tag = "ct1_sending"
                  \/ k \in Ciphertext /\ tag \in Initiating}

\* What q has collected is of the object that p sends.
Gathered(p, q) ==
    /\ \A k \in Collecting(sm[q].tag) :
          /\ \A c \in sm[q].dec[k] : ChunkFits(p, k, c)
          /\ MacFits(p, k, sm[q].mac[k])
          /\ /\ k \in Ciphertext
             /\ sm[q].dec[k] # {} \/ sm[q].mac[k] # NoMac
             => Ahead(p, q)
    /\ sm[q].tag \in Initiating /\ sm[q].ct1 # NoObject =>
          Ahead(p, q) /\ sm[q].ct1 = ObjectOf(p, "ct1")

Links == \A p \in Party : UnderWay(p, Peer(p)) /\ Gathered(p, Peer(p))

\* Both in the same epoch: q waits for the next header.
Level(p, q) ==
    /\ chain[p] = chain[q] /\ sm[q].tag = "waiting_hdr"
    /\ sm[p].tag \in Initiating \union {"ct2_sending"}

\* p has added the key of an exchange that q has not completed; it has the
\* encapsulation key only if q has sent all of it.
Leads(p, q) ==
    /\ Ahead(p, q) /\ chain[p] = Append(chain[q], LastKey(p))
    /\ LastKey(p).keys = sm[q].keys /\ LastKey(p).ep = Epoch(p)
    /\ sm[p].tag # "waiting_hdr" /\ sm[q].tag \in Initiating \ {"unsampled"}
    /\ sm[p].tag # "ct1_sending" \/ sm[p].ek # NoObject =>
          sm[q].tag = "waiting_ct2"

InStep == \E p \in Party : Level(p, Peer(p)) \/ Leads(p, Peer(p))

\* The authenticator of a responder is updated at the end of the epoch.
AuthInStep ==
    \A p \in Party :
        chain[p] = IF sm[p].tag \in Responding
                   THEN Append(auth[p], Encapsulated(sm[p], Epoch(p)))
                   ELSE auth[p]

PartyInStep ==
    \A p \in Party :
        /\ sm[p].tag \in Responding => sm[p].ek \in {NoObject, Ek(sm[p])}
        /\ sm[p].tag = "ct2_sending" => sm[p].ek # NoObject
        /\ sm[p].tag \in SendingEk => sm[p].next < EkChunks

Decoders ==
    \A p \in Party, k \in Kind :
        /\ IsFiniteSet(sm[p].dec[k])
        /\ \A c, d \in sm[p].dec[k] : c.index = d.index => c = d

Inv ==
    /\ TypeOK /\ Decoders /\ AuthInStep /\ PartyInStep /\ InStep /\ Links

-----------------------------------------------------------------------------
(* What the invariant says of two parties *)

\* A chain that is one key longer ends with that key.
LEMMA ExtendedChain ==
  ASSUME NEW c \in Seq(EpochKey), NEW key \in EpochKey
  PROVE  /\ Append(c, key) \in Seq(EpochKey)
         /\ Len(c) \in Nat /\ Len(Append(c, key)) = Len(c) + 1
         /\ Append(c, key)[Len(c) + 1] = key
         /\ \A i \in DOMAIN c : Append(c, key)[i] = c[i]
<1>1. Len(c) \in Nat /\ DOMAIN c = 1 .. Len(c)
  BY LenProperties
<1>2. /\ Append(c, key) \in Seq(EpochKey) /\ Len(Append(c, key)) = Len(c) + 1
      /\ Append(c, key)[Len(c) + 1] = key
  BY AppendProperties
<1>3. \A i \in 1 .. Len(c) : Append(c, key)[i] = c[i]
  BY AppendProperties
<1> QED
  BY <1>1, <1>2, <1>3

\* The key at the end of a chain can be read back from it.
LEMMA SameChain ==
  ASSUME NEW c \in Seq(EpochKey), NEW d \in Seq(EpochKey),
         NEW k \in EpochKey, NEW l \in EpochKey, Append(c, k) = Append(d, l)
  PROVE  c = d /\ k = l
<1>1. /\ Len(c) \in Nat /\ DOMAIN c = 1 .. Len(c)
      /\ Len(d) \in Nat /\ DOMAIN d = 1 .. Len(d)
  BY LenProperties
<1>2. Len(c) = Len(d)
  <2>1. Len(Append(c, k)) = Len(c) + 1 /\ Len(Append(d, l)) = Len(d) + 1
    BY ExtendedChain
  <2>2. Len(c) + 1 = Len(d) + 1
    BY <2>1, Zenon
  <2> DEFINE a == Len(c)
             b == Len(d)
  <2> HIDE DEF a, b
  <2>3. a \in Nat /\ b \in Nat /\ a + 1 = b + 1
    BY <1>1, <2>2 DEF a, b
  <2>4. a = b
    BY <2>3
  <2> QED
    BY <2>4 DEF a, b
<1>3. \A i \in 1 .. Len(c) : c[i] = d[i]
  <2>1. \A i \in 1 .. Len(c) : Append(c, k)[i] = c[i]
    BY <1>1, ExtendedChain
  <2>2. \A i \in 1 .. Len(d) : Append(d, l)[i] = d[i]
    BY <1>1, ExtendedChain
  <2> QED
    BY <1>2, <2>1, <2>2
<1>4. c = d
  BY <1>2, <1>3, SeqEqual
<1>5. Append(c, k)[Len(c) + 1] = k /\ Append(d, l)[Len(d) + 1] = l
  BY ExtendedChain
<1> QED
  BY <1>2, <1>4, <1>5

\* The chains of a typed state and their lengths.
LEMMA ChainTypes ==
  ASSUME TypeOK, NEW p \in Party
  PROVE  /\ chain[p] \in Seq(EpochKey) /\ auth[p] \in Seq(EpochKey)
         /\ Epoch(p) \in Nat /\ Epoch(p) = Len(chain[p])
         /\ sm[p] \in StateMachine /\ sm[p].tag \in Tag
<1>1. chain[p] \in Seq(EpochKey) /\ auth[p] \in Seq(EpochKey) /\ sm[p] \in StateMachine
  BY DEF TypeOK
<1> QED
  BY <1>1, LenProperties DEF Epoch, StateMachine

\* Where two parties can stand.
LEMMA Positions ==
  ASSUME TypeOK, InStep, NEW p \in Party, NEW q \in Party, q = Peer(p)
  PROVE  /\ Level(p, q) \/ Level(q, p) \/ Leads(p, q) \/ Leads(q, p)
         /\ Level(p, q) => Epoch(p) = Epoch(q)
         /\ Level(q, p) => Epoch(p) = Epoch(q)
         /\ sm[q].tag = "waiting_hdr" => Level(p, q)
         /\ sm[p].tag = "ct1_sending" => Leads(p, q)
         /\ sm[p].tag = "ct2_sending" => Level(p, q) \/ Leads(p, q)
         /\ Ahead(p, q) => Leads(p, q) /\ ~Ahead(q, p)
         /\ sm[p].tag = "unsampled" => Level(p, q) \/ Leads(p, q)
<1>1. Level(p, q) \/ Level(q, p) \/ Leads(p, q) \/ Leads(q, p)
  BY PeerProperties DEF InStep
<1>2. Epoch(p) \in Nat /\ Epoch(q) \in Nat
  BY ChainTypes
<1>3. /\ Level(p, q) => Epoch(p) = Epoch(q)
      /\ Level(q, p) => Epoch(p) = Epoch(q)
  BY DEF Level, Epoch
<1>4. Leads(q, p) => ~Ahead(p, q)
  BY <1>2 DEF Leads, Ahead
<1>5. Ahead(p, q) => Leads(p, q) /\ ~Ahead(q, p)
  BY <1>1, <1>2, <1>3, <1>4 DEF Ahead
<1>6. /\ sm[q].tag = "waiting_hdr" => ~Level(q, p) /\ ~Leads(p, q) /\ ~Leads(q, p)
      /\ sm[p].tag = "ct1_sending" => ~Level(p, q) /\ ~Level(q, p) /\ ~Leads(q, p)
      /\ sm[p].tag = "ct2_sending" => ~Level(q, p) /\ ~Leads(q, p)
      /\ sm[p].tag = "unsampled" => ~Level(q, p) /\ ~Leads(q, p)
  BY DEF Level, Leads, Initiating
<1> QED
  BY <1>1, <1>3, <1>5, <1>6

\* The roles of two parties in step do not overlap.
LEMMA InStepRoles == TypeOK /\ InStep => RolesExclusive
<1> SUFFICES ASSUME TypeOK, InStep PROVE RolesExclusive
  OBVIOUS
<1>1. PICK p \in Party : Level(p, Peer(p)) \/ Leads(p, Peer(p))
  BY DEF InStep
<1>2. {sm[Alice].tag, sm[Bob].tag} = {sm[p].tag, sm[Peer(p)].tag}
  BY DEF Party, Peer
<1> DEFINE q == Peer(p)
<1>3. ASSUME NEW roles \in {{"unsampled", "hdr_sending", "ek_sending",
                             "ek_sending_ct1"}, {"ct1_sending", "ct2_sending"}}
      PROVE  ~(sm[p].tag \in roles /\ sm[q].tag \in roles)
  <2>1. CASE Level(p, q)
    BY <2>1 DEF Level
  <2>2. CASE Leads(p, q)
    <3>1. sm[q].tag \in Initiating \ {"unsampled"}
      BY <2>2 DEF Leads
    <3>2. sm[p].tag \in {"unsampled", "hdr_sending", "ek_sending", "ek_sending_ct1"} =>
             sm[q].tag = "waiting_ct2"
      BY <2>2 DEF Leads
    <3> QED
      BY <3>1, <3>2 DEF Initiating
  <2> QED
    BY <1>1, <2>1, <2>2
<1>4. \A roles : sm[Alice].tag \in roles /\ sm[Bob].tag \in roles =>
                 sm[p].tag \in roles /\ sm[q].tag \in roles
  BY DEF Party, Peer
<1> QED
  BY <1>3, <1>4 DEF RolesExclusive

\* The secrets of two parties in step agree.
LEMMA InStepSecrets == TypeOK /\ InStep => EpochSecretsAgree
<1> SUFFICES ASSUME TypeOK, InStep,
                    NEW i \in DOMAIN chain[Alice] \intersect DOMAIN chain[Bob]
             PROVE  chain[Alice][i] = chain[Bob][i]
  BY DEF EpochSecretsAgree
<1>1. PICK p \in Party : Level(p, Peer(p)) \/ Leads(p, Peer(p))
  BY DEF InStep
<1> DEFINE q == Peer(p)
<1>2. q \in Party
  BY PeerProperties
<1>3. \/ p = Alice /\ q = Bob
      \/ p = Bob /\ q = Alice
  BY PartyAssumption DEF Party, Peer
<1>4. i \in DOMAIN chain[q]
  BY <1>3
<1>5. chain[p][i] = chain[q][i]
  <2>1. CASE Level(p, q)
    BY <2>1 DEF Level
  <2>2. CASE Leads(p, q)
    <3>1. chain[p] = Append(chain[q], LastKey(p)) /\ chain[q] \in Seq(EpochKey)
      BY <1>2, <2>2, ChainTypes DEF Leads
    <3>2. DOMAIN chain[q] = 1 .. Len(chain[q]) /\ Len(chain[q]) \in Nat
      BY <3>1, LenProperties
    <3>3. LastKey(p) \in EpochKey
      <4>1. Epoch(p) \in 1 .. Len(chain[p])
        BY <1>2, <2>2, ChainTypes DEF Leads, Ahead
      <4> QED
        BY <4>1, ChainTypes, ElementOfSeq DEF LastKey
    <3> QED
      BY <1>4, <3>1, <3>3, ExtendedChain
  <2> QED
    BY <1>1, <2>1, <2>2
<1> QED
  BY <1>3, <1>5

-----------------------------------------------------------------------------
(* Decoders *)

\* Chunks with different indices below a bound are no more than the bound.
LEMMA CountedChunks ==
  ASSUME NEW dec \in SUBSET Chunk, IsFiniteSet(dec), NEW n \in Nat,
         \A c, d \in dec : c.index = d.index => c = d,
         \A c \in dec : c.index < n
  PROVE  Cardinality(dec) <= n
<1>1. Cardinality(dec) \in Nat
  BY FS_CardinalityType
<1> SUFFICES ASSUME n < Cardinality(dec) PROVE FALSE
  BY <1>1
<1> DEFINE f == [c \in dec |-> c.index]
           I == 0 .. n - 1
<1>2. IsFiniteSet(I) /\ Cardinality(I) = n
  <2>1. IsFiniteSet(0 .. n - 1) /\
        Cardinality(0 .. n - 1) = IF 0 > n - 1 THEN 0 ELSE (n - 1) - 0 + 1
    <3>1. 0 \in Int /\ n - 1 \in Int
      OBVIOUS
    <3> QED
      BY <3>1, FS_Interval
  <2> QED
    BY <2>1
<1>3. f \in [dec -> I]
  BY DEF Chunk
<1>4. \A c \in dec : f[c] = c.index
  OBVIOUS
<1> HIDE DEF f, I
<1>5. \E c, d \in dec : c # d /\ f[c] = f[d]
  BY <1>2, <1>3, FS_PigeonHole
<1> QED
  BY <1>4, <1>5

\* A decoder stays finite and keeps one chunk for an index.
LEMMA AddChunkDecodes ==
  ASSUME NEW dec \in SUBSET Chunk, NEW chunk \in Chunk, IsFiniteSet(dec),
         \A c, d \in dec : c.index = d.index => c = d
  PROVE  /\ IsFiniteSet(AddChunk(dec, chunk))
         /\ \A c, d \in AddChunk(dec, chunk) : c.index = d.index => c = d
<1>1. IsFiniteSet(dec \union {chunk})
  BY FS_AddElement
<1> QED
  BY <1>1 DEF AddChunk

\* Chunks of one object make up that object.
LEMMA AssembledObject ==
  ASSUME NEW dec \in SUBSET Chunk, dec # {}, NEW obj, \A c \in dec : c.obj = obj
  PROVE  Assembled(dec) = obj
<1>1. (CHOOSE c \in dec : TRUE) \in dec
  OBVIOUS
<1> QED
  BY <1>1 DEF Assembled

-----------------------------------------------------------------------------
(* What is under way *)

\* A sender that goes on in its epoch leaves true what it has sent.
Onward(s, t) ==
    /\ \A k \in Kind : Sent(k, s.tag) => Sent(k, t.tag)
    /\ Sent("hdr", s.tag) => t.keys = s.keys
    /\ Sent("ek", s.tag) => EkSent(s) <= EkSent(t)

\* The number of chunks of the encapsulation key that were sent.
LEMMA EkSentType ==
  ASSUME NEW s \in StateMachine
  PROVE  EkSent(s) \in Nat
BY ChunkBounds DEF EkSent, StateMachine

\* What fits the sender's object still fits when it goes on.
LEMMA OnwardFits ==
  ASSUME TypeOK, TypeOK', NEW p \in Party, chain'[p] = chain[p],
         Onward(sm[p], sm'[p]), NEW k \in Kind
  PROVE  /\ \A c \in Chunk : ChunkFits(p, k, c) => ChunkFits(p, k, c)'
         /\ \A a \in Mac : MacFits(p, k, a) => MacFits(p, k, a)'
         /\ k \in Ciphertext => ObjectOf(p, k)' = ObjectOf(p, k)
<1>1. sm[p] \in StateMachine /\ sm'[p] \in StateMachine
  BY DEF TypeOK
<1>2. EkSent(sm[p]) \in Nat /\ EkSent(sm'[p]) \in Nat
  BY <1>1, EkSentType
<1>3. LastKey(p)' = LastKey(p) /\ Epoch(p)' = Epoch(p)
  BY DEF LastKey, Epoch
<1>4. Sent(k, sm[p].tag) => Sent(k, sm'[p].tag)
  BY DEF Onward
<1>5. k \in Ciphertext => ObjectOf(p, k)' = ObjectOf(p, k)
  BY <1>3 DEF ObjectOf
<1>6. Sent(k, sm[p].tag) => ObjectOf(p, k)' = ObjectOf(p, k)
  <2>1. CASE k \in Ciphertext
    BY <1>5, <2>1
  <2>2. CASE k \notin Ciphertext /\ Sent(k, sm[p].tag)
    <3>1. k \in {"hdr", "ek"}
      BY <2>2 DEF Ciphertext, Kind
    <3>2. Sent("hdr", sm[p].tag)
      BY <2>2, <3>1 DEF Sent, SendingEk, Initiating
    <3> QED
      BY <2>2, <3>2 DEF ObjectOf, Onward
  <2> QED
    BY <2>1, <2>2
<1>7. ASSUME NEW c \in Chunk, ChunkFits(p, k, c)
      PROVE  ChunkFits(p, k, c)'
  <2>1. Sent(k, sm[p].tag) /\ c.obj = ObjectOf(p, k)
    BY <1>7 DEF ChunkFits
  <2>2. ASSUME k = "ek" PROVE c.index < EkSent(sm'[p])
    <3>1. c.index < EkSent(sm[p]) /\ EkSent(sm[p]) <= EkSent(sm'[p])
      BY <1>7, <2>1, <2>2 DEF ChunkFits, Onward
    <3> QED
      BY <1>2, <3>1 DEF Chunk
  <2> QED
    BY <1>4, <1>6, <2>1, <2>2 DEF ChunkFits
<1>8. ASSUME NEW a \in Mac, MacFits(p, k, a)
      PROVE  MacFits(p, k, a)'
  BY <1>3, <1>4, <1>6, <1>8 DEF MacFits
<1> QED
  BY <1>5, <1>7, <1>8

\* So do the messages it has under way.
LEMMA OnwardMessages ==
  ASSUME TypeOK, TypeOK', NEW p \in Party, chain'[p] = chain[p],
         Onward(sm[p], sm'[p])
  PROVE  /\ \A m \in Message : Fits(p, m) => Fits(p, m)'
         /\ Epoch(p)' = Epoch(p)
<1>1. Epoch(p)' = Epoch(p)
  BY DEF Epoch
<1>2. ASSUME NEW m \in Message, Fits(p, m)
      PROVE  Fits(p, m)'
  <2>1. m.chunk \in Chunk /\ m.mac \in Mac
    BY DEF Message
  <2> QED
    BY <1>1, <1>2, <2>1, OnwardFits DEF Fits
<1> QED
  BY <1>1, <1>2

\* The members of a sequence are its elements.
LEMMA RangeOfChannel ==
  ASSUME NEW ch \in Seq(Message)
  PROVE  /\ Len(ch) \in Nat /\ DOMAIN ch = 1 .. Len(ch)
         /\ \A i \in 1 .. Len(ch) : ch[i] \in Range(ch)
         /\ \A m \in Range(ch) : m \in Message /\ \E i \in 1 .. Len(ch) : m = ch[i]
<1>1. Len(ch) \in Nat /\ DOMAIN ch = 1 .. Len(ch)
  BY LenProperties
<1>2. \A i \in 1 .. Len(ch) : ch[i] \in Message
  BY ElementOfSeq
<1> QED
  BY <1>1, <1>2 DEF Range

\* One more message is the last one.
LEMMA AppendedChannel ==
  ASSUME NEW ch \in Seq(Message), NEW n \in Message
  PROVE  /\ DOMAIN Append(ch, n) = 1 .. Len(ch) + 1
         /\ Append(ch, n)[Len(ch) + 1] = n
         /\ \A i \in 1 .. Len(ch) : Append(ch, n)[i] = ch[i]
         /\ Range(Append(ch, n)) = Range(ch) \union {n}
<1>1. Len(ch) \in Nat /\ DOMAIN ch = 1 .. Len(ch)
  BY LenProperties
<1>2. /\ Append(ch, n) \in Seq(Message) /\ Len(Append(ch, n)) = Len(ch) + 1
      /\ Append(ch, n)[Len(ch) + 1] = n
      /\ \A i \in 1 .. Len(ch) : Append(ch, n)[i] = ch[i]
  BY AppendProperties
<1>3. DOMAIN Append(ch, n) = 1 .. Len(ch) + 1
  BY <1>2, LenProperties
<1> DEFINE t == Append(ch, n)
           N == Len(ch)
<1>4. /\ N \in Nat /\ DOMAIN t = 1 .. N + 1 /\ DOMAIN ch = 1 .. N
      /\ t[N + 1] = n /\ \A i \in 1 .. N : t[i] = ch[i]
  BY <1>1, <1>2, <1>3
<1> HIDE DEF t, N
<1>5. Range(t) = Range(ch) \union {n}
  BY <1>4 DEF Range
<1> QED
  BY <1>2, <1>3, <1>5 DEF t

\* Without its first message a channel holds the others in their order.
LEMMA TailChannel ==
  ASSUME NEW ch \in Seq(Message), ch # <<>>
  PROVE  /\ Len(ch) \in Nat \ {0}
         /\ DOMAIN Tail(ch) = 1 .. Len(ch) - 1
         /\ \A i \in 1 .. Len(ch) - 1 : Tail(ch)[i] = ch[i + 1]
         /\ Head(ch) = ch[1]
         /\ \A m \in Range(Tail(ch)) : \E i \in 2 .. Len(ch) : m = ch[i]
<1>1. Len(ch) \in Nat \ {0} /\ DOMAIN ch = 1 .. Len(ch)
  BY LenProperties, EmptySeq
<1>2. /\ Tail(ch) \in Seq(Message) /\ Len(Tail(ch)) = Len(ch) - 1
      /\ \A i \in 1 .. Len(ch) - 1 : Tail(ch)[i] = ch[i + 1]
  BY HeadTailProperties
<1>3. DOMAIN Tail(ch) = 1 .. Len(ch) - 1
  BY <1>2, LenProperties
<1>4. Head(ch) = ch[1]
  BY <1>1
<1> DEFINE t == Tail(ch)
           N == Len(ch)
<1>5. /\ N \in Nat \ {0} /\ DOMAIN t = 1 .. N - 1
      /\ \A i \in 1 .. N - 1 : t[i] = ch[i + 1]
  BY <1>1, <1>2, <1>3
<1> HIDE DEF t, N
<1>6. \A i \in 1 .. N - 1 : i + 1 \in 2 .. N
  BY <1>5
<1>7. \A m \in Range(t) : \E i \in 2 .. N : m = ch[i]
  BY <1>5, <1>6 DEF Range
<1> QED
  BY <1>1, <1>2, <1>3, <1>4, <1>7 DEF t, N

\* Everything under way after one more message.
LEMMA AppendUnderWay ==
  ASSUME TypeOK, NEW p \in Party, NEW q \in Party, UnderWay(p, q),
         NEW n \in Message, channel'[q] = Append(channel[q], n),
         Epoch(p)' = Epoch(p),
         \A m \in Message : Fits(p, m) /\ Recent(p, q, m) =>
                            Fits(p, m)' /\ Recent(p, q, m)',
         Fits(p, n)', Recent(p, q, n)',
         \A m \in Message : Fits(p, m) => Follows(Epoch(p), m, n)
  PROVE  UnderWay(p, q)'
<1> DEFINE N == Len(channel[q])
<1>1. /\ channel[q] \in Seq(Message) /\ N \in Nat /\ DOMAIN channel[q] = 1 .. N
      /\ \A i \in 1 .. N : channel[q][i] \in Range(channel[q])
      /\ \A m \in Range(channel[q]) : m \in Message
  BY RangeOfChannel DEF TypeOK
<1>2. /\ DOMAIN channel'[q] = 1 .. N + 1 /\ channel'[q][N + 1] = n
      /\ \A i \in 1 .. N : channel'[q][i] = channel[q][i]
      /\ Range(channel'[q]) = Range(channel[q]) \union {n}
  BY <1>1, AppendedChannel
<1> HIDE DEF N
<1>3. \A m \in Range(channel'[q]) : Fits(p, m)' /\ Recent(p, q, m)'
  BY <1>1, <1>2 DEF UnderWay
<1>4. ASSUME NEW i \in 1 .. N + 1, NEW j \in 1 .. N + 1, i < j
      PROVE  Follows(Epoch(p), channel'[q][i], channel'[q][j])
  <2>1. i \in 1 .. N
    BY <1>1, <1>4
  <2>2. channel[q][i] \in Message /\ Fits(p, channel[q][i])
    BY <1>1, <2>1 DEF UnderWay
  <2>3. CASE j = N + 1
    BY <1>2, <2>1, <2>2, <2>3
  <2>4. CASE j \in 1 .. N
    BY <1>1, <1>2, <1>4, <2>1, <2>4 DEF UnderWay
  <2> QED
    BY <1>1, <2>3, <2>4
<1>5. \A i, j \in DOMAIN channel'[q] :
         i < j => Follows(Epoch(p)', channel'[q][i], channel'[q][j])
  BY <1>2, <1>4
<1> QED
  BY <1>3, <1>5 DEF UnderWay

\* Everything under way after the first message was taken.
LEMMA TailUnderWay ==
  ASSUME TypeOK, NEW p \in Party, NEW q \in Party, UnderWay(p, q),
         channel[q] # <<>>, channel'[q] = Tail(channel[q]),
         Epoch(p)' = Epoch(p),
         \A m \in Message :
            /\ Fits(p, m) /\ Recent(p, q, m)
            /\ Follows(Epoch(p), Head(channel[q]), m)
            => Fits(p, m)' /\ Recent(p, q, m)'
  PROVE  UnderWay(p, q)'
<1> DEFINE N == Len(channel[q])
<1>1. /\ channel[q] \in Seq(Message) /\ N \in Nat /\ DOMAIN channel[q] = 1 .. N
      /\ \A i \in 1 .. N : channel[q][i] \in Range(channel[q])
      /\ \A m \in Range(channel[q]) : m \in Message
  BY RangeOfChannel DEF TypeOK
<1>2. /\ N # 0 /\ DOMAIN channel'[q] = 1 .. N - 1
      /\ \A i \in 1 .. N - 1 : channel'[q][i] = channel[q][i + 1]
      /\ Head(channel[q]) = channel[q][1]
      /\ \A m \in Range(channel'[q]) : \E i \in 2 .. N : m = channel[q][i]
  BY <1>1, TailChannel
<1> HIDE DEF N
<1>3. ASSUME NEW m \in Range(channel'[q])
      PROVE  Fits(p, m)' /\ Recent(p, q, m)'
  <2>1. PICK i \in 2 .. N : m = channel[q][i]
    BY <1>2
  <2>2. i \in 1 .. N /\ 1 \in 1 .. N /\ 1 < i
    BY <1>1
  <2>3. m \in Message /\ Fits(p, m) /\ Recent(p, q, m)
    BY <1>1, <2>1, <2>2 DEF UnderWay
  <2>4. Follows(Epoch(p), Head(channel[q]), m)
    BY <1>1, <1>2, <2>1, <2>2 DEF UnderWay
  <2> QED
    BY <2>3, <2>4
<1>4. ASSUME NEW i \in 1 .. N - 1, NEW j \in 1 .. N - 1, i < j
      PROVE  Follows(Epoch(p), channel'[q][i], channel'[q][j])
  <2>1. i + 1 \in 1 .. N /\ j + 1 \in 1 .. N /\ i + 1 < j + 1
    BY <1>1, <1>4
  <2> QED
    BY <1>1, <1>2, <2>1 DEF UnderWay
<1>5. \A i, j \in DOMAIN channel'[q] :
         i < j => Follows(Epoch(p)', channel'[q][i], channel'[q][j])
  BY <1>2, <1>4
<1> QED
  BY <1>3, <1>5 DEF UnderWay

\* Everything under way when nothing was sent or taken.
LEMMA SameUnderWay ==
  ASSUME TypeOK, NEW p \in Party, NEW q \in Party, UnderWay(p, q),
         channel'[q] = channel[q],
         \A m \in Message : Fits(p, m) /\ Recent(p, q, m) =>
                            Fits(p, m)' /\ Recent(p, q, m)',
         \A m, n \in Message : Fits(p, m) /\ Follows(Epoch(p), m, n) =>
                               Follows(Epoch(p)', m, n)
  PROVE  UnderWay(p, q)'
<1>1. /\ \A i \in DOMAIN channel[q] : channel[q][i] \in Range(channel[q])
      /\ \A m \in Range(channel[q]) : m \in Message
  BY RangeOfChannel DEF TypeOK
<1>2. \A m \in Range(channel'[q]) : Fits(p, m)' /\ Recent(p, q, m)'
  BY <1>1 DEF UnderWay
<1>3. \A i, j \in DOMAIN channel'[q] :
         i < j => Follows(Epoch(p)', channel'[q][i], channel'[q][j])
  BY <1>1 DEF UnderWay
<1> QED
  BY <1>2, <1>3 DEF UnderWay

-----------------------------------------------------------------------------
(* What is collected *)

\* The parts of the invariant that concern one direction.
LEMMA Direction ==
  ASSUME Inv, NEW p \in Party
  PROVE  /\ TypeOK /\ Peer(p) \in Party /\ Peer(p) # p /\ Peer(Peer(p)) = p
         /\ UnderWay(p, Peer(p)) /\ Gathered(p, Peer(p))
         /\ UnderWay(Peer(p), p) /\ Gathered(Peer(p), p)
         /\ sm[p] \in StateMachine
<1>1. TypeOK /\ Links /\ Peer(p) \in Party /\ Peer(p) # p /\ Peer(Peer(p)) = p
  BY PeerProperties DEF Inv
<1>2. /\ UnderWay(p, Peer(p)) /\ Gathered(p, Peer(p))
      /\ UnderWay(Peer(p), Peer(Peer(p))) /\ Gathered(Peer(p), Peer(Peer(p)))
  BY <1>1 DEF Links
<1> QED
  BY <1>1, <1>2 DEF TypeOK

\* A message that its receiver collects belongs to the sender's epoch.
LEMMA ArrivingFits ==
  ASSUME Inv, NEW p \in Party, NEW q \in Party, q = Peer(p),
         NEW m \in Message, Fits(p, m), Recent(p, q, m), Collects(sm[q], m)
  PROVE  /\ m.payload \in Collecting(sm[q].tag) /\ m.payload \in Kind
         /\ m.epoch = Epoch(p)
         /\ ChunkFits(p, m.payload, m.chunk) /\ MacFits(p, m.payload, m.mac)
         /\ m.payload \in Ciphertext =>
               Ahead(p, q) /\ Leads(p, q) /\ sm[q].tag \in Initiating
         /\ m.payload = "hdr" => Level(p, q) /\ sm[q].tag = "waiting_hdr"
         /\ m.payload = "ek" => Leads(q, p) /\ Ahead(q, p) /\ sm[q].tag = "ct1_sending"
<1>1. TypeOK /\ InStep /\ p = Peer(q)
  BY Direction DEF Inv
<1>2. /\ m.payload \in Kind
      /\ m.payload \in Ciphertext => sm[q].tag \in {"ek_sending", "waiting_ct2"}
      /\ m.payload = "hdr" => sm[q].tag = "waiting_hdr"
      /\ m.payload = "ek" => sm[q].tag = "ct1_sending"
      /\ m.payload \in Ciphertext \union {"hdr", "ek"}
  BY DEF Collects, Kind, Ciphertext
<1>3. m.payload \in Collecting(sm[q].tag)
  BY <1>2 DEF Collecting, Initiating
<1>4. m.payload = "hdr" => Level(p, q)
  BY <1>1, <1>2, Positions
<1>5. m.payload = "ek" => Leads(q, p) /\ Ahead(q, p)
  BY <1>1, <1>2, Positions DEF Leads
<1>6. m.payload \in Ciphertext => m.epoch = Epoch(p) /\ Ahead(p, q)
  BY <1>2 DEF Recent
<1>7. m.epoch = Epoch(p)
  BY <1>2, <1>5, <1>6 DEF Recent
<1>8. m.payload \in Ciphertext => Leads(p, q)
  BY <1>1, <1>6, Positions
<1> QED
  BY <1>2, <1>3, <1>4, <1>5, <1>6, <1>7, <1>8 DEF Fits, Initiating

\* What a party collects fits as a whole, and makes up the sender's object.
LEMMA CollectedFits ==
  ASSUME Inv, NEW p \in Party, NEW q \in Party, q = Peer(p),
         NEW m \in Message, Fits(p, m), Recent(p, q, m), Collects(sm[q], m)
  PROVE  /\ \A c \in Collected(sm[q], m).dec[m.payload] : ChunkFits(p, m.payload, c)
         /\ MacFits(p, m.payload, Collected(sm[q], m).mac[m.payload])
         /\ AssembledBy(sm[q], m) = ObjectOf(p, m.payload)
<1> DEFINE k == m.payload
           s == sm[q]
<1>1. k \in Collecting(s.tag) /\ k \in Kind /\ Gathered(p, q) /\ s \in StateMachine
  BY ArrivingFits, Direction
<1>2. ChunkFits(p, k, m.chunk) /\ MacFits(p, k, m.mac)
  BY ArrivingFits
<1>3. /\ Collected(s, m).dec[k] = AddChunk(s.dec[k], m.chunk)
      /\ Collected(s, m).mac[k] = IF m.chunk.index = 0 THEN m.mac ELSE s.mac[k]
      /\ AssembledBy(s, m) = Assembled(AddChunk(s.dec[k], m.chunk))
  BY <1>1, CollectedProperties
<1>4. (\A c \in s.dec[k] : ChunkFits(p, k, c)) /\ MacFits(p, k, s.mac[k])
  BY <1>1 DEF Gathered
<1>5. s.dec[k] \in SUBSET Chunk /\ m.chunk \in Chunk
  BY <1>1 DEF StateMachine, Message
<1> HIDE DEF k, s
<1>6. /\ AddChunk(s.dec[k], m.chunk) \in SUBSET Chunk
      /\ AddChunk(s.dec[k], m.chunk) # {}
      /\ AddChunk(s.dec[k], m.chunk) \subseteq s.dec[k] \union {m.chunk}
  BY <1>5, AddChunkProperties
<1>7. \A c \in AddChunk(s.dec[k], m.chunk) : ChunkFits(p, k, c)
  BY <1>2, <1>4, <1>6
<1>8. \A c \in AddChunk(s.dec[k], m.chunk) : c.obj = ObjectOf(p, k)
  BY <1>7 DEF ChunkFits
<1>9. Assembled(AddChunk(s.dec[k], m.chunk)) = ObjectOf(p, k)
  BY <1>6, <1>8, AssembledObject
<1>10. MacFits(p, k, Collected(s, m).mac[k])
  BY <1>2, <1>3, <1>4
<1> QED
  BY <1>3, <1>7, <1>9, <1>10 DEF k, s

\* The first message under way fits.
LEMMA HeadFits ==
  ASSUME Inv, NEW p \in Party, NEW q \in Party, q = Peer(p), channel[q] # <<>>
  PROVE  /\ Head(channel[q]) \in Message
         /\ Fits(p, Head(channel[q])) /\ Recent(p, q, Head(channel[q]))
<1>1. channel[q] \in Seq(Message) /\ UnderWay(p, q)
  BY Direction DEF TypeOK
<1>2. Head(channel[q]) = channel[q][1] /\ 1 \in 1 .. Len(channel[q])
  BY <1>1, TailChannel
<1>3. Head(channel[q]) \in Range(channel[q]) /\ Head(channel[q]) \in Message
  BY <1>1, <1>2, RangeOfChannel
<1> QED
  BY <1>1, <1>3 DEF UnderWay

\* No MAC is refused: the key and epoch it was made under are the receiver's.
LEMMA InvNoInvalidMac == Inv => NoInvalidMac
<1> SUFFICES ASSUME Inv, NEW q \in Party, channel[q] # <<>>,
                    InvalidMac(q, Head(channel[q]))
             PROVE  FALSE
  BY DEF NoInvalidMac
<1> DEFINE p == Peer(q)
           m == Head(channel[q])
           k == m.payload
           a == Collected(sm[q], m).mac[k]
<1>1. p \in Party /\ q = Peer(p) /\ TypeOK
  BY Direction
<1>2. m \in Message /\ Fits(p, m) /\ Recent(p, q, m)
  BY <1>1, HeadFits
<1>3. Collects(sm[q], m) /\ Verifies(sm[q], m)
  BY DEF InvalidMac, Verifies, Completes
<1>4. /\ a # NoMac
      /\ a # [auth |-> auth[q], ep |-> m.epoch, obj |-> AssembledBy(sm[q], m)]
  BY <1>3 DEF InvalidMac, MissingMac
<1> HIDE DEF p, m
<1>5. /\ k \in Kind /\ m.epoch = Epoch(p)
      /\ k \in Ciphertext => Leads(p, q) /\ sm[q].tag \in Initiating
      /\ k = "hdr" => Level(p, q) /\ sm[q].tag = "waiting_hdr"
      /\ k = "ek" => Leads(q, p) /\ sm[q].tag = "ct1_sending"
  BY <1>1, <1>2, <1>3, ArrivingFits
<1>6. MacFits(p, k, a) /\ AssembledBy(sm[q], m) = ObjectOf(p, k)
  BY <1>1, <1>2, <1>3, CollectedFits
<1>7. a \in Mac
  BY <1>2, <1>3, <1>5, Direction, CollectedProperties DEF StateMachine
<1> HIDE DEF a
<1>8. /\ a.obj = AssembledBy(sm[q], m) /\ a.ep = m.epoch
      /\ chain[p] = IF k \in Ciphertext THEN Append(a.auth, LastKey(p)) ELSE a.auth
  BY <1>4, <1>5, <1>6 DEF MacFits
<1>9. a.auth = auth[q]
  <2>1. /\ chain[p] \in Seq(EpochKey) /\ chain[q] \in Seq(EpochKey)
        /\ auth[q] \in Seq(EpochKey) /\ a.auth \in Seq(EpochKey)
    BY <1>1, <1>7, ChainTypes DEF Mac
  <2>2. AuthInStep
    BY DEF Inv
  <2>3. CASE k = "hdr"
    BY <1>5, <1>8, <2>2, <2>3 DEF Level, AuthInStep, Ciphertext, Responding
  <2>4. CASE k = "ek"
    <3>1. chain[q] = Append(chain[p], LastKey(q)) /\ Ahead(q, p)
      BY <1>5, <2>4 DEF Leads
    <3>2. chain[q] = Append(auth[q], Encapsulated(sm[q], Epoch(q)))
      BY <1>5, <2>2, <2>4 DEF AuthInStep, Responding
    <3>3. LastKey(q) \in EpochKey /\ Encapsulated(sm[q], Epoch(q)) \in EpochKey
      <4>1. Epoch(q) \in 1 .. Len(chain[q]) /\ Epoch(q) \in Nat
        BY <1>1, <3>1, ChainTypes DEF Ahead
      <4>2. LastKey(q) \in EpochKey
        BY <2>1, <4>1, ElementOfSeq DEF LastKey
      <4> QED
        BY <1>1, <4>1, <4>2, ChainTypes, EpochKeyTypes, NothingTypes
    <3>4. Append(chain[p], LastKey(q)) = Append(auth[q], Encapsulated(sm[q], Epoch(q)))
      BY <3>1, <3>2
    <3>5. chain[p] = auth[q]
      BY <2>1, <3>3, <3>4, SameChain
    <3> QED
      BY <1>8, <2>4, <3>5 DEF Ciphertext
  <2>5. CASE k \in Ciphertext
    <3>1. chain[p] = Append(chain[q], LastKey(p)) /\ Ahead(p, q)
      BY <1>5, <2>5 DEF Leads
    <3>2. chain[q] = auth[q]
      BY <1>5, <2>2, <2>5 DEF AuthInStep, Responding, Initiating
    <3>3. LastKey(p) \in EpochKey
      <4>1. Epoch(p) \in 1 .. Len(chain[p])
        BY <1>1, <3>1, ChainTypes DEF Ahead
      <4> QED
        BY <2>1, <4>1, ElementOfSeq DEF LastKey
    <3>4. Append(a.auth, LastKey(p)) = Append(chain[q], LastKey(p))
      BY <1>8, <2>5, <3>1
    <3> QED
      BY <2>1, <3>2, <3>3, <3>4, SameChain
  <2> QED
    BY <1>5, <2>3, <2>4, <2>5 DEF Kind, Ciphertext
<1>10. a = [auth |-> auth[q], ep |-> m.epoch, obj |-> AssembledBy(sm[q], m)]
  BY <1>7, <1>8, <1>9 DEF Mac
<1> QED
  BY <1>4, <1>10 DEF a

-----------------------------------------------------------------------------
(* Steps that send *)

\* What a party that sends does not change.
Keeps(s, t) ==
    /\ s.tag = "waiting_hdr" <=> t.tag = "waiting_hdr"
    /\ s.tag \in Initiating <=> t.tag \in Initiating
    /\ t.tag = "unsampled" => s.tag = "unsampled"
    /\ s.tag \in Initiating \ {"unsampled"} => t.keys = s.keys
    /\ s.tag = "waiting_ct2" => t.tag = "waiting_ct2"
    /\ t.tag \in SendingEk => t.next < EkChunks
    /\ s.tag \in Responding =>
          t.keys = s.keys /\ t.encaps = s.encaps /\ t.ek = s.ek
    /\ s.tag = "ct2_sending" => t.tag = "ct2_sending"
    /\ t.tag = "ct2_sending" => t.ek # NoObject
    /\ \A k \in Kind : t.dec[k] \in {{}, s.dec[k]} /\ t.mac[k] \in {NoMac, s.mac[k]}
    /\ t.ct1 \in {NoObject, s.ct1}

\* The message that a step of p has sent.
Sends(p, n) ==
    /\ channel' = [channel EXCEPT ![Peer(p)] = Append(@, n)]
    /\ UNCHANGED <<chain, auth>> /\ sm'[Peer(p)] = sm[Peer(p)]
    /\ n.epoch = Epoch(p)
    /\ n.payload \in Ciphertext => sm[p].tag \in Responding
    /\ n.payload \in Kind =>
          ChunkFits(p, n.payload, n.chunk)' /\ MacFits(p, n.payload, n.mac)'

\* The last key of a responder is the one it encapsulated.
LEMMA RespondersKey ==
  ASSUME TypeOK, AuthInStep, NEW p \in Party, sm[p].tag \in Responding
  PROVE  /\ LastKey(p) = Encapsulated(sm[p], Epoch(p))
         /\ chain[p] = Append(auth[p], LastKey(p))
         /\ LastKey(p) \in EpochKey /\ Epoch(p) = Len(auth[p]) + 1
<1> DEFINE key == Encapsulated(sm[p], Epoch(p))
<1>1. key \in EpochKey /\ auth[p] \in Seq(EpochKey)
  BY ChainTypes, EpochKeyTypes, NothingTypes
<1>2. chain[p] = Append(auth[p], key)
  BY DEF AuthInStep
<1> HIDE DEF key
<1>3. Epoch(p) = Len(auth[p]) + 1 /\ LastKey(p) = key
  BY <1>1, <1>2, ExtendedChain DEF LastKey, Epoch
<1> QED
  BY <1>1, <1>2, <1>3 DEF key

\* A chunk of the object that the sender is at fits.
LEMMA EmitChunkSends ==
  ASSUME TypeOK, TypeOK', AuthInStep, NEW p \in Party, NEW obj \in Object,
         NEW i \in Nat, EmitChunk(p, obj, i), sm'[Peer(p)] = sm[Peer(p)],
         obj.kind \in Kind, obj = ObjectOf(p, obj.kind)',
         Sent(obj.kind, sm'[p].tag), obj.kind = "ek" => i < EkSent(sm'[p]),
         obj.kind \in Ciphertext <=> sm[p].tag \in Responding
  PROVE  \E n \in Message : Sends(p, n)
<1>1. PICK chunk \in Chunk : chunk = [obj |-> obj, index |-> i]
  BY EmittedChunkType
<1>2. PICK mac \in Mac : mac = IF i = 0 THEN MacOf(p, obj) ELSE NoMac
  BY EmittedChunkType
<1>3. PICK n \in Message : n = [epoch |-> Epoch(p), payload |-> obj.kind,
                                chunk |-> chunk, mac |-> mac]
  BY EmittedType
<1>4. Emit(p, obj.kind, chunk, mac)
  BY <1>1, <1>2 DEF EmitChunk
<1>5. Epoch(p)' = Epoch(p) /\ LastKey(p)' = LastKey(p) /\ chain' = chain /\ auth' = auth
  BY <1>4 DEF Emit, Epoch, LastKey
<1>6. MacFits(p, obj.kind, mac)'
  <2>1. CASE i # 0
    BY <1>2, <2>1 DEF MacFits
  <2>2. CASE i = 0
    <3>1. mac.auth = auth[p] /\ mac.ep = Epoch(p) /\ mac.obj = obj
      BY <1>2, <2>2 DEF MacOf
    <3>2. chain[p] = IF obj.kind \in Ciphertext THEN Append(auth[p], LastKey(p))
                     ELSE auth[p]
      BY RespondersKey DEF AuthInStep
    <3> QED
      BY <1>5, <3>1, <3>2 DEF MacFits
  <2> QED
    BY <2>1, <2>2
<1>7. ChunkFits(p, obj.kind, chunk)'
  BY <1>1 DEF ChunkFits
<1>8. /\ n.epoch = Epoch(p) /\ n.payload = obj.kind
      /\ n.chunk = chunk /\ n.mac = mac
  BY <1>3
<1>9. channel' = [channel EXCEPT ![Peer(p)] = Append(@, n)]
  BY <1>3, <1>4 DEF Emit
<1> QED
  BY <1>5, <1>6, <1>7, <1>8, <1>9 DEF Sends

\* A message without a chunk fits anything.
LEMMA EmitEmptySends ==
  ASSUME TypeOK, NEW p \in Party, NEW payload \in {"ct1_ack", "none"},
         Emit(p, payload, NoChunk, NoMac), sm' = sm
  PROVE  \E n \in Message : Sends(p, n)
<1>1. PICK n \in Message : n = [epoch |-> Epoch(p), payload |-> payload,
                                chunk |-> NoChunk, mac |-> NoMac]
  BY EmittedType, NothingTypes
<1>2. /\ channel' = [channel EXCEPT ![Peer(p)] = Append(@, n)]
      /\ UNCHANGED <<chain, auth>>
  BY <1>1 DEF Emit
<1>3. n.epoch = Epoch(p) /\ n.payload \notin Kind
  BY <1>1 DEF Kind
<1> QED
  BY <1>2, <1>3 DEF Sends, Ciphertext, Kind

\* A party that becomes another state leaves its peer as it is.
LEMMA BecomePeer ==
  ASSUME TypeOK, NEW p \in Party, NEW s, Become(p, s)
  PROVE  sm'[p] = s /\ sm'[Peer(p)] = sm[Peer(p)]
BY PeerProperties DEF TypeOK, Become

\* A sender that only counts on goes on and keeps the rest.
LEMMA CountOnKeeps ==
  ASSUME NEW s \in StateMachine, s.tag = "ct2_sending" => s.ek # NoObject,
         s.tag \notin SendingEk
  PROVE  LET t == [s EXCEPT !.next = @ + 1] IN Onward(s, t) /\ Keeps(s, t)
<1> DEFINE t == [s EXCEPT !.next = @ + 1]
<1>1. /\ t.tag = s.tag /\ t.keys = s.keys /\ t.encaps = s.encaps /\ t.ek = s.ek
      /\ t.dec = s.dec /\ t.mac = s.mac /\ t.ct1 = s.ct1
  BY DEF StateMachine
<1>2. Sent("ek", s.tag) => EkSent(t) = EkSent(s)
  BY <1>1 DEF Sent, EkSent
<1>3. EkSent(s) \in Nat
  BY EkSentType
<1> HIDE DEF t
<1>4. Onward(s, t)
  BY <1>1, <1>2, <1>3 DEF Onward
<1>5. Keeps(s, t)
  BY <1>1 DEF Keeps
<1> QED
  BY <1>4, <1>5 DEF t

\* A party that stays what it is goes on and keeps the rest.
LEMMA StayKeeps ==
  ASSUME NEW s \in StateMachine, s.tag = "ct2_sending" => s.ek # NoObject,
         s.tag \in SendingEk => s.next < EkChunks
  PROVE  Onward(s, s) /\ Keeps(s, s)
<1>1. EkSent(s) \in Nat
  BY EkSentType
<1> QED
  BY <1>1 DEF Onward, Keeps

\* Every step that sends: how the party goes on, and what it has sent.
LEMMA SendEffect ==
  ASSUME Inv, TypeOK', NEW p \in Party, Send(p)
  PROVE  /\ Onward(sm[p], sm'[p]) /\ Keeps(sm[p], sm'[p])
         /\ \E n \in Message : Sends(p, n)
<1> DEFINE s == sm[p]
           t == sm'[p]
           q == Peer(p)
<1>1. /\ s \in StateMachine /\ s.next \in Nat /\ s.keys \in Nat /\ s.encaps \in Nat
      /\ s.tag \in Tag /\ drawn \in Nat /\ TypeOK /\ AuthInStep
  BY DEF Inv, TypeOK, StateMachine
<1>2. /\ s.tag = "ct2_sending" => s.ek # NoObject
      /\ s.tag \in SendingEk => s.next < EkChunks
      /\ s.tag \in Responding => s.ek \in {NoObject, Ek(s)}
  BY DEF Inv, PartyInStep
<1>3. s.tag \in Responding =>
         LastKey(p).keys = s.keys /\ LastKey(p).encaps = s.encaps
  BY <1>1, RespondersKey DEF Encapsulated
<1>4. chain' = chain => LastKey(p)' = LastKey(p)
  BY DEF LastKey, Epoch
<1>5. \A obj, i : EmitChunk(p, obj, i) => chain' = chain
  BY DEF EmitChunk, Emit
<1>6. /\ Hdr(s) \in Object /\ Ek(s) \in Object /\ Ct1(s) \in Object
      /\ Ct2(s) \in Object
  BY <1>1, ObjectTypes
<1> HIDE DEF s, t
<1>7. CASE SampleKeys(p)
  <2> DEFINE u == [Fresh("hdr_sending") EXCEPT !.keys = drawn + 1, !.next = 1]
  <2>1. s.tag = "unsampled" /\ Become(p, u) /\ EmitChunk(p, Hdr(u), 0)
    BY <1>7 DEF SampleKeys, s
  <2>2. t = u /\ sm'[q] = sm[q]
    BY <1>1, <2>1, BecomePeer DEF t
  <2>3. /\ u.tag = "hdr_sending" /\ u.keys \in Nat /\ u.ct1 = NoObject /\ u.ek = NoObject
        /\ \A k \in Kind : u.dec[k] = {} /\ u.mac[k] = NoMac
    BY <1>1 DEF Fresh
  <2> HIDE DEF u
  <2>4. Onward(s, u) /\ Keeps(s, u)
    BY <2>1, <2>3 DEF Onward, Keeps, Sent, Initiating, SendingEk, Responding, Kind
  <2>5. PICK obj \in Object : obj = Hdr(u)
    BY <2>3 DEF Hdr, Object, Kind
  <2>6. obj.kind = "hdr" /\ obj.keys = u.keys /\ obj.encaps = 0
    BY <2>5 DEF Hdr
  <2>7. obj = ObjectOf(p, obj.kind)'
    BY <2>2, <2>5, <2>6 DEF ObjectOf, Ciphertext, Hdr, t
  <2>8. Sent("hdr", sm'[p].tag)
    BY <2>2, <2>3 DEF t, Sent, Initiating
  <2>9. sm[p].tag \notin Responding
    BY <2>1 DEF s, Responding
  <2>10. EmitChunk(p, obj, 0)
    BY <2>1, <2>5
  <2>11. \E n \in Message : Sends(p, n)
    BY <1>1, <2>2, <2>6, <2>7, <2>8, <2>9, <2>10, EmitChunkSends DEF Ciphertext, Kind
  <2> QED
    BY <2>2, <2>4, <2>11 DEF s, t
<1>8. CASE SendHdr(p)
  <2>1. /\ s.tag = "hdr_sending" /\ Become(p, [s EXCEPT !.next = @ + 1])
        /\ EmitChunk(p, Hdr(s), s.next)
    BY <1>8 DEF SendHdr, s
  <2>2. t = [s EXCEPT !.next = @ + 1] /\ sm'[q] = sm[q]
    BY <1>1, <2>1, BecomePeer DEF t
  <2>3. Onward(s, t) /\ Keeps(s, t)
    BY <1>1, <2>1, <2>2, CountOnKeeps DEF SendingEk
  <2>4. t.tag = "hdr_sending" /\ t.keys = s.keys
    BY <1>1, <2>1, <2>2 DEF StateMachine
  <2>5. PICK obj \in Object : obj = Hdr(s)
    BY <1>6
  <2>6. obj.kind = "hdr"
    BY <2>5 DEF Hdr
  <2>7. obj = ObjectOf(p, obj.kind)'
    BY <2>4, <2>5, <2>6 DEF ObjectOf, Ciphertext, Hdr, t
  <2>8. Sent("hdr", sm'[p].tag) /\ sm[p].tag \notin Responding
    BY <2>1, <2>4 DEF s, t, Sent, Initiating, Responding
  <2>9. PICK i \in Nat : i = s.next
    BY <1>1
  <2>10. EmitChunk(p, obj, i)
    BY <2>1, <2>5, <2>9
  <2>11. \E n \in Message : Sends(p, n)
    BY <1>1, <2>2, <2>6, <2>7, <2>8, <2>10, EmitChunkSends DEF Ciphertext, Kind
  <2> QED
    BY <2>3, <2>11 DEF s, t
<1>9. CASE StartEk(p)
  <2>1. /\ s.tag = "hdr_sending" /\ EmitChunk(p, Ek(s), 0)
        /\ Become(p, [s EXCEPT !.tag = "ek_sending", !.next = 1])
    BY <1>9 DEF StartEk, s
  <2>2. t = [s EXCEPT !.tag = "ek_sending", !.next = 1] /\ sm'[q] = sm[q]
    BY <1>1, <2>1, BecomePeer DEF t
  <2>3. /\ t.tag = "ek_sending" /\ t.keys = s.keys /\ t.next = 1 /\ t.ct1 = s.ct1
        /\ t.dec = s.dec /\ t.mac = s.mac
    BY <1>1, <2>1, <2>2 DEF StateMachine
  <2>4. Onward(s, t) /\ Keeps(s, t)
    BY <2>1, <2>3, ChunkBounds
    DEF Onward, Keeps, Sent, Initiating, SendingEk, Responding, Kind
  <2>5. PICK obj \in Object : obj = Ek(s)
    BY <1>6
  <2>6. obj.kind = "ek"
    BY <2>5 DEF Ek
  <2>7. obj = ObjectOf(p, obj.kind)'
    BY <2>3, <2>5, <2>6 DEF ObjectOf, Ciphertext, Ek, t
  <2>8. /\ Sent("ek", sm'[p].tag) /\ sm[p].tag \notin Responding
        /\ 0 < EkSent(sm'[p])
    BY <2>1, <2>3 DEF s, t, Sent, Initiating, Responding, SendingEk, EkSent
  <2>9. EmitChunk(p, obj, 0)
    BY <2>1, <2>5
  <2>10. \E n \in Message : Sends(p, n)
    BY <1>1, <2>2, <2>6, <2>7, <2>8, <2>9, EmitChunkSends DEF Ciphertext, Kind
  <2> QED
    BY <2>4, <2>10 DEF s, t
<1>10. CASE SendEk(p)
  <2> DEFINE u == IF s.next + 1 >= EkChunks THEN AfterLastEk(s)
                  ELSE [s EXCEPT !.next = @ + 1]
  <2>1. s.tag \in SendingEk /\ EmitChunk(p, Ek(s), s.next) /\ Become(p, u)
    BY <1>10 DEF SendEk, s, SendingEk
  <2>2. t = u /\ sm'[q] = sm[q]
    BY <1>1, <2>1, BecomePeer DEF t
  <2>3. /\ t.keys = s.keys /\ t.dec = s.dec /\ t.ct1 = s.ct1
        /\ \A k \in Kind : t.mac[k] \in {NoMac, s.mac[k]}
    BY <1>1, <2>2 DEF AfterLastEk, StateMachine
  <2>4. \/ t.tag = s.tag /\ t.next = s.next + 1 /\ t.next < EkChunks
        \/ t.tag = "waiting_ct2" /\ s.next + 1 = EkChunks
    <3>1. CASE s.next + 1 >= EkChunks
      <4>1. s.next + 1 = EkChunks
        BY <1>1, <1>2, <2>1, <3>1, ChunkBounds
      <4> QED
        BY <1>1, <2>2, <3>1, <4>1 DEF AfterLastEk, StateMachine
    <3>2. CASE ~(s.next + 1 >= EkChunks)
      BY <1>1, <2>2, <3>2, ChunkBounds DEF StateMachine
    <3> QED
      BY <3>1, <3>2
  <2> HIDE DEF u
  <2>5. EkSent(s) = s.next /\ EkSent(t) = s.next + 1
    BY <2>1, <2>4 DEF EkSent, SendingEk
  <2>6. t.tag \in SendingEk \union {"waiting_ct2"}
    BY <2>1, <2>4
  <2>7. Onward(s, t)
    BY <1>1, <2>1, <2>3, <2>5, <2>6 DEF Onward, Sent, Initiating, SendingEk
  <2>8. Keeps(s, t)
    BY <2>1, <2>3, <2>4, <2>6 DEF Keeps, Initiating, SendingEk, Responding
  <2>9. PICK obj \in Object : obj = Ek(s)
    BY <1>6
  <2>10. obj.kind = "ek"
    BY <2>9 DEF Ek
  <2>11. obj = ObjectOf(p, obj.kind)'
    BY <2>3, <2>9, <2>10 DEF ObjectOf, Ciphertext, Ek, t
  <2>12. Sent("ek", sm'[p].tag) /\ sm[p].tag \notin Responding
    BY <2>1, <2>6 DEF s, t, Sent, Responding, SendingEk
  <2>13. PICK i \in Nat : i = s.next
    BY <1>1
  <2>14. EmitChunk(p, obj, i) /\ i < EkSent(sm'[p])
    BY <2>1, <2>5, <2>9, <2>13 DEF t
  <2>15. \E n \in Message : Sends(p, n)
    BY <1>1, <2>2, <2>10, <2>11, <2>12, <2>14, EmitChunkSends DEF Ciphertext, Kind
  <2> QED
    BY <2>7, <2>8, <2>15 DEF s, t
<1>11. CASE SendCt1(p)
  <2>1. /\ s.tag = "ct1_sending" /\ Become(p, [s EXCEPT !.next = @ + 1])
        /\ EmitChunk(p, Ct1(s), s.next)
    BY <1>11 DEF SendCt1, s
  <2>2. t = [s EXCEPT !.next = @ + 1] /\ sm'[q] = sm[q]
    BY <1>1, <2>1, BecomePeer DEF t
  <2>3. Onward(s, t) /\ Keeps(s, t)
    BY <1>1, <2>1, <2>2, CountOnKeeps DEF SendingEk
  <2>4. t.tag = "ct1_sending"
    BY <1>1, <2>1, <2>2 DEF StateMachine
  <2>5. PICK obj \in Object : obj = Ct1(s)
    BY <1>6
  <2>6. obj.kind = "ct1"
    BY <2>5 DEF Ct1
  <2>7. obj = ObjectOf(p, obj.kind)'
    BY <1>3, <1>4, <1>5, <2>1, <2>5, <2>6 DEF ObjectOf, Ciphertext, Ct1, Responding
  <2>8. Sent("ct1", sm'[p].tag) /\ sm[p].tag \in Responding
    BY <2>1, <2>4 DEF s, t, Sent, Responding
  <2>9. PICK i \in Nat : i = s.next
    BY <1>1
  <2>10. EmitChunk(p, obj, i)
    BY <2>1, <2>5, <2>9
  <2>11. \E n \in Message : Sends(p, n)
    BY <1>1, <2>2, <2>6, <2>7, <2>8, <2>10, EmitChunkSends DEF Ciphertext, Kind
  <2> QED
    BY <2>3, <2>11 DEF s, t
<1>12. CASE StartCt2(p)
  <2>1. /\ s.tag = "ct1_sending" /\ s.ek # NoObject /\ EmitChunk(p, Ct2(s), 0)
        /\ Become(p, [s EXCEPT !.tag = "ct2_sending", !.next = 1])
    BY <1>12 DEF StartCt2, s
  <2>2. t = [s EXCEPT !.tag = "ct2_sending", !.next = 1] /\ sm'[q] = sm[q]
    BY <1>1, <2>1, BecomePeer DEF t
  <2>3. /\ t.tag = "ct2_sending" /\ t.keys = s.keys /\ t.encaps = s.encaps
        /\ t.dec = s.dec /\ t.mac = s.mac /\ t.ct1 = s.ct1 /\ t.ek = s.ek
    BY <1>1, <2>1, <2>2 DEF StateMachine
  <2>4. Onward(s, t) /\ Keeps(s, t)
    BY <2>1, <2>3 DEF Onward, Keeps, Sent, Initiating, SendingEk, Responding, Kind
  <2>5. PICK obj \in Object : obj = Ct2(s)
    BY <1>6
  <2>6. obj.kind = "ct2"
    BY <2>5 DEF Ct2
  <2>7. s.ek.keys = s.keys
    BY <1>2, <2>1 DEF Responding, Ek
  <2>8. obj = ObjectOf(p, obj.kind)'
    BY <1>3, <1>4, <1>5, <2>1, <2>5, <2>6, <2>7 DEF ObjectOf, Ciphertext, Ct2, Responding
  <2>9. Sent("ct2", sm'[p].tag) /\ sm[p].tag \in Responding
    BY <2>1, <2>3 DEF s, t, Sent, Responding
  <2>10. EmitChunk(p, obj, 0)
    BY <2>1, <2>5
  <2>11. \E n \in Message : Sends(p, n)
    BY <1>1, <2>2, <2>6, <2>8, <2>9, <2>10, EmitChunkSends DEF Ciphertext, Kind
  <2> QED
    BY <2>4, <2>11 DEF s, t
<1>13. CASE SendCt2(p)
  <2>1. /\ s.tag = "ct2_sending" /\ Become(p, [s EXCEPT !.next = @ + 1])
        /\ EmitChunk(p, Ct2(s), s.next)
    BY <1>13 DEF SendCt2, s
  <2>2. t = [s EXCEPT !.next = @ + 1] /\ sm'[q] = sm[q]
    BY <1>1, <2>1, BecomePeer DEF t
  <2>3. Onward(s, t) /\ Keeps(s, t)
    BY <1>1, <1>2, <2>1, <2>2, CountOnKeeps DEF SendingEk
  <2>4. t.tag = "ct2_sending"
    BY <1>1, <2>1, <2>2 DEF StateMachine
  <2>5. PICK obj \in Object : obj = Ct2(s)
    BY <1>6
  <2>6. obj.kind = "ct2"
    BY <2>5 DEF Ct2
  <2>7. s.ek.keys = s.keys
    BY <1>2, <2>1 DEF Responding, Ek
  <2>8. obj = ObjectOf(p, obj.kind)'
    BY <1>3, <1>4, <1>5, <2>1, <2>5, <2>6, <2>7 DEF ObjectOf, Ciphertext, Ct2, Responding
  <2>9. Sent("ct2", sm'[p].tag) /\ sm[p].tag \in Responding
    BY <2>1, <2>4 DEF s, t, Sent, Responding
  <2>10. PICK i \in Nat : i = s.next
    BY <1>1
  <2>11. EmitChunk(p, obj, i)
    BY <2>1, <2>5, <2>10
  <2>12. \E n \in Message : Sends(p, n)
    BY <1>1, <2>2, <2>6, <2>8, <2>9, <2>11, EmitChunkSends DEF Ciphertext, Kind
  <2> QED
    BY <2>3, <2>12 DEF s, t
<1>14. CASE SendAck(p) \/ SendNone(p)
  <2>1. PICK payload \in {"ct1_ack", "none"} :
           Emit(p, payload, NoChunk, NoMac) /\ sm' = sm
    BY <1>14 DEF SendAck, SendNone
  <2>2. \E n \in Message : Sends(p, n)
    BY <1>1, <2>1, EmitEmptySends
  <2>3. Onward(s, t) /\ Keeps(s, t)
    BY <1>1, <1>2, <2>1, StayKeeps DEF s, t
  <2> QED
    BY <2>2, <2>3 DEF s, t
<1> QED
  BY <1>7, <1>8, <1>9, <1>10, <1>11, <1>12, <1>13, <1>14 DEF Send

\* A party that is left as it is: what it has sent still fits.
LEMMA SameFits ==
  ASSUME TypeOK, TypeOK', NEW p \in Party, chain'[p] = chain[p], sm'[p] = sm[p]
  PROVE  /\ Onward(sm[p], sm'[p]) /\ Epoch(p)' = Epoch(p)
         /\ \A m \in Message : Fits(p, m) => Fits(p, m)'
<1>1. EkSent(sm[p]) \in Nat
  BY EkSentType DEF TypeOK
<1>2. Onward(sm[p], sm'[p])
  BY <1>1 DEF Onward
<1> QED
  BY <1>2, OnwardMessages

\* What a party has gathered still fits when the sender goes on.
LEMMA OnwardGathered ==
  ASSUME TypeOK, TypeOK', NEW p \in Party, NEW q \in Party, Gathered(p, q),
         UNCHANGED chain, sm'[q] = sm[q], Onward(sm[p], sm'[p])
  PROVE  Gathered(p, q)'
<1> DEFINE s == sm[q]
<1>1. /\ s \in StateMachine /\ s.dec \in [Kind -> SUBSET Chunk]
      /\ s.mac \in [Kind -> Mac]
  BY DEF TypeOK, StateMachine
<1>2. Ahead(p, q)' = Ahead(p, q)
  BY DEF Ahead, Epoch
<1>3. Collecting(s.tag) \subseteq Kind
  BY DEF Collecting
<1>4. ObjectOf(p, "ct1")' = ObjectOf(p, "ct1")
  BY OnwardFits DEF Ciphertext, Kind
<1> HIDE DEF s
<1>5. ASSUME NEW k \in Collecting(s.tag)
      PROVE  /\ \A c \in s.dec[k] : ChunkFits(p, k, c)'
             /\ \A a \in Mac : a = s.mac[k] => MacFits(p, k, a)'
             /\ k \in Ciphertext /\ (s.dec[k] # {} \/ s.mac[k] # NoMac) => Ahead(p, q)'
  <2>1. /\ \A c \in s.dec[k] : ChunkFits(p, k, c)
        /\ MacFits(p, k, s.mac[k])
        /\ k \in Ciphertext /\ (s.dec[k] # {} \/ s.mac[k] # NoMac) => Ahead(p, q)
    BY DEF Gathered, s
  <2>2. s.dec[k] \subseteq Chunk /\ s.mac[k] \in Mac /\ k \in Kind
    BY <1>1, <1>3
  <2>3. /\ \A c \in Chunk : ChunkFits(p, k, c) => ChunkFits(p, k, c)'
        /\ \A a \in Mac : MacFits(p, k, a) => MacFits(p, k, a)'
    BY <2>2, OnwardFits
  <2> QED
    BY <1>2, <2>1, <2>2, <2>3
<1>6. s.tag \in Initiating /\ s.ct1 # NoObject =>
         Ahead(p, q) /\ s.ct1 = ObjectOf(p, "ct1")
  BY DEF Gathered, s
<1>7. \A k \in Collecting(s.tag) : s.mac[k] \in Mac
  BY <1>1, <1>3
<1>8. sm'[q] = s
  BY DEF s
<1>9. \A k \in Collecting(s.tag) : MacFits(p, k, sm[q].mac[k])'
  BY <1>5, <1>7, <1>8 DEF MacFits, s
<1> QED
  BY <1>2, <1>4, <1>5, <1>6, <1>8, <1>9 DEF Gathered

\* What fits a party's object depends on its state and chain only.
LEMMA SameContents ==
  ASSUME NEW p \in Party, chain'[p] = chain[p], sm'[p] = sm[p], NEW k
  PROVE  /\ ObjectOf(p, k)' = ObjectOf(p, k)
         /\ \A c : ChunkFits(p, k, c)' <=> ChunkFits(p, k, c)
         /\ \A a : MacFits(p, k, a)' <=> MacFits(p, k, a)
<1>1. LastKey(p)' = LastKey(p) /\ Epoch(p)' = Epoch(p)
  BY DEF LastKey, Epoch
<1>2. ObjectOf(p, k)' = ObjectOf(p, k)
  BY <1>1 DEF ObjectOf
<1>3. \A c : ChunkFits(p, k, c)' <=> ChunkFits(p, k, c)
  BY <1>2 DEF ChunkFits
<1>4. \A a : MacFits(p, k, a)' <=> MacFits(p, k, a)
  BY <1>1, <1>2 DEF MacFits
<1> QED
  BY <1>2, <1>3, <1>4

\* A party that sends collects nothing.
LEMMA KeepsGathered ==
  ASSUME TypeOK, TypeOK', NEW p \in Party, NEW q \in Party, Gathered(p, q),
         UNCHANGED chain, sm'[p] = sm[p], Keeps(sm[q], sm'[q])
  PROVE  Gathered(p, q)'
<1> DEFINE s == sm[q]
           t == sm'[q]
<1>1. s.tag \in Tag /\ t.tag \in Tag /\ t.mac \in [Kind -> Mac]
  BY DEF TypeOK, StateMachine
<1>2. Ahead(p, q)' = Ahead(p, q)
  BY DEF Ahead, Epoch
<1> HIDE DEF s, t
<1>3. Keeps(s, t)
  BY DEF s, t
<1>4. Collecting(t.tag) \subseteq Collecting(s.tag) /\ Collecting(t.tag) \subseteq Kind
  BY <1>1, <1>3 DEF Collecting, Keeps, Initiating, Responding, Tag
<1>5. ASSUME NEW k \in Collecting(t.tag)
      PROVE  /\ \A c \in t.dec[k] : ChunkFits(p, k, c)'
             /\ \A a \in Mac : a = t.mac[k] => MacFits(p, k, a)'
             /\ k \in Ciphertext /\ (t.dec[k] # {} \/ t.mac[k] # NoMac) => Ahead(p, q)'
  <2>1. /\ \A c \in s.dec[k] : ChunkFits(p, k, c)
        /\ MacFits(p, k, s.mac[k])
        /\ k \in Ciphertext /\ (s.dec[k] # {} \/ s.mac[k] # NoMac) => Ahead(p, q)
    BY <1>4 DEF Gathered, s
  <2>2. t.dec[k] \in {{}, s.dec[k]} /\ t.mac[k] \in {NoMac, s.mac[k]}
    BY <1>3, <1>4 DEF Keeps
  <2>3. MacFits(p, k, NoMac)
    BY DEF MacFits
  <2>4. MacFits(p, k, t.mac[k])
    BY <2>1, <2>2, <2>3
  <2> QED
    BY <1>2, <2>1, <2>2, <2>4, SameContents
<1>6. t.tag \in Initiating /\ t.ct1 # NoObject =>
         Ahead(p, q)' /\ t.ct1 = ObjectOf(p, "ct1")'
  <2>1. s.tag \in Initiating /\ s.ct1 # NoObject =>
           Ahead(p, q) /\ s.ct1 = ObjectOf(p, "ct1")
    BY DEF Gathered, s
  <2>2. (t.tag \in Initiating => s.tag \in Initiating) /\ t.ct1 \in {NoObject, s.ct1}
    BY <1>3 DEF Keeps
  <2> QED
    BY <1>2, <2>1, <2>2, SameContents
<1>7. \A k \in Collecting(t.tag) : t.mac[k] \in Mac
  BY <1>1, <1>4
<1>8. \A k \in Collecting(sm'[q].tag) : MacFits(p, k, sm[q].mac[k])'
  BY <1>5, <1>7 DEF MacFits, t
<1> QED
  BY <1>5, <1>6, <1>8 DEF Gathered, t

\* Everything under way and gathered when p sends.
LEMMA SendLinks ==
  ASSUME Inv, TypeOK', NEW p \in Party, Send(p)
  PROVE  Links'
<1> DEFINE q == Peer(p)
           s == sm[p]
           t == sm'[p]
<1>1. PICK n \in Message : Sends(p, n)
  BY SendEffect
<1>2. Onward(s, t) /\ Keeps(s, t)
  BY SendEffect
<1>3. /\ TypeOK /\ q \in Party /\ q # p /\ Peer(q) = p /\ InStep
      /\ UnderWay(p, q) /\ Gathered(p, q) /\ UnderWay(q, p) /\ Gathered(q, p)
  BY Direction DEF Inv
<1>4. /\ channel'[q] = Append(channel[q], n) /\ channel'[p] = channel[p]
      /\ UNCHANGED chain /\ sm'[q] = sm[q] /\ n.epoch = Epoch(p)
      /\ n.payload \in Ciphertext => s.tag \in Responding
      /\ n.payload \in Kind =>
            ChunkFits(p, n.payload, n.chunk)' /\ MacFits(p, n.payload, n.mac)'
  BY <1>1, <1>3 DEF Sends, TypeOK
<1>5. /\ Epoch(p)' = Epoch(p) /\ Epoch(q)' = Epoch(q)
      /\ Ahead(p, q)' = Ahead(p, q) /\ Ahead(q, p)' = Ahead(q, p)
      /\ Epoch(p) \in Nat
  BY <1>3, <1>4, ChainTypes DEF Epoch, Ahead
<1>6. \A k : Sent(k, s.tag) /\ k \in {"hdr", "ek"} => s.tag \notin Responding
  BY DEF Sent, Initiating, SendingEk, Responding
<1> HIDE DEF q, s, t
<1>7. UnderWay(p, q)'
  <2>1. \A m \in Message : Fits(p, m) => Fits(p, m)'
    BY <1>2, <1>3, <1>4, OnwardMessages DEF s, t
  <2>2. \A m \in Message : Recent(p, q, m) => Recent(p, q, m)'
    BY <1>4, <1>5 DEF Recent
  <2>3. Fits(p, n)'
    BY <1>4, <1>5 DEF Fits
  <2>4. Recent(p, q, n)'
    <3>1. ASSUME n.payload \in Ciphertext, sm[q].tag # "waiting_hdr"
          PROVE  Ahead(p, q)
      <4>1. Leads(p, q)
        BY <1>3, <1>4, <3>1, Positions DEF Responding, Level, s, q
      <4> QED
        BY <4>1 DEF Leads
    <3> QED
      BY <1>4, <1>5, <3>1 DEF Recent
  <2>5. \A m \in Message : Fits(p, m) => Follows(Epoch(p), m, n)
    <3>1. ASSUME NEW m \in Message, Fits(p, m), m.epoch = Epoch(p),
                 m.payload \in {"hdr", "ek"}
          PROVE  n.payload \notin Ciphertext
      <4>1. Sent(m.payload, s.tag)
        BY <3>1 DEF Fits, ChunkFits, Kind, s
      <4> QED
        BY <1>4, <1>6, <3>1, <4>1
    <3> QED
      BY <1>4, <3>1 DEF Follows
  <2> QED
    BY <1>3, <1>4, <1>5, <2>1, <2>2, <2>3, <2>4, <2>5, AppendUnderWay
<1>8. UnderWay(q, p)'
  <2>1. \A m \in Message : Fits(q, m) => Fits(q, m)'
    BY <1>3, <1>4, SameFits
  <2>2. \A m \in Message : Recent(q, p, m) => Recent(q, p, m)'
    BY <1>2, <1>5 DEF Recent, Keeps, s, t
  <2> QED
    BY <1>3, <1>4, <1>5, <2>1, <2>2, SameUnderWay
<1>9. Gathered(p, q)'
  BY <1>2, <1>3, <1>4, OnwardGathered DEF s, t
<1>10. Gathered(q, p)'
  BY <1>2, <1>3, <1>4, KeepsGathered DEF s, t
<1>11. \A r \in Party : r = p \/ r = q
  BY PeerProperties DEF q
<1> QED
  BY <1>3, <1>7, <1>8, <1>9, <1>10, <1>11 DEF Links, q

\* The chains, the authenticators and the states when p sends.
LEMMA SendInStep ==
  ASSUME Inv, TypeOK', NEW p \in Party, Send(p)
  PROVE  Decoders' /\ AuthInStep' /\ PartyInStep' /\ InStep'
<1> DEFINE q == Peer(p)
           s == sm[p]
           t == sm'[p]
<1>1. PICK n \in Message : Sends(p, n)
  BY SendEffect
<1>2. Keeps(s, t)
  BY SendEffect
<1>3. /\ TypeOK /\ q \in Party /\ q # p /\ Peer(q) = p
      /\ InStep /\ Decoders /\ AuthInStep /\ PartyInStep
  BY Direction DEF Inv
<1>4. UNCHANGED <<chain, auth>> /\ sm'[q] = sm[q]
  BY <1>1 DEF Sends
<1>5. \A r \in Party : r = p \/ r = q
  BY PeerProperties
<1>6. \A r \in Party : Epoch(r)' = Epoch(r) /\ LastKey(r)' = LastKey(r)
  BY <1>4 DEF Epoch, LastKey
<1>7. s.tag \in Tag /\ t.tag \in Tag
  BY <1>3 DEF TypeOK, StateMachine
<1> HIDE DEF q, s, t
<1>8. /\ s.tag \in Responding <=> t.tag \in Responding
      /\ s.tag \in Responding => t.keys = s.keys /\ t.encaps = s.encaps /\ t.ek = s.ek
  BY <1>2, <1>7 DEF Keeps, Tag, Initiating, Responding
<1>9. Decoders'
  <2>1. ASSUME NEW k \in Kind
        PROVE  /\ IsFiniteSet(t.dec[k])
               /\ \A c, d \in t.dec[k] : c.index = d.index => c = d
    <3>1. t.dec[k] \in {{}, s.dec[k]}
      BY <1>2, <2>1 DEF Keeps
    <3>2. /\ IsFiniteSet(s.dec[k])
          /\ \A c, d \in s.dec[k] : c.index = d.index => c = d
      BY <1>3, <2>1 DEF Decoders, s
    <3> QED
      BY <3>1, <3>2, FS_EmptySet
  <2> QED
    BY <1>3, <1>4, <1>5, <2>1 DEF Decoders, t
<1>10. AuthInStep'
  <2>1. chain[p] = IF t.tag \in Responding
                   THEN Append(auth[p], Encapsulated(t, Epoch(p))) ELSE auth[p]
    BY <1>3, <1>8 DEF AuthInStep, Encapsulated, s
  <2>2. chain[q] = IF sm[q].tag \in Responding
                   THEN Append(auth[q], Encapsulated(sm[q], Epoch(q))) ELSE auth[q]
    BY <1>3 DEF AuthInStep
  <2> QED
    BY <1>3, <1>4, <1>5, <1>6, <2>1, <2>2 DEF AuthInStep, t
<1>11. PartyInStep'
  <2>1. /\ t.tag \in Responding => t.ek \in {NoObject, Ek(t)}
        /\ t.tag = "ct2_sending" => t.ek # NoObject
        /\ t.tag \in SendingEk => t.next < EkChunks
    BY <1>2, <1>3, <1>8 DEF PartyInStep, Keeps, Ek, s
  <2> QED
    BY <1>3, <1>4, <1>5, <2>1 DEF PartyInStep, t
<1>12. InStep'
  <2>1. CASE Level(p, q)
    <3>1. Level(p, q)'
      BY <1>2, <1>4, <1>7, <1>8, <2>1 DEF Level, Keeps, Initiating, Responding, s, t
    <3> QED
      BY <3>1 DEF InStep, q
  <2>2. CASE Level(q, p)
    <3>1. Level(q, p)'
      BY <1>2, <1>4, <2>2 DEF Level, Keeps, s, t
    <3> QED
      BY <1>3, <3>1 DEF InStep
  <2>3. CASE Leads(p, q)
    <3>1. Leads(p, q)'
      BY <1>2, <1>4, <1>6, <1>7, <1>8, <2>3
      DEF Leads, Ahead, Keeps, Responding, Epoch, LastKey, s, t
    <3> QED
      BY <3>1 DEF InStep, q
  <2>4. CASE Leads(q, p)
    <3>1. Leads(q, p)'
      BY <1>2, <1>4, <1>6, <1>7, <2>4
      DEF Leads, Ahead, Keeps, Initiating, Epoch, LastKey, s, t
    <3> QED
      BY <1>3, <3>1 DEF InStep
  <2> QED
    BY <1>3, <2>1, <2>2, <2>3, <2>4, Positions DEF q
<1> QED
  BY <1>9, <1>10, <1>11, <1>12

-----------------------------------------------------------------------------
(* Steps that receive *)

\* A fresh state has gathered nothing.
LEMMA GatheredNothing ==
  ASSUME NEW p \in Party, NEW q \in Party, sm'[q].ct1 = NoObject,
         \A k \in Kind : sm'[q].dec[k] = {} /\ sm'[q].mac[k] = NoMac
  PROVE  Gathered(p, q)'
<1>1. \A tag : Collecting(tag) \subseteq Kind
  BY DEF Collecting
<1>2. \A k \in Collecting(sm'[q].tag) : sm'[q].dec[k] = {} /\ sm'[q].mac[k] = NoMac
  BY <1>1
<1> QED
  BY <1>2 DEF Gathered, MacFits

\* The channels when a message is taken.
LEMMA TakeChannels ==
  ASSUME TypeOK, NEW q \in Party, Take(q)
  PROVE  channel'[q] = Tail(channel[q]) /\ channel'[Peer(q)] = channel[Peer(q)]
BY PeerProperties DEF Take, TypeOK

\* Everything under way and gathered when q takes a message and its epoch
\* goes on.
LEMMA OnwardLinks ==
  ASSUME Inv, TypeOK', NEW p \in Party, NEW q \in Party, p = Peer(q),
         channel[q] # <<>>, Take(q), UNCHANGED chain, sm'[p] = sm[p],
         Onward(sm[q], sm'[q]),
         sm[q].tag = "waiting_hdr" <=> sm'[q].tag = "waiting_hdr",
         Gathered(p, q)'
  PROVE  Links'
<1>1. /\ TypeOK /\ Peer(p) = q
      /\ UnderWay(p, q) /\ UnderWay(q, p) /\ Gathered(q, p)
  BY Direction
<1>2. channel'[q] = Tail(channel[q]) /\ channel'[p] = channel[p]
  BY <1>1, TakeChannels
<1>3. /\ Epoch(p)' = Epoch(p) /\ Epoch(q)' = Epoch(q)
      /\ Ahead(p, q)' = Ahead(p, q) /\ Ahead(q, p)' = Ahead(q, p)
  BY DEF Epoch, Ahead
<1>4. UnderWay(p, q)'
  <2>1. \A m \in Message : Fits(p, m) => Fits(p, m)'
    BY <1>1, SameFits
  <2>2. \A m \in Message : Recent(p, q, m) => Recent(p, q, m)'
    BY <1>3 DEF Recent
  <2> QED
    BY <1>1, <1>2, <1>3, <2>1, <2>2, TailUnderWay
<1>5. UnderWay(q, p)'
  <2>1. \A m \in Message : Fits(q, m) => Fits(q, m)'
    BY <1>1, OnwardMessages
  <2>2. \A m \in Message : Recent(q, p, m) => Recent(q, p, m)'
    BY <1>3 DEF Recent
  <2> QED
    BY <1>1, <1>2, <1>3, <2>1, <2>2, SameUnderWay
<1>6. Gathered(q, p)'
  BY <1>1, OnwardGathered
<1>7. \A r \in Party : r = p \/ r = q
  BY PeerProperties
<1> QED
  BY <1>1, <1>4, <1>5, <1>6, <1>7 DEF Links

\* Everything under way and gathered when q takes a message of p's epoch that
\* makes it add an epoch to its chain.
LEMMA NewEpochLinks ==
  ASSUME Inv, TypeOK', NEW p \in Party, NEW q \in Party, p = Peer(q),
         channel[q] # <<>>, Take(q), sm'[p] = sm[p], chain'[p] = chain[p],
         Epoch(q)' = Epoch(q) + 1, Epoch(p) <= Epoch(q) + 1, ~Ahead(q, p),
         sm[p].tag \notin {"waiting_hdr", "ct1_sending"},
         Head(channel[q]).epoch = Epoch(p),
         sm'[q].tag = "waiting_hdr" \/ Head(channel[q]).payload = "hdr",
         sm'[q].ct1 = NoObject,
         \A k \in Kind : sm'[q].dec[k] = {} /\ sm'[q].mac[k] = NoMac
  PROVE  Links'
<1>1. /\ TypeOK /\ Peer(p) = q
      /\ UnderWay(p, q) /\ UnderWay(q, p) /\ Gathered(q, p)
  BY Direction
<1>2. channel'[q] = Tail(channel[q]) /\ channel'[p] = channel[p]
  BY <1>1, TakeChannels
<1>3. /\ Epoch(p)' = Epoch(p) /\ Epoch(p) \in Nat /\ Epoch(q) \in Nat
      /\ ~Ahead(p, q)'
  BY <1>1, ChainTypes DEF Epoch, Ahead
<1>4. UnderWay(p, q)'
  <2>1. \A m \in Message : Fits(p, m) => Fits(p, m)'
    BY <1>1, SameFits
  <2>2. ASSUME NEW m \in Message, Follows(Epoch(p), Head(channel[q]), m)
        PROVE  Recent(p, q, m)'
    BY <1>3, <2>2 DEF Recent, Follows
  <2> QED
    BY <1>1, <1>2, <1>3, <2>1, <2>2, TailUnderWay
<1>5. UnderWay(q, p)'
  <2>1. ASSUME NEW m \in Message, Fits(q, m)
        PROVE  Fits(q, m)' /\ m.epoch # Epoch(q)'
    <3>1. m.epoch \in Nat /\ m.epoch <= Epoch(q)
      BY <2>1 DEF Fits, Message
    <3>2. m.epoch <= Epoch(q)' /\ m.epoch # Epoch(q)'
      BY <1>3, <3>1
    <3> QED
      BY <3>2 DEF Fits
  <2>2. ASSUME NEW m \in Message, Recent(q, p, m)
        PROVE  Recent(q, p, m)'
    BY <1>3, <2>2 DEF Recent
  <2>3. \A m, n \in Message : Fits(q, m) /\ Follows(Epoch(q), m, n) =>
                              Follows(Epoch(q)', m, n)
    BY <2>1 DEF Follows
  <2> QED
    BY <1>1, <1>2, <2>1, <2>2, <2>3, SameUnderWay
<1>6. Gathered(q, p)'
  <2>1. \A k \in Collecting(sm[p].tag) : k \in Kind /\ k \in Ciphertext
    BY DEF Collecting, Kind
  <2>2. \A k \in Collecting(sm[p].tag) : sm[p].dec[k] = {} /\ sm[p].mac[k] = NoMac
    BY <1>1, <2>1 DEF Gathered
  <2>3. sm[p].tag \in Initiating => sm[p].ct1 = NoObject
    BY <1>1 DEF Gathered
  <2> QED
    BY <2>2, <2>3 DEF Gathered, MacFits
<1>7. Gathered(p, q)'
  BY GatheredNothing
<1>8. \A r \in Party : r = p \/ r = q
  BY PeerProperties
<1> QED
  BY <1>1, <1>4, <1>5, <1>6, <1>7, <1>8 DEF Links

\* The decoders of a fresh state are empty.
LEMMA FreshDecoders ==
  ASSUME TypeOK, TypeOK', Decoders, NEW p \in Party, NEW q \in Party, p = Peer(q),
         sm'[p] = sm[p], \A k \in Kind : sm'[q].dec[k] = {}
  PROVE  Decoders'
<1>1. \A r \in Party : r = p \/ r = q
  BY PeerProperties
<1>2. \A k \in Kind : /\ IsFiniteSet(sm'[q].dec[k])
                      /\ \A c, d \in sm'[q].dec[k] : c.index = d.index => c = d
  BY FS_EmptySet
<1>3. \A k \in Kind : /\ IsFiniteSet(sm'[p].dec[k])
                      /\ \A c, d \in sm'[p].dec[k] : c.index = d.index => c = d
  BY DEF Decoders
<1> QED
  BY <1>1, <1>2, <1>3 DEF Decoders

\* What is true of each party's state and authenticator remains to be shown
\* for the one that took a step.
LEMMA OtherInStep ==
  ASSUME AuthInStep, PartyInStep, NEW p \in Party, NEW q \in Party, p = Peer(q),
         sm'[p] = sm[p], chain'[p] = chain[p], auth'[p] = auth[p],
         chain'[q] = IF sm'[q].tag \in Responding
                     THEN Append(auth'[q], Encapsulated(sm'[q], Epoch(q)'))
                     ELSE auth'[q],
         sm'[q].tag \in Responding => sm'[q].ek \in {NoObject, Ek(sm'[q])},
         sm'[q].tag = "ct2_sending" => sm'[q].ek # NoObject,
         sm'[q].tag \in SendingEk => sm'[q].next < EkChunks
  PROVE  AuthInStep' /\ PartyInStep'
<1>1. \A r \in Party : r = p \/ r = q
  BY PeerProperties
<1>2. Epoch(p)' = Epoch(p)
  BY DEF Epoch
<1>3. chain'[p] = IF sm'[p].tag \in Responding
                  THEN Append(auth'[p], Encapsulated(sm'[p], Epoch(p)'))
                  ELSE auth'[p]
  BY <1>2 DEF AuthInStep
<1>4. /\ sm'[p].tag \in Responding => sm'[p].ek \in {NoObject, Ek(sm'[p])}
      /\ sm'[p].tag = "ct2_sending" => sm'[p].ek # NoObject
      /\ sm'[p].tag \in SendingEk => sm'[p].next < EkChunks
  BY DEF PartyInStep
<1>5. AuthInStep'
  BY <1>1, <1>3 DEF AuthInStep
<1>6. PartyInStep'
  BY <1>1, <1>4 DEF PartyInStep
<1> QED
  BY <1>5, <1>6

\* A fresh state holds nothing.
LEMMA FreshProperties ==
  ASSUME NEW tag
  PROVE  /\ Fresh(tag).tag = tag /\ Fresh(tag).ct1 = NoObject
         /\ Fresh(tag).ek = NoObject
         /\ \A k \in Kind : Fresh(tag).dec[k] = {} /\ Fresh(tag).mac[k] = NoMac
BY DEF Fresh

\* The initiator decapsulates the key that the responder has added.
LEMMA ReceiveCt2InStep ==
  ASSUME Inv, TypeOK', NEW p \in Party, NEW q \in Party, p = Peer(q),
         channel[q] # <<>>, NEW m \in Message, m = Head(channel[q]),
         Take(q), ReceiveCt2(q, m)
  PROVE  Inv'
<1> DEFINE s == sm[q]
           key == Decapsulated(s, AssembledBy(s, m), m.epoch)
<1>1. /\ m.payload = "ct2" /\ Verifies(s, m)
      /\ chain' = [chain EXCEPT ![q] = Append(@, key)]
      /\ auth' = [auth EXCEPT ![q] = Append(@, key)]
      /\ Become(q, Fresh(NextRole(s.tag)))
  BY DEF ReceiveCt2
<1>2. Collects(s, m) /\ s.tag = "waiting_ct2" /\ s.ct1 # NoObject
  BY <1>1 DEF Verifies, Completes, Collects
<1>3. /\ TypeOK /\ Peer(p) = q /\ p # q /\ Gathered(p, q) /\ Fits(p, m)
      /\ Recent(p, q, m) /\ InStep /\ Decoders /\ AuthInStep /\ PartyInStep
      /\ s \in StateMachine
  BY Direction, HeadFits DEF Inv
<1>4. /\ m.epoch = Epoch(p) /\ ChunkFits(p, "ct2", m.chunk)
      /\ Ahead(p, q) /\ Leads(p, q)
  BY <1>1, <1>2, <1>3, ArrivingFits DEF Ciphertext
<1>5. AssembledBy(s, m) = ObjectOf(p, "ct2") /\ s.ct1 = ObjectOf(p, "ct1")
  BY <1>1, <1>2, <1>3, CollectedFits DEF Gathered, Initiating
<1>6. sm'[q] = Fresh("waiting_hdr") /\ sm'[p] = sm[p]
  BY <1>1, <1>2, <1>3, BecomePeer DEF NextRole
<1>7. /\ sm'[q].tag = "waiting_hdr" /\ sm'[q].ct1 = NoObject
      /\ \A k \in Kind : sm'[q].dec[k] = {} /\ sm'[q].mac[k] = NoMac
  BY <1>6, FreshProperties
<1>8. sm[p].tag \notin {"waiting_hdr", "ct1_sending"} /\ sm[p].tag \in Tag
  BY <1>3, <1>4, ChainTypes DEF ChunkFits, Sent
<1>9. /\ chain[q] \in Seq(EpochKey) /\ chain[p] \in Seq(EpochKey)
      /\ Epoch(q) \in Nat /\ Epoch(p) = Epoch(q) + 1
      /\ Epoch(q) = Len(chain[q]) /\ Epoch(p) = Len(chain[p])
  BY <1>3, <1>4, ChainTypes DEF Ahead
<1>10. LastKey(p) \in EpochKey
  BY <1>9, ElementOfSeq DEF LastKey
<1>11. key = LastKey(p)
  <2>1. LastKey(p).keys = s.keys /\ LastKey(p).ep = Epoch(p)
    BY <1>4 DEF Leads
  <2>2. /\ s.ct1.keys = s.keys /\ s.ct1.encaps = LastKey(p).encaps
        /\ AssembledBy(s, m).keys = s.keys
        /\ AssembledBy(s, m).encaps = LastKey(p).encaps
    BY <1>5, <2>1 DEF ObjectOf, Ciphertext
  <2> HIDE DEF s
  <2>3. key = [keys |-> s.keys, ep |-> m.epoch, encaps |-> LastKey(p).encaps]
    BY <2>2 DEF Decapsulated
  <2> QED
    BY <1>4, <1>10, <2>1, <2>3 DEF EpochKey
<1> HIDE DEF key
<1>12. /\ chain'[q] = chain[p] /\ chain'[p] = chain[p] /\ auth'[p] = auth[p]
       /\ auth'[q] = chain'[q]
  <2>1. chain[p] = Append(chain[q], LastKey(p))
    BY <1>4 DEF Leads
  <2>2. auth[q] = chain[q]
    BY <1>2, <1>3 DEF AuthInStep, Responding
  <2> QED
    BY <1>1, <1>3, <1>11, <2>1, <2>2 DEF TypeOK
<1>13. Epoch(q)' = Epoch(q) + 1 /\ Epoch(p) <= Epoch(q) + 1 /\ ~Ahead(q, p)
  BY <1>9, <1>12 DEF Epoch, Ahead
<1>14. Links'
  BY <1>3, <1>4, <1>6, <1>7, <1>8, <1>12, <1>13, NewEpochLinks
<1>15. Decoders'
  BY <1>3, <1>6, <1>7, FreshDecoders
<1>16. AuthInStep' /\ PartyInStep'
  BY <1>3, <1>6, <1>7, <1>12, OtherInStep DEF Responding, SendingEk
<1>17. InStep'
  <2>1. Level(p, q)'
    BY <1>6, <1>7, <1>8, <1>12 DEF Level, Initiating, Tag
  <2> QED
    BY <1>3, <2>1 DEF InStep
<1> QED
  BY <1>14, <1>15, <1>16, <1>17 DEF Inv

\* The responder adds a key for the key pair whose header it has.
LEMMA ReceiveHdrInStep ==
  ASSUME Inv, TypeOK', NEW p \in Party, NEW q \in Party, p = Peer(q),
         channel[q] # <<>>, NEW m \in Message, m = Head(channel[q]),
         Take(q), ReceiveHdr(q, m)
  PROVE  Inv'
<1> DEFINE s == sm[q]
           t == [Fresh("ct1_sending") EXCEPT
                    !.keys = AssembledBy(s, m).keys, !.encaps = drawn + 1]
           key == Encapsulated(t, AddedEpoch(m))
<1>1. /\ m.payload = "hdr" /\ Verifies(s, m)
      /\ chain' = [chain EXCEPT ![q] = Append(@, key)]
      /\ auth' = auth /\ Become(q, t)
  BY DEF ReceiveHdr
<1>2. Collects(s, m) /\ s.tag = "waiting_hdr"
  BY <1>1 DEF Verifies, Completes, Collects
<1>3. /\ TypeOK /\ Peer(p) = q /\ p # q /\ Fits(p, m)
      /\ Recent(p, q, m) /\ InStep /\ Decoders /\ AuthInStep /\ PartyInStep
  BY Direction, HeadFits DEF Inv
<1>4. m.epoch = Epoch(p) /\ ChunkFits(p, "hdr", m.chunk) /\ Level(p, q)
  BY <1>1, <1>2, <1>3, ArrivingFits
<1>5. AssembledBy(s, m) = ObjectOf(p, "hdr")
  BY <1>1, <1>2, <1>3, CollectedFits
<1>6. /\ t.tag = "ct1_sending" /\ t.ct1 = NoObject /\ t.ek = NoObject
      /\ t.keys = AssembledBy(s, m).keys
      /\ \A k \in Kind : t.dec[k] = {} /\ t.mac[k] = NoMac
  BY DEF Fresh
<1> HIDE DEF t
<1>7. sm'[q] = t /\ sm'[p] = sm[p]
  BY <1>1, <1>3, BecomePeer
<1>8. t.keys = sm[p].keys
  BY <1>5, <1>6 DEF ObjectOf, Ciphertext
<1>9. sm[p].tag \in Initiating \ {"unsampled"}
  BY <1>4 DEF ChunkFits, Sent
<1>10. /\ chain[q] \in Seq(EpochKey) /\ chain[p] = chain[q]
       /\ Epoch(q) \in Nat /\ Epoch(p) = Epoch(q) /\ m.epoch = Epoch(q)
       /\ Epoch(q) = Len(chain[q])
  BY <1>3, <1>4, ChainTypes DEF Level, Epoch
<1>11. key = Encapsulated(t, Epoch(q) + 1)
  BY <1>1, <1>10 DEF AddedEpoch
<1>12. key \in EpochKey /\ key.keys = sm[p].keys /\ key.ep = Epoch(q) + 1
  <2>1. t \in StateMachine /\ Epoch(q) + 1 \in Nat
    BY <1>7, <1>10 DEF TypeOK
  <2> QED
    BY <1>8, <1>11, <2>1, EpochKeyTypes, NothingTypes DEF Encapsulated
<1> HIDE DEF key
<1>13. /\ chain'[q] = Append(chain[q], key) /\ chain'[p] = chain[p]
       /\ auth[q] = chain[q]
  <2>1. auth[q] = chain[q]
    BY <1>2, <1>3 DEF AuthInStep, Responding
  <2> QED
    BY <1>1, <1>3, <2>1 DEF TypeOK
<1>14. Epoch(q)' = Epoch(q) + 1 /\ LastKey(q)' = key
  BY <1>10, <1>12, <1>13, ExtendedChain DEF Epoch, LastKey
<1>15. Epoch(p) <= Epoch(q) + 1 /\ ~Ahead(q, p) /\ Epoch(p)' = Epoch(p)
  BY <1>10, <1>13 DEF Ahead, Epoch
<1>16. Links'
  BY <1>1, <1>3, <1>4, <1>6, <1>7, <1>9, <1>13, <1>14, <1>15, NewEpochLinks
  DEF Initiating
<1>17. Decoders'
  BY <1>3, <1>6, <1>7, FreshDecoders
<1>18. AuthInStep' /\ PartyInStep'
  <2>1. chain'[q] = Append(auth'[q], Encapsulated(sm'[q], Epoch(q)'))
    BY <1>1, <1>7, <1>11, <1>13, <1>14
  <2> QED
    BY <1>1, <1>3, <1>6, <1>7, <1>13, <2>1, OtherInStep DEF Responding, SendingEk
<1>19. InStep'
  <2>1. Leads(q, p)'
    BY <1>6, <1>7, <1>9, <1>10, <1>12, <1>13, <1>14, <1>15 DEF Leads, Ahead
  <2> QED
    BY <1>3, <2>1 DEF InStep
<1> QED
  BY <1>16, <1>17, <1>18, <1>19 DEF Inv

\* The responder ends the epoch when its last chunk of CT2 is acknowledged.
LEMMA ReceiveCt1AckInStep ==
  ASSUME Inv, TypeOK', NEW p \in Party, NEW q \in Party, p = Peer(q),
         channel[q] # <<>>, NEW m \in Message, Take(q), ReceiveCt1Ack(q, m)
  PROVE  Inv'
<1> DEFINE s == sm[q]
           key == Encapsulated(s, Epoch(q))
<1>1. /\ s.tag = "ct2_sending" /\ auth' = [auth EXCEPT ![q] = Append(@, key)]
      /\ Become(q, Fresh(NextRole(s.tag))) /\ chain' = chain
  BY DEF ReceiveCt1Ack
<1>2. /\ TypeOK /\ Peer(p) = q /\ p # q /\ InStep /\ Decoders
      /\ AuthInStep /\ PartyInStep
  BY Direction DEF Inv
<1>3. sm'[q] = Fresh("unsampled") /\ sm'[p] = sm[p]
  BY <1>1, <1>2, BecomePeer DEF NextRole
<1>4. /\ sm'[q].tag = "unsampled" /\ sm'[q].ct1 = NoObject
      /\ \A k \in Kind : sm'[q].dec[k] = {} /\ sm'[q].mac[k] = NoMac
  BY <1>3, FreshProperties
<1>5. Gathered(p, q)'
  BY <1>4, GatheredNothing
<1>6. Onward(sm[q], sm'[q])
  BY <1>1, <1>4 DEF Onward, Sent, Initiating, SendingEk
<1>7. Links'
  BY <1>1, <1>2, <1>3, <1>4, <1>5, <1>6, OnwardLinks
<1>8. Decoders'
  BY <1>2, <1>3, <1>4, FreshDecoders
<1>9. AuthInStep' /\ PartyInStep'
  <2>1. chain[q] = Append(auth[q], key)
    BY <1>1, <1>2 DEF AuthInStep, Responding
  <2> HIDE DEF key
  <2>2. auth'[q] = Append(auth[q], key) /\ auth'[p] = auth[p]
    BY <1>1, <1>2 DEF TypeOK
  <2> QED
    BY <1>1, <1>2, <1>3, <1>4, <2>1, <2>2, OtherInStep DEF Responding, SendingEk
<1>10. InStep'
  <2>1. \A r \in Party : Epoch(r)' = Epoch(r) /\ LastKey(r)' = LastKey(r)
    BY <1>1 DEF Epoch, LastKey
  <2>2. CASE Level(q, p)
    <3>1. Level(q, p)'
      BY <1>1, <1>3, <1>4, <2>2 DEF Level, Initiating
    <3> QED
      BY <1>2, <3>1 DEF InStep
  <2>3. CASE Leads(q, p)
    <3>1. Leads(q, p)'
      BY <1>1, <1>3, <1>4, <2>1, <2>3 DEF Leads, Ahead
    <3> QED
      BY <1>2, <3>1 DEF InStep
  <2> QED
    BY <1>1, <1>2, <2>2, <2>3, Positions
<1> QED
  BY <1>7, <1>8, <1>9, <1>10 DEF Inv

\* A party that takes a message and stays in its epoch.
Stays(s, t) ==
    /\ t.keys = s.keys /\ t.encaps = s.encaps /\ t.next = s.next
    /\ t.tag = s.tag \/ (s.tag = "ek_sending" /\ t.tag = "ek_sending_ct1")
    /\ t.ek = s.ek \/ (s.tag = "ct1_sending" /\ t.ek = Ek(s))

\* Each decoder has stayed the same, was dropped or has got the message.
Gains(s, t, m) ==
    \A k \in Kind :
        \/ t.dec[k] = s.dec[k] /\ t.mac[k] = s.mac[k]
        \/ t.dec[k] = {} /\ t.mac[k] = NoMac
        \/ /\ Collects(s, m) /\ k = m.payload
           /\ t.dec[k] = Collected(s, m).dec[k]
           /\ t.mac[k] = Collected(s, m).mac[k]

\* What a staying party has gathered.
LEMMA StayingGathered ==
  ASSUME Inv, TypeOK', NEW p \in Party, NEW q \in Party, p = Peer(q),
         NEW m \in Message, Fits(p, m), Recent(p, q, m),
         UNCHANGED chain, sm'[p] = sm[p],
         Stays(sm[q], sm'[q]), Gains(sm[q], sm'[q], m),
         \/ sm'[q].ct1 = sm[q].ct1
         \/ Ahead(p, q) /\ sm'[q].ct1 = ObjectOf(p, "ct1")
  PROVE  Gathered(p, q)' /\ Decoders'
<1> DEFINE s == sm[q]
           t == sm'[q]
<1>1. /\ TypeOK /\ Peer(p) = q /\ p # q /\ Gathered(p, q) /\ Decoders
      /\ s \in StateMachine /\ t \in StateMachine
      /\ s.dec \in [Kind -> SUBSET Chunk] /\ t.mac \in [Kind -> Mac]
  BY Direction DEF Inv, TypeOK, StateMachine
<1>2. Stays(s, t) /\ Gains(s, t, m)
  OBVIOUS
<1>3. Ahead(p, q)' = Ahead(p, q)
  BY DEF Ahead, Epoch
<1>4. \A r \in Party : r = p \/ r = q
  BY PeerProperties
<1> HIDE DEF s, t
<1>5. /\ Collecting(t.tag) = Collecting(s.tag) /\ Collecting(t.tag) \subseteq Kind
      /\ t.tag \in Initiating <=> s.tag \in Initiating
  BY <1>2 DEF Stays, Collecting, Initiating
<1>6. ASSUME NEW k \in Collecting(t.tag)
      PROVE  /\ \A c \in t.dec[k] : ChunkFits(p, k, c)'
             /\ \A a \in Mac : a = t.mac[k] => MacFits(p, k, a)'
             /\ k \in Ciphertext /\ (t.dec[k] # {} \/ t.mac[k] # NoMac) => Ahead(p, q)'
  <2>1. /\ \A c \in s.dec[k] : ChunkFits(p, k, c)
        /\ MacFits(p, k, s.mac[k])
        /\ k \in Ciphertext /\ (s.dec[k] # {} \/ s.mac[k] # NoMac) => Ahead(p, q)
    BY <1>1, <1>5 DEF Gathered, s
  <2>2. MacFits(p, k, NoMac)
    BY DEF MacFits
  <2>3. ASSUME Collects(s, m), k = m.payload
        PROVE  /\ \A c \in Collected(s, m).dec[k] : ChunkFits(p, k, c)
               /\ MacFits(p, k, Collected(s, m).mac[k])
               /\ k \in Ciphertext => Ahead(p, q)
    BY <1>1, <2>3, CollectedFits, ArrivingFits DEF s
  <2>4. /\ \A c \in t.dec[k] : ChunkFits(p, k, c)
        /\ MacFits(p, k, t.mac[k])
        /\ k \in Ciphertext /\ (t.dec[k] # {} \/ t.mac[k] # NoMac) => Ahead(p, q)
    BY <1>2, <1>5, <2>1, <2>2, <2>3 DEF Gains
  <2> QED
    BY <1>3, <2>4, SameContents
<1>7. t.tag \in Initiating /\ t.ct1 # NoObject =>
         Ahead(p, q)' /\ t.ct1 = ObjectOf(p, "ct1")'
  <2>1. s.tag \in Initiating /\ s.ct1 # NoObject =>
           Ahead(p, q) /\ s.ct1 = ObjectOf(p, "ct1")
    BY <1>1 DEF Gathered, s
  <2>2. t.ct1 = s.ct1 \/ (Ahead(p, q) /\ t.ct1 = ObjectOf(p, "ct1"))
    BY DEF s, t
  <2> QED
    BY <1>3, <1>5, <2>1, <2>2, SameContents
<1>8. \A k \in Collecting(t.tag) : t.mac[k] \in Mac
  BY <1>1, <1>5
<1>9. \A k \in Collecting(sm'[q].tag) : MacFits(p, k, sm[q].mac[k])'
  BY <1>6, <1>8 DEF MacFits, t
<1>10. Gathered(p, q)'
  BY <1>6, <1>7, <1>9 DEF Gathered, t
<1>11. ASSUME NEW k \in Kind
       PROVE  /\ IsFiniteSet(t.dec[k])
              /\ \A c, d \in t.dec[k] : c.index = d.index => c = d
  <2>1. /\ IsFiniteSet(s.dec[k])
        /\ \A c, d \in s.dec[k] : c.index = d.index => c = d
    BY <1>1 DEF Decoders, s
  <2>2. s.dec[k] \in SUBSET Chunk /\ m.chunk \in Chunk
    BY <1>1 DEF Message
  <2>3. ASSUME Collects(s, m), k = m.payload
        PROVE  Collected(s, m).dec[k] = AddChunk(s.dec[k], m.chunk)
    BY <1>1, <2>3, CollectedProperties
  <2> DEFINE D == AddChunk(s.dec[k], m.chunk)
  <2>4. /\ IsFiniteSet(D)
        /\ \A c, d \in D : c.index = d.index => c = d
    BY <2>1, <2>2, AddChunkDecodes
  <2> HIDE DEF D
  <2>5. t.dec[k] = s.dec[k] \/ t.dec[k] = {} \/ t.dec[k] = D
    BY <1>2, <2>3 DEF Gains, D
  <2> QED
    BY <2>1, <2>4, <2>5, FS_EmptySet
<1>12. Decoders'
  <2>1. \A k \in Kind : /\ IsFiniteSet(sm'[p].dec[k])
                        /\ \A c, d \in sm'[p].dec[k] : c.index = d.index => c = d
    BY <1>1 DEF Decoders
  <2> QED
    BY <1>4, <1>11, <2>1 DEF Decoders, t
<1> QED
  BY <1>10, <1>12

\* A party that stays in its epoch keeps the invariant.
LEMMA StayingInStep ==
  ASSUME Inv, TypeOK', NEW p \in Party, NEW q \in Party, p = Peer(q),
         channel[q] # <<>>, NEW m \in Message, m = Head(channel[q]),
         Take(q), UNCHANGED <<chain, auth>>, sm'[p] = sm[p],
         Stays(sm[q], sm'[q]), Gains(sm[q], sm'[q], m),
         sm'[q].ek = sm[q].ek \/ sm[p].tag = "waiting_ct2",
         \/ sm'[q].ct1 = sm[q].ct1
         \/ Ahead(p, q) /\ sm'[q].ct1 = ObjectOf(p, "ct1")
  PROVE  Inv'
<1> DEFINE s == sm[q]
           t == sm'[q]
<1>1. /\ TypeOK /\ Peer(p) = q /\ p # q /\ Fits(p, m) /\ Recent(p, q, m)
      /\ InStep /\ AuthInStep /\ PartyInStep /\ s \in StateMachine
  BY Direction, HeadFits DEF Inv
<1>2. Gathered(p, q)' /\ Decoders'
  BY <1>1, StayingGathered
<1>3. Stays(s, t) /\ (t.ek = s.ek \/ sm[p].tag = "waiting_ct2")
  OBVIOUS
<1>4. EkSent(s) \in Nat
  BY <1>1, EkSentType
<1> HIDE DEF s, t
<1>5. Onward(s, t)
  BY <1>3, <1>4 DEF Onward, Stays, Sent, EkSent, Initiating, SendingEk
<1>6. /\ s.tag = "waiting_hdr" <=> t.tag = "waiting_hdr"
      /\ s.tag \in Responding <=> t.tag \in Responding
      /\ s.tag \in Responding => t.tag = s.tag
      /\ t.tag \in SendingEk => s.tag \in SendingEk
      /\ s.tag \in Initiating <=> t.tag \in Initiating
      /\ s.tag = "unsampled" <=> t.tag = "unsampled"
      /\ s.tag = "ct1_sending" <=> t.tag = "ct1_sending"
      /\ s.tag = "ct2_sending" <=> t.tag = "ct2_sending"
      /\ s.tag = "waiting_ct2" <=> t.tag = "waiting_ct2"
  BY <1>3 DEF Stays, Responding, SendingEk, Initiating
<1>7. Links'
  BY <1>1, <1>2, <1>5, <1>6, OnwardLinks DEF s, t
<1>8. AuthInStep' /\ PartyInStep'
  <2>1. Epoch(q)' = Epoch(q)
    BY DEF Epoch
  <2>2. chain[q] = IF t.tag \in Responding
                   THEN Append(auth[q], Encapsulated(t, Epoch(q))) ELSE auth[q]
    BY <1>1, <1>3, <1>6 DEF AuthInStep, Stays, Encapsulated, s
  <2>3. /\ t.tag \in Responding => t.ek \in {NoObject, Ek(t)}
        /\ t.tag = "ct2_sending" => t.ek # NoObject
        /\ t.tag \in SendingEk => t.next < EkChunks
    BY <1>1, <1>3, <1>6 DEF PartyInStep, Stays, Ek, s
  <2> QED
    BY <1>1, <2>1, <2>2, <2>3, OtherInStep DEF t
<1>9. InStep'
  <2>1. \A r \in Party : Epoch(r)' = Epoch(r) /\ LastKey(r)' = LastKey(r)
    BY DEF Epoch, LastKey
  <2>2. CASE Level(p, q)
    <3>1. Level(p, q)'
      BY <1>6, <2>2 DEF Level, s, t
    <3> QED
      BY <1>1, <3>1 DEF InStep
  <2>3. CASE Level(q, p)
    <3>1. s.tag \in Initiating \/ s.tag = "ct2_sending"
      BY <2>3 DEF Level, s
    <3>2. t.tag \in Initiating \/ t.tag = "ct2_sending"
      BY <1>6, <3>1
    <3>3. Level(q, p)'
      BY <2>3, <3>2 DEF Level, t
    <3> QED
      BY <1>1, <3>3 DEF InStep
  <2>4. CASE Leads(p, q)
    <3>1. t.keys = s.keys
      BY <1>3 DEF Stays
    <3>2. Leads(p, q)'
      BY <1>6, <2>1, <2>4, <3>1 DEF Leads, Ahead, s, t
    <3> QED
      BY <1>1, <3>2 DEF InStep
  <2>5. CASE Leads(q, p)
    <3>1. Leads(q, p)'
      <4>1. /\ Ahead(q, p) /\ chain[q] = Append(chain[p], LastKey(q))
            /\ LastKey(q).keys = sm[p].keys /\ LastKey(q).ep = Epoch(q)
            /\ s.tag # "waiting_hdr" /\ sm[p].tag \in Initiating \ {"unsampled"}
            /\ s.tag # "ct1_sending" \/ s.ek # NoObject =>
                  sm[p].tag = "waiting_ct2"
        BY <2>5 DEF Leads, s
      <4>2. t.tag # "ct1_sending" \/ t.ek # NoObject => sm[p].tag = "waiting_ct2"
        BY <1>3, <1>6, <4>1
      <4> QED
        BY <1>1, <1>6, <2>1, <4>1, <4>2 DEF Leads, Ahead, t
    <3> QED
      BY <1>1, <3>1 DEF InStep
  <2> QED
    BY <1>1, <2>2, <2>3, <2>4, <2>5, Positions
<1> QED
  BY <1>2, <1>7, <1>8, <1>9 DEF Inv

\* A responder has the encapsulation key only after all of it was sent.
LEMMA EkComplete ==
  ASSUME Inv, NEW p \in Party, NEW q \in Party, p = Peer(q),
         NEW m \in Message, Fits(p, m), Recent(p, q, m),
         m.payload = "ek", Completes(sm[q], m)
  PROVE  sm[p].tag = "waiting_ct2"
<1> DEFINE s == sm[q]
           D == AddChunk(s.dec["ek"], m.chunk)
<1>1. /\ TypeOK /\ Peer(p) = q /\ Decoders /\ PartyInStep
      /\ s \in StateMachine /\ sm[p] \in StateMachine
  BY Direction DEF Inv
<1>2. Collects(s, m) /\ Cardinality(D) >= EkChunks
  BY ChunkBounds DEF Completes
<1>3. Collected(s, m).dec["ek"] = D
  BY <1>1, <1>2, CollectedProperties
<1>4. \A c \in D : ChunkFits(p, "ek", c)
  BY <1>1, <1>2, <1>3, CollectedFits
<1>5. s.dec["ek"] \in SUBSET Chunk /\ m.chunk \in Chunk /\ "ek" \in Kind
  BY <1>1 DEF StateMachine, Message, Kind
<1>6. /\ IsFiniteSet(s.dec["ek"])
      /\ \A c, d \in s.dec["ek"] : c.index = d.index => c = d
  BY <1>1, <1>5 DEF Decoders
<1>7. /\ IsFiniteSet(D) /\ D \in SUBSET Chunk /\ D # {}
      /\ \A c, d \in D : c.index = d.index => c = d
  BY <1>5, <1>6, AddChunkDecodes, AddChunkProperties
<1> HIDE DEF D
<1>8. EkSent(sm[p]) \in Nat /\ \A c \in D : c.index < EkSent(sm[p])
  BY <1>1, <1>4, EkSentType DEF ChunkFits
<1>9. Cardinality(D) <= EkSent(sm[p]) /\ Cardinality(D) \in Nat
  BY <1>7, <1>8, CountedChunks, FS_CardinalityType
<1>10. Sent("ek", sm[p].tag)
  BY <1>4, <1>7 DEF ChunkFits
<1>11. sm[p].tag \in SendingEk => EkSent(sm[p]) < EkChunks
  BY <1>1 DEF PartyInStep, EkSent, SendingEk
<1> QED
  BY <1>2, <1>8, <1>9, <1>10, <1>11, ChunkBounds DEF Sent

\* A state that got a chunk has changed the decoder of the message's kind.
LEMMA CollectedStays ==
  ASSUME NEW s \in StateMachine, NEW m \in Message, Collects(s, m)
  PROVE  /\ Stays(s, Collected(s, m)) /\ Gains(s, Collected(s, m), m)
         /\ Collected(s, m).ek = s.ek /\ Collected(s, m).ct1 = s.ct1
<1>1. /\ Collected(s, m).tag = s.tag /\ Collected(s, m).keys = s.keys
      /\ Collected(s, m).encaps = s.encaps /\ Collected(s, m).next = s.next
      /\ Collected(s, m).ek = s.ek /\ Collected(s, m).ct1 = s.ct1
  BY DEF Collected, StateMachine
<1>2. \A k \in Kind : k # m.payload =>
         /\ Collected(s, m).dec[k] = s.dec[k]
         /\ Collected(s, m).mac[k] = s.mac[k]
  <2>1. /\ Collected(s, m).dec = [s.dec EXCEPT ![m.payload] = AddChunk(@, m.chunk)]
        /\ Collected(s, m).mac = [s.mac EXCEPT ![m.payload] =
               IF m.chunk.index = 0 THEN m.mac ELSE @]
    BY DEF Collected, StateMachine
  <2> QED
    BY <2>1 DEF StateMachine
<1> QED
  BY <1>1, <1>2 DEF Stays, Gains

\* Every step that receives keeps the invariant.
LEMMA ReceiveInStep ==
  ASSUME Inv, TypeOK', NEW q \in Party, Receive(q)
  PROVE  Inv'
<1> DEFINE s == sm[q]
<1>1. PICK p \in Party : p = Peer(q)
  BY PeerProperties
<1>2. /\ channel[q] # <<>> /\ Take(q) /\ TypeOK /\ s \in StateMachine
      /\ Peer(p) = q /\ p # q /\ Gathered(p, q)
  BY <1>1, Direction DEF Receive
<1>3. PICK m \in Message : m = Head(channel[q])
  BY <1>2, TakenTypes
<1>4. Fits(p, m) /\ Recent(p, q, m)
  BY <1>1, <1>2, <1>3, HeadFits
<1>5. Refuse(q, m) \/ Ignore(q, m) \/ CollectChunk(q, m) \/ ReceiveCt1(q, m)
      \/ ReceiveCt2(q, m) \/ ReceiveHdr(q, m) \/ ReceiveEk(q, m)
      \/ ReceiveCt1Ack(q, m)
  BY <1>3 DEF Receive
<1>6. Verifies(s, m) => Collects(s, m)
  BY DEF Verifies, Completes
<1>7. CASE Refuse(q, m) \/ Ignore(q, m)
  <2>1. UNCHANGED <<sm, chain, auth>>
    BY <1>7 DEF Refuse, Ignore
  <2>2. Stays(sm[q], sm'[q]) /\ Gains(sm[q], sm'[q], m)
    BY <2>1 DEF Stays, Gains
  <2> QED
    BY <1>1, <1>2, <1>3, <2>1, <2>2, StayingInStep
<1>8. CASE CollectChunk(q, m)
  <2>1. /\ Collects(s, m) /\ Become(q, Collected(s, m))
        /\ UNCHANGED <<chain, auth>>
    BY <1>8 DEF CollectChunk
  <2>2. sm'[q] = Collected(s, m) /\ sm'[p] = sm[p]
    BY <1>1, <1>2, <2>1, BecomePeer
  <2>3. /\ Stays(s, sm'[q]) /\ Gains(s, sm'[q], m)
        /\ sm'[q].ek = s.ek /\ sm'[q].ct1 = s.ct1
    BY <1>2, <2>1, <2>2, CollectedStays
  <2> QED
    BY <1>1, <1>2, <1>3, <2>1, <2>2, <2>3, StayingInStep
<1>9. CASE ReceiveCt1(q, m)
  <2> DEFINE t == [s EXCEPT
               !.tag = IF @ = "ek_sending" THEN "ek_sending_ct1" ELSE @,
               !.ct1 = AssembledBy(s, m),
               !.dec["ct1"] = {}, !.mac["ct1"] = NoMac]
  <2>1. /\ m.payload = "ct1" /\ Collects(s, m) /\ Become(q, t)
        /\ UNCHANGED <<chain, auth>>
    BY <1>6, <1>9 DEF ReceiveCt1
  <2>2. /\ t.tag = IF s.tag = "ek_sending" THEN "ek_sending_ct1" ELSE s.tag
        /\ t.keys = s.keys /\ t.encaps = s.encaps /\ t.next = s.next
        /\ t.ek = s.ek /\ t.ct1 = AssembledBy(s, m)
        /\ t.dec = [s.dec EXCEPT !["ct1"] = {}]
        /\ t.mac = [s.mac EXCEPT !["ct1"] = NoMac]
    BY <1>2 DEF StateMachine
  <2> HIDE DEF t
  <2>3. sm'[q] = t /\ sm'[p] = sm[p]
    BY <1>1, <1>2, <2>1, BecomePeer
  <2>4. Stays(s, t)
    BY <2>2 DEF Stays
  <2>5. Gains(s, t, m)
    <3>1. s.dec \in [Kind -> SUBSET Chunk] /\ s.mac \in [Kind -> Mac]
      BY <1>2 DEF StateMachine
    <3> HIDE DEF s
    <3>2. ASSUME NEW k \in Kind
          PROVE  \/ t.dec[k] = s.dec[k] /\ t.mac[k] = s.mac[k]
                 \/ t.dec[k] = {} /\ t.mac[k] = NoMac
      BY <2>2, <3>1
    <3> QED
      BY <3>2 DEF Gains
  <2>6. Ahead(p, q) /\ t.ct1 = ObjectOf(p, "ct1")
    BY <1>1, <1>2, <1>4, <2>1, <2>2, ArrivingFits, CollectedFits DEF Ciphertext
  <2> QED
    BY <1>1, <1>2, <1>3, <2>1, <2>2, <2>3, <2>4, <2>5, <2>6, StayingInStep
<1>10. CASE ReceiveEk(q, m)
  <2> DEFINE u == Collected(s, m)
             t == [u EXCEPT !.ek = AssembledBy(s, m)]
  <2>1. /\ m.payload = "ek" /\ Collects(s, m) /\ Become(q, t)
        /\ Completes(s, m) /\ UNCHANGED <<chain, auth>>
    BY <1>6, <1>10 DEF ReceiveEk, Verifies
  <2>2. u \in StateMachine
    BY <1>2, <2>1, CollectedProperties
  <2>3. Stays(s, u) /\ Gains(s, u, m) /\ u.ek = s.ek /\ u.ct1 = s.ct1
    BY <1>2, <2>1, CollectedStays
  <2>4. /\ t.tag = u.tag /\ t.keys = u.keys /\ t.encaps = u.encaps
        /\ t.next = u.next /\ t.ct1 = u.ct1 /\ t.dec = u.dec /\ t.mac = u.mac
        /\ t.ek = AssembledBy(s, m)
    BY <2>2 DEF StateMachine
  <2>5. sm'[q] = t /\ sm'[p] = sm[p]
    BY <1>1, <1>2, <2>1, BecomePeer
  <2> HIDE DEF t
  <2>6. s.tag = "ct1_sending" /\ Leads(q, p)
    BY <1>1, <1>2, <1>4, <2>1, ArrivingFits
  <2>7. AssembledBy(s, m) = Ek(s)
    <3>1. AssembledBy(s, m) = ObjectOf(p, "ek")
      BY <1>1, <1>2, <1>4, <2>1, CollectedFits
    <3>2. LastKey(q).keys = sm[p].keys
      BY <2>6 DEF Leads
    <3>3. LastKey(q).keys = s.keys
      BY <1>2, <2>6, RespondersKey DEF Inv, Responding, Encapsulated
    <3> QED
      BY <3>1, <3>2, <3>3 DEF ObjectOf, Ciphertext, Ek
  <2>8. sm[p].tag = "waiting_ct2"
    BY <1>1, <1>2, <1>4, <2>1, EkComplete
  <2>9. Stays(s, t)
    BY <2>3, <2>4, <2>6, <2>7 DEF Stays
  <2>10. Gains(s, t, m)
    BY <2>3, <2>4 DEF Gains
  <2> QED
    BY <1>1, <1>2, <1>3, <2>1, <2>3, <2>4, <2>5, <2>8, <2>9, <2>10, StayingInStep
<1> QED
  BY <1>1, <1>2, <1>3, <1>5, <1>7, <1>8, <1>9, <1>10,
     ReceiveCt2InStep, ReceiveHdrInStep, ReceiveCt1AckInStep

-----------------------------------------------------------------------------
(* Theorems *)

\* The invariant holds before anything was sent.
LEMMA InvInit == Init => Inv
<1> SUFFICES ASSUME Init PROVE Inv
  OBVIOUS
<1>1. TypeOK
  BY InitTypes
<1>2. /\ chain = [p \in Party |-> <<>>] /\ auth = [p \in Party |-> <<>>]
      /\ channel = [p \in Party |-> <<>>]
      /\ sm = [p \in Party |-> Fresh(IF p = Alice THEN "unsampled" ELSE "waiting_hdr")]
  BY DEF Init
<1>3. \A p \in Party :
         /\ sm[p].tag = IF p = Alice THEN "unsampled" ELSE "waiting_hdr"
         /\ sm[p].ct1 = NoObject /\ sm[p].ek = NoObject
         /\ \A k \in Kind : sm[p].dec[k] = {} /\ sm[p].mac[k] = NoMac
  BY <1>2, FreshProperties
<1>4. Decoders
  BY <1>3, FS_EmptySet DEF Decoders
<1>5. AuthInStep
  BY <1>2, <1>3 DEF AuthInStep, Responding
<1>6. PartyInStep
  BY <1>3 DEF PartyInStep, Responding, SendingEk
<1>7. InStep
  <2>1. Alice \in Party /\ Peer(Alice) = Bob /\ Bob \in Party /\ Bob # Alice
    BY PartyAssumption DEF Party, Peer
  <2>2. Level(Alice, Bob)
    BY <1>2, <1>3, <2>1 DEF Level, Initiating
  <2> QED
    BY <2>1, <2>2 DEF InStep
<1>8. Links
  <2> SUFFICES ASSUME NEW p \in Party
               PROVE  UnderWay(p, Peer(p)) /\ Gathered(p, Peer(p))
    BY DEF Links
  <2> DEFINE q == Peer(p)
  <2>1. q \in Party
    BY PeerProperties
  <2>2. channel[q] = <<>> /\ DOMAIN channel[q] = {}
    BY <1>2, <2>1
  <2> HIDE DEF q
  <2>3. UnderWay(p, q)
    BY <2>2 DEF UnderWay, Range
  <2>4. Gathered(p, q)
    <3>1. \A k \in Collecting(sm[q].tag) : k \in Kind
      BY DEF Collecting
    <3> QED
      BY <1>3, <2>1, <3>1 DEF Gathered, MacFits
  <2> QED
    BY <2>3, <2>4 DEF q
<1> QED
  BY <1>1, <1>4, <1>5, <1>6, <1>7, <1>8 DEF Inv

\* Nothing changes the invariant but a change of the variables.
LEMMA InvStutter ==
  ASSUME Inv, UNCHANGED vars
  PROVE  Inv'
<1>1. UNCHANGED <<sm, chain, auth, drawn, channel>>
  BY DEF vars
<1>2. TypeOK' /\ Decoders' /\ PartyInStep'
  BY <1>1 DEF Inv, TypeOK, Decoders, PartyInStep
<1>3. \A p \in Party : Epoch(p)' = Epoch(p) /\ LastKey(p)' = LastKey(p)
  BY <1>1 DEF Epoch, LastKey
<1>4. AuthInStep'
  BY <1>1, <1>3 DEF Inv, AuthInStep
<1>5. InStep'
  BY <1>1, <1>3, PeerProperties DEF Inv, InStep, Level, Leads, Ahead
<1>6. ASSUME NEW p \in Party
      PROVE  UnderWay(p, Peer(p))' /\ Gathered(p, Peer(p))'
  <2>1. PICK q \in Party : q = Peer(p)
    BY PeerProperties
  <2>2. /\ TypeOK /\ UnderWay(p, q) /\ Gathered(p, q)
    BY <2>1, Direction
  <2>3. Onward(sm[p], sm'[p]) /\ \A m \in Message : Fits(p, m) => Fits(p, m)'
    BY <1>1, <1>2, <2>2, SameFits
  <2>4. \A m : Recent(p, q, m) => Recent(p, q, m)'
    BY <1>1, <1>3 DEF Recent, Ahead
  <2>5. UnderWay(p, q)'
    BY <1>1, <1>3, <2>2, <2>3, <2>4, SameUnderWay
  <2>6. Gathered(p, q)'
    BY <1>1, <1>2, <2>2, <2>3, OnwardGathered
  <2> QED
    BY <2>1, <2>5, <2>6
<1>7. Links'
  BY <1>6 DEF Links
<1> QED
  BY <1>2, <1>4, <1>5, <1>7 DEF Inv

\* The invariant is inductive.
LEMMA InvNext == Inv /\ [Next]_vars => Inv'
<1> SUFFICES ASSUME Inv, [Next]_vars PROVE Inv'
  OBVIOUS
<1>1. TypeOK
  BY DEF Inv
<1>2. ASSUME NEW p \in Party, Send(p) PROVE Inv'
  <2>1. TypeOK'
    BY <1>1, <1>2, SendTypes
  <2> QED
    BY <1>2, <2>1, SendLinks, SendInStep DEF Inv
<1>3. ASSUME NEW p \in Party, Receive(p) PROVE Inv'
  <2>1. TypeOK'
    BY <1>1, <1>3, ReceiveTypes
  <2> QED
    BY <1>3, <2>1, ReceiveInStep
<1>4. CASE UNCHANGED vars
  BY <1>4, InvStutter
<1> QED
  BY <1>2, <1>3, <1>4 DEF Next

\* The two state machines stay in step: wherever both are in the exchange,
\* everything under way or collected is of the object its sender is at.
THEOREM InvCorrect == Spec => []Inv
BY InvInit, InvNext, PTL DEF Spec

\* Both chains hold the same secret for every epoch both have reached.
THEOREM EpochSecretsAgreeCorrect == Spec => []EpochSecretsAgree
<1>1. Inv => EpochSecretsAgree
  BY InStepSecrets DEF Inv
<1> QED
  BY <1>1, InvCorrect, PTL

\* No object that arrives is refused for a MAC under another key or epoch.
THEOREM NoInvalidMacCorrect == Spec => []NoInvalidMac
BY InvNoInvalidMac, InvCorrect, PTL

\* A party does not start the next exchange while the other still sends keys
\* or ciphertext of the last one.
THEOREM RolesExclusiveCorrect == Spec => []RolesExclusive
<1>1. Inv => RolesExclusive
  BY InStepRoles DEF Inv
<1> QED
  BY <1>1, InvCorrect, PTL

=============================================================================
