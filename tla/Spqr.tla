-------------------------------- MODULE Spqr --------------------------------
(***************************************************************************)
(* The SPQR V1 state machine (spqr.zig, spqr/state.zig, spqr/chain.zig,    *)
(* spqr/authenticator.zig): two parties run one ML-KEM exchange per epoch, *)
(* a chunk of it in every message, over a transport that delivers the      *)
(* messages of each direction reliably and in order, as state.zig assumes. *)
(*                                                                         *)
(* An object (header, encapsulation key, ciphertext halves) is named by    *)
(* the key pair and the encapsulation it belongs to; a MAC is named by     *)
(* what goes into it. The keys within an epoch are left out: on this       *)
(* transport every message names the next index of its epoch's chain.      *)
(***************************************************************************)
EXTENDS Integers, Sequences, FiniteSets

CONSTANTS
    Alice, Bob,       \* the session's initiator and its responder
    HdrChunks, EkChunks, Ct1Chunks, Ct2Chunks,  \* chunks of each object
    MaxEpoch,         \* bound: no key pair is generated in this epoch
    MaxInFlight       \* bound: messages under way in one direction

Party == {Alice, Bob}

Peer(p) == IF p = Alice THEN Bob ELSE Alice

Kind == {"hdr", "ek", "ct1", "ct2"}

Chunks == [hdr |-> HdrChunks, ek |-> EkChunks,
           ct1 |-> Ct1Chunks, ct2 |-> Ct2Chunks]

ASSUME PartyAssumption == Alice # Bob

\* Every object of ML-KEM-768 takes more than one chunk of 32 bytes.
ASSUME ChunkAssumption == \A k \in Kind : Chunks[k] \in Nat \ {0, 1}

ASSUME BoundAssumption == MaxEpoch \in Nat /\ MaxInFlight \in Nat \ {0}

-----------------------------------------------------------------------------
(* Objects, MACs, messages and states; 0 is the id of nothing *)

Object == [kind : Kind \union {"none", "mixed"}, keys : Nat, encaps : Nat]

NoObject == [kind |-> "none", keys |-> 0, encaps |-> 0]

\* What a decoder assembles from chunks of different objects.
Mixed == [kind |-> "mixed", keys |-> 0, encaps |-> 0]

\* The secret of one epoch: sckaDeriveKey of the shared secret and the epoch.
\* encaps is 0 when the ciphertext does not belong to the key pair.
EpochKey == [keys : Nat, encaps : Nat, ep : Nat]

\* The MAC key is named by every secret mixed into the authenticator.
Mac == [auth : Seq(EpochKey), ep : Nat, obj : Object]

NoMac == [auth |-> <<>>, ep |-> 0, obj |-> NoObject]

Chunk == [obj : Object, index : Nat]

NoChunk == [obj |-> NoObject, index |-> 0]

\* An ek_ct1_ack chunk is an ek chunk: the flag it sets is never read.
Message == [epoch : Nat, payload : Kind \union {"ct1_ack", "none"},
            chunk : Chunk, mac : Mac]

Tag == {"unsampled", "hdr_sending", "ek_sending", "ek_sending_ct1",
        "waiting_ct2", "waiting_hdr", "ct1_sending", "ct2_sending"}

\* keys and encaps name what the party generated or received; next is the
\* index of its encoder; dec and mac are its decoders and pending MACs; ct1
\* and ek are the objects it assembled.
StateMachine ==
    [tag : Tag, keys : Nat, encaps : Nat, next : Nat,
     dec : [Kind -> SUBSET Chunk], mac : [Kind -> Mac],
     ct1 : Object, ek : Object]

Fresh(tag) ==
    [tag |-> tag, keys |-> 0, encaps |-> 0, next |-> 0,
     dec |-> [k \in Kind |-> {}], mac |-> [k \in Kind |-> NoMac],
     ct1 |-> NoObject, ek |-> NoObject]

Hdr(s) == [kind |-> "hdr", keys |-> s.keys, encaps |-> 0]
Ek(s)  == [kind |-> "ek",  keys |-> s.keys, encaps |-> 0]
Ct1(s) == [kind |-> "ct1", keys |-> s.keys, encaps |-> s.encaps]

\* encaps2 works with the encapsulation key that arrived.
Ct2(s) == [kind |-> "ct2", keys |-> s.ek.keys, encaps |-> s.encaps]

\* Faulty variant: the secret is derived for the epoch before.
EncapsulatedEarlier(s, ep) ==
    [keys |-> s.keys, encaps |-> s.encaps, ep |-> ep - 1]

Encapsulated(s, ep) == [keys |-> s.keys, encaps |-> s.encaps, ep |-> ep]

Decapsulated(s, ct2, ep) ==
    [keys |-> s.keys, ep |-> ep,
     encaps |-> IF /\ s.ct1.keys = s.keys /\ ct2.keys = s.keys
                   /\ s.ct1.encaps = ct2.encaps
                THEN ct2.encaps ELSE 0]

-----------------------------------------------------------------------------
VARIABLES
    sm,           \* SpqrState.sm of each party
    chain,        \* SpqrState.chain: the epoch keys added since epoch 0
    auth,         \* SpqrState.auth: the epoch keys mixed in
    drawn,        \* key pairs and encapsulations generated so far
    channel       \* messages under way to each party

vars == <<sm, chain, auth, drawn, channel>>

Init ==
    /\ sm = [p \in Party |->
                Fresh(IF p = Alice THEN "unsampled" ELSE "waiting_hdr")]
    /\ chain = [p \in Party |-> <<>>]
    /\ auth = [p \in Party |-> <<>>]
    /\ drawn = 0
    /\ channel = [p \in Party |-> <<>>]

\* current_epoch, which addEpoch also makes the send_epoch.
Epoch(p) == Len(chain[p])

-----------------------------------------------------------------------------
(* send *)

\* Faulty variant: the epoch that goes into the MAC is one too low.
MacOfEarlier(p, obj) == [auth |-> auth[p], ep |-> Epoch(p) - 1, obj |-> obj]

MacOf(p, obj) == [auth |-> auth[p], ep |-> Epoch(p), obj |-> obj]

Emit(p, payload, chunk, mac) ==
    /\ Len(channel[Peer(p)]) < MaxInFlight
    /\ channel' = [channel EXCEPT ![Peer(p)] = Append(@,
           [epoch |-> Epoch(p), payload |-> payload,
            chunk |-> chunk, mac |-> mac])]
    /\ UNCHANGED <<chain, auth>>

\* The chunk at index i of obj; the one at index 0 carries the object's MAC.
EmitChunk(p, obj, i) ==
    Emit(p, obj.kind, [obj |-> obj, index |-> i],
         IF i = 0 THEN MacOf(p, obj) ELSE NoMac)

Become(p, s) == sm' = [sm EXCEPT ![p] = s]

SampleKeys(p) ==
    LET s == [Fresh("hdr_sending") EXCEPT !.keys = drawn + 1, !.next = 1]
    IN  /\ sm[p].tag = "unsampled"
        /\ Epoch(p) < MaxEpoch
        /\ drawn' = drawn + 1
        /\ Become(p, s)
        /\ EmitChunk(p, Hdr(s), 0)

\* Faulty variant: one chunk too many is sent.
SendHdrAgain(p) ==
    LET s == sm[p]
    IN  /\ s.tag = "hdr_sending" /\ s.next <= HdrChunks
        /\ Become(p, [s EXCEPT !.next = @ + 1])
        /\ EmitChunk(p, Hdr(s), s.next)
        /\ UNCHANGED drawn

SendHdr(p) ==
    LET s == sm[p]
    IN  /\ s.tag = "hdr_sending" /\ s.next < HdrChunks
        /\ Become(p, [s EXCEPT !.next = @ + 1])
        /\ EmitChunk(p, Hdr(s), s.next)
        /\ UNCHANGED drawn

StartEk(p) ==
    LET s == sm[p]
    IN  /\ s.tag = "hdr_sending" /\ s.next >= HdrChunks
        /\ Become(p, [s EXCEPT !.tag = "ek_sending", !.next = 1])
        /\ EmitChunk(p, Ek(s), 0)
        /\ UNCHANGED drawn

\* After its last chunk the encapsulation key gives way to waiting_ct2, which
\* keeps the chunks of CT1 collected so far but not CT1's pending MAC.
AfterLastEk(s) ==
    [s EXCEPT !.tag = "waiting_ct2", !.next = 0, !.mac["ct1"] = NoMac]

SendEk(p) ==
    LET s == sm[p]
    IN  /\ s.tag \in {"ek_sending", "ek_sending_ct1"}
        /\ Become(p, IF s.next + 1 >= EkChunks THEN AfterLastEk(s)
                     ELSE [s EXCEPT !.next = @ + 1])
        /\ EmitChunk(p, Ek(s), s.next)
        /\ UNCHANGED drawn

SendCt1(p) ==
    LET s == sm[p]
    IN  /\ s.tag = "ct1_sending" /\ s.ek = NoObject /\ s.next < Ct1Chunks
        /\ Become(p, [s EXCEPT !.next = @ + 1])
        /\ EmitChunk(p, Ct1(s), s.next)
        /\ UNCHANGED drawn

\* As soon as the encapsulation key is complete, sent all of CT1 or not.
StartCt2(p) ==
    LET s == sm[p]
    IN  /\ s.tag = "ct1_sending" /\ s.ek # NoObject
        /\ Become(p, [s EXCEPT !.tag = "ct2_sending", !.next = 1])
        /\ EmitChunk(p, Ct2(s), 0)
        /\ UNCHANGED drawn

SendCt2(p) ==
    LET s == sm[p]
    IN  /\ s.tag = "ct2_sending" /\ s.next < Ct2Chunks
        /\ Become(p, [s EXCEPT !.next = @ + 1])
        /\ EmitChunk(p, Ct2(s), s.next)
        /\ UNCHANGED drawn

\* waiting_ct2 acknowledges CT1 once it has it; ct1_sending sends the same
\* payload when it has run out of chunks.
SendAck(p) ==
    LET s == sm[p]
    IN  /\ \/ s.tag = "waiting_ct2" /\ s.ct1 # NoObject
           \/ s.tag = "ct1_sending" /\ s.ek = NoObject /\ s.next >= Ct1Chunks
        /\ Emit(p, "ct1_ack", NoChunk, NoMac)
        /\ UNCHANGED <<sm, drawn>>

SendNone(p) ==
    LET s == sm[p]
    IN  /\ \/ s.tag = "waiting_ct2" /\ s.ct1 = NoObject
           \/ s.tag = "waiting_hdr"
           \/ s.tag = "ct2_sending" /\ s.next >= Ct2Chunks
        /\ Emit(p, "none", NoChunk, NoMac)
        /\ UNCHANGED <<sm, drawn>>

Send(p) ==
    \/ SampleKeys(p) \/ SendHdr(p) \/ StartEk(p) \/ SendEk(p)
    \/ SendCt1(p) \/ StartCt2(p) \/ SendCt2(p)
    \/ SendAck(p) \/ SendNone(p)

-----------------------------------------------------------------------------
(* receiveChunk *)

\* The chunks a state collects; all others are ignored.
Collects(s, m) ==
    \/ m.payload = "ct1" /\ s.tag = "ek_sending"
    \/ m.payload = "ct1" /\ s.tag = "waiting_ct2" /\ s.ct1 = NoObject
    \/ m.payload = "ct2" /\ s.tag = "waiting_ct2"
    \/ m.payload = "hdr" /\ s.tag = "waiting_hdr"
    \/ m.payload = "ek"  /\ s.tag = "ct1_sending" /\ s.ek = NoObject

\* A decoder keeps the first chunk it gets for an index.
AddChunk(dec, chunk) ==
    IF \E c \in dec : c.index = chunk.index THEN dec ELSE dec \union {chunk}

Collected(s, m) ==
    [s EXCEPT !.dec[m.payload] = AddChunk(@, m.chunk),
              !.mac[m.payload] = IF m.chunk.index = 0 THEN m.mac ELSE @]

\* decodedMessage returns an object once, when the last chunk is added.
Completes(s, m) ==
    /\ Collects(s, m)
    /\ Cardinality(s.dec[m.payload]) < Chunks[m.payload]
    /\ Cardinality(AddChunk(s.dec[m.payload], m.chunk)) >= Chunks[m.payload]

Assembled(dec) ==
    IF \A c, d \in dec : c.obj = d.obj THEN (CHOOSE c \in dec : TRUE).obj
    ELSE Mixed

AssembledBy(s, m) == Assembled(Collected(s, m).dec[m.payload])

\* A completed object is verified, except that CT2 is left aside by a party
\* that does not have CT1 yet.
Verifies(s, m) ==
    Completes(s, m) /\ (m.payload = "ct2" => s.ct1 # NoObject)

MissingMac(p, m) ==
    Verifies(sm[p], m) /\ Collected(sm[p], m).mac[m.payload] = NoMac

\* verifyHdr and verifyCt take the epoch from the message.
InvalidMac(p, m) ==
    /\ Verifies(sm[p], m)
    /\ ~MissingMac(p, m)
    /\ Collected(sm[p], m).mac[m.payload] #
           [auth |-> auth[p], ep |-> m.epoch, obj |-> AssembledBy(sm[p], m)]

\* The epoch the message makes its receiver add to the chain.
AddedEpoch(m) == IF m.payload = "hdr" THEN m.epoch + 1 ELSE m.epoch

EpochOutOfOrder(p, m) ==
    /\ Verifies(sm[p], m)
    /\ m.payload \in {"hdr", "ct2"}
    /\ AddedEpoch(m) # Epoch(p) + 1

Accepts(p, m) ==
    ~MissingMac(p, m) /\ ~InvalidMac(p, m) /\ ~EpochOutOfOrder(p, m)

Take(p) == channel' = [channel EXCEPT ![p] = Tail(@)]

\* recv fails: the message is gone and the stored state stays.
Refuse(p, m) ==
    /\ ~Accepts(p, m)
    /\ UNCHANGED <<sm, chain, auth, drawn>>

Ignore(p, m) ==
    /\ ~Collects(sm[p], m)
    /\ ~(m.payload = "ct1_ack" /\ sm[p].tag = "ct2_sending"
                               /\ sm[p].next >= Ct2Chunks)
    /\ UNCHANGED <<sm, chain, auth, drawn>>

CollectChunk(p, m) ==
    /\ Collects(sm[p], m) /\ ~Verifies(sm[p], m)
    /\ Become(p, Collected(sm[p], m))
    /\ UNCHANGED <<chain, auth, drawn>>

\* With CT1 an initiator goes on with the encapsulation key or waits for CT2;
\* its decoder for CT1 is dropped.
ReceiveCt1(p, m) ==
    LET s == sm[p]
    IN  /\ m.payload = "ct1" /\ Verifies(s, m) /\ Accepts(p, m)
        /\ Become(p, [s EXCEPT
               !.tag = IF @ = "ek_sending" THEN "ek_sending_ct1" ELSE @,
               !.ct1 = AssembledBy(s, m),
               !.dec["ct1"] = {}, !.mac["ct1"] = NoMac])
        /\ UNCHANGED <<chain, auth, drawn>>

\* Faulty variant: the initiator goes on as the initiator.
InitiatorAgain(tag) == "unsampled"

\* The roles swap with each epoch.
NextRole(tag) == IF tag = "waiting_ct2" THEN "waiting_hdr" ELSE "unsampled"

\* The initiator closes the epoch and becomes the next epoch's responder.
ReceiveCt2(p, m) ==
    LET key == Decapsulated(sm[p], AssembledBy(sm[p], m), m.epoch)
    IN  /\ m.payload = "ct2" /\ Verifies(sm[p], m) /\ Accepts(p, m)
        /\ chain' = [chain EXCEPT ![p] = Append(@, key)]
        /\ auth' = [auth EXCEPT ![p] = Append(@, key)]
        /\ Become(p, Fresh(NextRole(sm[p].tag)))
        /\ UNCHANGED drawn

\* Faulty variant: the responder updates its authenticator at once.
ReceiveHdrEager(p, m) ==
    LET s == [Fresh("ct1_sending") EXCEPT
                 !.keys = AssembledBy(sm[p], m).keys, !.encaps = drawn + 1]
        key == Encapsulated(s, AddedEpoch(m))
    IN  /\ m.payload = "hdr" /\ Verifies(sm[p], m) /\ Accepts(p, m)
        /\ drawn' = drawn + 1
        /\ chain' = [chain EXCEPT ![p] = Append(@, key)]
        /\ auth' = [auth EXCEPT ![p] = Append(@, key)]
        /\ Become(p, s)

\* The responder encapsulates and adds the new epoch to its chain, but does
\* not update its authenticator yet.
ReceiveHdr(p, m) ==
    LET s == [Fresh("ct1_sending") EXCEPT
                 !.keys = AssembledBy(sm[p], m).keys, !.encaps = drawn + 1]
    IN  /\ m.payload = "hdr" /\ Verifies(sm[p], m) /\ Accepts(p, m)
        /\ drawn' = drawn + 1
        /\ chain' = [chain EXCEPT
               ![p] = Append(@, Encapsulated(s, AddedEpoch(m)))]
        /\ Become(p, s)
        /\ UNCHANGED auth

ReceiveEk(p, m) ==
    /\ m.payload = "ek" /\ Verifies(sm[p], m) /\ Accepts(p, m)
    /\ Become(p, [Collected(sm[p], m) EXCEPT !.ek = AssembledBy(sm[p], m)])
    /\ UNCHANGED <<chain, auth, drawn>>

\* The responder takes an acknowledgement of CT1 after its last chunk of CT2
\* as the end of the epoch and becomes the next epoch's initiator.
ReceiveCt1Ack(p, m) ==
    LET s == sm[p]
    IN  /\ m.payload = "ct1_ack"
        /\ s.tag = "ct2_sending" /\ s.next >= Ct2Chunks
        /\ auth' = [auth EXCEPT ![p] = Append(@, Encapsulated(s, Epoch(p)))]
        /\ Become(p, Fresh(NextRole(s.tag)))
        /\ UNCHANGED <<chain, drawn>>

Receive(p) ==
    /\ channel[p] # <<>>
    /\ Take(p)
    /\ LET m == Head(channel[p])
       IN  \/ Refuse(p, m) \/ Ignore(p, m) \/ CollectChunk(p, m)
           \/ ReceiveCt1(p, m) \/ ReceiveCt2(p, m) \/ ReceiveHdr(p, m)
           \/ ReceiveEk(p, m) \/ ReceiveCt1Ack(p, m)

Next == \E p \in Party : Send(p) \/ Receive(p)

Spec == Init /\ [][Next]_vars

\* Both hosts keep sending and the transport keeps delivering.
FairSpec == Spec /\ \A p \in Party : WF_vars(Send(p)) /\ WF_vars(Receive(p))

-----------------------------------------------------------------------------
(* Properties *)

\* Type invariant of the two states, what is under way, and their bounds.
TypeOK ==
    /\ sm \in [Party -> StateMachine]
    /\ chain \in [Party -> Seq(EpochKey)]
    /\ auth \in [Party -> Seq(EpochKey)]
    /\ drawn \in Nat
    /\ channel \in [Party -> Seq(Message)]

\* Both chains hold the same secret for every epoch both have reached: what
\* the initiator decapsulates from CT1 and CT2 is what the responder added
\* to its chain when it saw no more than the header.
EpochSecretsAgree ==
    \A i \in DOMAIN chain[Alice] \intersect DOMAIN chain[Bob] :
        chain[Alice][i] = chain[Bob][i]

\* The authenticators are in step throughout an exchange: no object that
\* arrives is refused for a MAC under another key or epoch, although the two
\* sides update them at different times.
NoInvalidMac ==
    \A p \in Party : channel[p] # <<>> => ~InvalidMac(p, Head(channel[p]))

\* The roles swap without overlap: a party does not start the next exchange
\* while the other still sends keys or ciphertext of the last one.
RolesExclusive ==
    \A roles \in {{"unsampled", "hdr_sending", "ek_sending", "ek_sending_ct1"},
                  {"ct1_sending", "ct2_sending"}} :
        ~(sm[Alice].tag \in roles /\ sm[Bob].tag \in roles)

\* The ratchet goes forward: both parties reach every epoch.
EpochAdvances ==
    \A ep \in 1 .. MaxEpoch : <>(Epoch(Alice) >= ep /\ Epoch(Bob) >= ep)

-----------------------------------------------------------------------------
(* What a comment of the repository says and the code does not do *)

\* spqr.zig: the chain key of each message is mixed into its message key; so
\* a receiver finds the epoch of every message that arrives in order.
EveryMessageKeyed ==
    [][\A p \in Party :
          Len(channel'[p]) < Len(channel[p]) =>
              Head(channel[p]).epoch <= Len(chain'[p])]_vars

=============================================================================
