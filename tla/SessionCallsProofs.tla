-------------------------- MODULE SessionCallsProofs --------------------------
(***************************************************************************)
(* Proofs about SessionCalls, run by the programs of ExampleHosts: the     *)
(* types of the calls, and that every call is a step of Session wherever   *)
(* its callbacks end, for any pre-keys, bundles, limits and bounds.        *)
(***************************************************************************)
EXTENDS ExampleHosts, SessionProofs, FiniteSetTheorems

-----------------------------------------------------------------------------
(* The inductive invariant *)

\* What a call still has to do when it sets up a session from message m of p's
\* peer, by the next callback.
FromStore == <<"store_session">>

FromMark == <<"mark_kyber_pre_key_used">> \o FromStore

AfterRemove(p, m) == IF UsesKyber(p, m) THEN FromMark ELSE FromStore

FromRemove(p, m) == <<"remove_pre_key">> \o AfterRemove(p, m)

AfterSave(p, m) ==
    IF m.hs.opk # None THEN FromRemove(p, m) ELSE AfterRemove(p, m)

FromSave(p, m) == <<"save_identity">> \o AfterSave(p, m)

FromRegistration(p, m) == <<"get_local_registration_id">> \o FromSave(p, m)

FromKyber(p, m) == <<"load_kyber_pre_key">> \o FromRegistration(p, m)

AfterPreKey(p, m) ==
    IF UsesKyber(p, m) THEN FromKyber(p, m) ELSE FromRegistration(p, m)

FromPreKey(p, m) == <<"load_pre_key">> \o AfterPreKey(p, m)

AfterSigned(p, m) ==
    IF m.hs.opk # None THEN FromPreKey(p, m) ELSE AfterPreKey(p, m)

FromSigned(p, m) == <<"load_signed_pre_key">> \o AfterSigned(p, m)

FromIdentity(p, m) == <<"get_identity_key_pair">> \o FromSigned(p, m)

\* The record that was loaded is the one in the store.
Loaded(p, c) == c.record = session[p]

\* The call has taken nothing from the pre-key stores.
Untouched(c) == c.removed = {} /\ ~c.marked

\* The message is one that the peer sent, of the kind the call is for.
Received(p, c, kind) ==
    /\ c.message \in network
    /\ host = "any" => c.message.from = Peer(p) /\ c.message.kind = kind

InitiatesWell(p, c) ==
    /\ c.op = "process_prekey_bundle"
    /\ c.bundle \in Bundles
    /\ Untouched(c)
    /\ \/ c.todo = <<"is_trusted_identity", "get_identity_key_pair",
                     "get_local_registration_id", "save_identity",
                     "load_session", "store_session">>
       \/ c.todo = <<"get_identity_key_pair", "get_local_registration_id",
                     "save_identity", "load_session", "store_session">>
       \/ c.todo = <<"get_local_registration_id", "save_identity",
                     "load_session", "store_session">>
       \/ c.todo = <<"save_identity", "load_session", "store_session">>
       \/ c.todo = <<"load_session", "store_session">> /\ p \in identities
       \/ /\ c.todo = <<"store_session">>
          /\ p \in identities
          /\ Loaded(p, c)

\* encrypt and decryptMessage.
CiphersWell(p, c) ==
    /\ \/ c.op = "encrypt_message"
       \/ c.op = "decrypt_message" /\ Received(p, c, "whisper")
    /\ Untouched(c)
    /\ \/ c.todo = <<"load_session", "get_identity_key_pair", "store_session">>
       \/ /\ \/ c.todo = <<"get_identity_key_pair", "store_session">>
             \/ c.todo = <<"store_session">>
          /\ Loaded(p, c)
          /\ HasSession(p)

\* decryptPreKeyMessage until it knows whose session the message is of, and on
\* the current session.
OpensWell(p, c) ==
    /\ c.op = "decrypt_pre_key_message"
    /\ Received(p, c, "pre_key")
    /\ Untouched(c)
    /\ \/ c.todo = <<"load_session", "is_trusted_identity">>
       \/ c.todo = <<"is_trusted_identity">> /\ Loaded(p, c)
       \/ /\ c.todo = <<"get_identity_key_pair">> \/ c.todo = <<>>
          /\ Loaded(p, c)
          /\ OfLoaded(c)

\* The one-time pre-key of the message is still in the store.
StillHeld(p, c) == c.message.hs.opk \in preKeys[p] \union {None}

\* The one-time pre-key was there and has been given up.
Spent(p, c) ==
    IF c.message.hs.opk = None THEN c.removed = {}
    ELSE /\ c.removed = {c.message.hs.opk}
         /\ c.message.hs.opk \notin preKeys[p]

\* decryptPreKeyMessage on its way to a new session. What stores that ignore
\* the removals are left with does not matter.
EstablishesWell(p, c) ==
    /\ c.op = "decrypt_pre_key_message"
    /\ Received(p, c, "pre_key")
    /\ Loaded(p, c)
    /\ ~OfLoaded(c)
    /\ \/ /\ \/ c.todo = FromIdentity(p, c.message)
             \/ c.todo = FromSigned(p, c.message)
             \/ c.todo = FromPreKey(p, c.message) /\ c.message.hs.opk # None
             \/ c.todo = FromKyber(p, c.message) /\ StillHeld(p, c)
                  /\ UsesKyber(p, c.message)
             \/ c.todo = FromRegistration(p, c.message) /\ StillHeld(p, c)
             \/ c.todo = FromSave(p, c.message) /\ StillHeld(p, c)
             \/ /\ c.todo = FromRemove(p, c.message)
                /\ StillHeld(p, c)
                /\ c.message.hs.opk # None
                /\ p \in identities
          /\ Untouched(c)
       \/ /\ c.todo = FromMark
          /\ UsesKyber(p, c.message)
          /\ p \in identities
          /\ host = "any" => Spent(p, c) /\ ~c.marked
       \/ /\ c.todo = FromStore
          /\ p \in identities
          /\ host = "any" => /\ Spent(p, c)
                             /\ IF UsesKyber(p, c.message) THEN p \in kyberUsed
                                ELSE ~c.marked

CallWell(p, c) ==
    \/ InitiatesWell(p, c) \/ CiphersWell(p, c)
    \/ OpensWell(p, c) \/ EstablishesWell(p, c)

CallsWell == \A p \in Party : \A c \in {call[p]} \ {None} : CallWell(p, c)

\* A session whose set-up is pending was made from the peer's signed pre-key,
\* and so was every pre_key message.
SignedPreKeys ==
    /\ \A m \in network :
          m.kind = "pre_key" => m.hs.spk = SignedPreKey(Peer(m.from))
    /\ \A p \in Party :
          HasSession(p) /\ session[p].current.pending
          => session[p].current.hs.spk = SignedPreKey(Peer(p))

LastSealedSent == sent > 0 => \E m \in network : m.text = sent - 1

\* test_session decrypts only after Alice has encrypted something.
ExampleWell ==
    host # "any" =>
        /\ made \in Nat
        /\ made = 2 /\ sent = 0 =>
              IF Idle(Alice) THEN outcome[Alice] # "ok"
              ELSE call[Alice].op = "encrypt_message"
        /\ made > 2 => sent > 0

CallsInv ==
    CallsTypeOK /\ CallsWell /\ SignedPreKeys /\ LastSealedSent /\ ExampleWell

-----------------------------------------------------------------------------
(* The callbacks still to come *)

\* A callback followed by others: once it is over, the others remain.
LEMMA Following ==
  ASSUME NEW a \in Callback, NEW s \in Seq(Callback)
  PROVE  /\ <<a>> \o s \in Seq(Callback)
         /\ <<a>> \o s # <<>>
         /\ Head(<<a>> \o s) = a
         /\ Tail(<<a>> \o s) = s
<1> DEFINE t == <<a>> \o s
<1>1. <<a>> \in Seq(Callback) /\ Len(<<a>>) = 1 /\ <<a>>[1] = a
  OBVIOUS
<1>2. /\ t \in Seq(Callback) /\ Len(t) = 1 + Len(s)
      /\ \A i \in 1 .. 1 + Len(s) : t[i] = IF i <= 1 THEN <<a>>[i] ELSE s[i - 1]
  BY <1>1, ConcatProperties
<1>3. Len(s) \in Nat
  BY LenProperties
<1> HIDE DEF t
<1>4. t # <<>> /\ t[1] = a
  <2>1. 1 \in 1 .. 1 + Len(s) /\ Len(t) # 0
    BY <1>2, <1>3
  <2> QED
    BY <1>1, <1>2, <2>1, EmptySeq
<1>5. /\ Tail(t) \in Seq(Callback) /\ Len(Tail(t)) = Len(s)
      /\ \A i \in 1 .. Len(Tail(t)) : Tail(t)[i] = t[i + 1]
  BY <1>2, <1>3, <1>4, HeadTailProperties
<1>6. \A i \in 1 .. Len(Tail(t)) : Tail(t)[i] = s[i]
  <2> TAKE i \in 1 .. Len(Tail(t))
  <2>1. i \in Nat /\ i + 1 \in 1 .. 1 + Len(s) /\ ~(i + 1 <= 1) /\ (i + 1) - 1 = i
    BY <1>3, <1>5
  <2> QED
    BY <1>2, <1>5, <2>1
<1>7. Tail(t) = s
  BY <1>5, <1>6, SeqEqual
<1>8. Head(t) = a
  BY <1>4
<1> QED
  BY <1>2, <1>4, <1>7, <1>8 DEF t

\* What comes first in the calls that always make the same callbacks, and what
\* then.
LEMMA FixedOrder ==
  /\ Head(<<"is_trusted_identity", "get_identity_key_pair",
            "get_local_registration_id", "save_identity", "load_session",
            "store_session">>) = "is_trusted_identity"
  /\ Tail(<<"is_trusted_identity", "get_identity_key_pair",
            "get_local_registration_id", "save_identity", "load_session",
            "store_session">>) =
       <<"get_identity_key_pair", "get_local_registration_id", "save_identity",
         "load_session", "store_session">>
  /\ Head(<<"get_identity_key_pair", "get_local_registration_id",
            "save_identity", "load_session",
            "store_session">>) = "get_identity_key_pair"
  /\ Tail(<<"get_identity_key_pair", "get_local_registration_id",
            "save_identity", "load_session", "store_session">>) =
       <<"get_local_registration_id", "save_identity", "load_session",
         "store_session">>
  /\ Head(<<"get_local_registration_id", "save_identity", "load_session",
            "store_session">>) = "get_local_registration_id"
  /\ Tail(<<"get_local_registration_id", "save_identity", "load_session",
            "store_session">>) =
       <<"save_identity", "load_session", "store_session">>
  /\ Head(<<"save_identity", "load_session",
            "store_session">>) = "save_identity"
  /\ Tail(<<"save_identity", "load_session", "store_session">>) =
       <<"load_session", "store_session">>
  /\ Head(<<"load_session", "store_session">>) = "load_session"
  /\ Tail(<<"load_session", "store_session">>) =
       <<"store_session">>
  /\ Head(<<"store_session">>) = "store_session"
  /\ Tail(<<"store_session">>) =
       <<>>
  /\ Head(<<"load_session", "get_identity_key_pair",
            "store_session">>) = "load_session"
  /\ Tail(<<"load_session", "get_identity_key_pair", "store_session">>) =
       <<"get_identity_key_pair", "store_session">>
  /\ Head(<<"get_identity_key_pair",
            "store_session">>) = "get_identity_key_pair"
  /\ Tail(<<"get_identity_key_pair", "store_session">>) =
       <<"store_session">>
  /\ Head(<<"load_session", "is_trusted_identity">>) = "load_session"
  /\ Tail(<<"load_session", "is_trusted_identity">>) =
       <<"is_trusted_identity">>
  /\ Head(<<"is_trusted_identity">>) = "is_trusted_identity"
  /\ Tail(<<"is_trusted_identity">>) =
       <<>>
  /\ Head(<<"get_identity_key_pair">>) = "get_identity_key_pair"
  /\ Tail(<<"get_identity_key_pair">>) =
       <<>>
OBVIOUS

\* Which callbacks come in which order when a session is set up.
LEMMA SetUpCallbacks ==
  ASSUME NEW p, NEW m
  PROVE  /\ NewSessionCallbacks(p, m) = FromIdentity(p, m)
         /\ {FromStore, FromMark, AfterRemove(p, m), FromRemove(p, m),
             AfterSave(p, m), FromSave(p, m), FromRegistration(p, m),
             FromKyber(p, m), AfterPreKey(p, m), FromPreKey(p, m),
             AfterSigned(p, m), FromSigned(p, m), FromIdentity(p, m)}
              \subseteq Seq(Callback) \ {<<>>}
<1>1. FromStore \in Seq(Callback) /\ FromStore # <<>>
  BY DEF FromStore, Callback
<1>2. FromMark \in Seq(Callback) /\ FromMark # <<>>
  BY <1>1, Following DEF FromMark, Callback
<1>3. AfterRemove(p, m) \in Seq(Callback) /\ AfterRemove(p, m) # <<>>
  BY <1>1, <1>2 DEF AfterRemove
<1>4. FromRemove(p, m) \in Seq(Callback) /\ FromRemove(p, m) # <<>>
  BY <1>3, Following DEF FromRemove, Callback
<1>5. AfterSave(p, m) \in Seq(Callback) /\ AfterSave(p, m) # <<>>
  BY <1>3, <1>4 DEF AfterSave
<1>6. FromSave(p, m) \in Seq(Callback) /\ FromSave(p, m) # <<>>
  BY <1>5, Following DEF FromSave, Callback
<1>7. FromRegistration(p, m) \in Seq(Callback) /\ FromRegistration(p, m) # <<>>
  BY <1>6, Following DEF FromRegistration, Callback
<1>8. FromKyber(p, m) \in Seq(Callback) /\ FromKyber(p, m) # <<>>
  BY <1>7, Following DEF FromKyber, Callback
<1>9. AfterPreKey(p, m) \in Seq(Callback) /\ AfterPreKey(p, m) # <<>>
  BY <1>7, <1>8 DEF AfterPreKey
<1>10. FromPreKey(p, m) \in Seq(Callback) /\ FromPreKey(p, m) # <<>>
  BY <1>9, Following DEF FromPreKey, Callback
<1>11. AfterSigned(p, m) \in Seq(Callback) /\ AfterSigned(p, m) # <<>>
  BY <1>9, <1>10 DEF AfterSigned
<1>12. FromSigned(p, m) \in Seq(Callback) /\ FromSigned(p, m) # <<>>
  BY <1>11, Following DEF FromSigned, Callback
<1>13. FromIdentity(p, m) \in Seq(Callback) /\ FromIdentity(p, m) # <<>>
  BY <1>12, Following DEF FromIdentity, Callback
<1>14. NewSessionCallbacks(p, m) = FromIdentity(p, m)
  BY DEF NewSessionCallbacks, Optional, FromIdentity, FromSigned, AfterSigned,
         FromPreKey, AfterPreKey, FromKyber, FromRegistration, FromSave,
         AfterSave, FromRemove, AfterRemove, FromMark, FromStore
<1> QED
  BY <1>1, <1>2, <1>3, <1>4, <1>5, <1>6, <1>7, <1>8, <1>9, <1>10, <1>11, <1>12,
     <1>13, <1>14

\* What comes first of it, and what then.
LEMMA SetUpOrder ==
  ASSUME NEW p, NEW m
  PROVE  /\ Head(FromStore) = "store_session" /\ Tail(FromStore) = <<>>
         /\ Head(FromMark) = "mark_kyber_pre_key_used"
         /\ Tail(FromMark) = FromStore
         /\ Head(FromRemove(p, m)) = "remove_pre_key"
         /\ Tail(FromRemove(p, m)) = AfterRemove(p, m)
         /\ Head(FromSave(p, m)) = "save_identity"
         /\ Tail(FromSave(p, m)) = AfterSave(p, m)
         /\ Head(FromRegistration(p, m)) = "get_local_registration_id"
         /\ Tail(FromRegistration(p, m)) = FromSave(p, m)
         /\ Head(FromKyber(p, m)) = "load_kyber_pre_key"
         /\ Tail(FromKyber(p, m)) = FromRegistration(p, m)
         /\ Head(FromPreKey(p, m)) = "load_pre_key"
         /\ Tail(FromPreKey(p, m)) = AfterPreKey(p, m)
         /\ Head(FromSigned(p, m)) = "load_signed_pre_key"
         /\ Tail(FromSigned(p, m)) = AfterSigned(p, m)
         /\ Head(FromIdentity(p, m)) = "get_identity_key_pair"
         /\ Tail(FromIdentity(p, m)) = FromSigned(p, m)
<1>1. /\ Head(FromStore) = "store_session" /\ Tail(FromStore) = <<>>
  BY DEF FromStore
<1>2. Head(FromMark) = "mark_kyber_pre_key_used" /\ Tail(FromMark) = FromStore
  BY SetUpCallbacks, Following DEF FromMark, Callback
<1>3. /\ Head(FromRemove(p, m)) = "remove_pre_key"
      /\ Tail(FromRemove(p, m)) = AfterRemove(p, m)
  BY SetUpCallbacks, Following DEF FromRemove, Callback
<1>4. /\ Head(FromSave(p, m)) = "save_identity"
      /\ Tail(FromSave(p, m)) = AfterSave(p, m)
  BY SetUpCallbacks, Following DEF FromSave, Callback
<1>5. /\ Head(FromRegistration(p, m)) = "get_local_registration_id"
      /\ Tail(FromRegistration(p, m)) = FromSave(p, m)
  BY SetUpCallbacks, Following DEF FromRegistration, Callback
<1>6. /\ Head(FromKyber(p, m)) = "load_kyber_pre_key"
      /\ Tail(FromKyber(p, m)) = FromRegistration(p, m)
  BY SetUpCallbacks, Following DEF FromKyber, Callback
<1>7. /\ Head(FromPreKey(p, m)) = "load_pre_key"
      /\ Tail(FromPreKey(p, m)) = AfterPreKey(p, m)
  BY SetUpCallbacks, Following DEF FromPreKey, Callback
<1>8. /\ Head(FromSigned(p, m)) = "load_signed_pre_key"
      /\ Tail(FromSigned(p, m)) = AfterSigned(p, m)
  BY SetUpCallbacks, Following DEF FromSigned, Callback
<1>9. /\ Head(FromIdentity(p, m)) = "get_identity_key_pair"
      /\ Tail(FromIdentity(p, m)) = FromSigned(p, m)
  BY SetUpCallbacks, Following DEF FromIdentity, Callback
<1> QED
  BY <1>1, <1>2, <1>3, <1>4, <1>5, <1>6, <1>7, <1>8, <1>9

-----------------------------------------------------------------------------
(* How a call begins, goes on and ends *)

\* The session state that is about to be made has at most two owners.
LEMMA OwnersType ==
  ASSUME NEW c, c.owners \subseteq {"builder", "record"}, NEW callback
  PROVE  OwnersBefore(c, callback) \subseteq {"builder", "record"}
BY DEF OwnersBefore, PromoteInBuilder, PromoteInCipher

\* A callback that succeeds leaves the call with the rest of what it has to do.
LEMMA GoingOn ==
  ASSUME call \in [Party -> Call \union {None}], NEW p \in Party,
         NEW c \in Call, c.todo # <<>>, GoOn(p, c)
  PROVE  /\ call' \in [Party -> Call \union {None}]
         /\ \A q \in Party \ {p} : call'[q] = call[q]
         /\ outcome' = outcome /\ freed' = freed
         /\ \E d \in Call :
               /\ call'[p] = d
               /\ d.todo = Tail(c.todo)
               /\ d.op = c.op /\ d.message = c.message /\ d.bundle = c.bundle
               /\ d.record = c.record /\ d.removed = c.removed
               /\ d.marked = c.marked
<1> DEFINE todo == Tail(c.todo)
           owners == IF todo = <<>> THEN c.owners
                     ELSE OwnersBefore(c, Head(todo))
           d == [c EXCEPT !.todo = todo, !.owners = owners]
<1>1. /\ call' = [call EXCEPT ![p] = d]
      /\ outcome' = outcome /\ freed' = freed
  BY DEF GoOn, Call
<1>2. todo \in Seq(Callback)
  <2>1. c.todo \in Seq(Callback)
    BY DEF Call
  <2> QED
    BY <2>1, HeadTailProperties
<1>3. owners \in SUBSET {"builder", "record"}
  <2>1. c.owners \subseteq {"builder", "record"}
    BY DEF Call
  <2> QED
    BY <2>1, OwnersType
<1> HIDE DEF todo, owners
<1>4. /\ d \in Call /\ d.todo = todo
      /\ d.op = c.op /\ d.message = c.message /\ d.bundle = c.bundle
      /\ d.record = c.record /\ d.removed = c.removed /\ d.marked = c.marked
  BY <1>2, <1>3 DEF Call
<1> HIDE DEF d
<1>5. /\ call' \in [Party -> Call \union {None}] /\ call'[p] = d
      /\ \A q \in Party \ {p} : call'[q] = call[q]
  BY <1>1, <1>4
<1> QED
  BY <1>1, <1>4, <1>5 DEF todo

\* The variables that free the state are two at most.
LEMMA FreedType ==
  ASSUME NEW owners \in SUBSET {"builder", "record"}
  PROVE  Cardinality(owners) \in 0 .. 2
<1>1. IsFiniteSet({"builder", "record"}) /\ Cardinality({"builder", "record"}) <= 2
  <2>1. /\ IsFiniteSet({"builder"}) /\ Cardinality({"builder"}) = 1
    BY FS_Singleton
  <2>2. {"builder"} \union {"record"} = {"builder", "record"}
    OBVIOUS
  <2> QED
    BY <2>1, <2>2, FS_AddElement
<1>2. IsFiniteSet(owners) /\ Cardinality(owners) <= Cardinality({"builder", "record"})
  BY <1>1, FS_Subset
<1> QED
  BY <1>1, <1>2, FS_CardinalityType

\* A call that ends leaves its result behind and nothing else.
LEMMA Returning ==
  ASSUME CallsTypeOK, NEW p \in Party, ~Idle(p), NEW result \in Result,
         Return(p, result)
  PROVE  /\ call' \in [Party -> Call \union {None}]
         /\ \A q \in Party \ {p} : call'[q] = call[q]
         /\ call'[p] = None
         /\ outcome' = [outcome EXCEPT ![p] = result]
         /\ outcome' \in [Party -> Result \union {"none"}]
         /\ freed' \in [Party -> 0 .. 2]
<1>1. /\ call \in [Party -> Call \union {None}]
      /\ outcome \in [Party -> Result \union {"none"}]
      /\ freed \in [Party -> 0 .. 2]
  BY DEF CallsTypeOK
<1>2. PICK c \in Call : call[p] = c
  BY <1>1 DEF Idle
<1> DEFINE owners == IF result = "ok" THEN c.owners \ {"builder"} ELSE c.owners
<1>3. owners \in SUBSET {"builder", "record"}
  BY DEF Call
<1>4. /\ call' = [call EXCEPT ![p] = None]
      /\ outcome' = [outcome EXCEPT ![p] = result]
      /\ freed' = [freed EXCEPT ![p] = Cardinality(owners)]
  BY <1>2 DEF Return
<1> HIDE DEF owners
<1>5. Cardinality(owners) \in 0 .. 2
  BY <1>3, FreedType
<1> QED
  BY <1>1, <1>4, <1>5

-----------------------------------------------------------------------------
(* What a callback leaves of its call *)

\* A call goes on as it should whatever the other party does meanwhile.
LEMMA Undisturbed ==
  ASSUME NEW p \in Party, NEW c, CallWell(p, c),
         session'[p] = session[p], preKeys'[p] = preKeys[p],
         identities \subseteq identities', kyberUsed \subseteq kyberUsed',
         network \subseteq network', host' = host
  PROVE  CallWell(p, c)'
<1>1. CASE InitiatesWell(p, c)
  BY <1>1 DEF CallWell, InitiatesWell, Loaded, Untouched
<1>2. CASE CiphersWell(p, c)
  BY <1>2 DEF CallWell, CiphersWell, Loaded, Untouched, Received, HasSession
<1>3. CASE OpensWell(p, c)
  BY <1>3 DEF CallWell, OpensWell, Loaded, Untouched, Received
<1>4. CASE EstablishesWell(p, c)
  BY <1>4 DEF CallWell, EstablishesWell, Loaded, Untouched, Received, StillHeld, Spent
<1> QED
  BY <1>1, <1>2, <1>3, <1>4 DEF CallWell

\* The call after a callback, apart from what is still to come.
SameCall(c, d) ==
    /\ d.op = c.op /\ d.message = c.message /\ d.bundle = c.bundle
    /\ d.record = c.record /\ d.removed = c.removed /\ d.marked = c.marked

\* The callbacks that only read keys.
LEMMA ReadOnlyWell ==
  ASSUME NEW p \in Party, NEW c \in Call, CallWell(p, c), c.todo # <<>>,
         Head(c.todo) \in ReadOnly,
         NEW d \in Call, SameCall(c, d), d.todo = Tail(c.todo)
  PROVE  CallWell(p, d)
<1> USE DEF SameCall, ReadOnly, Loaded, Untouched, Received
<1>1. CASE InitiatesWell(p, c)
  <2>1. InitiatesWell(p, d)
    BY <1>1, FixedOrder DEF InitiatesWell
  <2> QED
    BY <2>1 DEF CallWell
<1>2. CASE CiphersWell(p, c)
  <2>1. CiphersWell(p, d)
    BY <1>2, FixedOrder DEF CiphersWell
  <2> QED
    BY <2>1 DEF CallWell
<1>3. CASE OpensWell(p, c)
  <2>1. OpensWell(p, d)
    BY <1>3, FixedOrder DEF OpensWell, OfLoaded
  <2> QED
    BY <2>1 DEF CallWell
<1>4. CASE EstablishesWell(p, c)
  <2> DEFINE m == c.message
  <2>1. /\ c.op = "decrypt_pre_key_message" /\ Received(p, c, "pre_key")
        /\ Loaded(p, c) /\ ~OfLoaded(c) /\ Untouched(c)
        /\ \/ c.todo = FromIdentity(p, m)
           \/ c.todo = FromSigned(p, m)
           \/ c.todo = FromKyber(p, m) /\ StillHeld(p, c)
           \/ c.todo = FromRegistration(p, m) /\ StillHeld(p, c)
    BY <1>4, SetUpOrder DEF EstablishesWell
  <2>2. /\ d.op = "decrypt_pre_key_message" /\ Received(p, d, "pre_key")
        /\ Loaded(p, d) /\ ~OfLoaded(d) /\ Untouched(d) /\ d.message = m
    BY <2>1 DEF OfLoaded
  <2>3. StillHeld(p, c) => StillHeld(p, d)
    BY DEF StillHeld
  <2>4. m.hs.opk = None => StillHeld(p, d)
    BY DEF StillHeld
  <2>5. \/ d.todo = FromSigned(p, m)
        \/ d.todo = FromPreKey(p, m) /\ m.hs.opk # None
        \/ d.todo = FromKyber(p, m) /\ StillHeld(p, d) /\ UsesKyber(p, m)
        \/ d.todo = FromRegistration(p, m) /\ StillHeld(p, d)
        \/ d.todo = FromSave(p, m) /\ StillHeld(p, d)
    <3>1. CASE c.todo = FromIdentity(p, m)
      BY <3>1, SetUpOrder
    <3>2. CASE c.todo = FromSigned(p, m)
      <4>1. d.todo = AfterSigned(p, m)
        BY <3>2, SetUpOrder
      <4> QED
        BY <4>1, <2>4 DEF AfterSigned, AfterPreKey
    <3>3. CASE c.todo = FromKyber(p, m) /\ StillHeld(p, c)
      BY <3>3, <2>3, SetUpOrder
    <3>4. CASE c.todo = FromRegistration(p, m) /\ StillHeld(p, c)
      BY <3>4, <2>3, SetUpOrder
    <3> QED
      BY <2>1, <3>1, <3>2, <3>3, <3>4
  <2>6. EstablishesWell(p, d)
    BY <2>2, <2>5 DEF EstablishesWell
  <2> QED
    BY <2>6 DEF CallWell
<1> QED
  BY <1>1, <1>2, <1>3, <1>4 DEF CallWell

\* The one-time pre-key of the message is in the store.
LEMMA LoadPreKeyWell ==
  ASSUME NEW p \in Party, NEW c \in Call, CallWell(p, c), c.todo # <<>>,
         Head(c.todo) = "load_pre_key", c.message.hs.opk \in preKeys[p],
         NEW d \in Call, SameCall(c, d), d.todo = Tail(c.todo)
  PROVE  CallWell(p, d)
<1> DEFINE m == c.message
<1>1. EstablishesWell(p, c)
  BY FixedOrder DEF CallWell, InitiatesWell, CiphersWell, OpensWell
<1>2. /\ c.op = "decrypt_pre_key_message" /\ Received(p, c, "pre_key")
      /\ Loaded(p, c) /\ ~OfLoaded(c) /\ Untouched(c)
      /\ c.todo = FromPreKey(p, m)
  BY <1>1, SetUpOrder DEF EstablishesWell
<1>3. /\ d.op = "decrypt_pre_key_message" /\ Received(p, d, "pre_key")
      /\ Loaded(p, d) /\ ~OfLoaded(d) /\ Untouched(d) /\ d.message = m
      /\ StillHeld(p, d)
  BY <1>2 DEF SameCall, OfLoaded, Loaded, Untouched, Received, StillHeld
<1>4. \/ d.todo = FromKyber(p, m) /\ UsesKyber(p, m)
      \/ d.todo = FromRegistration(p, m)
  BY <1>2, SetUpOrder DEF AfterPreKey
<1>5. EstablishesWell(p, d)
  BY <1>3, <1>4 DEF EstablishesWell
<1> QED
  BY <1>5 DEF CallWell

\* The record has been loaded; a cipher goes on only if it holds a session.
LEMMA LoadSessionWell ==
  ASSUME NEW p \in Party, NEW c \in Call, CallWell(p, c), c.todo # <<>>,
         Head(c.todo) = "load_session",
         c.op \in {"encrypt_message", "decrypt_message"} => HasSession(p),
         NEW d \in Call, d.todo = Tail(c.todo), d.record = session[p],
         d.op = c.op, d.message = c.message, d.bundle = c.bundle,
         d.removed = c.removed, d.marked = c.marked
  PROVE  CallWell(p, d)
<1> USE DEF Loaded, Untouched, Received
<1>1. CASE InitiatesWell(p, c)
  <2>1. InitiatesWell(p, d)
    BY <1>1, FixedOrder DEF InitiatesWell
  <2> QED
    BY <2>1 DEF CallWell
<1>2. CASE CiphersWell(p, c)
  <2>1. CiphersWell(p, d)
    BY <1>2, FixedOrder DEF CiphersWell
  <2> QED
    BY <2>1 DEF CallWell
<1>3. CASE OpensWell(p, c)
  <2>1. OpensWell(p, d)
    BY <1>3, FixedOrder DEF OpensWell
  <2> QED
    BY <2>1 DEF CallWell
<1>4. ~EstablishesWell(p, c)
  BY SetUpOrder DEF EstablishesWell
<1> QED
  BY <1>1, <1>2, <1>3, <1>4 DEF CallWell

\* The peer's identity is trusted. When the record is known, the message is of
\* the session in it, or sets up a new one.
LEMMA TrustedWell ==
  ASSUME NEW p \in Party, NEW c \in Call, CallWell(p, c), c.todo # <<>>,
         Head(c.todo) = "is_trusted_identity",
         NEW d \in Call, SameCall(c, d),
         d.todo = Tail(IF c.op # "decrypt_pre_key_message" THEN c.todo
                       ELSE c.todo \o (IF OfLoaded(c)
                                       THEN <<"get_identity_key_pair">>
                                       ELSE NewSessionCallbacks(p, c.message)))
  PROVE  CallWell(p, d)
<1> USE DEF SameCall, Loaded, Untouched, Received
<1>1. CASE InitiatesWell(p, c)
  <2>1. d.todo = Tail(c.todo)
    BY <1>1 DEF InitiatesWell
  <2>2. InitiatesWell(p, d)
    BY <1>1, <2>1, FixedOrder DEF InitiatesWell
  <2> QED
    BY <2>2 DEF CallWell
<1>2. ~CiphersWell(p, c)
  BY FixedOrder DEF CiphersWell
<1>3. CASE OpensWell(p, c)
  <2>1. /\ c.op = "decrypt_pre_key_message" /\ Received(p, c, "pre_key")
        /\ Loaded(p, c) /\ Untouched(c) /\ c.todo = <<"is_trusted_identity">>
    BY <1>3, FixedOrder DEF OpensWell
  <2>2. /\ d.op = "decrypt_pre_key_message" /\ Received(p, d, "pre_key")
        /\ Loaded(p, d) /\ Untouched(d) /\ d.message = c.message
        /\ OfLoaded(d) <=> OfLoaded(c)
    BY <2>1 DEF OfLoaded
  <2>3. CASE OfLoaded(c)
    <3> DEFINE rest == <<"get_identity_key_pair">>
    <3>1. d.todo = rest
      <4>1. d.todo = Tail(<<"is_trusted_identity">> \o rest)
        BY <2>1, <2>3
      <4>2. rest \in Seq(Callback) /\ "is_trusted_identity" \in Callback
        BY DEF Callback
      <4> HIDE DEF rest
      <4> QED
        BY <4>1, <4>2, Following
    <3>2. OpensWell(p, d)
      BY <2>2, <2>3, <3>1 DEF OpensWell
    <3> QED
      BY <3>2 DEF CallWell
  <2>4. CASE ~OfLoaded(c)
    <3> DEFINE rest == FromIdentity(p, c.message)
    <3>1. d.todo = rest
      <4>1. d.todo = Tail(<<"is_trusted_identity">> \o rest)
        BY <2>1, <2>4, SetUpCallbacks
      <4>2. rest \in Seq(Callback) /\ "is_trusted_identity" \in Callback
        BY SetUpCallbacks DEF Callback
      <4> HIDE DEF rest
      <4> QED
        BY <4>1, <4>2, Following
    <3>2. EstablishesWell(p, d)
      BY <2>2, <2>4, <3>1 DEF EstablishesWell
    <3> QED
      BY <3>2 DEF CallWell
  <2> QED
    BY <2>3, <2>4
<1>4. ~EstablishesWell(p, c)
  BY SetUpOrder DEF EstablishesWell
<1> QED
  BY <1>1, <1>2, <1>3, <1>4 DEF CallWell

\* The peer's identity key has been saved.
LEMMA SaveIdentityWell ==
  ASSUME NEW p \in Party, NEW c \in Call, CallWell(p, c), c.todo # <<>>,
         Head(c.todo) = "save_identity",
         NEW d \in Call, SameCall(c, d), d.todo = Tail(c.todo),
         p \in identities',
         UNCHANGED <<session, preKeys, kyberUsed, network, host>>
  PROVE  CallWell(p, d)'
<1> USE DEF SameCall, Loaded, Untouched, Received
<1>1. CASE InitiatesWell(p, c)
  <2>1. d.todo = <<"load_session", "store_session">>
    BY <1>1, FixedOrder DEF InitiatesWell
  <2>2. InitiatesWell(p, d)'
    BY <1>1, <2>1 DEF InitiatesWell
  <2> QED
    BY <2>2 DEF CallWell
<1>2. ~CiphersWell(p, c) /\ ~OpensWell(p, c)
  BY FixedOrder DEF CiphersWell, OpensWell
<1>3. CASE EstablishesWell(p, c)
  <2> DEFINE m == c.message
  <2>1. /\ c.op = "decrypt_pre_key_message" /\ Received(p, c, "pre_key")
        /\ Loaded(p, c) /\ ~OfLoaded(c) /\ Untouched(c)
        /\ c.todo = FromSave(p, m) /\ StillHeld(p, c)
    BY <1>3, SetUpOrder DEF EstablishesWell
  <2>2. /\ d.op = "decrypt_pre_key_message" /\ Received(p, d, "pre_key")'
        /\ Loaded(p, d)' /\ ~OfLoaded(d) /\ Untouched(d) /\ d.message = m
        /\ StillHeld(p, d)' /\ p \in identities'
    BY <2>1 DEF OfLoaded, StillHeld
  <2>3. d.todo = AfterSave(p, m)
    BY <2>1, SetUpOrder
  <2>4. m.hs.opk = None => Spent(p, d)'
    BY <2>2 DEF Spent
  <2>5. \/ d.todo = FromRemove(p, m) /\ m.hs.opk # None
        \/ d.todo = FromMark /\ UsesKyber(p, m) /\ m.hs.opk = None
        \/ d.todo = FromStore /\ ~UsesKyber(p, m) /\ m.hs.opk = None
    BY <2>3 DEF AfterSave, AfterRemove
  <2>6. EstablishesWell(p, d)'
    BY <2>2, <2>4, <2>5 DEF EstablishesWell
  <2> QED
    BY <2>6 DEF CallWell
<1> QED
  BY <1>1, <1>2, <1>3 DEF CallWell

\* The one-time pre-key has been given up, if the store heeds it.
LEMMA RemovePreKeyWell ==
  ASSUME NEW p \in Party, NEW c \in Call, CallWell(p, c), c.todo # <<>>,
         Head(c.todo) = "remove_pre_key",
         NEW gone,
         gone = IF host = "any" THEN {c.message.hs.opk} \intersect preKeys[p]
                ELSE {},
         NEW d \in Call, d.op = c.op, d.message = c.message,
         d.record = c.record, d.removed = gone, d.marked = c.marked,
         d.todo = Tail(c.todo),
         preKeys'[p] = preKeys[p] \ gone,
         UNCHANGED <<session, identities, kyberUsed, network, host>>
  PROVE  /\ CallWell(p, d)'
         /\ c.removed = {}
<1> USE DEF Loaded, Untouched, Received
<1> DEFINE m == c.message
<1>1. EstablishesWell(p, c)
  BY FixedOrder DEF CallWell, InitiatesWell, CiphersWell, OpensWell
<1>2. /\ c.op = "decrypt_pre_key_message" /\ Received(p, c, "pre_key")
      /\ Loaded(p, c) /\ ~OfLoaded(c) /\ Untouched(c)
      /\ c.todo = FromRemove(p, m) /\ StillHeld(p, c) /\ m.hs.opk # None
      /\ p \in identities
  BY <1>1, SetUpOrder DEF EstablishesWell
<1>3. /\ d.op = "decrypt_pre_key_message" /\ Received(p, d, "pre_key")'
      /\ Loaded(p, d)' /\ ~OfLoaded(d) /\ d.message = m /\ ~d.marked
      /\ p \in identities'
  BY <1>2 DEF OfLoaded
<1>4. host = "any" => Spent(p, d)'
  BY <1>2, <1>3 DEF Spent, StillHeld
<1>5. \/ d.todo = FromMark /\ UsesKyber(p, m)
      \/ d.todo = FromStore /\ ~UsesKyber(p, m)
  BY <1>2, SetUpOrder DEF AfterRemove
<1>6. EstablishesWell(p, d)'
  BY <1>3, <1>4, <1>5 DEF EstablishesWell
<1> QED
  BY <1>2, <1>6 DEF CallWell

\* The Kyber pre-key has been marked used, if the store heeds it.
LEMMA MarkKyberWell ==
  ASSUME NEW p \in Party, NEW c \in Call, CallWell(p, c), c.todo # <<>>,
         Head(c.todo) = "mark_kyber_pre_key_used",
         NEW marks \in BOOLEAN, marks = (host = "any" /\ p \notin kyberUsed),
         NEW d \in Call, d.op = c.op, d.message = c.message,
         d.record = c.record, d.removed = c.removed, d.marked = marks,
         d.todo = Tail(c.todo),
         kyberUsed' = IF marks THEN kyberUsed \union {p} ELSE kyberUsed,
         UNCHANGED <<session, identities, preKeys, network, host>>
  PROVE  /\ CallWell(p, d)'
         /\ host = "any" => ~c.marked
<1> USE DEF Loaded, Untouched, Received
<1> DEFINE m == c.message
<1>1. EstablishesWell(p, c)
  BY FixedOrder DEF CallWell, InitiatesWell, CiphersWell, OpensWell
<1>2. /\ c.op = "decrypt_pre_key_message" /\ Received(p, c, "pre_key")
      /\ Loaded(p, c) /\ ~OfLoaded(c) /\ UsesKyber(p, m)
      /\ c.todo = FromMark /\ p \in identities
      /\ host = "any" => Spent(p, c) /\ ~c.marked
  BY <1>1, SetUpOrder DEF EstablishesWell
<1>3. /\ d.op = "decrypt_pre_key_message" /\ Received(p, d, "pre_key")'
      /\ Loaded(p, d)' /\ ~OfLoaded(d) /\ d.message = m
      /\ p \in identities' /\ d.todo = FromStore
  BY <1>2, SetUpOrder DEF OfLoaded
<1>4. host = "any" => Spent(p, d)' /\ p \in kyberUsed'
  BY <1>2, <1>3 DEF Spent
<1>5. EstablishesWell(p, d)'
  BY <1>2, <1>3, <1>4 DEF EstablishesWell
<1> QED
  BY <1>2, <1>5 DEF CallWell

-----------------------------------------------------------------------------
(* Session and its instance have the same operators *)

\* Parties, records and what goes into them.
LEMMA SameRecords ==
  /\ Atomic!Party = Party /\ Atomic!NewRecord = NewRecord
  /\ \A p : Atomic!Peer(p) = Peer(p) /\ Atomic!SignedPreKey(p) = SignedPreKey(p)
  /\ \A st : Atomic!Serialize(st) = Serialize(st)
  /\ \A record : Atomic!Archived(record) = Archived(record)
  /\ \A record, st : Atomic!PromoteState(record, st) = PromoteState(record, st)
<1>1. \A st : Atomic!Serialize(st) = Serialize(st)
  BY DEF Atomic!Serialize, Serialize
<1>2. \A record : Atomic!Archived(record) = Archived(record)
  BY <1>1 DEF Atomic!Archived, Archived
<1> QED
  BY <1>1, <1>2
     DEF Atomic!Party, Party, Atomic!NewRecord, NewRecord, Atomic!Peer, Peer,
         Atomic!SignedPreKey, SignedPreKey, Atomic!PromoteState, PromoteState

\* What processPreKeyBundle builds.
LEMMA SameInitiator ==
  \A hs, ratchet : Atomic!InitiatorState(hs, ratchet) = InitiatorState(hs, ratchet)
BY DEF Atomic!InitiatorState, InitiatorState, Atomic!CreateChain, CreateChain,
       Atomic!InitialSecret, InitialSecret, Atomic!AddReceiverChain,
       AddReceiverChain

\* What encrypt makes of a state.
LEMMA SameSealing ==
  /\ \A p, st, text : Atomic!Sealed(p, st, text) = Sealed(p, st, text)
  /\ \A st : Atomic!AfterSealing(st) = AfterSealing(st)
BY DEF Atomic!Sealed, Sealed, Atomic!MessageKeys, MessageKeys,
       Atomic!AfterSealing, AfterSealing

\* What decryptWhisperMessage looks up.
LEMMA SameReceiving ==
  /\ \A st, m, fresh : Atomic!Receiving(st, m, fresh) = Receiving(st, m, fresh)
  /\ \A st, m : Atomic!PqKey(st, m) = PqKey(st, m)
  /\ \A st, their : Atomic!HasChain(st, their) = HasChain(st, their)
  /\ \A st, their :
        Atomic!FindReceiverChain(st, their) = FindReceiverChain(st, their)
<1>1. \A st, their : Atomic!ChainsFor(st, their) = ChainsFor(st, their)
  BY DEF Atomic!ChainsFor, ChainsFor
<1>2. \A st, their : Atomic!HasChain(st, their) = HasChain(st, their)
  BY <1>1 DEF Atomic!HasChain, HasChain
<1>3. \A st, their :
        Atomic!FindReceiverChain(st, their) = FindReceiverChain(st, their)
  BY <1>1 DEF Atomic!FindReceiverChain, FindReceiverChain
<1>4. \A st, m : Atomic!PqKey(st, m) = PqKey(st, m)
  BY DEF Atomic!PqKey, PqKey
<1>5. \A st, m : Atomic!PqReceived(st, m) = PqReceived(st, m)
  BY <1>4 DEF Atomic!PqReceived, PqReceived
<1>6. \A st, their, fresh :
        Atomic!DhRatchet(st, their, fresh) = DhRatchet(st, their, fresh)
  BY DEF Atomic!DhRatchet, DhRatchet, Atomic!CreateChain, CreateChain,
         Atomic!AddReceiverChain, AddReceiverChain
<1>7. \A st, m, fresh : Atomic!Receiving(st, m, fresh) = Receiving(st, m, fresh)
  BY <1>2, <1>5, <1>6 DEF Atomic!Receiving, Receiving
<1> QED
  BY <1>2, <1>3, <1>4, <1>7

\* What decryptWhisperMessage and decryptPreKeyMessage make of a state.
LEMMA SameOpening ==
  /\ \A st, m, fresh : Atomic!Opens(st, m, fresh) = Opens(st, m, fresh)
  /\ \A st, m, fresh : Atomic!AfterOpen(st, m, fresh) = AfterOpen(st, m, fresh)
  /\ \A st, m : Atomic!KeysDrawn(st, m) = KeysDrawn(st, m)
  /\ \A p, m : Atomic!ResponderState(p, m) = ResponderState(p, m)
<1>1. \A rc, counter : Atomic!Derivable(rc, counter) = Derivable(rc, counter)
  BY DEF Atomic!Derivable, Derivable
<1>2. \A rc, counter, pqr :
        Atomic!DerivedKey(rc, counter, pqr) = DerivedKey(rc, counter, pqr)
  BY DEF Atomic!DerivedKey, DerivedKey, Atomic!MessageKeys, MessageKeys
<1>3. \A rc, counter : Atomic!Advanced(rc, counter) = Advanced(rc, counter)
  <2>1. \A S : Atomic!Cardinality(S) = Cardinality(S)
    BY DEF Atomic!Cardinality, Cardinality
  <2>2. \A S, n : Atomic!Newest(S, n) = Newest(S, n)
    BY <2>1 DEF Atomic!Newest, Newest
  <2> QED
    BY <2>2 DEF Atomic!Advanced, Advanced
<1>4. \A st, m, fresh : Atomic!Opens(st, m, fresh) = Opens(st, m, fresh)
  BY <1>1, <1>2, SameReceiving DEF Atomic!Opens, Opens
<1>5. \A st, m, fresh : Atomic!AfterOpen(st, m, fresh) = AfterOpen(st, m, fresh)
  BY <1>3, SameReceiving DEF Atomic!AfterOpen, AfterOpen
<1>6. \A st, m : Atomic!KeysDrawn(st, m) = KeysDrawn(st, m)
  BY SameReceiving DEF Atomic!KeysDrawn, KeysDrawn
<1>7. \A p, m : Atomic!ResponderState(p, m) = ResponderState(p, m)
  BY DEF Atomic!ResponderState, ResponderState, Atomic!InitialSecret,
         InitialSecret
<1> QED
  BY <1>4, <1>5, <1>6, <1>7

-----------------------------------------------------------------------------
(* Steps of a call: the invariant *)

\* What every step of party p keeps of the other party's stores and call.
OnlyOf(p) ==
    /\ \A q \in Party \ {p} :
          /\ call'[q] = call[q] /\ session'[q] = session[q]
          /\ preKeys'[q] = preKeys[q]
    /\ identities \subseteq identities' /\ kyberUsed \subseteq kyberUsed'
    /\ network \subseteq network' /\ host' = host

\* A party that is in a call.
LEMMA InCall ==
  ASSUME CallsTypeOK, CallsWell, NEW p \in Party, ~Idle(p)
  PROVE  \E c \in Call : call[p] = c /\ CallWell(p, c)
BY DEF CallsTypeOK, CallsWell, Idle

\* The calls go on as they should when the one that did a step does.
LEMMA CallsKept ==
  ASSUME CallsWell, NEW p \in Party, OnlyOf(p),
         \A d \in {call'[p]} \ {None} : CallWell(p, d)'
  PROVE  CallsWell'
<1> SUFFICES ASSUME NEW q \in Party, NEW d \in {call'[q]} \ {None}
             PROVE  CallWell(q, d)'
  BY DEF CallsWell
<1>1. CASE q = p
  BY <1>1
<1>2. CASE q # p
  <2>1. d \in {call[q]} \ {None}
    BY <1>2 DEF OnlyOf
  <2>2. CallWell(q, d)
    BY <2>1 DEF CallsWell
  <2> QED
    BY <1>2, <2>2, Undisturbed DEF OnlyOf
<1> QED
  BY <1>1, <1>2

\* A step that changes no store.
Quiet(p) ==
    /\ call' \in [Party -> Call \union {None}]
    /\ outcome' \in [Party -> Result \union {"none"}]
    /\ freed' \in [Party -> 0 .. 2]
    /\ \A q \in Party \ {p} : call'[q] = call[q]
    /\ \A d \in {call'[p]} \ {None} : CallWell(p, d)
    /\ UNCHANGED <<vars, host>>

\* A step that changes no store keeps the invariant.
LEMMA QuietKept ==
  ASSUME CallsTypeOK, CallsWell, SignedPreKeys, LastSealedSent,
         NEW p \in Party, Quiet(p)
  PROVE  CallsTypeOK' /\ CallsWell' /\ SignedPreKeys' /\ LastSealedSent'
<1>1. UNCHANGED <<vars, host>> /\ OnlyOf(p)
  BY DEF Quiet, OnlyOf, vars
<1>2. CallsTypeOK'
  BY <1>1 DEF Quiet, CallsTypeOK, TypeOK, vars
<1>3. \A d \in {call'[p]} \ {None} : CallWell(p, d)'
  <2> TAKE d \in {call'[p]} \ {None}
  <2>1. CallWell(p, d)
    BY DEF Quiet
  <2> QED
    BY <1>1, <2>1, Undisturbed DEF vars
<1>4. CallsWell'
  BY <1>1, <1>3, CallsKept
<1>5. SignedPreKeys' /\ LastSealedSent'
  BY <1>1 DEF SignedPreKeys, LastSealedSent, HasSession, vars
<1> QED
  BY <1>2, <1>4, <1>5

\* A call that ends is quiet when it stores nothing.
LEMMA ReturningQuiet ==
  ASSUME CallsTypeOK, NEW p \in Party, ~Idle(p), NEW result \in Result,
         Return(p, result), UNCHANGED <<vars, host>>
  PROVE  Quiet(p) /\ call'[p] = None
<1>1. /\ call' \in [Party -> Call \union {None}] /\ call'[p] = None
      /\ \A q \in Party \ {p} : call'[q] = call[q]
      /\ outcome' \in [Party -> Result \union {"none"}]
      /\ freed' \in [Party -> 0 .. 2]
  BY Returning
<1>2. \A d \in {call'[p]} \ {None} : CallWell(p, d)
  BY <1>1
<1> QED
  BY <1>1, <1>2 DEF Quiet

\* The call goes on, and what it took from the stores stays the same.
Goes(p) ==
    /\ call[p] # None /\ call'[p] # None
    /\ call'[p].op = call[p].op
    /\ call'[p].removed = call[p].removed /\ call'[p].marked = call[p].marked
    /\ outcome' = outcome

Ends(p) == call[p] # None /\ call'[p] = None /\ outcome'[p] # "ok"

\* A callback that only adds to the call is quiet.
LEMMA GoingOnQuiet ==
  ASSUME CallsTypeOK, NEW p \in Party, NEW c \in Call, c.todo # <<>>,
         call[p] # None, c.op = call[p].op,
         c.removed = call[p].removed, c.marked = call[p].marked,
         GoOn(p, c), UNCHANGED <<vars, host>>,
         ASSUME NEW d \in Call, SameCall(c, d), d.todo = Tail(c.todo)
         PROVE  CallWell(p, d)
  PROVE  Quiet(p) /\ Goes(p)
<1>1. call \in [Party -> Call \union {None}]
  BY DEF CallsTypeOK
<1>2. /\ call' \in [Party -> Call \union {None}]
      /\ \A q \in Party \ {p} : call'[q] = call[q]
      /\ outcome' = outcome /\ freed' = freed
  BY <1>1, GoingOn
<1>3. PICK d \in Call : call'[p] = d /\ d.todo = Tail(c.todo) /\ SameCall(c, d)
  BY <1>1, GoingOn DEF SameCall
<1>4. CallWell(p, d) /\ d # None
  BY <1>3, CallAssumption
<1>5. Goes(p)
  BY <1>2, <1>3, <1>4 DEF Goes, SameCall
<1> QED
  BY <1>2, <1>3, <1>4, <1>5 DEF Quiet, CallsTypeOK

\* A callback that ends the call with an error is quiet.
LEMMA EndingQuiet ==
  ASSUME CallsTypeOK, NEW p \in Party, ~Idle(p), NEW result \in Result \ {"ok"},
         Return(p, result), UNCHANGED <<vars, host>>
  PROVE  Quiet(p) /\ Ends(p)
<1>1. Quiet(p) /\ call'[p] = None
  BY ReturningQuiet
<1>2. outcome'[p] = result
  BY Returning DEF CallsTypeOK
<1> QED
  BY <1>1, <1>2 DEF Ends, Idle

\* load_session.
LEMMA LoadSessionQuiet ==
  ASSUME CallsTypeOK, CallsWell, NEW p \in Party, load_session(p)
  PROVE  Quiet(p) /\ (Goes(p) \/ Ends(p))
<1>1. /\ ~Idle(p) /\ call[p].todo # <<>> /\ Head(call[p].todo) = "load_session"
      /\ UNCHANGED <<vars, host>>
  BY DEF load_session, At
<1>2. PICK c \in Call : call[p] = c /\ CallWell(p, c)
  BY <1>1, InCall
<1>3. CASE c.op \in {"encrypt_message", "decrypt_message"} /\ ~HasSession(p)
  <2>1. \E result \in Result \ {"ok"} : Return(p, result)
    BY <1>2, <1>3 DEF load_session, Result
  <2> QED
    BY <1>1, <2>1, EndingQuiet
<1>4. CASE c.op \in {"encrypt_message", "decrypt_message"} => HasSession(p)
  <2> DEFINE r == session[p]
             e == [c EXCEPT !.record = r]
  <2>1. GoOn(p, e)
    BY <1>2, <1>4 DEF load_session
  <2>2. r \in SessionRecord
    BY DEF CallsTypeOK, TypeOK
  <2> HIDE DEF r
  <2>3. /\ e \in Call /\ e.record = r /\ e.todo = c.todo /\ e.op = c.op
        /\ e.message = c.message /\ e.bundle = c.bundle
        /\ e.removed = c.removed /\ e.marked = c.marked
    BY <2>2 DEF Call
  <2> HIDE DEF e
  <2>4. ASSUME NEW d \in Call, SameCall(e, d), d.todo = Tail(e.todo)
        PROVE  CallWell(p, d)
    <3>1. /\ d.todo = Tail(c.todo) /\ d.record = session[p] /\ d.op = c.op
          /\ d.message = c.message /\ d.bundle = c.bundle
          /\ d.removed = c.removed /\ d.marked = c.marked
      BY <2>3, <2>4 DEF SameCall, r
    <3> QED
      BY <1>1, <1>2, <1>4, <3>1, LoadSessionWell
  <2>5. e.todo # <<>> /\ call[p] # None
    BY <1>1, <1>2, <2>3 DEF Idle
  <2> QED
    BY <1>1, <1>2, <2>1, <2>3, <2>4, <2>5, GoingOnQuiet
<1> QED
  BY <1>3, <1>4

\* is_trusted_identity.
LEMMA TrustedQuiet ==
  ASSUME CallsTypeOK, CallsWell, NEW p \in Party, is_trusted_identity(p)
  PROVE  Quiet(p) /\ (Goes(p) \/ Ends(p))
<1>1. /\ ~Idle(p) /\ call[p].todo # <<>>
      /\ Head(call[p].todo) = "is_trusted_identity"
      /\ UNCHANGED <<vars, host>>
  BY DEF is_trusted_identity, At
<1>2. PICK c \in Call : call[p] = c /\ CallWell(p, c)
  BY <1>1, InCall
<1>3. CASE Return(p, "UntrustedIdentity")
  BY <1>1, <1>3, EndingQuiet DEF Result
<1>4. CASE Trusted(p)
  <2> DEFINE more == IF OfLoaded(c) THEN <<"get_identity_key_pair">>
                     ELSE NewSessionCallbacks(p, c.message)
             todo == IF c.op # "decrypt_pre_key_message" THEN c.todo
                     ELSE c.todo \o more
             e == [c EXCEPT !.todo = todo]
  <2>1. GoOn(p, e)
    <3>1. CASE c.op # "decrypt_pre_key_message"
      <4>1. e = c
        BY <3>1 DEF Call
      <4> QED
        BY <1>2, <1>4, <3>1, <4>1 DEF Trusted
    <3>2. CASE c.op = "decrypt_pre_key_message"
      BY <1>2, <1>4, <3>2 DEF Trusted
    <3> QED
      BY <3>1, <3>2
  <2>2. c.todo \in Seq(Callback) /\ c.todo # <<>>
    BY <1>1, <1>2 DEF Call
  <2>3. more \in Seq(Callback)
    <3>1. <<"get_identity_key_pair">> \in Seq(Callback)
      BY DEF Callback
    <3> QED
      BY <3>1, SetUpCallbacks
  <2> HIDE DEF more
  <2>4. todo \in Seq(Callback) /\ todo # <<>>
    <3>1. c.todo \o more \in Seq(Callback) /\ c.todo \o more # <<>>
      BY <2>2, <2>3, ConcatProperties, ConcatEqualIffEmpty
    <3> QED
      BY <2>2, <3>1
  <2>5. todo = (IF c.op # "decrypt_pre_key_message" THEN c.todo
                ELSE c.todo \o (IF OfLoaded(c) THEN <<"get_identity_key_pair">>
                                ELSE NewSessionCallbacks(p, c.message)))
    BY DEF more
  <2> HIDE DEF todo
  <2>6. /\ e \in Call /\ e.todo = todo /\ SameCall(c, e)
    BY <2>4 DEF Call, SameCall
  <2> HIDE DEF e
  <2>7. ASSUME NEW d \in Call, SameCall(e, d), d.todo = Tail(e.todo)
        PROVE  CallWell(p, d)
    <3>1. SameCall(c, d) /\ d.todo = Tail(todo)
      BY <2>6, <2>7 DEF SameCall
    <3> QED
      BY <1>1, <1>2, <2>5, <3>1, TrustedWell
  <2>8. e.todo # <<>> /\ call[p] # None
    BY <1>1, <2>4, <2>6 DEF Idle
  <2> QED
    BY <1>1, <1>2, <2>1, <2>6, <2>7, <2>8, GoingOnQuiet DEF SameCall
<1> QED
  BY <1>3, <1>4 DEF is_trusted_identity

\* The callbacks that only read keys.
LEMMA ReadOnlyQuiet ==
  ASSUME CallsTypeOK, CallsWell, NEW p \in Party, read_only(p)
  PROVE  Quiet(p) /\ (Goes(p) \/ Ends(p))
<1>1. /\ ~Idle(p) /\ call[p].todo # <<>> /\ Head(call[p].todo) \in ReadOnly
      /\ GoOn(p, call[p])
      /\ UNCHANGED <<vars, host>>
  BY DEF read_only, At
<1>2. PICK c \in Call : call[p] = c /\ CallWell(p, c)
  BY <1>1, InCall
<1>3. ASSUME NEW d \in Call, SameCall(c, d), d.todo = Tail(c.todo)
      PROVE  CallWell(p, d)
  BY <1>1, <1>2, <1>3, ReadOnlyWell
<1>4. GoOn(p, c) /\ c.todo # <<>> /\ call[p] # None
  BY <1>1, <1>2 DEF Idle
<1> QED
  BY <1>1, <1>2, <1>3, <1>4, GoingOnQuiet

\* load_pre_key.
LEMMA LoadPreKeyQuiet ==
  ASSUME CallsTypeOK, CallsWell, NEW p \in Party, load_pre_key(p)
  PROVE  Quiet(p) /\ (Goes(p) \/ Ends(p))
<1>1. /\ ~Idle(p) /\ call[p].todo # <<>> /\ Head(call[p].todo) = "load_pre_key"
      /\ UNCHANGED <<vars, host>>
  BY DEF load_pre_key, At
<1>2. PICK c \in Call : call[p] = c /\ CallWell(p, c)
  BY <1>1, InCall
<1>3. CASE c.message.hs.opk \in preKeys[p]
  <2>1. ASSUME NEW d \in Call, SameCall(c, d), d.todo = Tail(c.todo)
        PROVE  CallWell(p, d)
    BY <1>1, <1>2, <1>3, <2>1, LoadPreKeyWell
  <2>2. GoOn(p, c) /\ c.todo # <<>> /\ call[p] # None
    BY <1>1, <1>2, <1>3 DEF Idle, load_pre_key
  <2> QED
    BY <1>1, <1>2, <2>1, <2>2, GoingOnQuiet
<1>4. CASE c.message.hs.opk \notin preKeys[p]
  <2>1. Return(p, "StoreCallbackFailed")
    BY <1>2, <1>4 DEF load_pre_key
  <2> QED
    BY <1>1, <2>1, EndingQuiet DEF Result
<1> QED
  BY <1>3, <1>4

\* A callback that fails, and a message that does not open.
LEMMA FailQuiet ==
  ASSUME CallsTypeOK, CallsWell, NEW p \in Party, Fail(p) \/ Reject(p)
  PROVE  Quiet(p) /\ Ends(p)
<1>1. /\ ~Idle(p) /\ UNCHANGED <<vars, host>>
      /\ Return(p, "StoreCallbackFailed") \/ Return(p, "InvalidMessage")
  BY DEF Fail, Reject, Decrypting
<1> QED
  BY <1>1, EndingQuiet DEF Result

\* A call that begins has made none of its callbacks.
LEMMA BeginQuiet ==
  ASSUME CallsTypeOK, NEW p \in Party, NEW op \in Operation,
         NEW m \in Message \union {None}, NEW b \in Bundle \union {None},
         op = "process_prekey_bundle" => b \in Bundles,
         op \in {"decrypt_message", "decrypt_pre_key_message"} =>
            /\ m \in network
            /\ host = "any" =>
                  /\ m.from = Peer(p)
                  /\ m.kind = IF op = "decrypt_message" THEN "whisper"
                              ELSE "pre_key",
         Begin(p, op, m, b)
  PROVE  /\ Quiet(p)
         /\ call[p] = None /\ call'[p] # None
         /\ call'[p].op = op /\ Untouched(call'[p])
         /\ outcome' = [outcome EXCEPT ![p] = "none"]
<1> DEFINE todo == Callbacks(op)
           d == [op |-> op, todo |-> todo, message |-> m, bundle |-> b,
                 record |-> None, owners |-> {}, removed |-> {},
                 marked |-> FALSE]
<1>1. /\ call[p] = None
      /\ call' = [call EXCEPT ![p] = d]
      /\ outcome' = [outcome EXCEPT ![p] = "none"]
      /\ freed' = [freed EXCEPT ![p] = 0]
      /\ UNCHANGED <<vars, host>>
  BY DEF Begin, Idle
<1>2. /\ op = "process_prekey_bundle" =>
            todo = <<"is_trusted_identity", "get_identity_key_pair",
                     "get_local_registration_id", "save_identity",
                     "load_session", "store_session">>
      /\ op = "decrypt_pre_key_message" =>
            todo = <<"load_session", "is_trusted_identity">>
      /\ op \in {"encrypt_message", "decrypt_message"} =>
            todo = <<"load_session", "get_identity_key_pair", "store_session">>
  BY DEF Callbacks
<1> HIDE DEF todo
<1>6. todo \in Seq(Callback)
  <2>1. /\ <<"is_trusted_identity", "get_identity_key_pair",
             "get_local_registration_id", "save_identity",
             "load_session", "store_session">> \in Seq(Callback)
        /\ <<"load_session", "is_trusted_identity">> \in Seq(Callback)
        /\ <<"load_session", "get_identity_key_pair", "store_session">>
              \in Seq(Callback)
    BY DEF Callback
  <2> QED
    BY <1>2, <2>1 DEF Operation
<1>3. /\ d \in Call /\ d.op = op /\ d.todo = todo /\ d.message = m
      /\ d.bundle = b /\ Untouched(d)
  BY <1>6 DEF Call, Untouched
<1> HIDE DEF d
<1>4. /\ call' \in [Party -> Call \union {None}] /\ call'[p] = d /\ d # None
      /\ \A q \in Party \ {p} : call'[q] = call[q]
      /\ outcome' \in [Party -> Result \union {"none"}]
      /\ freed' \in [Party -> 0 .. 2]
  BY <1>1, <1>3, CallAssumption DEF CallsTypeOK
<1>5. CallWell(p, d)
  <2>1. CASE op = "process_prekey_bundle"
    BY <1>2, <1>3, <2>1 DEF CallWell, InitiatesWell
  <2>2. CASE op = "encrypt_message"
    BY <1>2, <1>3, <2>2 DEF CallWell, CiphersWell
  <2>3. CASE op = "decrypt_message"
    BY <1>2, <1>3, <2>3 DEF CallWell, CiphersWell, Received
  <2>4. CASE op = "decrypt_pre_key_message"
    BY <1>2, <1>3, <2>4 DEF CallWell, OpensWell, Received
  <2> QED
    BY <2>1, <2>2, <2>3, <2>4 DEF Operation
<1> QED
  BY <1>1, <1>3, <1>4, <1>5 DEF Quiet

\* A callback that writes: the types of the stores are what is to be shown.
LEMMA WritingKept ==
  ASSUME CallsTypeOK, CallsWell, LastSealedSent, NEW p \in Party,
         NEW c \in Call, c.todo # <<>>, GoOn(p, c), OnlyOf(p), TypeOK',
         UNCHANGED <<sent, network>>,
         ASSUME NEW d \in Call, SameCall(c, d), d.todo = Tail(c.todo)
         PROVE  CallWell(p, d)'
  PROVE  CallsTypeOK' /\ CallsWell' /\ LastSealedSent'
<1>1. call \in [Party -> Call \union {None}]
  BY DEF CallsTypeOK
<1>2. /\ call' \in [Party -> Call \union {None}]
      /\ outcome' = outcome /\ freed' = freed
  BY <1>1, GoingOn
<1>3. PICK d \in Call : call'[p] = d /\ d.todo = Tail(c.todo) /\ SameCall(c, d)
  BY <1>1, GoingOn DEF SameCall
<1>4. CallWell(p, d)'
  BY <1>3
<1>5. \A e \in {call'[p]} \ {None} : CallWell(p, e)'
  BY <1>3, <1>4
<1>6. CallsWell'
  BY <1>5, CallsKept
<1>7. CallsTypeOK'
  BY <1>2 DEF CallsTypeOK, OnlyOf
<1> QED
  BY <1>6, <1>7 DEF LastSealedSent

\* A call that ends with a store: likewise.
LEMMA StoringKept ==
  ASSUME CallsTypeOK, CallsWell, NEW p \in Party, ~Idle(p),
         Return(p, "ok"), OnlyOf(p), TypeOK'
  PROVE  CallsTypeOK' /\ CallsWell' /\ call'[p] = None
<1>1. /\ call' \in [Party -> Call \union {None}] /\ call'[p] = None
      /\ outcome' \in [Party -> Result \union {"none"}]
      /\ freed' \in [Party -> 0 .. 2]
  BY Returning DEF Result
<1>2. \A d \in {call'[p]} \ {None} : CallWell(p, d)'
  BY <1>1
<1>3. CallsWell'
  BY <1>2, CallsKept
<1>4. CallsTypeOK'
  BY <1>1 DEF CallsTypeOK, OnlyOf
<1> QED
  BY <1>1, <1>3, <1>4

\* Pending states and pre_key messages when a step changes p's record or sends.
LEMMA SignedPreKeysKept ==
  ASSUME SignedPreKeys, NEW p \in Party, OnlyOf(p),
         \A m \in network' \ network :
            m.kind = "pre_key" => m.hs.spk = SignedPreKey(Peer(m.from)),
         HasSession(p)' /\ session'[p].current.pending
            => session'[p].current.hs.spk = SignedPreKey(Peer(p))
  PROVE  SignedPreKeys'
<1>1. ASSUME NEW q \in Party, HasSession(q)', session'[q].current.pending
      PROVE  session'[q].current.hs.spk = SignedPreKey(Peer(q))
  <2>1. CASE q = p
    BY <1>1, <2>1
  <2>2. CASE q # p
    <3>1. session'[q] = session[q]
      BY <2>2 DEF OnlyOf
    <3> QED
      BY <1>1, <3>1 DEF SignedPreKeys, HasSession
  <2> QED
    BY <2>1, <2>2
<1>2. \A m \in network' :
         m.kind = "pre_key" => m.hs.spk = SignedPreKey(Peer(m.from))
  BY DEF SignedPreKeys
<1> QED
  BY <1>1, <1>2 DEF SignedPreKeys

\* A call that is about to store its record.
LEMMA StoreReady ==
  ASSUME CallsTypeOK, CallsWell, NEW p \in Party, At(p, "store_session")
  PROVE  \E c \in Call :
           /\ call[p] = c /\ c # None /\ Loaded(p, c)
           /\ c.op = "process_prekey_bundle" =>
                 c.bundle \in Bundles /\ p \in identities /\ Untouched(c)
           /\ c.op \in {"encrypt_message", "decrypt_message"} =>
                 HasSession(p) /\ Untouched(c)
           /\ c.op = "decrypt_message" => Received(p, c, "whisper")
           /\ c.op = "decrypt_pre_key_message" =>
                 /\ Received(p, c, "pre_key") /\ ~OfLoaded(c)
                 /\ p \in identities
                 /\ host = "any" =>
                       /\ Spent(p, c)
                       /\ IF UsesKyber(p, c.message) THEN p \in kyberUsed
                          ELSE ~c.marked
<1>1. ~Idle(p) /\ call[p].todo # <<>> /\ Head(call[p].todo) = "store_session"
  BY DEF At
<1>2. PICK c \in Call : call[p] = c /\ CallWell(p, c)
  BY <1>1, InCall
<1>3. CASE InitiatesWell(p, c)
  BY <1>1, <1>2, <1>3, FixedOrder, CallAssumption DEF InitiatesWell
<1>4. CASE CiphersWell(p, c)
  BY <1>1, <1>2, <1>4, FixedOrder, CallAssumption DEF CiphersWell
<1>5. ~OpensWell(p, c)
  BY <1>1, <1>2, FixedOrder DEF OpensWell
<1>6. CASE EstablishesWell(p, c)
  <2>1. /\ c.op = "decrypt_pre_key_message" /\ Received(p, c, "pre_key")
        /\ Loaded(p, c) /\ ~OfLoaded(c) /\ p \in identities
        /\ host = "any" => /\ Spent(p, c)
                           /\ IF UsesKyber(p, c.message) THEN p \in kyberUsed
                              ELSE ~c.marked
    BY <1>1, <1>2, <1>6, SetUpOrder DEF EstablishesWell
  <2> QED
    BY <1>2, <2>1, CallAssumption
<1> QED
  BY <1>2, <1>3, <1>4, <1>5, <1>6 DEF CallWell

\* The parts of the invariant that a step of a call keeps by itself.
CallsKeep == CallsTypeOK /\ CallsWell /\ SignedPreKeys /\ LastSealedSent

\* save_identity.
LEMMA SaveIdentityKept ==
  ASSUME CallsKeep, NEW p \in Party, save_identity(p)
  PROVE  CallsKeep' /\ Goes(p)
<1> USE DEF CallsKeep
<1>1. /\ ~Idle(p) /\ call[p].todo # <<>> /\ Head(call[p].todo) = "save_identity"
      /\ GoOn(p, call[p]) /\ identities' = identities \union {p}
      /\ UNCHANGED <<session, preKeys, kyberUsed, nextKey, sent, network,
                     opened, reopened, host>>
  BY DEF save_identity, At
<1>2. PICK c \in Call : call[p] = c /\ CallWell(p, c)
  BY <1>1, InCall
<1>3. call \in [Party -> Call \union {None}]
  BY DEF CallsTypeOK
<1>4. GoOn(p, c) /\ c.todo # <<>>
  BY <1>1, <1>2
<1>5. \A q \in Party \ {p} : call'[q] = call[q]
  BY <1>3, <1>4, GoingOn
<1>6. OnlyOf(p)
  BY <1>1, <1>5 DEF OnlyOf
<1>7. TypeOK'
  BY <1>1 DEF CallsTypeOK, TypeOK
<1>8. ASSUME NEW d \in Call, SameCall(c, d), d.todo = Tail(c.todo)
      PROVE  CallWell(p, d)'
  BY <1>1, <1>2, <1>8, SaveIdentityWell
<1>9. CallsTypeOK' /\ CallsWell' /\ LastSealedSent'
  BY <1>1, <1>4, <1>6, <1>7, <1>8, WritingKept
<1>10. SignedPreKeys'
  BY <1>1 DEF SignedPreKeys, HasSession
<1>11. Goes(p)
  BY <1>2, <1>3, <1>4, GoingOn, CallAssumption DEF Goes
<1> QED
  BY <1>9, <1>10, <1>11

\* remove_pre_key; whatever the store does, no key is lost to the call.
LEMMA RemovePreKeyKept ==
  ASSUME CallsKeep, NEW p \in Party, remove_pre_key(p)
  PROVE  /\ CallsKeep'
         /\ call[p] # None /\ call'[p] # None /\ call'[p].op = call[p].op
         /\ outcome' = outcome
         /\ preKeys'[p] \union call'[p].removed =
              preKeys[p] \union call[p].removed
         /\ call'[p].marked = call[p].marked
<1> USE DEF CallsKeep
<1> DEFINE gone == IF host = "any"
                   THEN {call[p].message.hs.opk} \intersect preKeys[p] ELSE {}
           e == [call[p] EXCEPT !.removed = gone]
<1>1. /\ ~Idle(p) /\ call[p].todo # <<>> /\ Head(call[p].todo) = "remove_pre_key"
      /\ GoOn(p, e) /\ preKeys' = [preKeys EXCEPT ![p] = @ \ gone]
      /\ UNCHANGED <<session, kyberUsed, identities, nextKey, sent, network,
                     opened, reopened, host>>
  BY DEF remove_pre_key, At
<1>2. PICK c \in Call : call[p] = c /\ CallWell(p, c)
  BY <1>1, InCall
<1>3. /\ call \in [Party -> Call \union {None}]
      /\ preKeys \in [Party -> SUBSET OneTimeKeys]
  BY DEF CallsTypeOK, TypeOK
<1>4. gone = IF host = "any" THEN {c.message.hs.opk} \intersect preKeys[p] ELSE {}
  BY <1>2
<1>5. gone \in SUBSET OneTimeKeys /\ gone \subseteq preKeys[p]
  BY <1>3
<1> HIDE DEF gone
<1>6. /\ e \in Call /\ e.op = c.op /\ e.message = c.message
      /\ e.record = c.record /\ e.removed = gone /\ e.marked = c.marked
      /\ e.todo = c.todo
  BY <1>2, <1>5 DEF Call
<1> HIDE DEF e
<1>7. PICK d \in Call : call'[p] = d /\ d.todo = Tail(e.todo) /\ SameCall(e, d)
  BY <1>1, <1>2, <1>3, <1>6, GoingOn DEF SameCall
<1>8. /\ \A q \in Party \ {p} : call'[q] = call[q]
      /\ outcome' = outcome
  BY <1>1, <1>2, <1>3, <1>6, GoingOn
<1>9. /\ preKeys' \in [Party -> SUBSET OneTimeKeys]
      /\ preKeys'[p] = preKeys[p] \ gone
      /\ \A q \in Party \ {p} : preKeys'[q] = preKeys[q]
  BY <1>1, <1>3
<1>10. OnlyOf(p)
  BY <1>1, <1>8, <1>9 DEF OnlyOf
<1>11. TypeOK'
  BY <1>1, <1>9 DEF CallsTypeOK, TypeOK
<1>12. ASSUME NEW f \in Call, SameCall(e, f), f.todo = Tail(e.todo)
       PROVE  CallWell(p, f)' /\ c.removed = {}
  <2>1. /\ f.op = c.op /\ f.message = c.message /\ f.record = c.record
        /\ f.removed = gone /\ f.marked = c.marked /\ f.todo = Tail(c.todo)
    BY <1>6, <1>12 DEF SameCall
  <2>2. /\ c.todo # <<>> /\ Head(c.todo) = "remove_pre_key"
        /\ UNCHANGED <<session, identities, kyberUsed, network, host>>
    BY <1>1, <1>2
  <2> QED
    BY <1>2, <1>4, <1>9, <2>1, <2>2, RemovePreKeyWell
<1>13. e.todo # <<>>
  BY <1>1, <1>2, <1>6
<1>14. CallsTypeOK' /\ CallsWell' /\ LastSealedSent'
  BY <1>1, <1>6, <1>10, <1>11, <1>12, <1>13, WritingKept
<1>15. SignedPreKeys'
  BY <1>1 DEF SignedPreKeys, HasSession
<1>16. /\ call[p] # None /\ call'[p] # None /\ call'[p].op = call[p].op
       /\ call'[p].removed = gone /\ call'[p].marked = call[p].marked
  BY <1>2, <1>6, <1>7, CallAssumption DEF SameCall
<1>17. preKeys'[p] \union call'[p].removed = preKeys[p] \union call[p].removed
  BY <1>2, <1>5, <1>7, <1>9, <1>12, <1>16
<1> QED
  BY <1>8, <1>14, <1>15, <1>16, <1>17

\* mark_kyber_pre_key_used; the mark counts when the call ends.
LEMMA MarkKyberKept ==
  ASSUME CallsKeep, NEW p \in Party, mark_kyber_pre_key_used(p)
  PROVE  /\ CallsKeep'
         /\ call[p] # None /\ call'[p] # None /\ call'[p].op = call[p].op
         /\ outcome' = outcome
         /\ call'[p].removed = call[p].removed
         /\ host = "any" => ((p \in kyberUsed' /\ ~call'[p].marked) <=>
                             (p \in kyberUsed /\ ~call[p].marked))
         /\ \A q \in Party \ {p} : q \in kyberUsed' <=> q \in kyberUsed
<1> USE DEF CallsKeep
<1> DEFINE marks == host = "any" /\ p \notin kyberUsed
           e == [call[p] EXCEPT !.marked = marks]
<1>1. /\ ~Idle(p) /\ call[p].todo # <<>>
      /\ Head(call[p].todo) = "mark_kyber_pre_key_used"
      /\ GoOn(p, e)
      /\ kyberUsed' = IF marks THEN kyberUsed \union {p} ELSE kyberUsed
      /\ UNCHANGED <<session, preKeys, identities, nextKey, sent, network,
                     opened, reopened, host>>
  BY DEF mark_kyber_pre_key_used, At
<1>2. PICK c \in Call : call[p] = c /\ CallWell(p, c)
  BY <1>1, InCall
<1>3. /\ call \in [Party -> Call \union {None}] /\ kyberUsed \subseteq Party
  BY DEF CallsTypeOK, TypeOK
<1>4. marks \in BOOLEAN /\ marks = (host = "any" /\ p \notin kyberUsed)
  OBVIOUS
<1> HIDE DEF marks
<1>5. /\ e \in Call /\ e.op = c.op /\ e.message = c.message
      /\ e.record = c.record /\ e.removed = c.removed /\ e.marked = marks
      /\ e.todo = c.todo
  BY <1>2, <1>4 DEF Call
<1> HIDE DEF e
<1>6. PICK d \in Call : call'[p] = d /\ d.todo = Tail(e.todo) /\ SameCall(e, d)
  BY <1>1, <1>2, <1>3, <1>5, GoingOn DEF SameCall
<1>7. /\ \A q \in Party \ {p} : call'[q] = call[q]
      /\ outcome' = outcome
  BY <1>1, <1>2, <1>3, <1>5, GoingOn
<1>8. OnlyOf(p)
  BY <1>1, <1>7 DEF OnlyOf
<1>9. TypeOK'
  BY <1>1 DEF CallsTypeOK, TypeOK
<1>10. ASSUME NEW f \in Call, SameCall(e, f), f.todo = Tail(e.todo)
       PROVE  CallWell(p, f)' /\ (host = "any" => ~c.marked)
  <2>1. /\ f.op = c.op /\ f.message = c.message /\ f.record = c.record
        /\ f.removed = c.removed /\ f.marked = marks /\ f.todo = Tail(c.todo)
    BY <1>5, <1>10 DEF SameCall
  <2>2. /\ c.todo # <<>> /\ Head(c.todo) = "mark_kyber_pre_key_used"
        /\ UNCHANGED <<session, identities, preKeys, network, host>>
    BY <1>1, <1>2
  <2> QED
    BY <1>1, <1>2, <1>4, <2>1, <2>2, MarkKyberWell
<1>11. e.todo # <<>>
  BY <1>1, <1>2, <1>5
<1>12. CallsTypeOK' /\ CallsWell' /\ LastSealedSent'
  BY <1>1, <1>5, <1>8, <1>9, <1>10, <1>11, WritingKept
<1>13. SignedPreKeys'
  BY <1>1 DEF SignedPreKeys, HasSession
<1>14. /\ call[p] # None /\ call'[p] # None /\ call'[p].op = call[p].op
       /\ call'[p].removed = call[p].removed /\ call'[p].marked = marks
  BY <1>2, <1>5, <1>6, CallAssumption DEF SameCall
<1>15. host = "any" => ~call[p].marked
  BY <1>2, <1>6, <1>10
<1> QED
  BY <1>1, <1>4, <1>7, <1>12, <1>13, <1>14, <1>15

\* processPreKeyBundle stores the session it made.
LEMMA StoreInitiatedKept ==
  ASSUME CallsKeep, NEW p \in Party, StoreInitiated(p)
  PROVE  /\ CallsKeep' /\ call'[p] = None
         /\ call[p] # None /\ call[p].op = "process_prekey_bundle"
         /\ Untouched(call[p]) /\ ProcessPreKeyBundle(p)
<1> USE DEF CallsKeep
<1>1. /\ At(p, "store_session") /\ ~Idle(p)
      /\ call[p].op = "process_prekey_bundle"
      /\ nextKey + 1 <= MaxKey /\ nextKey' = nextKey + 2
      /\ Return(p, "ok")
      /\ UNCHANGED <<preKeys, kyberUsed, identities, sent, network, opened,
                     reopened, host>>
  BY DEF StoreInitiated, At
<1>2. PICK c \in Call :
        /\ call[p] = c /\ c # None /\ Loaded(p, c)
        /\ c.bundle \in Bundles /\ p \in identities /\ Untouched(c)
  BY <1>1, StoreReady
<1>3. PICK b \in Bundles : b = c.bundle
  BY <1>2
<1> DEFINE hs == [base |-> nextKey, spk |-> SignedPreKey(Peer(p)),
                  opk |-> b.opk, kem |-> b.kem]
           record == PromoteState(session[p], InitiatorState(hs, nextKey + 1))
<1>4. session' = [session EXCEPT ![p] = record]
  BY <1>2, <1>3 DEF StoreInitiated, Stored, Loaded
<1>5. ProcessPreKeyBundle(p)
  <2>1. identities' = identities \union {p}
    BY <1>1, <1>2
  <2>2. session' = [session EXCEPT
            ![p] = PromoteState(@, InitiatorState(hs, nextKey + 1))]
    BY <1>4
  <2> QED
    BY <1>1, <2>1, <2>2 DEF ProcessPreKeyBundle
<1>6. TypeOK /\ TypeOK'
  <2>1. Next
    BY <1>5 DEF Next
  <2> QED
    BY <2>1, NextType DEF CallsTypeOK
<1>7. \A q \in Party \ {p} : call'[q] = call[q]
  BY <1>1, Returning DEF Result
<1>8. session \in [Party -> SessionRecord]
  BY <1>6 DEF TypeOK
<1>9. OnlyOf(p)
  BY <1>1, <1>4, <1>7, <1>8 DEF OnlyOf
<1>10. CallsTypeOK' /\ CallsWell' /\ call'[p] = None
  BY <1>1, <1>6, <1>9, StoringKept
<1>11. session'[p].current.hs.spk = SignedPreKey(Peer(p))
  <2>1. hs \in Handshake /\ nextKey + 1 \in Nat /\ hs.spk = SignedPreKey(Peer(p))
    BY <1>6, KeyAssumption, SignedPreKeyType, PeerType
       DEF TypeOK, Handshake, Bundle
  <2> DEFINE n == nextKey + 1
             st == InitiatorState(hs, n)
  <2> HIDE DEF hs
  <2>2. n \in Nat
    BY <2>1
  <2> HIDE DEF n
  <2>3. st \in SessionState /\ st.hs = hs
    BY <2>1, <2>2, InitiatorStateType
  <2> HIDE DEF st
  <2>4. record = PromoteState(session[p], st)
    BY DEF st, n
  <2>5. PromoteState(session[p], st).current = Serialize(st)
    BY <2>3, <1>8, PromoteStateType
  <2>6. Serialize(st).hs = hs
    BY <2>3, SerializeType
  <2>7. session'[p] = record
    BY <1>4, <1>8
  <2> QED
    BY <2>1, <2>4, <2>5, <2>6, <2>7
<1>12. SignedPreKeys'
  BY <1>1, <1>9, <1>11, SignedPreKeysKept
<1>13. LastSealedSent'
  BY <1>1 DEF LastSealedSent
<1> QED
  BY <1>1, <1>2, <1>5, <1>10, <1>12, <1>13

\* encrypt stores the advanced chain and returns the message.
LEMMA StoreSealedKept ==
  ASSUME CallsKeep, NEW p \in Party, StoreSealed(p)
  PROVE  /\ CallsKeep' /\ call'[p] = None /\ sent' > 0
         /\ call[p] # None /\ call[p].op = "encrypt_message"
         /\ Untouched(call[p]) /\ Encrypt(p)
<1> USE DEF CallsKeep
<1> DEFINE st == session[p].current
<1>1. /\ At(p, "store_session") /\ ~Idle(p)
      /\ call[p].op = "encrypt_message" /\ sent < MaxSent
      /\ sent' = sent + 1 /\ Return(p, "ok")
      /\ UNCHANGED <<preKeys, kyberUsed, identities, nextKey, opened,
                     reopened, host>>
  BY DEF StoreSealed, At
<1>2. PICK c \in Call : /\ call[p] = c /\ c # None /\ Loaded(p, c)
                        /\ HasSession(p) /\ Untouched(c)
  BY <1>1, StoreReady
<1>3. session \in [Party -> SessionRecord] /\ sent \in Nat
  BY DEF CallsTypeOK, TypeOK
<1>4. /\ network' = network \union {Sealed(p, st, sent)}
      /\ StoreCurrent(p, AfterSealing(st))
  BY <1>2, <1>3 DEF StoreSealed, Stored, WithCurrent, StoreCurrent, Loaded
<1>5. Encrypt(p)
  BY <1>1, <1>2, <1>4 DEF Encrypt
<1>6. TypeOK /\ TypeOK'
  <2>1. Next
    BY <1>5 DEF Next
  <2> QED
    BY <2>1, NextType DEF CallsTypeOK
<1>7. st \in SessionState
  BY <1>2, <1>6, CurrentType
<1>8. /\ \A q \in Party \ {p} : session'[q] = session[q]
      /\ session'[p].current.hs = st.hs
      /\ session'[p].current.pending = st.pending
  BY <1>5, <1>6, EncryptStep
<1>9. \A q \in Party \ {p} : call'[q] = call[q]
  BY <1>1, Returning DEF Result
<1>10. OnlyOf(p)
  BY <1>1, <1>4, <1>8, <1>9 DEF OnlyOf
<1>11. CallsTypeOK' /\ CallsWell' /\ call'[p] = None
  BY <1>1, <1>6, <1>10, StoringKept
<1> DEFINE m == Sealed(p, st, sent)
<1>12. /\ m.from = p /\ m.text = sent /\ m.hs = st.hs
       /\ m.kind = IF st.pending THEN "pre_key" ELSE "whisper"
  BY DEF Sealed
<1>13. st.pending => st.hs.spk = SignedPreKey(Peer(p))
  BY <1>2 DEF SignedPreKeys
<1> HIDE DEF m, st
<1>14. SignedPreKeys'
  <2>1. \A n \in network' \ network :
          n.kind = "pre_key" => n.hs.spk = SignedPreKey(Peer(n.from))
    BY <1>4, <1>12, <1>13 DEF m
  <2>2. session'[p].current.pending
          => session'[p].current.hs.spk = SignedPreKey(Peer(p))
    BY <1>8, <1>13
  <2> QED
    BY <1>10, <2>1, <2>2, SignedPreKeysKept
<1>15. LastSealedSent'
  <2>1. m \in network' /\ m.text = sent' - 1
    BY <1>1, <1>3, <1>4, <1>12 DEF m
  <2> QED
    BY <2>1 DEF LastSealedSent
<1>16. sent' > 0
  BY <1>1, <1>3
<1> QED
  BY <1>1, <1>2, <1>5, <1>11, <1>14, <1>15, <1>16

\* What opening a message does to the histories.
LEMMA OpeningType ==
  ASSUME TypeOK, NEW p \in Party, NEW m \in network, RecordOpening(p, m)
  PROVE  /\ opened' \in [Party -> SUBSET Nat]
         /\ reopened' \in [Party -> SUBSET Nat]
BY MessageType DEF TypeOK, RecordOpening

\* decryptMessage stores the state the message left.
LEMMA StoreOpenedKept ==
  ASSUME CallsKeep, NEW p \in Party, StoreOpened(p)
  PROVE  /\ CallsKeep' /\ call'[p] = None
         /\ call[p] # None /\ call[p].op = "decrypt_message"
         /\ Untouched(call[p])
         /\ host = "any" => \E m \in network : DecryptMessage(p, m)
<1> USE DEF CallsKeep
<1> DEFINE st == session[p].current
<1>1. /\ At(p, "store_session") /\ ~Idle(p)
      /\ call[p].op = "decrypt_message" /\ Return(p, "ok")
      /\ UNCHANGED <<preKeys, kyberUsed, identities, sent, network, host>>
  BY DEF StoreOpened, At
<1>2. PICK c \in Call : /\ call[p] = c /\ c # None /\ Loaded(p, c)
                        /\ HasSession(p) /\ Untouched(c)
                        /\ Received(p, c, "whisper")
  BY <1>1, StoreReady
<1>3. PICK m \in network : m = c.message
  BY <1>2 DEF Received
<1>4. TypeOK /\ m \in Message /\ nextKey \in Nat
      /\ session \in [Party -> SessionRecord]
  BY DEF CallsTypeOK, TypeOK
<1> DEFINE a == AfterOpen(st, m, nextKey)
<1>5. /\ nextKey + KeysDrawn(st, m) <= MaxKey + 1
      /\ Opens(st, m, nextKey)
      /\ nextKey' = nextKey + KeysDrawn(st, m)
      /\ RecordOpening(p, m)
      /\ StoreCurrent(p, a)
  BY <1>2, <1>3, <1>4
     DEF StoreOpened, Stored, WithCurrent, StoreCurrent, Loaded
<1>6. host = "any" => DecryptMessage(p, m)
  BY <1>1, <1>2, <1>3, <1>5 DEF DecryptMessage, Received
<1>7. st \in SessionState
  BY <1>2, <1>4, CurrentType
<1> HIDE DEF st
<1>8. a \in SessionState /\ a.hs = st.hs /\ a.pending = st.pending
  BY <1>4, <1>7, AfterOpenType
<1> HIDE DEF a
<1>9. /\ session' \in [Party -> SessionRecord]
      /\ session'[p].current = Serialize(a)
      /\ \A q \in Party \ {p} : session'[q] = session[q]
  BY <1>2, <1>4, <1>5, <1>8, StoreCurrentType
<1>10. nextKey' \in Nat
  BY <1>4, <1>5 DEF KeysDrawn
<1>11. TypeOK'
  BY <1>1, <1>4, <1>5, <1>9, <1>10, OpeningType DEF TypeOK
<1>12. \A q \in Party \ {p} : call'[q] = call[q]
  BY <1>1, Returning DEF Result
<1>13. OnlyOf(p)
  BY <1>1, <1>9, <1>12 DEF OnlyOf
<1>14. CallsTypeOK' /\ CallsWell' /\ call'[p] = None
  BY <1>1, <1>11, <1>13, StoringKept
<1>15. SignedPreKeys'
  <2>1. Serialize(a).hs = st.hs /\ Serialize(a).pending = st.pending
    BY <1>8, SerializeType
  <2>2. st.pending => st.hs.spk = SignedPreKey(Peer(p))
    BY <1>2 DEF SignedPreKeys, st
  <2>3. session'[p].current.pending
          => session'[p].current.hs.spk = SignedPreKey(Peer(p))
    BY <1>9, <2>1, <2>2
  <2> QED
    BY <1>1, <1>13, <2>3, SignedPreKeysKept
<1>16. LastSealedSent'
  BY <1>1 DEF LastSealedSent
<1> QED
  BY <1>1, <1>2, <1>6, <1>14, <1>15, <1>16

\* decryptPreKeyMessage stores the session it set up.
LEMMA StoreEstablishedKept ==
  ASSUME CallsKeep, NEW p \in Party, StoreEstablished(p)
  PROVE  /\ CallsKeep' /\ call'[p] = None /\ p \in identities
         /\ call[p].op = "decrypt_pre_key_message"
         /\ \E c \in Call, m \in network :
               /\ call[p] = c /\ c # None /\ c.message = m
               /\ Loaded(p, c) /\ ~OfLoaded(c) /\ Received(p, c, "pre_key")
               /\ host = "any" =>
                     /\ Spent(p, c)
                     /\ IF UsesKyber(p, m) THEN p \in kyberUsed ELSE ~c.marked
               /\ nextKey <= MaxKey
               /\ Opens(ResponderState(p, m), m, nextKey)
               /\ session' = [session EXCEPT ![p] = PromoteState(@,
                                 AfterOpen(ResponderState(p, m), m, nextKey))]
               /\ nextKey' = nextKey + 1
               /\ RecordOpening(p, m)
               /\ UNCHANGED <<preKeys, kyberUsed, identities, sent, network,
                              host>>
<1> USE DEF CallsKeep
<1>1. /\ At(p, "store_session") /\ ~Idle(p)
      /\ call[p].op = "decrypt_pre_key_message" /\ Return(p, "ok")
      /\ nextKey <= MaxKey /\ nextKey' = nextKey + 1
      /\ UNCHANGED <<preKeys, kyberUsed, identities, sent, network, host>>
  BY DEF StoreEstablished, At
<1>2. PICK c \in Call :
        /\ call[p] = c /\ c # None /\ Loaded(p, c)
        /\ Received(p, c, "pre_key") /\ ~OfLoaded(c) /\ p \in identities
        /\ host = "any" => /\ Spent(p, c)
                           /\ IF UsesKyber(p, c.message) THEN p \in kyberUsed
                              ELSE ~c.marked
  BY <1>1, StoreReady
<1>3. PICK m \in network : m = c.message
  BY <1>2 DEF Received
<1>4. TypeOK /\ m \in Message /\ nextKey \in Nat
      /\ session \in [Party -> SessionRecord]
  BY DEF CallsTypeOK, TypeOK
<1> DEFINE st == ResponderState(p, m)
           a == AfterOpen(st, m, nextKey)
<1>5. /\ Opens(st, m, nextKey)
      /\ session' = [session EXCEPT ![p] = PromoteState(@, a)]
      /\ RecordOpening(p, m)
  BY <1>2, <1>3, <1>4 DEF StoreEstablished, Stored, Loaded
<1>6. st \in SessionState /\ st.pending = FALSE
  BY <1>4, ResponderStateType
<1> HIDE DEF st
<1>7. a \in SessionState /\ a.pending = FALSE
  BY <1>4, <1>6, AfterOpenType
<1> HIDE DEF a
<1>8. /\ PromoteState(session[p], a) \in SessionRecord
      /\ PromoteState(session[p], a).current = Serialize(a)
      /\ Serialize(a).pending = FALSE
  BY <1>4, <1>7, PromoteStateType, SerializeType
<1>9. /\ session' \in [Party -> SessionRecord]
      /\ session'[p].current = Serialize(a)
      /\ \A q \in Party \ {p} : session'[q] = session[q]
  BY <1>4, <1>5, <1>8
<1>10. TypeOK'
  BY <1>1, <1>4, <1>5, <1>9, OpeningType DEF TypeOK
<1>11. \A q \in Party \ {p} : call'[q] = call[q]
  BY <1>1, Returning DEF Result
<1>12. OnlyOf(p)
  BY <1>1, <1>9, <1>11 DEF OnlyOf
<1>13. CallsTypeOK' /\ CallsWell' /\ call'[p] = None
  BY <1>1, <1>10, <1>12, StoringKept
<1>14. SignedPreKeys'
  BY <1>1, <1>8, <1>9, <1>12, SignedPreKeysKept
<1>15. LastSealedSent'
  BY <1>1 DEF LastSealedSent
<1> QED
  BY <1>1, <1>2, <1>3, <1>5, <1>13, <1>14, <1>15 DEF st, a

\* Only decryptPreKeyMessage has come to the end of its callbacks while it is
\* still in its call.
LEMMA NeverEmpty ==
  /\ <<"is_trusted_identity", "get_identity_key_pair",
       "get_local_registration_id", "save_identity", "load_session",
       "store_session">> # <<>>
  /\ <<"get_identity_key_pair", "get_local_registration_id", "save_identity",
       "load_session", "store_session">> # <<>>
  /\ <<"get_local_registration_id", "save_identity", "load_session",
       "store_session">> # <<>>
  /\ <<"save_identity", "load_session", "store_session">> # <<>>
  /\ <<"load_session", "store_session">> # <<>>
  /\ <<"store_session">> # <<>>
  /\ <<"load_session", "get_identity_key_pair", "store_session">> # <<>>
  /\ <<"get_identity_key_pair", "store_session">> # <<>>
  /\ <<"load_session", "is_trusted_identity">> # <<>>
  /\ <<"is_trusted_identity">> # <<>>
OBVIOUS

\* A message of the loaded session is returned without storing anything.
LEMMA ReturnPlaintextKept ==
  ASSUME CallsKeep, NEW p \in Party, ReturnPlaintext(p)
  PROVE  /\ CallsKeep' /\ call'[p] = None
         /\ call[p] # None /\ call[p].op = "decrypt_pre_key_message"
         /\ Untouched(call[p])
         /\ host = "any" => \E m \in network : DecryptInSession(p, m)
<1> USE DEF CallsKeep
<1>1. /\ ~Idle(p) /\ call[p].todo = <<>> /\ Return(p, "ok")
      /\ Opens(call[p].record.current, call[p].message, nextKey)
      /\ RecordOpening(p, call[p].message)
      /\ UNCHANGED <<session, preKeys, kyberUsed, identities, nextKey, sent,
                     network, host>>
  BY DEF ReturnPlaintext
<1>2. PICK c \in Call : call[p] = c /\ CallWell(p, c)
  BY <1>1, InCall
<1>3. OpensWell(p, c)
  <2>1. ~InitiatesWell(p, c) /\ ~CiphersWell(p, c)
    BY <1>1, <1>2, NeverEmpty DEF InitiatesWell, CiphersWell
  <2>2. ~EstablishesWell(p, c)
    BY <1>1, <1>2, SetUpCallbacks DEF EstablishesWell
  <2> QED
    BY <1>2, <2>1, <2>2 DEF CallWell
<1>4. /\ c.op = "decrypt_pre_key_message" /\ Received(p, c, "pre_key")
      /\ Untouched(c) /\ Loaded(p, c) /\ OfLoaded(c) /\ c # None
  BY <1>1, <1>2, <1>3, NeverEmpty, CallAssumption DEF OpensWell
<1>5. PICK m \in network : m = c.message
  BY <1>4 DEF Received
<1>6. host = "any" => DecryptInSession(p, m)
  BY <1>1, <1>2, <1>4, <1>5
     DEF DecryptInSession, Received, Loaded, OfLoaded, IsCurrent, HasSession
<1>7. TypeOK'
  <2>1. TypeOK /\ RecordOpening(p, m)
    BY <1>1, <1>2, <1>5 DEF CallsTypeOK
  <2>2. opened' \in [Party -> SUBSET Nat] /\ reopened' \in [Party -> SUBSET Nat]
    BY <2>1, OpeningType
  <2> QED
    BY <1>1, <2>1, <2>2 DEF TypeOK
<1>8. \A q \in Party \ {p} : call'[q] = call[q]
  BY <1>1, Returning DEF Result
<1>9. OnlyOf(p)
  BY <1>1, <1>8 DEF OnlyOf
<1>10. CallsTypeOK' /\ CallsWell' /\ call'[p] = None
  BY <1>1, <1>7, <1>9, StoringKept
<1>11. SignedPreKeys' /\ LastSealedSent'
  BY <1>1 DEF SignedPreKeys, LastSealedSent, HasSession
<1> QED
  BY <1>2, <1>4, <1>6, <1>10, <1>11

\* The host archives the session between two calls.
LEMMA ArchiveKept ==
  ASSUME CallsKeep, NEW p \in Party, Archive(p)
  PROVE  CallsKeep'
<1> USE DEF CallsKeep
<1>1. /\ call[p] = None /\ ArchiveCurrentState(p) /\ UNCHANGED callVars
      /\ UNCHANGED <<preKeys, kyberUsed, identities, nextKey, sent, network,
                     opened, reopened>>
  BY DEF Archive, Idle, ArchiveCurrentState
<1>2. TypeOK
  BY DEF CallsTypeOK
<1>3. /\ session' \in [Party -> SessionRecord]
      /\ session'[p].current = None
      /\ \A q \in Party \ {p} : session'[q] = session[q]
  BY <1>1, <1>2, ArchiveStep
<1>4. TypeOK'
  BY <1>1, <1>2, <1>3 DEF TypeOK
<1>5. OnlyOf(p)
  BY <1>1, <1>3 DEF OnlyOf, callVars
<1>6. CallsWell'
  <2>1. \A d \in {call'[p]} \ {None} : CallWell(p, d)'
    BY <1>1 DEF callVars
  <2> QED
    BY <1>5, <2>1, CallsKept
<1>7. CallsTypeOK'
  BY <1>1, <1>4 DEF CallsTypeOK, callVars
<1>8. SignedPreKeys'
  BY <1>1, <1>3, <1>5, SignedPreKeysKept DEF HasSession
<1>9. LastSealedSent'
  BY <1>1 DEF LastSealedSent
<1> QED
  BY <1>6, <1>7, <1>8, <1>9

-----------------------------------------------------------------------------
(* Every step keeps the invariant *)

\* The steps of a call that change no store.
QuietStep(p) ==
    \/ load_session(p) \/ is_trusted_identity(p) \/ read_only(p)
    \/ load_pre_key(p) \/ Fail(p) \/ Reject(p)

\* They go on, or end the call with an error.
LEMMA QuietSteps ==
  ASSUME CallsTypeOK, CallsWell, NEW p \in Party, QuietStep(p)
  PROVE  Quiet(p) /\ (Goes(p) \/ Ends(p))
BY LoadSessionQuiet, TrustedQuiet, ReadOnlyQuiet, LoadPreKeyQuiet, FailQuiet
   DEF QuietStep

\* A step of a call leaves the other party's call alone.
LEMMA OthersKept ==
  ASSUME CallsTypeOK, NEW p \in Party, CallStep(p)
  PROVE  /\ host' = host /\ call[p] # None
         /\ \A q \in Party \ {p} :
               call'[q] = call[q] /\ outcome'[q] = outcome[q]
<1>1. /\ call \in [Party -> Call \union {None}]
      /\ outcome \in [Party -> Result \union {"none"}]
  BY DEF CallsTypeOK
<1>2. /\ host' = host /\ ~Idle(p)
      /\ (\E c : GoOn(p, c)) \/ (\E result : Return(p, result))
  <2>1. CASE load_session(p)
    BY <2>1 DEF load_session, At
  <2>2. CASE is_trusted_identity(p)
    BY <2>2 DEF is_trusted_identity, At, Trusted
  <2>3. CASE read_only(p)
    BY <2>3 DEF read_only, At
  <2>4. CASE load_pre_key(p)
    BY <2>4 DEF load_pre_key, At
  <2>5. CASE Fail(p)
    BY <2>5 DEF Fail
  <2>6. CASE save_identity(p)
    BY <2>6 DEF save_identity, At
  <2>7. CASE remove_pre_key(p)
    BY <2>7 DEF remove_pre_key, At
  <2>8. CASE mark_kyber_pre_key_used(p)
    BY <2>8 DEF mark_kyber_pre_key_used, At
  <2>9. CASE StoreInitiated(p)
    BY <2>9 DEF StoreInitiated, At
  <2>10. CASE StoreSealed(p)
    BY <2>10 DEF StoreSealed, At
  <2>11. CASE StoreOpened(p)
    BY <2>11 DEF StoreOpened, At
  <2>12. CASE StoreEstablished(p)
    BY <2>12 DEF StoreEstablished, At
  <2>13. CASE ReturnPlaintext(p)
    BY <2>13 DEF ReturnPlaintext
  <2>14. CASE Reject(p)
    BY <2>14 DEF Reject, Decrypting
  <2> QED
    BY <2>1, <2>2, <2>3, <2>4, <2>5, <2>6, <2>7, <2>8, <2>9, <2>10, <2>11,
       <2>12, <2>13, <2>14 DEF CallStep
<1>3. CASE \E c : GoOn(p, c)
  BY <1>1, <1>2, <1>3 DEF GoOn, Idle
<1>4. CASE \E result : Return(p, result)
  BY <1>1, <1>2, <1>4 DEF Return, Idle
<1> QED
  BY <1>2, <1>3, <1>4

\* A step of a call keeps the invariant, and a call to encrypt does not end
\* well before it has sealed a message.
LEMMA CallStepKept ==
  ASSUME CallsKeep, NEW p \in Party, CallStep(p)
  PROVE  /\ CallsKeep'
         /\ sent' = sent \/ sent' > 0
         /\ \/ call'[p] # None /\ call'[p].op = call[p].op
            \/ /\ call'[p] = None
               /\ \/ outcome'[p] # "ok"
                  \/ sent' > 0
                  \/ call[p].op # "encrypt_message"
<1>1. CASE QuietStep(p)
  <2>1. Quiet(p) /\ (Goes(p) \/ Ends(p))
    BY <1>1, QuietSteps DEF CallsKeep
  <2>2. CallsKeep'
    BY <2>1, QuietKept DEF CallsKeep
  <2> QED
    BY <2>1, <2>2 DEF Quiet, Goes, Ends, vars
<1>2. CASE save_identity(p)
  BY <1>2, SaveIdentityKept DEF Goes, save_identity
<1>3. CASE remove_pre_key(p)
  BY <1>3, RemovePreKeyKept DEF remove_pre_key
<1>4. CASE mark_kyber_pre_key_used(p)
  BY <1>4, MarkKyberKept DEF mark_kyber_pre_key_used
<1>5. CASE StoreInitiated(p)
  BY <1>5, StoreInitiatedKept DEF StoreInitiated
<1>6. CASE StoreSealed(p)
  BY <1>6, StoreSealedKept
<1>7. CASE StoreOpened(p)
  BY <1>7, StoreOpenedKept DEF StoreOpened
<1>8. CASE StoreEstablished(p)
  BY <1>8, StoreEstablishedKept DEF StoreEstablished
<1>9. CASE ReturnPlaintext(p)
  BY <1>9, ReturnPlaintextKept DEF ReturnPlaintext
<1> QED
  BY <1>1, <1>2, <1>3, <1>4, <1>5, <1>6, <1>7, <1>8, <1>9
     DEF CallStep, QuietStep

\* A host that calls in any order begins calls that are as they should be.
LEMMA AnyCallBegins ==
  ASSUME CallsKeep, NEW p \in Party, AnyCall(p), ~Archive(p), host = "any"
  PROVE  Quiet(p) /\ call[p] = None /\ call'[p] # None /\ Untouched(call'[p])
<1>1. CallsTypeOK /\ network \subseteq Message
  BY DEF CallsKeep, CallsTypeOK, TypeOK
<1>2. CASE signal_process_prekey_bundle(p)
  <2>1. PICK b \in Bundles : Begin(p, "process_prekey_bundle", None, b)
    BY <1>2 DEF signal_process_prekey_bundle
  <2>2. b \in Bundle /\ "process_prekey_bundle" \in Operation
    BY KeyAssumption DEF Operation
  <2> QED
    BY <1>1, <2>1, <2>2, BeginQuiet
<1>3. CASE signal_encrypt_message(p)
  <2>1. "encrypt_message" \in Operation
    BY DEF Operation
  <2> QED
    BY <1>1, <1>3, <2>1, BeginQuiet DEF signal_encrypt_message
<1>4. ASSUME NEW m \in network, signal_decrypt_message(p, m)
      PROVE  Quiet(p) /\ call[p] = None /\ call'[p] # None /\ Untouched(call'[p])
  <2>1. /\ "decrypt_message" \in Operation /\ m \in Message
        /\ m.from = Peer(p) /\ m.kind = "whisper"
        /\ Begin(p, "decrypt_message", m, None)
    BY <1>1, <1>4 DEF Operation, signal_decrypt_message
  <2> QED
    BY <1>1, <2>1, BeginQuiet
<1>5. ASSUME NEW m \in network, signal_decrypt_pre_key_message(p, m)
      PROVE  Quiet(p) /\ call[p] = None /\ call'[p] # None /\ Untouched(call'[p])
  <2>1. /\ "decrypt_pre_key_message" \in Operation /\ m \in Message
        /\ m.from = Peer(p) /\ m.kind = "pre_key"
        /\ Begin(p, "decrypt_pre_key_message", m, None)
    BY <1>1, <1>5 DEF Operation, signal_decrypt_pre_key_message
  <2> QED
    BY <1>1, <2>1, BeginQuiet
<1> QED
  BY <1>2, <1>3, <1>4, <1>5 DEF AnyCall

\* A step of a host that calls in any order.
LEMMA AnyStepKept ==
  ASSUME CallsInv, AnyStep
  PROVE  CallsInv'
<1>1. CallsKeep /\ host = "any"
  BY DEF CallsInv, CallsKeep, AnyStep
<1>2. PICK p \in Party : AnyCall(p) \/ CallStep(p)
  BY DEF AnyStep
<1>3. CallsKeep' /\ host' = host
  <2>1. CASE CallStep(p)
    BY <1>1, <2>1, CallStepKept, OthersKept DEF CallsKeep
  <2>2. CASE Archive(p)
    BY <1>1, <2>2, ArchiveKept DEF Archive, callVars
  <2>3. CASE AnyCall(p) /\ ~Archive(p)
    <3>1. Quiet(p)
      BY <1>1, <2>3, AnyCallBegins
    <3> QED
      BY <1>1, <3>1, QuietKept DEF CallsKeep, Quiet
  <2> QED
    BY <1>2, <2>1, <2>2, <2>3
<1>4. ExampleWell'
  BY <1>1, <1>3 DEF ExampleWell
<1> QED
  BY <1>3, <1>4 DEF CallsInv, CallsKeep

\* The calls of test_session, in either language.
LEMMA ScriptOrder ==
  ASSUME host \in {"c", "cpp"}
  PROVE  /\ Len(Script) = 5
         /\ \A i \in 1 .. 5 : Script[i].by \in Party
         /\ Script[1].op = "process_prekey_bundle"
         /\ Script[2].op = "encrypt_message" /\ Script[2].by = Alice
         /\ Script[3].op = "decrypt_pre_key_message"
         /\ Script[4].op = "encrypt_message"
         /\ Script[5].op = "decrypt_message"
<1>1. \A i \in 1 .. 5 : i \in {1, 2, 3, 4, 5}
  OBVIOUS
<1>2. CASE host = "c"
  <2>1. /\ Len(Script) = 5
        /\ Script[1].op = "process_prekey_bundle" /\ Script[1].by = Alice
        /\ Script[2].op = "encrypt_message" /\ Script[2].by = Alice
        /\ Script[3].op = "decrypt_pre_key_message" /\ Script[3].by = Bob
        /\ Script[4].op = "encrypt_message" /\ Script[4].by = Bob
        /\ Script[5].op = "decrypt_message" /\ Script[5].by = Alice
    BY <1>2 DEF Script, test_session_c, ScriptCall
  <2> HIDE DEF Script
  <2> QED
    BY <1>1, <2>1 DEF Party
<1>3. CASE host = "cpp"
  <2>1. /\ Len(Script) = 5
        /\ Script[1].op = "process_prekey_bundle" /\ Script[1].by = Alice
        /\ Script[2].op = "encrypt_message" /\ Script[2].by = Alice
        /\ Script[3].op = "decrypt_pre_key_message" /\ Script[3].by = Bob
        /\ Script[4].op = "encrypt_message" /\ Script[4].by = Bob
        /\ Script[5].op = "decrypt_message" /\ Script[5].by = Alice
    BY <1>3 DEF Script, test_session_cpp, ScriptCall
  <2> QED
    BY <1>1, <2>1 DEF Party
<1> QED
  BY <1>2, <1>3

\* The host of a program that is no "any" is an example.
LEMMA ExampleHost ==
  ASSUME host \in Hosts, host # "any"
  PROVE  /\ host \in {"c", "cpp"}
         /\ ExampleKey \in OneTimeKeys /\ bundle \in Bundles
BY HostAssumption, ExampleAssumption

\* test_session makes its next call: it is one the library can be given.
LEMMA MakeCallKept ==
  ASSUME CallsInv, host # "any", MakeCall
  PROVE  CallsInv'
<1>1. /\ CallsKeep /\ CallsTypeOK /\ LastSealedSent /\ ExampleWell
      /\ host \in Hosts /\ sent \in Nat /\ network \subseteq Message
      /\ outcome \in [Party -> Result \union {"none"}]
  BY DEF CallsInv, CallsKeep, CallsTypeOK, TypeOK
<1>2. /\ host \in {"c", "cpp"} /\ bundle \in Bundles
  BY <1>1, ExampleHost
<1>3. /\ made \in Nat /\ made < Len(Script) /\ made' = made + 1
      /\ call = NoCall /\ Expected
      /\ LET s == Script[made + 1]
         IN  CASE s.op = "process_prekey_bundle" -> Begin(s.by, s.op, None, bundle)
               [] s.op = "encrypt_message" -> Begin(s.by, s.op, None, None)
               [] OTHER -> Begin(s.by, s.op, LastSealed, None)
  BY <1>1 DEF MakeCall, ExampleWell, Between
<1> DEFINE n == made + 1
           s == Script[n]
<1>4. n \in 1 .. 5 /\ n \in {1, 2, 3, 4, 5}
  BY <1>2, <1>3, ScriptOrder
<1>5. PICK p \in Party : p = s.by
  BY <1>2, <1>4, ScriptOrder
<1>6. Idle(Alice)
  BY <1>3 DEF Idle, NoCall, Party
<1>7. n > 2 => sent > 0
  <2>1. CASE made = 2
    <3>1. outcome[Alice] = "ok"
      BY <1>2, <1>3, <2>1, ScriptOrder DEF Expected
    <3> QED
      BY <1>1, <1>6, <2>1, <3>1 DEF ExampleWell
  <2>2. CASE made # 2
    BY <1>1, <1>3, <2>2 DEF ExampleWell
  <2> QED
    BY <2>1, <2>2
<1>8. n > 2 => LastSealed \in network /\ LastSealed \in Message
  BY <1>1, <1>7 DEF LastSealed, LastSealedSent
<1> HIDE DEF n
<1>9. /\ Quiet(p) /\ call'[p] # None
      /\ n = 2 => p = Alice /\ call'[p].op = "encrypt_message"
  <2>1. CASE n = 1
    <3>1. s.op = "process_prekey_bundle"
      BY <1>2, <2>1, ScriptOrder
    <3>2. Begin(p, "process_prekey_bundle", None, bundle)
      BY <1>3, <1>5, <3>1 DEF n
    <3>3. bundle \in Bundle /\ "process_prekey_bundle" \in Operation
      BY <1>2, KeyAssumption DEF Operation
    <3> QED
      BY <1>1, <1>2, <2>1, <3>2, <3>3, BeginQuiet
  <2>2. CASE n \in {2, 4}
    <3>1. s.op = "encrypt_message" /\ (n = 2 => p = Alice)
      BY <1>2, <1>5, <2>2, ScriptOrder
    <3>2. Begin(p, "encrypt_message", None, None)
      BY <1>3, <1>5, <3>1 DEF n
    <3>3. "encrypt_message" \in Operation
      BY DEF Operation
    <3> QED
      BY <1>1, <3>1, <3>2, <3>3, BeginQuiet
  <2>3. CASE n \in {3, 5}
    <3>1. s.op \in {"decrypt_message", "decrypt_pre_key_message"} /\ n > 2
      BY <1>2, <2>3, ScriptOrder
    <3>2. Begin(p, s.op, LastSealed, None)
      BY <1>3, <1>5, <3>1 DEF n
    <3>3. PICK op \in Operation :
            op = s.op /\ op \in {"decrypt_message", "decrypt_pre_key_message"}
      BY <3>1 DEF Operation
    <3>4. PICK m \in network : m = LastSealed /\ m \in Message
      BY <1>8, <3>1
    <3>5. Begin(p, op, m, None)
      BY <3>2, <3>3, <3>4
    <3>6. /\ op # "process_prekey_bundle" /\ n # 2
      BY <2>3, <3>3
    <3> QED
      BY <1>1, <3>3, <3>4, <3>5, <3>6, BeginQuiet
  <2> QED
    BY <1>4, <2>1, <2>2, <2>3
<1>10. CallsKeep' /\ host' = host /\ sent' = sent
  BY <1>1, <1>9, QuietKept DEF CallsKeep, Quiet, vars
<1>11. ExampleWell'
  <2>1. made' \in Nat /\ made' = n
    BY <1>3 DEF n
  <2>2. made' = 2 => ~Idle(Alice)' /\ call'[Alice].op = "encrypt_message"
    BY <1>9, <2>1 DEF Idle
  <2>3. made' > 2 => sent' > 0
    BY <1>7, <1>10, <2>1
  <2> QED
    BY <2>1, <2>2, <2>3 DEF ExampleWell
<1> QED
  BY <1>10, <1>11 DEF CallsInv, CallsKeep

\* A step of an example.
LEMMA ExampleStepKept ==
  ASSUME CallsInv, ExampleStep
  PROVE  CallsInv'
<1>1. CallsKeep /\ ExampleWell /\ host # "any"
  BY DEF CallsInv, CallsKeep, ExampleStep
<1>2. CASE MakeCall
  BY <1>1, <1>2, MakeCallKept
<1>3. CASE Finish
  <2>1. UNCHANGED <<vars, callVars, made>>
    BY <1>3 DEF Finish
  <2> QED
    BY <1>1, <2>1
       DEF CallsInv, CallsTypeOK, TypeOK, CallsWell, CallWell, InitiatesWell,
           CiphersWell, OpensWell, EstablishesWell, Loaded, Received, StillHeld,
           Spent, SignedPreKeys, HasSession, LastSealedSent, ExampleWell, Idle,
           vars, callVars
<1>4. ASSUME NEW p \in Party, CallStep(p), UNCHANGED <<made, passed>>
      PROVE  CallsInv'
  <2>1. /\ host' = host /\ call[p] # None
        /\ \A q \in Party \ {p} :
              call'[q] = call[q] /\ outcome'[q] = outcome[q]
    BY <1>1, <1>4, OthersKept DEF CallsKeep
  <2>2. /\ CallsKeep'
        /\ sent' = sent \/ sent' > 0
        /\ \/ call'[p] # None /\ call'[p].op = call[p].op
           \/ /\ call'[p] = None
              /\ \/ outcome'[p] # "ok"
                 \/ sent' > 0
                 \/ call[p].op # "encrypt_message"
    BY <1>1, <1>4, CallStepKept
  <2>3. sent \in Nat /\ sent' \in Nat /\ Alice \in Party
    BY <1>1, <2>2 DEF CallsKeep, CallsTypeOK, TypeOK, Party
  <2>4. ASSUME made = 2, sent' = 0
        PROVE  IF call'[Alice] = None THEN outcome'[Alice] # "ok"
               ELSE call'[Alice].op = "encrypt_message"
    <3>1. sent = 0
      BY <2>2, <2>3, <2>4
    <3>2. IF call[Alice] = None THEN outcome[Alice] # "ok"
          ELSE call[Alice].op = "encrypt_message"
      BY <1>1, <2>4, <3>1 DEF ExampleWell, Idle
    <3>3. CASE p = Alice
      BY <2>1, <2>2, <2>4, <3>2, <3>3
    <3>4. CASE p # Alice
      BY <2>1, <2>3, <3>2, <3>4
    <3> QED
      BY <3>3, <3>4
  <2>5. made > 2 => sent' > 0
    BY <1>1, <2>2 DEF ExampleWell
  <2>6. ExampleWell'
    BY <1>1, <1>4, <2>1, <2>4, <2>5 DEF ExampleWell, Idle
  <2> QED
    BY <2>2, <2>6 DEF CallsInv, CallsKeep
<1> QED
  BY <1>2, <1>3, <1>4 DEF ExampleStep

\* Before the first call.
LEMMA CallsInit == InitHosts => CallsInv
<1> SUFFICES ASSUME InitHosts PROVE CallsInv
  OBVIOUS
<1>1. /\ host \in Hosts /\ call = NoCall /\ made = 0
      /\ outcome = [p \in Party |-> "none"] /\ freed = [p \in Party |-> 0]
      /\ session = [p \in Party |-> NewRecord] /\ sent = 0 /\ network = {}
  BY DEF InitHosts, InitCalls, Init, InitExample
<1>2. TypeOK
  <2>1. CASE host = "any"
    BY <2>1, InitType DEF InitHosts
  <2>2. CASE host # "any"
    <3>1. ExampleKey \in OneTimeKeys
      BY <1>1, <2>2, ExampleHost
    <3>2. setup_bob \in [Party -> SUBSET OneTimeKeys]
      BY <3>1 DEF setup_bob
    <3>3. InitExample
      BY <2>2 DEF InitHosts
    <3>4. NewRecord \in SessionRecord
      BY EmptySeq DEF NewRecord, SessionRecord
    <3> QED
      BY <3>2, <3>3, <3>4 DEF InitExample, TypeOK
  <2> QED
    BY <2>1, <2>2
<1>3. CallsTypeOK
  BY <1>1, <1>2 DEF CallsTypeOK, NoCall
<1>4. CallsWell
  BY <1>1 DEF CallsWell, NoCall
<1>5. SignedPreKeys /\ LastSealedSent /\ ExampleWell
  BY <1>1 DEF SignedPreKeys, HasSession, NewRecord, LastSealedSent, ExampleWell
<1> QED
  BY <1>3, <1>4, <1>5 DEF CallsInv

\* A step of nobody.
LEMMA CallsStutter ==
  ASSUME CallsInv, UNCHANGED exampleVars
  PROVE  CallsInv'
BY DEF exampleVars, CallsInv, CallsTypeOK, TypeOK, CallsWell, CallWell,
       InitiatesWell, CiphersWell, OpensWell, EstablishesWell, Loaded,
       Received, StillHeld, Spent, SignedPreKeys, HasSession, LastSealedSent,
       ExampleWell, Idle

\* A call in progress has made the callbacks it should have made so far and
\* holds what the stores hold, whatever the peer's calls did meanwhile; and
\* the examples begin only calls they have what is needed for.
THEOREM CallsInvCorrect == SpecHosts => []CallsInv
<1>1. CallsInv /\ [NextHosts]_exampleVars => CallsInv'
  BY AnyStepKept, ExampleStepKept, CallsStutter DEF NextHosts
<1> QED
  BY <1>1, CallsInit, PTL DEF SpecHosts

\* The type invariant of the calls.
THEOREM CallsTypeCorrect == SpecHosts => []CallsTypeOK
<1>1. CallsInv => CallsTypeOK
  BY DEF CallsInv
<1> QED
  BY <1>1, CallsInvCorrect, PTL

-----------------------------------------------------------------------------
(* A call is a step of Session *)

\* A step of p changes only what p's call has given up.
LEMMA TakenAt ==
  ASSUME CallsTypeOK, NEW p \in Party,
         \A q \in Party \ {p} : call'[q] = call[q] /\ preKeys'[q] = preKeys[q],
         \A q \in Party \ {p} : q \in kyberUsed' <=> q \in kyberUsed,
         kyberUsed' \subseteq Party
  PROVE  /\ AtomicPreKeys' = [AtomicPreKeys EXCEPT
                                ![p] = preKeys'[p] \union Removed(p)']
         /\ AtomicKyberUsed' =
              (AtomicKyberUsed \ {p})
                \union (IF p \in kyberUsed' /\ ~Marked(p)' THEN {p} ELSE {})
<1>1. \A q \in Party \ {p} :
         /\ Removed(q)' = Removed(q)
         /\ Marked(q)' <=> Marked(q)
  BY DEF Removed, Marked, Idle
<1>2. /\ AtomicPreKeys = [q \in Party |-> preKeys[q] \union Removed(q)]
      /\ AtomicPreKeys' = [q \in Party |-> preKeys'[q] \union Removed(q)']
  BY DEF AtomicPreKeys
<1>3. \A q \in Party \ {p} :
         preKeys'[q] \union Removed(q)' = preKeys[q] \union Removed(q)
  BY <1>1
<1>4. AtomicPreKeys' = [AtomicPreKeys EXCEPT
                          ![p] = preKeys'[p] \union Removed(p)']
  BY <1>2, <1>3
<1>5. kyberUsed \subseteq Party
  BY DEF CallsTypeOK, TypeOK
<1>6. AtomicKyberUsed' =
        (AtomicKyberUsed \ {p})
          \union (IF p \in kyberUsed' /\ ~Marked(p)' THEN {p} ELSE {})
  BY <1>1, <1>5 DEF AtomicKyberUsed
<1> QED
  BY <1>4, <1>6

\* What p's call has given up counts as it did.
LEMMA TakenSame ==
  ASSUME CallsTypeOK, NEW p \in Party,
         \A q \in Party \ {p} : call'[q] = call[q] /\ preKeys'[q] = preKeys[q],
         \A q \in Party \ {p} : q \in kyberUsed' <=> q \in kyberUsed,
         kyberUsed' \subseteq Party,
         preKeys'[p] \union Removed(p)' = preKeys[p] \union Removed(p),
         p \in kyberUsed' /\ ~Marked(p)' <=> p \in kyberUsed /\ ~Marked(p)
  PROVE  AtomicPreKeys' = AtomicPreKeys /\ AtomicKyberUsed' = AtomicKyberUsed
<1>1. /\ AtomicPreKeys' = [AtomicPreKeys EXCEPT
                             ![p] = preKeys'[p] \union Removed(p)']
      /\ AtomicKyberUsed' =
           (AtomicKyberUsed \ {p})
             \union (IF p \in kyberUsed' /\ ~Marked(p)' THEN {p} ELSE {})
  BY TakenAt
<1>2. AtomicPreKeys = [q \in Party |-> preKeys[q] \union Removed(q)]
  BY DEF AtomicPreKeys
<1>3. AtomicPreKeys' = AtomicPreKeys
  BY <1>1, <1>2
<1>4. p \in AtomicKyberUsed <=> p \in kyberUsed /\ ~Marked(p)
  BY DEF AtomicKyberUsed
<1> QED
  BY <1>1, <1>3, <1>4

\* The stores that a call has not touched look the same from Session when the
\* call begins, goes on or ends.
LEMMA UntouchedSame ==
  ASSUME CallsTypeOK, NEW p \in Party,
         \A q \in Party \ {p} : call'[q] = call[q],
         UNCHANGED <<preKeys, kyberUsed>>,
         \/ Goes(p)
         \/ /\ call[p] # None => Untouched(call[p])
            /\ call'[p] # None => Untouched(call'[p])
  PROVE  AtomicPreKeys' = AtomicPreKeys /\ AtomicKyberUsed' = AtomicKyberUsed
<1>1. kyberUsed' \subseteq Party
  BY DEF CallsTypeOK, TypeOK
<1>2. CASE Goes(p)
  <2>1. Removed(p)' = Removed(p) /\ (Marked(p)' <=> Marked(p))
    BY <1>2 DEF Goes, Removed, Marked, Idle
  <2> QED
    BY <1>1, <2>1, TakenSame
<1>3. CASE /\ call[p] # None => Untouched(call[p])
           /\ call'[p] # None => Untouched(call'[p])
  <2>1. Removed(p)' = {} /\ Removed(p) = {} /\ ~Marked(p)' /\ ~Marked(p)
    BY <1>3 DEF Untouched, Removed, Marked, Idle
  <2> QED
    BY <1>1, <2>1, TakenSame
<1> QED
  BY <1>2, <1>3

\* A call that gave up the pre-keys of its message gives them up for good when
\* it ends.
LEMMA SpentAtEnd ==
  ASSUME CallsTypeOK, NEW p \in Party, NEW c \in Call, call[p] = c, c # None,
         Spent(p, c), call'[p] = None,
         \A q \in Party \ {p} : call'[q] = call[q],
         UNCHANGED <<preKeys, kyberUsed>>
  PROVE  /\ c.message.hs.opk \in AtomicPreKeys[p] \union {None}
         /\ AtomicPreKeys' =
              [AtomicPreKeys EXCEPT ![p] = @ \ {c.message.hs.opk}]
         /\ AtomicKyberUsed' =
              IF c.marked /\ p \in kyberUsed THEN AtomicKyberUsed \union {p}
              ELSE AtomicKyberUsed
<1>1. kyberUsed' \subseteq Party /\ preKeys[p] \subseteq OneTimeKeys
  BY DEF CallsTypeOK, TypeOK
<1>2. /\ Removed(p) = c.removed /\ (Marked(p) <=> c.marked)
      /\ Removed(p)' = {} /\ ~Marked(p)'
  BY DEF Removed, Marked, Idle
<1>3. /\ AtomicPreKeys' = [AtomicPreKeys EXCEPT
                             ![p] = preKeys'[p] \union Removed(p)']
      /\ AtomicKyberUsed' =
           (AtomicKyberUsed \ {p})
             \union (IF p \in kyberUsed' /\ ~Marked(p)' THEN {p} ELSE {})
  BY <1>1, TakenAt
<1>4. AtomicPreKeys = [q \in Party |-> preKeys[q] \union Removed(q)]
  BY DEF AtomicPreKeys
<1>5. AtomicPreKeys[p] = preKeys[p] \union c.removed
  BY <1>2, <1>4
<1>6. /\ AtomicPreKeys[p] \ {c.message.hs.opk} = preKeys[p]
      /\ c.message.hs.opk \in AtomicPreKeys[p] \union {None}
  BY <1>1, <1>5, KeyAssumption DEF Spent
<1>7. AtomicPreKeys' = [AtomicPreKeys EXCEPT ![p] = @ \ {c.message.hs.opk}]
  BY <1>2, <1>3, <1>6
<1>8. p \in AtomicKyberUsed <=> p \in kyberUsed /\ ~c.marked
  BY <1>2 DEF AtomicKyberUsed
<1>9. AtomicKyberUsed' = IF c.marked /\ p \in kyberUsed
                         THEN AtomicKyberUsed \union {p} ELSE AtomicKyberUsed
  BY <1>2, <1>3, <1>8
<1> QED
  BY <1>6, <1>7, <1>9

\* A call on its way to a new session is establishing one in Session's terms.
LEMMA EstablishingSame ==
  ASSUME CallsTypeOK, SignedPreKeys, host = "any", NEW p \in Party,
         NEW c \in Call, Received(p, c, "pre_key"), Loaded(p, c), ~OfLoaded(c),
         c.message.hs.opk \in AtomicPreKeys[p] \union {None}
  PROVE  Atomic!Establishing(p, c.message)
<1> DEFINE m == c.message
<1>1. m \in network /\ m.from = Peer(p) /\ m.kind = "pre_key"
  BY DEF Received
<1>2. Peer(Peer(p)) = p
  BY PartyAssumption DEF Peer, Party
<1>3. m.hs.spk = SignedPreKey(p)
  BY <1>1, <1>2 DEF SignedPreKeys
<1>4. ~Atomic!IsCurrent(p, m)
  BY DEF Atomic!IsCurrent, Atomic!HasSession, Loaded, OfLoaded
<1> QED
  BY <1>1, <1>3, <1>4, SameRecords DEF Atomic!Establishing

\* A call that ends with an error, or with the process, has abandoned setting
\* up a session, or has done nothing.
LEMMA EndImplements ==
  ASSUME CallsKeep, host = "any", NEW p \in Party, Quiet(p), Ends(p)
  PROVE  Atomic!Next \/ UNCHANGED Atomic!vars
<1>1. /\ CallsTypeOK /\ CallsWell /\ SignedPreKeys
      /\ \A q \in Party \ {p} : call'[q] = call[q]
      /\ UNCHANGED vars /\ call[p] # None /\ call'[p] = None
  BY DEF CallsKeep, Quiet, Ends
<1>2. /\ UNCHANGED <<preKeys, kyberUsed>>
      /\ UNCHANGED <<session, identities, nextKey, sent, network, opened,
                     reopened>>
  BY <1>1 DEF vars
<1>3. PICK c \in Call : call[p] = c /\ CallWell(p, c) /\ c # None
  BY <1>1, InCall DEF Idle
<1>4. CASE Untouched(c)
  <2>1. AtomicPreKeys' = AtomicPreKeys /\ AtomicKyberUsed' = AtomicKyberUsed
    BY <1>1, <1>2, <1>3, <1>4, UntouchedSame
  <2> QED
    BY <1>2, <2>1 DEF Atomic!vars
<1>5. CASE ~Untouched(c)
  <2> DEFINE m == c.message
  <2>1. EstablishesWell(p, c)
    BY <1>3, <1>5 DEF CallWell, InitiatesWell, CiphersWell, OpensWell
  <2>2. /\ Received(p, c, "pre_key") /\ Loaded(p, c) /\ ~OfLoaded(c)
        /\ p \in identities /\ Spent(p, c)
        /\ c.marked => UsesKyber(p, m) /\ p \in kyberUsed
    BY <1>5, <2>1 DEF EstablishesWell
  <2>3. /\ m.hs.opk \in AtomicPreKeys[p] \union {None}
        /\ AtomicPreKeys' = [AtomicPreKeys EXCEPT ![p] = @ \ {m.hs.opk}]
        /\ AtomicKyberUsed' =
             IF c.marked /\ p \in kyberUsed THEN AtomicKyberUsed \union {p}
             ELSE AtomicKyberUsed
    BY <1>1, <1>2, <1>3, <2>2, SpentAtEnd
  <2>4. Atomic!Establishing(p, m) /\ m \in network
    BY <1>1, <2>2, <2>3, EstablishingSame DEF Received
  <2>5. identities' = identities \union {p}
    BY <1>2, <2>2
  <2>6. CASE c.marked
    <3>1. Atomic!AbandonEstablishing(p, m, 3)
      BY <1>2, <2>2, <2>3, <2>4, <2>5, <2>6
         DEF Atomic!AbandonEstablishing, Atomic!ConsumePreKey,
             Atomic!MarkKyberPreKeyUsed, UsesKyber
    <3> QED
      BY <2>4, <3>1, SameRecords DEF Atomic!Next
  <2>7. CASE ~c.marked
    <3>1. Atomic!AbandonEstablishing(p, m, 2)
      BY <1>2, <2>3, <2>4, <2>5, <2>7
         DEF Atomic!AbandonEstablishing, Atomic!ConsumePreKey
    <3> QED
      BY <2>4, <3>1, SameRecords DEF Atomic!Next
  <2> QED
    BY <2>6, <2>7
<1> QED
  BY <1>4, <1>5

\* A callback that reads is no step of Session.
LEMMA QuietImplements ==
  ASSUME CallsKeep, host = "any", NEW p \in Party, QuietStep(p)
  PROVE  Atomic!Next \/ UNCHANGED Atomic!vars
<1>1. Quiet(p) /\ (Goes(p) \/ Ends(p))
  BY QuietSteps DEF CallsKeep
<1>2. CASE Ends(p)
  BY <1>1, <1>2, EndImplements
<1>3. CASE Goes(p)
  <2>1. /\ CallsTypeOK
        /\ \A q \in Party \ {p} : call'[q] = call[q]
        /\ UNCHANGED <<session, preKeys, kyberUsed, identities, nextKey, sent,
                       network, opened, reopened>>
    BY <1>1 DEF CallsKeep, Quiet, vars
  <2>2. AtomicPreKeys' = AtomicPreKeys /\ AtomicKyberUsed' = AtomicKyberUsed
    BY <1>3, <2>1, UntouchedSame
  <2> QED
    BY <2>1, <2>2 DEF Atomic!vars
<1> QED
  BY <1>1, <1>2, <1>3

\* Nor is the beginning of a call.
LEMMA BeginImplements ==
  ASSUME CallsKeep, NEW p \in Party, Quiet(p), call[p] = None,
         call'[p] # None, Untouched(call'[p])
  PROVE  UNCHANGED Atomic!vars
<1>1. /\ CallsTypeOK
      /\ \A q \in Party \ {p} : call'[q] = call[q]
      /\ UNCHANGED <<session, preKeys, kyberUsed, identities, nextKey, sent,
                     network, opened, reopened>>
  BY DEF CallsKeep, Quiet, vars
<1>2. AtomicPreKeys' = AtomicPreKeys /\ AtomicKyberUsed' = AtomicKyberUsed
  BY <1>1, UntouchedSame
<1> QED
  BY <1>1, <1>2 DEF Atomic!vars

\* Saving the peer's identity is where a set-up may be abandoned.
LEMMA SaveIdentityImplements ==
  ASSUME CallsKeep, NEW p \in Party, save_identity(p)
  PROVE  Atomic!Next
<1>1. /\ CallsTypeOK /\ Goes(p)
      /\ \A q \in Party \ {p} : call'[q] = call[q]
  BY SaveIdentityKept, OthersKept DEF CallsKeep, CallStep
<1>2. /\ identities' = identities \union {p}
      /\ UNCHANGED <<session, preKeys, kyberUsed, nextKey, sent, network,
                     opened, reopened>>
  BY DEF save_identity
<1>3. AtomicPreKeys' = AtomicPreKeys /\ AtomicKyberUsed' = AtomicKyberUsed
  BY <1>1, <1>2, UntouchedSame
<1>4. Atomic!AbandonProcessing(p)
  BY <1>2, <1>3 DEF Atomic!AbandonProcessing
<1> QED
  BY <1>4, SameRecords DEF Atomic!Next

\* A key given up counts when the call ends.
LEMMA RemovePreKeyImplements ==
  ASSUME CallsKeep, NEW p \in Party, remove_pre_key(p)
  PROVE  UNCHANGED Atomic!vars
<1>1. /\ CallsTypeOK /\ kyberUsed \subseteq Party
      /\ preKeys \in [Party -> SUBSET OneTimeKeys]
      /\ \A q \in Party \ {p} : call'[q] = call[q]
      /\ call[p] # None /\ call'[p] # None
      /\ preKeys'[p] \union call'[p].removed = preKeys[p] \union call[p].removed
      /\ call'[p].marked = call[p].marked
  BY RemovePreKeyKept, OthersKept DEF CallsKeep, CallsTypeOK, TypeOK, CallStep
<1>2. /\ \E gone : preKeys' = [preKeys EXCEPT ![p] = @ \ gone]
      /\ UNCHANGED <<session, kyberUsed, identities, nextKey, sent, network,
                     opened, reopened>>
  BY DEF remove_pre_key
<1>3. \A q \in Party \ {p} : preKeys'[q] = preKeys[q]
  BY <1>1, <1>2
<1>4. /\ preKeys'[p] \union Removed(p)' = preKeys[p] \union Removed(p)
      /\ Marked(p)' <=> Marked(p)
  BY <1>1 DEF Removed, Marked, Idle
<1>5. AtomicPreKeys' = AtomicPreKeys /\ AtomicKyberUsed' = AtomicKyberUsed
  BY <1>1, <1>2, <1>3, <1>4, TakenSame
<1> QED
  BY <1>2, <1>5 DEF Atomic!vars

\* And so does a key that is marked used.
LEMMA MarkKyberImplements ==
  ASSUME CallsKeep, host = "any", NEW p \in Party, mark_kyber_pre_key_used(p)
  PROVE  UNCHANGED Atomic!vars
<1>1. /\ CallsTypeOK /\ kyberUsed' \subseteq Party
      /\ \A q \in Party \ {p} : call'[q] = call[q]
      /\ call[p] # None /\ call'[p] # None
      /\ call'[p].removed = call[p].removed
      /\ p \in kyberUsed' /\ ~call'[p].marked
           <=> p \in kyberUsed /\ ~call[p].marked
      /\ \A q \in Party \ {p} : q \in kyberUsed' <=> q \in kyberUsed
  BY MarkKyberKept, OthersKept DEF CallsKeep, CallsTypeOK, TypeOK, CallStep
<1>2. UNCHANGED <<session, preKeys, identities, nextKey, sent, network, opened,
                  reopened>>
  BY DEF mark_kyber_pre_key_used
<1>3. /\ preKeys'[p] \union Removed(p)' = preKeys[p] \union Removed(p)
      /\ p \in kyberUsed' /\ ~Marked(p)' <=> p \in kyberUsed /\ ~Marked(p)
  BY <1>1, <1>2 DEF Removed, Marked, Idle
<1>4. AtomicPreKeys' = AtomicPreKeys /\ AtomicKyberUsed' = AtomicKyberUsed
  BY <1>1, <1>2, <1>3, TakenSame
<1> QED
  BY <1>2, <1>4 DEF Atomic!vars

\* The store that ends processPreKeyBundle is the call.
LEMMA StoreInitiatedImplements ==
  ASSUME CallsKeep, NEW p \in Party, StoreInitiated(p)
  PROVE  Atomic!Next
<1>1. /\ CallsTypeOK /\ call'[p] = None /\ call[p] # None
      /\ Untouched(call[p]) /\ ProcessPreKeyBundle(p)
      /\ \A q \in Party \ {p} : call'[q] = call[q]
  BY StoreInitiatedKept, OthersKept DEF CallsKeep, CallStep
<1>2. UNCHANGED <<preKeys, kyberUsed>>
  BY DEF StoreInitiated
<1>3. AtomicPreKeys' = AtomicPreKeys /\ AtomicKyberUsed' = AtomicKyberUsed
  BY <1>1, <1>2, UntouchedSame
<1>4. Atomic!ProcessPreKeyBundle(p)
  BY <1>1, <1>3, SameRecords, SameInitiator
     DEF ProcessPreKeyBundle, Atomic!ProcessPreKeyBundle
<1> QED
  BY <1>4, SameRecords DEF Atomic!Next

\* The store that ends encrypt is the call.
LEMMA StoreSealedImplements ==
  ASSUME CallsKeep, NEW p \in Party, StoreSealed(p)
  PROVE  Atomic!Next
<1>1. /\ CallsTypeOK /\ call'[p] = None /\ call[p] # None
      /\ Untouched(call[p]) /\ Encrypt(p)
      /\ \A q \in Party \ {p} : call'[q] = call[q]
  BY StoreSealedKept, OthersKept DEF CallsKeep, CallStep
<1>2. UNCHANGED <<preKeys, kyberUsed>>
  BY DEF StoreSealed
<1>3. AtomicPreKeys' = AtomicPreKeys /\ AtomicKyberUsed' = AtomicKyberUsed
  BY <1>1, <1>2, UntouchedSame
<1>4. Atomic!Encrypt(p)
  BY <1>1, <1>3, SameRecords, SameSealing
     DEF Encrypt, Atomic!Encrypt, HasSession, Atomic!HasSession, StoreCurrent,
         Atomic!StoreCurrent
<1> QED
  BY <1>4, SameRecords DEF Atomic!Next

\* The store that ends decryptMessage is the call.
LEMMA StoreOpenedImplements ==
  ASSUME CallsKeep, host = "any", NEW p \in Party, StoreOpened(p)
  PROVE  Atomic!Next
<1>1. /\ CallsTypeOK /\ call'[p] = None /\ call[p] # None
      /\ Untouched(call[p])
      /\ \A q \in Party \ {p} : call'[q] = call[q]
  BY StoreOpenedKept, OthersKept DEF CallsKeep, CallStep
<1>2. PICK m \in network : DecryptMessage(p, m)
  BY StoreOpenedKept
<1>3. UNCHANGED <<preKeys, kyberUsed>>
  BY DEF StoreOpened
<1>4. AtomicPreKeys' = AtomicPreKeys /\ AtomicKyberUsed' = AtomicKyberUsed
  BY <1>1, <1>3, UntouchedSame
<1>5. Atomic!DecryptMessage(p, m)
  BY <1>2, <1>4, SameRecords, SameOpening
     DEF DecryptMessage, Atomic!DecryptMessage, HasSession, Atomic!HasSession,
         StoreCurrent, Atomic!StoreCurrent, RecordOpening, Atomic!RecordOpening
<1> QED
  BY <1>2, <1>5, SameRecords DEF Atomic!Next

\* So is the end of decryptPreKeyMessage on the session that was loaded.
LEMMA ReturnPlaintextImplements ==
  ASSUME CallsKeep, host = "any", NEW p \in Party, ReturnPlaintext(p)
  PROVE  Atomic!Next
<1>1. /\ CallsTypeOK /\ call'[p] = None /\ call[p] # None
      /\ Untouched(call[p])
      /\ \A q \in Party \ {p} : call'[q] = call[q]
  BY ReturnPlaintextKept, OthersKept DEF CallsKeep, CallStep
<1>2. PICK m \in network : DecryptInSession(p, m)
  BY ReturnPlaintextKept
<1>3. UNCHANGED <<preKeys, kyberUsed>>
  BY DEF ReturnPlaintext
<1>4. AtomicPreKeys' = AtomicPreKeys /\ AtomicKyberUsed' = AtomicKyberUsed
  BY <1>1, <1>3, UntouchedSame
<1>5. Atomic!DecryptInSession(p, m)
  BY <1>2, <1>4, SameRecords, SameOpening
     DEF DecryptInSession, Atomic!DecryptInSession, IsCurrent,
         Atomic!IsCurrent, HasSession, Atomic!HasSession, RecordOpening,
         Atomic!RecordOpening
<1> QED
  BY <1>2, <1>5, SameRecords DEF Atomic!Next

\* The store of a new session is the call: what it gave up on its way is gone
\* at the same moment.
LEMMA StoreEstablishedImplements ==
  ASSUME CallsKeep, host = "any", NEW p \in Party, StoreEstablished(p)
  PROVE  Atomic!Next
<1>1. /\ CallsTypeOK /\ SignedPreKeys /\ call'[p] = None /\ p \in identities
      /\ \A q \in Party \ {p} : call'[q] = call[q]
  BY StoreEstablishedKept, OthersKept DEF CallsKeep, CallStep
<1>2. PICK c \in Call, m \in network :
        /\ call[p] = c /\ c # None /\ c.message = m
        /\ Loaded(p, c) /\ ~OfLoaded(c) /\ Received(p, c, "pre_key")
        /\ Spent(p, c)
        /\ IF UsesKyber(p, m) THEN p \in kyberUsed ELSE ~c.marked
        /\ nextKey <= MaxKey
        /\ Opens(ResponderState(p, m), m, nextKey)
        /\ session' = [session EXCEPT ![p] = PromoteState(@,
                          AfterOpen(ResponderState(p, m), m, nextKey))]
        /\ nextKey' = nextKey + 1
        /\ RecordOpening(p, m)
        /\ UNCHANGED <<preKeys, kyberUsed, identities, sent, network, host>>
  BY StoreEstablishedKept
<1>3. /\ m.hs.opk \in AtomicPreKeys[p] \union {None}
      /\ AtomicPreKeys' = [AtomicPreKeys EXCEPT ![p] = @ \ {m.hs.opk}]
      /\ AtomicKyberUsed' =
           IF c.marked /\ p \in kyberUsed THEN AtomicKyberUsed \union {p}
           ELSE AtomicKyberUsed
  BY <1>1, <1>2, SpentAtEnd
<1>4. Atomic!Establishing(p, m)
  BY <1>1, <1>2, <1>3, EstablishingSame
<1>5. Atomic!ConsumePreKey(p, m)
  BY <1>3 DEF Atomic!ConsumePreKey
<1>6. Atomic!MarkKyberPreKeyUsed(p, m)
  <2>1. CASE UsesKyber(p, m)
    <3>1. ~c.marked => p \in AtomicKyberUsed
      BY <1>2, <2>1 DEF AtomicKyberUsed, Marked
    <3> QED
      BY <1>2, <1>3, <2>1, <3>1 DEF Atomic!MarkKyberPreKeyUsed, UsesKyber
  <2>2. CASE ~UsesKyber(p, m)
    BY <1>2, <1>3, <2>2 DEF Atomic!MarkKyberPreKeyUsed, UsesKyber
  <2> QED
    BY <2>1, <2>2
<1>7. Atomic!RecordOpening(p, m) /\ identities' = identities \union {p}
  BY <1>1, <1>2 DEF RecordOpening, Atomic!RecordOpening
<1>8. /\ Atomic!Opens(Atomic!ResponderState(p, m), m, nextKey)
      /\ session' = [session EXCEPT ![p] = Atomic!PromoteState(@,
           Atomic!AfterOpen(Atomic!ResponderState(p, m), m, nextKey))]
  BY <1>2, SameOpening, SameRecords
<1>9. Atomic!EstablishSession(p, m)
  BY <1>2, <1>4, <1>5, <1>6, <1>7, <1>8 DEF Atomic!EstablishSession
<1> QED
  BY <1>2, <1>9, SameRecords DEF Atomic!Next

\* Archiving a session is one step in both.
LEMMA ArchiveImplements ==
  ASSUME CallsTypeOK, NEW p \in Party, Archive(p)
  PROVE  Atomic!Next
<1>1. ArchiveCurrentState(p) /\ UNCHANGED callVars /\ UNCHANGED <<preKeys, kyberUsed>>
  BY DEF Archive, ArchiveCurrentState
<1>2. AtomicPreKeys' = AtomicPreKeys /\ AtomicKyberUsed' = AtomicKyberUsed
  BY <1>1 DEF callVars, AtomicPreKeys, AtomicKyberUsed, Removed, Marked, Idle
<1>3. Atomic!ArchiveCurrentState(p)
  BY <1>1, <1>2, SameRecords
     DEF ArchiveCurrentState, Atomic!ArchiveCurrentState, HasSession,
         Atomic!HasSession
<1> QED
  BY <1>3, SameRecords DEF Atomic!Next

\* Any step of a host that keeps its stores.
LEMMA StepImplements ==
  ASSUME CallsInv, host = "any", NextHosts
  PROVE  Atomic!Next \/ UNCHANGED Atomic!vars
<1>1. CallsKeep /\ CallsTypeOK
  BY DEF CallsInv, CallsKeep
<1>2. PICK p \in Party : AnyCall(p) \/ CallStep(p)
  BY DEF NextHosts, AnyStep, ExampleStep
<1>3. CASE CallStep(p)
  <2>1. CASE QuietStep(p)
    BY <1>1, <2>1, QuietImplements
  <2>2. CASE save_identity(p)
    BY <1>1, <2>2, SaveIdentityImplements
  <2>3. CASE remove_pre_key(p)
    BY <1>1, <2>3, RemovePreKeyImplements
  <2>4. CASE mark_kyber_pre_key_used(p)
    BY <1>1, <2>4, MarkKyberImplements
  <2>5. CASE StoreInitiated(p)
    BY <1>1, <2>5, StoreInitiatedImplements
  <2>6. CASE StoreSealed(p)
    BY <1>1, <2>6, StoreSealedImplements
  <2>7. CASE StoreOpened(p)
    BY <1>1, <2>7, StoreOpenedImplements
  <2>8. CASE StoreEstablished(p)
    BY <1>1, <2>8, StoreEstablishedImplements
  <2>9. CASE ReturnPlaintext(p)
    BY <1>1, <2>9, ReturnPlaintextImplements
  <2> QED
    BY <1>3, <2>1, <2>2, <2>3, <2>4, <2>5, <2>6, <2>7, <2>8, <2>9
       DEF CallStep, QuietStep
<1>4. CASE Archive(p)
  BY <1>1, <1>4, ArchiveImplements
<1>5. CASE AnyCall(p) /\ ~Archive(p)
  <2>1. Quiet(p) /\ call[p] = None /\ call'[p] # None /\ Untouched(call'[p])
    BY <1>1, <1>5, AnyCallBegins
  <2> QED
    BY <1>1, <2>1, BeginImplements
<1> QED
  BY <1>2, <1>3, <1>4, <1>5

\* Before the first call nothing has been given up.
LEMMA InitImplements ==
  ASSUME InitHosts, host = "any"
  PROVE  Atomic!Init
<1>1. Init /\ call = NoCall
  BY DEF InitHosts, InitCalls
<1>2. \A p \in Party : Removed(p) = {} /\ ~Marked(p)
  BY <1>1 DEF Removed, Marked, Idle, NoCall
<1>3. AtomicPreKeys = [p \in Party |-> OneTimeKeys]
  BY <1>1, <1>2 DEF AtomicPreKeys, Init
<1>4. AtomicKyberUsed = {}
  BY <1>1 DEF AtomicKyberUsed, Init
<1> QED
  BY <1>1, <1>3, <1>4, SameRecords DEF Init, Atomic!Init

\* The calls of a host that keeps its stores implement Session: wherever a
\* callback fails or the process dies, and whatever the peer's calls do
\* meanwhile, a call is one step of Session or nothing.
THEOREM CallsImplementSession == SpecHosts => SessionImplemented
<1>1. InitHosts => (host = "any" => Atomic!Init)
  BY InitImplements
<1>2. CallsInv /\ [NextHosts]_exampleVars
        => [host = "any" => Atomic!Next]_(Atomic!vars)
  <2> SUFFICES ASSUME CallsInv, [NextHosts]_exampleVars, host = "any"
               PROVE  Atomic!Next \/ UNCHANGED Atomic!vars
    OBVIOUS
  <2>1. CASE NextHosts
    BY <2>1, StepImplements
  <2>2. CASE UNCHANGED exampleVars
    BY <2>2 DEF exampleVars, Atomic!vars, AtomicPreKeys, AtomicKyberUsed,
                Removed, Marked, Idle
  <2> QED
    BY <2>1, <2>2
<1> QED
  BY <1>1, <1>2, CallsInvCorrect, PTL DEF SpecHosts, SessionImplemented

=============================================================================
