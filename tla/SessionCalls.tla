---------------------------- MODULE SessionCalls ----------------------------
(***************************************************************************)
(* Session seen from the C interface: every call of the library is a       *)
(* sequence of store callbacks of the host, and each callback may fail,    *)
(* answer differently from what the caller hopes, or be the last thing the *)
(* process does. Calls of the two parties interleave; a party's host makes *)
(* one call at a time. Session, where a call is one step, is the abstract  *)
(* specification that this module implements.                              *)
(*                                                                         *)
(* host says whose callbacks run: "any" is a host that keeps its stores as *)
(* the interface asks, "c" and "cpp" are the examples, whose callbacks     *)
(* never fail, trust everyone and ignore remove_pre_key and                *)
(* mark_kyber_pre_key_used.                                                *)
(***************************************************************************)
EXTENDS Session

CONSTANT Hosts          \* the hosts that are looked at

ASSUME HostAssumption == Hosts \subseteq {"any", "c", "cpp"}

VARIABLES
    host,
    call,       \* the call each party is in, None between calls
    outcome,    \* how its last call ended: "ok", the error, "none" at first
    freed       \* how often that call freed the session state it made

callVars == <<host, call, outcome, freed>>

allVars == <<session, preKeys, kyberUsed, identities, nextKey, sent, network,
             opened, reopened, host, call, outcome, freed>>

\* The callback fields of the store structs that the session calls use.
Callback ==
    {"load_session", "store_session",
     "get_identity_key_pair", "get_local_registration_id", "save_identity",
     "is_trusted_identity", "load_pre_key", "remove_pre_key",
     "load_signed_pre_key", "load_kyber_pre_key", "mark_kyber_pre_key_used"}

Operation ==
    {"process_prekey_bundle", "encrypt_message", "decrypt_message",
     "decrypt_pre_key_message"}

\* The SignalError of each way a call ends; a failed callback and everything
\* unforeseen is StoreCallbackFailed.
Result ==
    {"ok", "SessionNotFound", "InvalidSession", "UntrustedIdentity",
     "InvalidMessage", "StoreCallbackFailed"}

\* todo are the callbacks still to come, record is what load_session gave,
\* owners are the variables that will free the session state made by the
\* call; removed and marked are what it took from the pre-key stores.
Call ==
    [op : Operation, todo : Seq(Callback), message : Message \union {None},
     bundle : Bundle \union {None}, record : SessionRecord \union {None},
     owners : SUBSET {"builder", "record"},
     removed : SUBSET OneTimeKeys, marked : BOOLEAN]

ASSUME CallAssumption == None \notin Call

NoCall == [p \in Party |-> None]

InitCalls ==
    /\ host \in Hosts
    /\ call = NoCall
    /\ outcome = [p \in Party |-> "none"]
    /\ freed = [p \in Party |-> 0]

-----------------------------------------------------------------------------
(* The callbacks of each call, in order *)

Optional(condition, callback) == IF condition THEN <<callback>> ELSE <<>>

Callbacks(op) ==
    CASE op = "process_prekey_bundle" ->
           <<"is_trusted_identity", "get_identity_key_pair",
             "get_local_registration_id", "save_identity", "load_session",
             "store_session">>
      [] op = "decrypt_pre_key_message" ->
           <<"load_session", "is_trusted_identity">>
      [] OTHER ->
           <<"load_session", "get_identity_key_pair", "store_session">>

UsesKyber(p, m) == m.hs.kem /\ p \in KyberStores

\* Faulty variant: the pre-keys are given up once the session is stored.
NewSessionCallbacksStoreFirst(p, m) ==
    <<"get_identity_key_pair", "load_signed_pre_key">>
      \o Optional(m.hs.opk # None, "load_pre_key")
      \o Optional(UsesKyber(p, m), "load_kyber_pre_key")
      \o <<"get_local_registration_id", "save_identity", "store_session">>

\* decryptPreKeyMessage goes on like this when the message is not of the
\* session it has loaded.
NewSessionCallbacks(p, m) ==
    <<"get_identity_key_pair", "load_signed_pre_key">>
      \o Optional(m.hs.opk # None, "load_pre_key")
      \o Optional(UsesKyber(p, m), "load_kyber_pre_key")
      \o <<"get_local_registration_id", "save_identity">>
      \o Optional(m.hs.opk # None, "remove_pre_key")
      \o Optional(UsesKyber(p, m), "mark_kyber_pre_key_used")
      \o <<"store_session">>

Idle(p) == call[p] = None

Begin(p, op, m, b) ==
    /\ Idle(p)
    /\ call' = [call EXCEPT ![p] =
           [op |-> op, todo |-> Callbacks(op), message |-> m, bundle |-> b,
            record |-> None, owners |-> {}, removed |-> {}, marked |-> FALSE]]
    /\ outcome' = [outcome EXCEPT ![p] = "none"]
    /\ freed' = [freed EXCEPT ![p] = 0]
    /\ UNCHANGED <<vars, host>>

signal_process_prekey_bundle(p) ==
    \E b \in Bundles : Begin(p, "process_prekey_bundle", None, b)

signal_encrypt_message(p) == Begin(p, "encrypt_message", None, None)

signal_decrypt_message(p, m) ==
    /\ m.from = Peer(p) /\ m.kind = "whisper"
    /\ Begin(p, "decrypt_message", m, None)

signal_decrypt_pre_key_message(p, m) ==
    /\ m.from = Peer(p) /\ m.kind = "pre_key"
    /\ Begin(p, "decrypt_pre_key_message", m, None)

-----------------------------------------------------------------------------
(* The session state a call makes, and who frees it *)

\* processPreKeyBundle: promoteState takes the state into the record, and the
\* errdefer of the builder stays.
PromoteInBuilder(owners) == owners \union {"record"}

\* decryptPreKeyMessage: new_state_owned is cleared.
PromoteInCipher(owners) == {"record"}

\* SessionState.init comes before get_local_registration_id, promoteState
\* before store_session.
OwnersBefore(c, callback) ==
    CASE callback = "get_local_registration_id" -> {"builder"}
      [] callback = "store_session" /\ c.op = "process_prekey_bundle" ->
            PromoteInBuilder(c.owners)
      [] callback = "store_session" /\ c.op = "decrypt_pre_key_message" ->
            PromoteInCipher(c.owners)
      [] OTHER -> c.owners

At(p, callback) ==
    /\ ~Idle(p)
    /\ call[p].todo # <<>>
    /\ Head(call[p].todo) = callback

GoOn(p, c) ==
    LET todo == Tail(c.todo)
    IN  /\ call' = [call EXCEPT ![p] = [c EXCEPT
               !.todo = todo,
               !.owners = IF todo = <<>> THEN @
                          ELSE OwnersBefore(c, Head(todo))]]
        /\ UNCHANGED <<outcome, freed>>

\* The builder's errdefer frees only when the call fails, the record always.
Return(p, result) ==
    /\ call' = [call EXCEPT ![p] = None]
    /\ outcome' = [outcome EXCEPT ![p] = result]
    /\ freed' = [freed EXCEPT ![p] = Cardinality(
           IF result = "ok" THEN call[p].owners \ {"builder"}
           ELSE call[p].owners)]

-----------------------------------------------------------------------------
(* Callbacks that read *)

\* encrypt and decryptMessage need a session, the others make a new record.
load_session(p) ==
    /\ At(p, "load_session")
    /\ IF call[p].op \in {"encrypt_message", "decrypt_message"} /\ ~HasSession(p)
       THEN Return(p, IF session[p] = NewRecord THEN "SessionNotFound"
                      ELSE "InvalidSession")
       ELSE GoOn(p, [call[p] EXCEPT !.record = session[p]])
    /\ UNCHANGED <<vars, host>>

\* The message is of the session that was loaded.
OfLoaded(c) ==
    /\ c.record.current # None
    /\ c.record.current.hs.base = c.message.hs.base

Trusted(p) ==
    LET c == call[p]
    IN  IF c.op # "decrypt_pre_key_message" THEN GoOn(p, c)
        ELSE GoOn(p, [c EXCEPT !.todo = @ \o
                 (IF OfLoaded(c) THEN <<"get_identity_key_pair">>
                  ELSE NewSessionCallbacks(p, c.message))])

is_trusted_identity(p) ==
    /\ At(p, "is_trusted_identity")
    /\ \/ Trusted(p)
       \/ host = "any" /\ Return(p, "UntrustedIdentity")
    /\ UNCHANGED <<vars, host>>

\* The signed and the Kyber pre-key are always there.
ReadOnly == {"get_identity_key_pair", "get_local_registration_id",
             "load_signed_pre_key", "load_kyber_pre_key"}

read_only(p) ==
    /\ \E callback \in ReadOnly : At(p, callback)
    /\ GoOn(p, call[p])
    /\ UNCHANGED <<vars, host>>

load_pre_key(p) ==
    /\ At(p, "load_pre_key")
    /\ IF call[p].message.hs.opk \in preKeys[p] THEN GoOn(p, call[p])
       ELSE Return(p, "StoreCallbackFailed")
    /\ UNCHANGED <<vars, host>>

\* A callback that fails; a process that dies there leaves the same stores.
Fail(p) ==
    /\ host = "any"
    /\ ~Idle(p) /\ call[p].todo # <<>>
    /\ Return(p, "StoreCallbackFailed")
    /\ UNCHANGED <<vars, host>>

-----------------------------------------------------------------------------
(* Callbacks that write *)

save_identity(p) ==
    /\ At(p, "save_identity")
    /\ identities' = identities \union {p}
    /\ GoOn(p, call[p])
    /\ UNCHANGED <<session, preKeys, kyberUsed, nextKey, sent, network, opened,
                   reopened, host>>

remove_pre_key(p) ==
    LET gone == IF host = "any" THEN {call[p].message.hs.opk} \intersect preKeys[p]
                ELSE {}
    IN  /\ At(p, "remove_pre_key")
        /\ preKeys' = [preKeys EXCEPT ![p] = @ \ gone]
        /\ GoOn(p, [call[p] EXCEPT !.removed = gone])
        /\ UNCHANGED <<session, kyberUsed, identities, nextKey, sent, network,
                       opened, reopened, host>>

mark_kyber_pre_key_used(p) ==
    LET marks == host = "any" /\ p \notin kyberUsed
    IN  /\ At(p, "mark_kyber_pre_key_used")
        /\ kyberUsed' = IF marks THEN kyberUsed \union {p} ELSE kyberUsed
        /\ GoOn(p, [call[p] EXCEPT !.marked = marks])
        /\ UNCHANGED <<session, preKeys, identities, nextKey, sent, network,
                       opened, reopened, host>>

Stored(p, record) == session' = [session EXCEPT ![p] = record]

\* The bundle's session goes in front of the record that was loaded.
StoreInitiated(p) ==
    LET b  == call[p].bundle
        hs == [base |-> nextKey, spk |-> SignedPreKey(Peer(p)),
               opk |-> b.opk, kem |-> b.kem]
    IN  /\ At(p, "store_session") /\ call[p].op = "process_prekey_bundle"
        /\ nextKey + 1 <= MaxKey
        /\ Stored(p, PromoteState(call[p].record,
                                  InitiatorState(hs, nextKey + 1)))
        /\ nextKey' = nextKey + 2
        /\ Return(p, "ok")
        /\ UNCHANGED <<preKeys, kyberUsed, identities, sent, network, opened,
                       reopened, host>>

\* Faulty variant: the state is taken for the record.
WithCurrentOnly(record, st) == Serialize(st)

WithCurrent(record, st) == [record EXCEPT !.current = Serialize(st)]

\* The caller gets the message once the advanced chain is stored.
StoreSealed(p) ==
    LET st == call[p].record.current
    IN  /\ At(p, "store_session") /\ call[p].op = "encrypt_message"
        /\ sent < MaxSent
        /\ Stored(p, WithCurrent(call[p].record, AfterSealing(st)))
        /\ network' = network \union {Sealed(p, st, sent)}
        /\ sent' = sent + 1
        /\ Return(p, "ok")
        /\ UNCHANGED <<preKeys, kyberUsed, identities, nextKey, opened,
                       reopened, host>>

StoreOpened(p) ==
    LET st == call[p].record.current
        m  == call[p].message
    IN  /\ At(p, "store_session") /\ call[p].op = "decrypt_message"
        /\ nextKey + KeysDrawn(st, m) <= MaxKey + 1
        /\ Opens(st, m, nextKey)
        /\ Stored(p, WithCurrent(call[p].record, AfterOpen(st, m, nextKey)))
        /\ nextKey' = nextKey + KeysDrawn(st, m)
        /\ RecordOpening(p, m)
        /\ Return(p, "ok")
        /\ UNCHANGED <<preKeys, kyberUsed, identities, sent, network, host>>

StoreEstablished(p) ==
    LET m  == call[p].message
        st == ResponderState(p, m)
    IN  /\ At(p, "store_session") /\ call[p].op = "decrypt_pre_key_message"
        /\ nextKey <= MaxKey
        /\ Opens(st, m, nextKey)
        /\ Stored(p, PromoteState(call[p].record, AfterOpen(st, m, nextKey)))
        /\ nextKey' = nextKey + 1
        /\ RecordOpening(p, m)
        /\ Return(p, "ok")
        /\ UNCHANGED <<preKeys, kyberUsed, identities, sent, network, host>>

\* A pre_key message of the session that was loaded: nothing is stored.
ReturnPlaintext(p) ==
    /\ ~Idle(p) /\ call[p].todo = <<>>
    /\ Opens(call[p].record.current, call[p].message, nextKey)
    /\ RecordOpening(p, call[p].message)
    /\ Return(p, "ok")
    /\ UNCHANGED <<session, preKeys, kyberUsed, identities, nextKey, sent,
                   network, host>>

Decrypting(p) ==
    /\ ~Idle(p) /\ call[p].message # None
    /\ call[p].todo \in {<<>>, <<"store_session">>}

StateTried(p) ==
    IF call[p].todo # <<>> /\ call[p].op = "decrypt_pre_key_message"
    THEN ResponderState(p, call[p].message)
    ELSE call[p].record.current

\* The message does not open, or was damaged on its way here.
Reject(p) ==
    /\ Decrypting(p)
    /\ host = "any" \/ ~Opens(StateTried(p), call[p].message, nextKey)
    /\ Return(p, "InvalidMessage")
    /\ UNCHANGED <<vars, host>>

CallStep(p) ==
    \/ load_session(p) \/ is_trusted_identity(p) \/ read_only(p)
    \/ load_pre_key(p) \/ Fail(p)
    \/ save_identity(p) \/ remove_pre_key(p) \/ mark_kyber_pre_key_used(p)
    \/ StoreInitiated(p) \/ StoreSealed(p) \/ StoreOpened(p)
    \/ StoreEstablished(p) \/ ReturnPlaintext(p) \/ Reject(p)

\* Between two calls the host may archive the session.
Archive(p) ==
    /\ Idle(p)
    /\ ArchiveCurrentState(p)
    /\ UNCHANGED callVars

\* A host with no fixed order of calls.
AnyCall(p) ==
    \/ signal_process_prekey_bundle(p)
    \/ signal_encrypt_message(p)
    \/ \E m \in network :
          signal_decrypt_message(p, m) \/ signal_decrypt_pre_key_message(p, m)
    \/ Archive(p)

-----------------------------------------------------------------------------
(* Properties *)

\* Type invariant of the calls.
CallsTypeOK ==
    /\ TypeOK
    /\ host \in Hosts
    /\ call \in [Party -> Call \union {None}]
    /\ outcome \in [Party -> Result \union {"none"}]
    /\ freed \in [Party -> 0 .. 2]

\* What a call in progress took from the pre-key stores counts when it ends.
Removed(p) == IF Idle(p) THEN {} ELSE call[p].removed

Marked(p) == ~Idle(p) /\ call[p].marked

AtomicPreKeys == [p \in Party |-> preKeys[p] \union Removed(p)]

AtomicKyberUsed == {p \in kyberUsed : ~Marked(p)}

Atomic == INSTANCE Session WITH
    preKeys   <- AtomicPreKeys,
    kyberUsed <- AtomicKyberUsed

\* A call is one step of Session, or one of its Abandon steps, wherever it
\* fails or the process dies and whatever the peer's calls do meanwhile: so
\* what holds of Session holds of the calls of a host that keeps its stores.
SessionImplemented ==
    /\ host = "any" => Atomic!Init
    /\ [][host = "any" => Atomic!Next]_(Atomic!vars)

\* The session state that a call makes is freed once. The comment in
\* session_cipher.zig says why: "record now owns new_state; don't double-free".
StateFreedOnce == \A p \in Party : freed[p] <= 1

=============================================================================
