------------------------------ MODULE MapStores ------------------------------
(***************************************************************************)
(* One store of the C++ example host, a std::map, behind its callbacks, as *)
(* the bridge of ffi/session.zig calls them. kind says which of the six    *)
(* stores it is: their callbacks differ in names, keys and record types    *)
(* and share their shape. There is no memory in this module: it is what a  *)
(* store promises, and HostStores, the C host, is shown to implement it.   *)
(*                                                                         *)
(* A callback runs in steps because the library calls it makes can fail in *)
(* between. Records stand for the record a handle contains, and for its    *)
(* serialized form, which is the same record.                              *)
(***************************************************************************)
CONSTANTS
    Ids,        \* the keys of a store: addresses, pre-key ids, ...
    Records,    \* what is stored under a key
    None,       \* a handle that the callback leaves NULL
    Error,      \* the bridge's StoreCallbackFailed
    Done        \* the answer of a callback that returns nothing

Kinds == {"session", "identity", "pre_key", "signed_pre_key",
          "kyber_pre_key", "sender_key"}

\* For these kinds the bridge takes a missing record for a failed callback.
Required == {"pre_key", "signed_pre_key", "kyber_pre_key"}

VARIABLES
    kind,       \* which store this is
    store,      \* KvStore: a function from the keys present to records
    frame,      \* the callback that runs, None between callbacks
    answer      \* what the last callback gave the library

vars == <<kind, store, frame, answer>>

\* at is the last step done: a copy was made, a handle was made, the bridge
\* handed a record over, it was serialized, the private key was made.
Frame == [at : {"copied", "loaded", "given", "serialized", "private"},
          id : Ids \union {None}, record : Records \union {None}]

NewFrame(at, id, record) == [at |-> at, id |-> id, record |-> record]

Init ==
    /\ kind \in Kinds
    /\ store = [i \in {} |-> None]
    /\ frame = None
    /\ answer = Done

Return(a) == frame' = None /\ answer' = a

At(step) == frame # None /\ frame.at = step

-----------------------------------------------------------------------------
(* Loading: kv_get copies the value, the library deserializes the copy into *)
(* a handle, the callback frees the copy, the bridge destroys the handle.   *)

kv_get(id) ==
    IF id \in DOMAIN store
    THEN frame' = NewFrame("copied", id, store[id]) /\ answer' = answer
    ELSE Return(IF kind \in Required THEN Error ELSE None)

Load(k, id) ==
    /\ kind = k
    /\ frame = None
    /\ kv_get(id)
    /\ UNCHANGED <<kind, store>>

sess_load(id) == Load("session", id)
id_get(id)    == Load("identity", id)
pk_load(id)   == Load("pre_key", id)
spk_load(id)  == Load("signed_pre_key", id)
kpk_load(id)  == Load("kyber_pre_key", id)
sk_load_fn(id)   == Load("sender_key", id)

Deserialize ==
    /\ At("copied")
    /\ \/ frame' = [frame EXCEPT !.at = "loaded"] /\ answer' = answer
       \/ Return(Error)
    /\ UNCHANGED <<kind, store>>

TakeRecord ==
    /\ At("loaded")
    /\ Return(frame.record)
    /\ UNCHANGED <<kind, store>>

-----------------------------------------------------------------------------
(* Storing: the library serializes the record the bridge gave, the callback *)
(* puts the bytes under the key and frees the library's buffer.             *)

Store(k, id, record) ==
    /\ kind = k
    /\ frame = None
    /\ frame' = NewFrame("given", id, record)
    /\ UNCHANGED <<kind, store, answer>>

sess_store_fn(id, r) == Store("session", id, r)
id_save(id, r)    == Store("identity", id, r)
pk_store_fn(id, r)   == Store("pre_key", id, r)
spk_store_fn(id, r)  == Store("signed_pre_key", id, r)
kpk_store_fn(id, r)  == Store("kyber_pre_key", id, r)
sk_store_fn(id, r)   == Store("sender_key", id, r)

Serialize ==
    /\ At("given")
    /\ \/ frame' = [frame EXCEPT !.at = "serialized"] /\ answer' = answer
       \/ Return(Error)
    /\ UNCHANGED <<kind, store>>

kv_put ==
    /\ At("serialized")
    /\ store' = [i \in DOMAIN store \union {frame.id} |->
                    IF i = frame.id THEN frame.record ELSE store[i]]
    /\ Return(Done)
    /\ UNCHANGED kind

\* Both hosts ignore these two: the record stays.
pk_remove(id) ==
    /\ kind = "pre_key"
    /\ frame = None
    /\ answer' = Done
    /\ UNCHANGED <<kind, store, frame>>

kpk_mark_used(id) ==
    /\ kind = "kyber_pre_key"
    /\ frame = None
    /\ answer' = Done
    /\ UNCHANGED <<kind, store, frame>>

-----------------------------------------------------------------------------
(* The key pair is not in the map: the private key is deserialized from the *)
(* host's bytes and the public key computed from it.                        *)

id_get_kp ==
    /\ kind = "identity"
    /\ frame = None
    /\ \/ frame' = NewFrame("private", None, None) /\ answer' = answer
       \/ Return(Error)
    /\ UNCHANGED <<kind, store>>

GetPublicKey ==
    /\ At("private")
    /\ Return(Done) \/ Return(Error)
    /\ UNCHANGED <<kind, store>>

\* The store goes out of scope at the end of a test.
Clear ==
    /\ frame = None
    /\ store' = [i \in {} |-> None]
    /\ UNCHANGED <<kind, frame, answer>>

Next ==
    \/ \E id \in Ids :
         \/ sess_load(id) \/ id_get(id) \/ pk_load(id)
         \/ spk_load(id) \/ kpk_load(id) \/ sk_load_fn(id)
         \/ pk_remove(id) \/ kpk_mark_used(id)
         \/ \E r \in Records :
              \/ sess_store_fn(id, r) \/ id_save(id, r) \/ pk_store_fn(id, r)
              \/ spk_store_fn(id, r) \/ kpk_store_fn(id, r) \/ sk_store_fn(id, r)
    \/ Deserialize \/ TakeRecord \/ Serialize \/ kv_put
    \/ id_get_kp \/ GetPublicKey
    \/ Clear

Spec == Init /\ [][Next]_vars

=============================================================================
