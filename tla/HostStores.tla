----------------------------- MODULE HostStores -----------------------------
(***************************************************************************)
(* One store of the C example host: kv_t, an array of rows that own their  *)
(* bytes, behind the callbacks of examples/c/main.c. Every malloc, free    *)
(* and handle of a callback is here, so that the memory contract of        *)
(* include/signal_ffi.h can be checked; seen from outside the store is the *)
(* map of MapStores, whatever blocks the allocator hands out again.        *)
(***************************************************************************)
EXTENDS Naturals, Sequences, FiniteSets

CONSTANTS
    Ids, Records, None, Error, Done,    \* as in MapStores
    KeyPair,            \* what a handle of the identity key pair contains
    Blocks,             \* bound: the addresses the allocator hands out
    KvMax,              \* KV_MAX, the rows of a store
    MaxLost             \* bound: blocks leaked

\* The callback that runs: the last step done, and what it is about.
Frame == [at : {"copied", "loaded", "given", "serialized", "put", "private"},
          id : Ids \union {None}, record : Records \union {None}]

ASSUME AnswerAssumption ==
    /\ {None, Error, Done} \cap (Records \union {KeyPair}) = {}
    /\ KeyPair \notin Records
    /\ None \notin Ids \union Blocks \union Frame

ASSUME BoundAssumption == KvMax \in Nat \ {0} /\ MaxLost \in Nat

\* What a callback and the bridge behind it may hold at a time: the bytes
\* copied out of a row, the handle made from them, the buffer a record was
\* serialized into, the handle of the identity's private key.
Holder == {"copy", "handle", "buffer", "private"}

Row == [key : Ids, data : Blocks]

VARIABLES
    kind,       \* which of the six stores this is
    rows,       \* kv_t: the rows in use
    bytes,      \* the heap: what each block contains, None when it is free
    held,       \* the block each holder points to
    lost,       \* blocks that nobody will free
    frame,      \* the callback that runs
    answer,     \* what the last callback gave the library
    dead        \* the process called abort

vars == <<kind, rows, bytes, held, lost, frame, answer, dead>>

NoneHeld == [h \in Holder |-> None]

Init ==
    /\ kind \in {"session", "identity", "pre_key", "signed_pre_key",
                 "kyber_pre_key", "sender_key"}
    /\ rows = <<>>
    /\ bytes = [b \in Blocks |-> None]
    /\ held = NoneHeld
    /\ lost = {}
    /\ frame = None
    /\ answer = Done
    /\ dead = FALSE

Live == {b \in Blocks : bytes[b] # None}

Malloc(b, content) == bytes[b] = None /\ bytes' = [bytes EXCEPT ![b] = content]

Free(b) == bytes' = [bytes EXCEPT ![b] = None]

\* free and malloc in one step: the allocator may hand out the same block.
FreeThenMalloc(old, new, content) ==
    /\ new = old \/ bytes[new] = None
    /\ bytes' = [bytes EXCEPT ![old] = None, ![new] = content]

Hold(h, b) == held' = [held EXCEPT ![h] = b]

Release(h) == Hold(h, None)

Enter(at, id, record) ==
    frame' = [at |-> at, id |-> id, record |-> record]

Become(step) == frame' = [frame EXCEPT !.at = step]

Return(a) == frame' = None /\ answer' = a

At(step) == ~dead /\ frame # None /\ frame.at = step

Entered(k) == ~dead /\ frame = None /\ kind = k

\* The first row with the key; strcmp compares the whole key.
RowsOf(id) == {i \in DOMAIN rows : rows[i].key = id}

RowOf(id) == CHOOSE i \in RowsOf(id) : \A j \in RowsOf(id) : i <= j

-----------------------------------------------------------------------------
(* Loading *)

\* Without a row the callback leaves the handle NULL.
Missing ==
    Return(IF kind \in {"pre_key", "signed_pre_key", "kyber_pre_key"}
           THEN Error ELSE None)

\* Faulty variant: the row's own bytes are handed out.
kv_getShared(id) ==
    LET data == rows[RowOf(id)].data
    IN  IF RowsOf(id) = {}
        THEN Missing /\ UNCHANGED <<bytes, held>>
        ELSE /\ Enter("copied", id, bytes[data])
             /\ Hold("copy", data)
             /\ UNCHANGED <<bytes, answer>>

kv_get(id) ==
    IF RowsOf(id) = {}
    THEN Missing /\ UNCHANGED <<bytes, held>>
    ELSE \E b \in Blocks :
            LET content == bytes[rows[RowOf(id)].data]
            IN  /\ Malloc(b, content)
                /\ Hold("copy", b)
                /\ Enter("copied", id, content)
                /\ UNCHANGED answer

Load(k, id) ==
    /\ Entered(k)
    /\ kv_get(id)
    /\ UNCHANGED <<kind, rows, lost, dead>>

sess_load(id) == Load("session", id)
id_get(id)    == Load("identity", id)
pk_load(id)   == Load("pre_key", id)
spk_load(id)  == Load("signed_pre_key", id)
kpk_load(id)  == Load("kyber_pre_key", id)
sk_load_fn(id) == Load("sender_key", id)

\* The library reads the copy and makes a handle or reports an error; the
\* callback frees the copy in both cases.
Deserialize ==
    /\ At("copied")
    /\ \/ \E b \in Blocks :
             /\ b # held["copy"] /\ bytes[b] = None
             /\ bytes' = [bytes EXCEPT ![b] = bytes[held["copy"]],
                                       ![held["copy"]] = None]
             /\ held' = [held EXCEPT !["handle"] = b, !["copy"] = None]
             /\ Become("loaded")
             /\ UNCHANGED answer
       \/ Free(held["copy"]) /\ Release("copy") /\ Return(Error)
    /\ UNCHANGED <<kind, rows, lost, dead>>

\* The bridge copies the record out of the handle and destroys the handle.
TakeRecord ==
    /\ At("loaded")
    /\ Return(bytes[held["handle"]])
    /\ Free(held["handle"])
    /\ Release("handle")
    /\ UNCHANGED <<kind, rows, lost, dead>>

-----------------------------------------------------------------------------
(* Storing *)

Store(k, id, record) ==
    /\ Entered(k)
    /\ Enter("given", id, record)
    /\ UNCHANGED <<kind, rows, bytes, held, lost, answer, dead>>

sess_store_fn(id, r) == Store("session", id, r)
id_save(id, r)       == Store("identity", id, r)
pk_store_fn(id, r)   == Store("pre_key", id, r)
spk_store_fn(id, r)  == Store("signed_pre_key", id, r)
kpk_store_fn(id, r)  == Store("kyber_pre_key", id, r)
sk_store_fn(id, r)   == Store("sender_key", id, r)

Serialize ==
    /\ At("given")
    /\ \/ \E b \in Blocks :
             /\ Malloc(b, frame.record)
             /\ Hold("buffer", b)
             /\ Become("serialized")
             /\ UNCHANGED answer
       \/ Return(Error) /\ UNCHANGED <<bytes, held>>
    /\ UNCHANGED <<kind, rows, lost, dead>>

\* signal_free_buffer, then the callback returns.
FreeBuffer ==
    /\ At("put")
    /\ Free(held["buffer"])
    /\ Release("buffer")
    /\ Return(Done)
    /\ UNCHANGED <<kind, rows, lost, dead>>

\* Faulty variant: the bytes of the replaced row are not freed.
kv_replaceLeaking(id, b, content) ==
    /\ Malloc(b, content)
    /\ rows' = [rows EXCEPT ![RowOf(id)].data = b]

kv_replace(id, b, content) ==
    /\ FreeThenMalloc(rows[RowOf(id)].data, b, content)
    /\ rows' = [rows EXCEPT ![RowOf(id)].data = b]

kv_append(id, b, content) ==
    /\ Malloc(b, content)
    /\ rows' = Append(rows, [key |-> id, data |-> b])

\* Faulty variant: the rows are not searched before one is added.
kv_putAppending ==
    /\ At("serialized")
    /\ Len(rows) < KvMax
    /\ \E b \in Blocks : kv_append(frame.id, b, bytes[held["buffer"]])
    /\ Become("put")
    /\ UNCHANGED <<kind, held, lost, answer, dead>>

\* Faulty variant: a full store goes on.
kv_putUnbounded ==
    /\ At("serialized")
    /\ \E b \in Blocks :
         LET content == bytes[held["buffer"]]
         IN  IF RowsOf(frame.id) # {} THEN kv_replace(frame.id, b, content)
             ELSE kv_append(frame.id, b, content)
    /\ Become("put")
    /\ UNCHANGED <<kind, held, lost, answer, dead>>

kv_put ==
    /\ At("serialized")
    /\ RowsOf(frame.id) # {} \/ Len(rows) < KvMax
    /\ \E b \in Blocks :
         LET content == bytes[held["buffer"]]
         IN  IF RowsOf(frame.id) # {} THEN kv_replace(frame.id, b, content)
             ELSE kv_append(frame.id, b, content)
    /\ Become("put")
    /\ UNCHANGED <<kind, held, lost, answer, dead>>

\* A store that is full ends the process.
kv_put_full ==
    /\ At("serialized")
    /\ RowsOf(frame.id) = {} /\ Len(rows) >= KvMax
    /\ dead' = TRUE
    /\ UNCHANGED <<kind, rows, bytes, held, lost, frame, answer>>

\* Both callbacks ignore their argument.
pk_remove(id) ==
    /\ Entered("pre_key")
    /\ answer' = Done
    /\ UNCHANGED <<kind, rows, bytes, held, lost, frame, dead>>

kpk_mark_used(id) ==
    /\ Entered("kyber_pre_key")
    /\ answer' = Done
    /\ UNCHANGED <<kind, rows, bytes, held, lost, frame, dead>>
-----------------------------------------------------------------------------
(* The identity key pair *)

id_get_kp ==
    /\ Entered("identity")
    /\ \/ \E b \in Blocks :
             /\ Malloc(b, KeyPair)
             /\ Hold("private", b)
             /\ Enter("private", None, None)
             /\ UNCHANGED answer
       \/ Return(Error) /\ UNCHANGED <<bytes, held>>
    /\ UNCHANGED <<kind, rows, lost, dead>>

\* The bridge destroys both handles, but only if the callback succeeded: when
\* the public key cannot be had, nobody destroys the private key.
GetPublicKey ==
    /\ At("private")
    /\ \/ /\ Return(Done)
          /\ Free(held["private"])
          /\ UNCHANGED lost
       \/ /\ Cardinality(lost) < MaxLost
          /\ Return(Error)
          /\ lost' = lost \union {held["private"]}
          /\ UNCHANGED bytes
    /\ Release("private")
    /\ UNCHANGED <<kind, rows, dead>>

\* At the end of a test.
kv_free ==
    /\ ~dead /\ frame = None
    /\ bytes' = [b \in Blocks |->
                    IF \E i \in DOMAIN rows : rows[i].data = b
                    THEN None ELSE bytes[b]]
    /\ rows' = <<>>
    /\ UNCHANGED <<kind, held, lost, frame, answer, dead>>

Next ==
    \/ \E id \in Ids :
         \/ sess_load(id) \/ id_get(id) \/ pk_load(id)
         \/ spk_load(id) \/ kpk_load(id) \/ sk_load_fn(id)
         \/ pk_remove(id) \/ kpk_mark_used(id)
         \/ \E r \in Records :
              \/ sess_store_fn(id, r) \/ id_save(id, r) \/ pk_store_fn(id, r)
              \/ spk_store_fn(id, r) \/ kpk_store_fn(id, r)
              \/ sk_store_fn(id, r)
    \/ Deserialize \/ TakeRecord
    \/ Serialize \/ kv_put \/ kv_put_full \/ FreeBuffer
    \/ id_get_kp \/ GetPublicKey
    \/ kv_free

Spec == Init /\ [][Next]_vars

-----------------------------------------------------------------------------
(* Properties *)

\* Type invariant of the rows, the heap and the callback that runs.
TypeOK ==
    /\ kind \in {"session", "identity", "pre_key", "signed_pre_key",
                 "kyber_pre_key", "sender_key"}
    /\ rows \in Seq(Row) /\ Len(rows) <= KvMax
    /\ bytes \in [Blocks -> Records \union {KeyPair, None}]
    /\ held \in [Holder -> Blocks \union {None}]
    /\ lost \subseteq Blocks
    /\ frame \in Frame \union {None}
    /\ answer \in Records \union {None, Error, Done}
    /\ dead \in BOOLEAN

HeldBlocks == {held[h] : h \in Holder} \ {None}

RowBlocks == {rows[i].data : i \in DOMAIN rows}

\* The memory contract of include/signal_ffi.h: every live block has exactly
\* one owner, a row or the callback that runs, whichever call failed in
\* between, so nothing is freed twice, used after it was freed or forgotten;
\* but for private keys whose public key could not be computed.
HeapAccounted ==
    /\ Live = RowBlocks \union HeldBlocks \union lost
    /\ \A i, j \in DOMAIN rows : rows[i].data = rows[j].data => i = j
    /\ \A g, h \in Holder : held[g] = held[h] /\ held[g] # None => g = h
    /\ RowBlocks \intersect HeldBlocks = {}
    /\ lost \intersect (RowBlocks \union HeldBlocks) = {}
    /\ lost # {} => kind = "identity"
    /\ frame = None => HeldBlocks = {}

\* A key has one row: kv_put replaces what kv_get would find, so no stale
\* session comes back once the row in front of it is gone.
KeysDistinct ==
    \A i, j \in DOMAIN rows : rows[i].key = rows[j].key => i = j

-----------------------------------------------------------------------------
(* Refinement *)

\* The map: every key with the bytes of its first row.
Contents ==
    [id \in {rows[i].key : i \in DOMAIN rows} |-> bytes[rows[RowOf(id)].data]]

\* A record is stored when it is in the row, although its buffer is freed
\* after that.
Put == frame # None /\ frame.at = "put"

Map == INSTANCE MapStores WITH
    store  <- Contents,
    frame  <- IF Put THEN None ELSE frame,
    answer <- IF Put THEN Done ELSE answer

\* The C host implements the map of the C++ host: it answers every load with
\* the record last stored under the id, whatever was put, replaced, failed or
\* reused in memory meanwhile.
MapStoresImplemented == Map!Spec

=============================================================================
