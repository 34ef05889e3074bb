-------------------------- MODULE HostStoresProofs --------------------------
(***************************************************************************)
(* Theorems about HostStores, for every set of keys, records and blocks:   *)
(* its types, the accounting of its heap, that a key has one row, and that *)
(* it implements MapStores.                                                *)
(***************************************************************************)
EXTENDS HostStores, SequenceTheorems, TLAPS

-----------------------------------------------------------------------------
(* The inductive invariant *)

\* What the callback that runs holds: one block at most, of the record it is
\* about; between callbacks nothing is held.
HolderOf(at) ==
    CASE at = "copied" -> "copy"
      [] at = "loaded" -> "handle"
      [] at \in {"serialized", "put"} -> "buffer"
      [] at = "private" -> "private"
      [] OTHER -> "none"

FrameHolds ==
    /\ \A h \in Holder : held[h] # None <=> frame # None /\ h = HolderOf(frame.at)
    /\ frame # None =>
          IF frame.at = "private" THEN kind = "identity"
          ELSE /\ frame.id \in Ids /\ frame.record \in Records
               /\ HolderOf(frame.at) \in Holder =>
                     bytes[held[HolderOf(frame.at)]] = frame.record

\* The bytes of a row are a record, never the key pair.
RowsHoldRecords == \A i \in DOMAIN rows : bytes[rows[i].data] \in Records

\* Every live block has an owner, said of one block at a time.
Owned(b) == b \in RowBlocks \/ b \in HeldBlocks \/ b \in lost

HeapOwned ==
    /\ \A b \in Blocks : bytes[b] # None <=> Owned(b)
    /\ \A i, j \in DOMAIN rows : rows[i].data = rows[j].data => i = j
    /\ RowBlocks \intersect HeldBlocks = {}
    /\ lost \intersect (RowBlocks \union HeldBlocks) = {}
    /\ lost # {} => kind = "identity"

Inv == TypeOK /\ FrameHolds /\ RowsHoldRecords /\ HeapOwned /\ KeysDistinct

-----------------------------------------------------------------------------
(* What the invariant says of one step of a callback *)

\* None is no content of a block.
LEMMA NoneContent == None \notin Records \union {KeyPair}
BY AnswerAssumption

\* A row has a key and a block.
LEMMA RowType ==
  ASSUME TypeOK, NEW i \in DOMAIN rows
  PROVE  rows[i] \in Row /\ rows[i].key \in Ids /\ rows[i].data \in Blocks
<1>1. rows \in Seq(Row) /\ i \in 1 .. Len(rows)
  BY LenProperties DEF TypeOK
<1>2. rows[i] \in Row
  BY <1>1, ElementOfSeq
<1> QED
  BY <1>2 DEF Row

\* Between callbacks nobody holds a block.
LEMMA HeldIdle ==
  ASSUME TypeOK, FrameHolds, frame = None
  PROVE  held = NoneHeld /\ HeldBlocks = {}
<1>1. \A h \in Holder : held[h] = None
  BY DEF FrameHolds
<1> QED
  BY <1>1 DEF TypeOK, NoneHeld, HeldBlocks

\* In a callback only one holder points to a block.
LEMMA HeldBusy ==
  ASSUME TypeOK, FrameHolds, frame # None, NEW h \in Holder,
         h = HolderOf(frame.at)
  PROVE  held[h] \in Blocks /\ HeldBlocks = {held[h]}
<1>1. held[h] # None /\ held[h] \in Blocks
  BY DEF FrameHolds, TypeOK
<1>2. \A g \in Holder : g # h => held[g] = None
  BY DEF FrameHolds
<1> QED
  BY <1>1, <1>2 DEF HeldBlocks

\* Before a record is serialized nothing is held.
LEMMA HeldGiven ==
  ASSUME TypeOK, FrameHolds, frame # None, frame.at = "given"
  PROVE  held = NoneHeld /\ HeldBlocks = {}
<1>1. \A h \in Holder : held[h] = None
  BY DEF FrameHolds, HolderOf, Holder
<1> QED
  BY <1>1 DEF TypeOK, NoneHeld, HeldBlocks

\* HeapOwned is HeapAccounted with what FrameHolds adds.
LEMMA Accounted ==
  ASSUME TypeOK, FrameHolds, HeapOwned
  PROVE  HeapAccounted
<1>1. Live = RowBlocks \union HeldBlocks \union lost
  <2>1. RowBlocks \subseteq Blocks /\ lost \subseteq Blocks /\ HeldBlocks \subseteq Blocks
    BY RowType DEF TypeOK, RowBlocks, HeldBlocks
  <2> QED
    BY <2>1 DEF HeapOwned, Owned, Live
<1>2. \A g, h \in Holder : held[g] = held[h] /\ held[g] # None => g = h
  BY DEF FrameHolds
<1>3. frame = None => HeldBlocks = {}
  BY HeldIdle
<1> QED
  BY <1>1, <1>2, <1>3 DEF HeapAccounted, HeapOwned

-----------------------------------------------------------------------------
(* Rows *)

\* With one row per key the first row with a key is the only one.
LEMMA RowOfUnique ==
  ASSUME TypeOK, KeysDistinct, NEW i \in DOMAIN rows
  PROVE  RowsOf(rows[i].key) = {i} /\ RowOf(rows[i].key) = i
<1>1. RowsOf(rows[i].key) = {i}
  BY DEF RowsOf, KeysDistinct
<1>2. i \in Nat
  BY LenProperties DEF TypeOK
<1>3. RowOf(rows[i].key) \in {i}
  BY <1>1, <1>2 DEF RowOf
<1> QED
  BY <1>1, <1>3

\* kv_get finds a row of the key if there is one.
LEMMA RowFound ==
  ASSUME TypeOK, KeysDistinct, NEW id \in Ids, RowsOf(id) # {}
  PROVE  RowOf(id) \in DOMAIN rows /\ rows[RowOf(id)].key = id
<1>1. PICK i \in DOMAIN rows : rows[i].key = id
  BY DEF RowsOf
<1> QED
  BY <1>1, RowOfUnique

-----------------------------------------------------------------------------
(* The ways a step changes the heap *)

\* One holder that points to a block, the others to none.
LEMMA HeldOne ==
  ASSUME NEW f \in [Holder -> Blocks \union {None}], NEW h \in Holder,
         NEW b \in Blocks, f[h] = b, \A g \in Holder \ {h} : f[g] = None
  PROVE  {f[g] : g \in Holder} \ {None} = {b}
BY AnswerAssumption

\* An allocation between callbacks, or for the record that was given.
LEMMA Acquire ==
  ASSUME TypeOK, RowsHoldRecords, HeapOwned, HeldBlocks = {},
         NEW b \in Blocks, bytes[b] = None,
         NEW c \in Records \union {KeyPair},
         bytes' = [bytes EXCEPT ![b] = c], HeldBlocks' = {b},
         UNCHANGED <<kind, rows, lost>>
  PROVE  RowsHoldRecords' /\ HeapOwned'
<1>1. RowBlocks' = RowBlocks
  BY DEF RowBlocks
<1>2. b \notin RowBlocks /\ b \notin lost
  BY DEF HeapOwned, Owned
<1>3. \A e \in Blocks \ {b} : bytes'[e] = bytes[e]
  BY DEF TypeOK
<1>4. bytes'[b] # None
  BY NoneContent DEF TypeOK
<1>5. \A i \in DOMAIN rows : rows[i].data # b /\ rows[i].data \in Blocks
  BY <1>2, RowType DEF RowBlocks
<1>6. RowsHoldRecords'
  BY <1>3, <1>5 DEF RowsHoldRecords
<1>7. \A e \in Blocks : bytes'[e] # None <=> Owned(e)'
  BY <1>1, <1>3, <1>4 DEF HeapOwned, Owned
<1> QED
  BY <1>1, <1>2, <1>6, <1>7 DEF HeapOwned

\* The block held is freed.
LEMMA Discard ==
  ASSUME TypeOK, RowsHoldRecords, HeapOwned,
         NEW b \in Blocks, HeldBlocks = {b},
         bytes' = [bytes EXCEPT ![b] = None], HeldBlocks' = {},
         UNCHANGED <<kind, rows, lost>>
  PROVE  RowsHoldRecords' /\ HeapOwned'
<1>1. RowBlocks' = RowBlocks
  BY DEF RowBlocks
<1>2. b \notin RowBlocks /\ b \notin lost
  BY DEF HeapOwned
<1>3. \A e \in Blocks \ {b} : bytes'[e] = bytes[e]
  BY DEF TypeOK
<1>4. bytes'[b] = None
  BY DEF TypeOK
<1>5. \A i \in DOMAIN rows : rows[i].data # b /\ rows[i].data \in Blocks
  BY <1>2, RowType DEF RowBlocks
<1>6. RowsHoldRecords'
  BY <1>3, <1>5 DEF RowsHoldRecords
<1>7. \A e \in Blocks : bytes'[e] # None <=> Owned(e)'
  BY <1>1, <1>2, <1>3, <1>4 DEF HeapOwned, Owned
<1> QED
  BY <1>1, <1>6, <1>7 DEF HeapOwned

\* The block held is freed for another one.
LEMMA Exchange ==
  ASSUME TypeOK, RowsHoldRecords, HeapOwned,
         NEW old \in Blocks, HeldBlocks = {old},
         NEW new \in Blocks, new # old, bytes[new] = None,
         NEW c \in Records \union {KeyPair},
         bytes' = [bytes EXCEPT ![new] = c, ![old] = None],
         HeldBlocks' = {new}, UNCHANGED <<kind, rows, lost>>
  PROVE  RowsHoldRecords' /\ HeapOwned'
<1>1. RowBlocks' = RowBlocks
  BY DEF RowBlocks
<1>2. /\ old \notin RowBlocks /\ old \notin lost
      /\ new \notin RowBlocks /\ new \notin lost
  BY DEF HeapOwned, Owned
<1>3. \A e \in Blocks \ {old, new} : bytes'[e] = bytes[e]
  BY DEF TypeOK
<1>4. bytes'[old] = None /\ bytes'[new] # None
  BY NoneContent DEF TypeOK
<1>5. \A i \in DOMAIN rows : rows[i].data \in Blocks \ {old, new}
  BY <1>2, RowType DEF RowBlocks
<1>6. RowsHoldRecords'
  BY <1>3, <1>5 DEF RowsHoldRecords
<1>7. \A e \in Blocks : bytes'[e] # None <=> Owned(e)'
  BY <1>1, <1>2, <1>3, <1>4 DEF HeapOwned, Owned
<1>8. \A i, j \in DOMAIN rows' : rows'[i].data = rows'[j].data => i = j
  BY DEF HeapOwned
<1>9. /\ RowBlocks' \intersect HeldBlocks' = {}
      /\ lost' \intersect (RowBlocks' \union HeldBlocks') = {}
      /\ lost' # {} => kind' = "identity"
  BY <1>1, <1>2 DEF HeapOwned
<1> QED
  BY <1>6, <1>7, <1>8, <1>9 DEF HeapOwned

\* The private key is left behind.
LEMMA Leave ==
  ASSUME TypeOK, RowsHoldRecords, HeapOwned, kind = "identity",
         NEW b \in Blocks, HeldBlocks = {b},
         lost' = lost \union {b}, HeldBlocks' = {},
         UNCHANGED <<kind, rows, bytes>>
  PROVE  RowsHoldRecords' /\ HeapOwned'
<1>1. RowBlocks' = RowBlocks
  BY DEF RowBlocks
<1>2. RowsHoldRecords'
  BY DEF RowsHoldRecords
<1> QED
  BY <1>1, <1>2 DEF HeapOwned, Owned

\* Nothing happens to the heap.
LEMMA HeapSame ==
  ASSUME RowsHoldRecords, HeapOwned, KeysDistinct, HeldBlocks' = HeldBlocks,
         UNCHANGED <<kind, rows, bytes, lost>>
  PROVE  RowsHoldRecords' /\ HeapOwned' /\ KeysDistinct'
<1>1. RowBlocks' = RowBlocks
  BY DEF RowBlocks
<1> QED
  BY <1>1 DEF HeapOwned, Owned, RowsHoldRecords, KeysDistinct

-----------------------------------------------------------------------------
(* Every step keeps the invariant *)

\* A callback that returns without holding anything, the heap as it was.
LEMMA ReturnStep ==
  ASSUME Inv, HeldBlocks = {}, \A h \in Holder : held[h] = None,
         frame' = None, answer' \in Records \union {None, Error, Done},
         UNCHANGED <<kind, rows, bytes, held, lost, dead>>
  PROVE  Inv'
<1>1. HeldBlocks' = HeldBlocks
  BY DEF HeldBlocks
<1>2. TypeOK'
  BY DEF Inv, TypeOK
<1>3. FrameHolds'
  BY DEF FrameHolds
<1> QED
  BY <1>1, <1>2, <1>3, HeapSame DEF Inv

\* A frame with its parts.
LEMMA FrameMade ==
  ASSUME NEW at \in {"copied", "loaded", "given", "serialized", "put", "private"},
         NEW id \in Ids \union {None}, NEW record \in Records \union {None}
  PROVE  /\ [at |-> at, id |-> id, record |-> record] \in Frame
         /\ [at |-> at, id |-> id, record |-> record] # None
BY AnswerAssumption DEF Frame

\* A callback that loads starts.
LEMMA LoadStep ==
  ASSUME Inv, NEW k, NEW id \in Ids, Load(k, id)
  PROVE  Inv'
<1> USE DEF Inv
<1>1. frame = None /\ UNCHANGED <<kind, rows, lost, dead>> /\ kv_get(id)
  BY DEF Load, Entered
<1>2. HeldBlocks = {} /\ \A h \in Holder : held[h] = None
  BY <1>1, HeldIdle DEF NoneHeld
<1>3. CASE RowsOf(id) = {}
  <2>1. /\ frame' = None /\ answer' \in {None, Error}
        /\ UNCHANGED <<bytes, held>>
    BY <1>1, <1>3 DEF kv_get, Missing, Return
  <2> QED
    BY <1>1, <1>2, <2>1, ReturnStep
<1>4. CASE RowsOf(id) # {}
  <2> DEFINE content == bytes[rows[RowOf(id)].data]
  <2>1. PICK b \in Blocks :
           /\ bytes[b] = None /\ bytes' = [bytes EXCEPT ![b] = content]
           /\ held' = [held EXCEPT !["copy"] = b]
           /\ frame' = [at |-> "copied", id |-> id, record |-> content]
           /\ answer' = answer
    BY <1>1, <1>4 DEF kv_get, Malloc, Hold, Enter
  <2>2. content \in Records
    BY <1>4, RowFound DEF RowsHoldRecords
  <2>3. /\ held' \in [Holder -> Blocks \union {None}]
        /\ held'["copy"] = b /\ \A h \in Holder \ {"copy"} : held'[h] = None
        /\ bytes' \in [Blocks -> Records \union {KeyPair, None}]
        /\ bytes'[b] = content
    BY <1>2, <2>1, <2>2 DEF TypeOK, Holder
  <2>4. HeldBlocks' = {b}
    BY <2>3, HeldOne DEF HeldBlocks, Holder
  <2>5. frame' \in Frame /\ frame' # None
    BY <2>1, <2>2, FrameMade
  <2>6. TypeOK'
    BY <1>1, <2>1, <2>3, <2>5 DEF TypeOK
  <2>7. FrameHolds'
    BY <2>1, <2>2, <2>3, <2>5, AnswerAssumption DEF FrameHolds, HolderOf, Holder
  <2>8. RowsHoldRecords' /\ HeapOwned'
    BY <1>1, <1>2, <2>1, <2>2, <2>4, Acquire
  <2> QED
    BY <1>1, <2>6, <2>7, <2>8 DEF KeysDistinct
<1> QED
  BY <1>3, <1>4

\* The copy becomes a handle, or is given up.
LEMMA DeserializeStep ==
  ASSUME Inv, Deserialize
  PROVE  Inv'
<1> USE DEF Inv
<1>1. /\ frame # None /\ frame.at = "copied"
      /\ UNCHANGED <<kind, rows, lost, dead>>
  BY DEF Deserialize, At
<1>2. HolderOf(frame.at) = "copy" /\ "copy" \in Holder /\ frame \in Frame
  BY <1>1 DEF HolderOf, Holder, TypeOK
<1>3. /\ held["copy"] \in Blocks /\ HeldBlocks = {held["copy"]}
      /\ \A h \in Holder \ {"copy"} : held[h] = None
  BY <1>1, <1>2, HeldBusy DEF FrameHolds
<1>4. bytes[held["copy"]] = frame.record /\ frame.record \in Records /\ frame.id \in Ids
  BY <1>1, <1>2 DEF FrameHolds
<1>5. ASSUME NEW b \in Blocks, b # held["copy"], bytes[b] = None,
             bytes' = [bytes EXCEPT ![b] = bytes[held["copy"]],
                                    ![held["copy"]] = None],
             held' = [held EXCEPT !["handle"] = b, !["copy"] = None],
             Become("loaded"), answer' = answer
      PROVE  Inv'
  <2>1. /\ held' \in [Holder -> Blocks \union {None}]
        /\ held'["handle"] = b /\ \A h \in Holder \ {"handle"} : held'[h] = None
        /\ bytes' \in [Blocks -> Records \union {KeyPair, None}]
        /\ bytes'[b] = frame.record
    BY <1>3, <1>4, <1>5 DEF TypeOK, Holder
  <2>2. HeldBlocks' = {b}
    BY <2>1, HeldOne DEF HeldBlocks, Holder
  <2>3. /\ frame'.at = "loaded" /\ frame'.id = frame.id
        /\ frame'.record = frame.record /\ frame' \in Frame /\ frame' # None
    BY <1>2, <1>5, AnswerAssumption DEF Become, Frame
  <2>4. TypeOK'
    BY <1>1, <1>5, <2>1, <2>3 DEF TypeOK
  <2>5. FrameHolds'
    BY <1>4, <2>1, <2>3, AnswerAssumption DEF FrameHolds, HolderOf, Holder
  <2>6. RowsHoldRecords' /\ HeapOwned'
    BY <1>1, <1>3, <1>4, <1>5, <2>2, Exchange
  <2> QED
    BY <1>1, <2>4, <2>5, <2>6 DEF KeysDistinct
<1>6. CASE Free(held["copy"]) /\ Release("copy") /\ Return(Error)
  <2>1. /\ held' \in [Holder -> Blocks \union {None}]
        /\ \A h \in Holder : held'[h] = None
        /\ bytes' \in [Blocks -> Records \union {KeyPair, None}]
    BY <1>3, <1>6 DEF TypeOK, Holder, Free, Release, Hold
  <2>2. HeldBlocks' = {}
    BY <2>1 DEF HeldBlocks
  <2>3. TypeOK' /\ FrameHolds'
    BY <1>1, <1>6, <2>1 DEF TypeOK, FrameHolds, Return
  <2>4. RowsHoldRecords' /\ HeapOwned'
    BY <1>1, <1>3, <1>6, <2>2, Discard DEF Free
  <2> QED
    BY <1>1, <2>3, <2>4 DEF KeysDistinct
<1> QED
  BY <1>5, <1>6 DEF Deserialize

\* A callback that gives up the one block it holds and returns.
LEMMA FreeStep ==
  ASSUME Inv, frame # None, NEW h \in Holder, h = HolderOf(frame.at),
         Free(held[h]), Release(h), frame' = None,
         answer' \in Records \union {None, Error, Done},
         UNCHANGED <<kind, rows, lost, dead>>
  PROVE  Inv'
<1> USE DEF Inv
<1>1. /\ held[h] \in Blocks /\ HeldBlocks = {held[h]}
      /\ \A g \in Holder \ {h} : held[g] = None
  BY HeldBusy DEF FrameHolds
<1>2. /\ held' \in [Holder -> Blocks \union {None}]
      /\ \A g \in Holder : held'[g] = None
      /\ bytes' \in [Blocks -> Records \union {KeyPair, None}]
  BY <1>1 DEF TypeOK, Free, Release, Hold
<1>3. HeldBlocks' = {}
  BY <1>2 DEF HeldBlocks
<1>4. TypeOK' /\ FrameHolds'
  BY <1>2 DEF TypeOK, FrameHolds
<1>5. RowsHoldRecords' /\ HeapOwned'
  BY <1>1, <1>3, Discard DEF Free
<1> QED
  BY <1>4, <1>5 DEF KeysDistinct

\* The bridge takes the record out of the handle and destroys it.
LEMMA TakeRecordStep ==
  ASSUME Inv, TakeRecord
  PROVE  Inv'
<1>1. frame # None /\ frame.at = "loaded" /\ UNCHANGED <<kind, rows, lost, dead>>
  BY DEF TakeRecord, At
<1>2. HolderOf(frame.at) = "handle" /\ "handle" \in Holder
  BY <1>1 DEF HolderOf, Holder
<1>3. bytes[held["handle"]] \in Records
  BY <1>1, <1>2 DEF Inv, FrameHolds
<1>4. /\ frame' = None /\ answer' \in Records
      /\ Free(held["handle"]) /\ Release("handle")
  BY <1>3 DEF TakeRecord, Return
<1> QED
  BY <1>1, <1>2, <1>4, FreeStep

\* A callback that stores, or the one for the key pair, starts; a record is
\* serialized. In each a block is taken while none is held.
LEMMA TakeStep ==
  ASSUME Inv, HeldBlocks = {}, \A g \in Holder : held[g] = None,
         NEW b \in Blocks, NEW c \in Records \union {KeyPair}, Malloc(b, c),
         NEW h \in Holder, Hold(h, b),
         frame' \in Frame, h = HolderOf(frame'.at),
         IF frame'.at = "private" THEN kind = "identity"
         ELSE frame'.id \in Ids /\ frame'.record = c /\ c \in Records,
         UNCHANGED <<kind, rows, lost, answer, dead>>
  PROVE  Inv'
<1> USE DEF Inv
<1>1. /\ held' \in [Holder -> Blocks \union {None}]
      /\ held'[h] = b /\ \A g \in Holder \ {h} : held'[g] = None
      /\ bytes' \in [Blocks -> Records \union {KeyPair, None}]
      /\ bytes'[b] = c
  BY DEF TypeOK, Malloc, Hold
<1>2. HeldBlocks' = {b}
  BY <1>1, HeldOne DEF HeldBlocks
<1>3. frame' # None /\ b # None
  BY AnswerAssumption
<1>4. TypeOK'
  BY <1>1 DEF TypeOK
<1>5. FrameHolds'
  <2>1. \A g \in Holder : held'[g] # None <=> g = HolderOf(frame'.at)
    BY <1>1, <1>3
  <2>2. bytes'[held'[h]] = c
    BY <1>1
  <2> QED
    BY <1>3, <2>1, <2>2 DEF FrameHolds
<1>6. RowsHoldRecords' /\ HeapOwned'
  BY <1>2, Acquire DEF Malloc
<1> QED
  BY <1>4, <1>5, <1>6 DEF KeysDistinct

\* A record is handed to the callback.
LEMMA StoreStep ==
  ASSUME Inv, NEW k, NEW id \in Ids, NEW r \in Records, Store(k, id, r)
  PROVE  Inv'
<1> USE DEF Inv
<1>1. /\ frame = None /\ UNCHANGED <<kind, rows, bytes, held, lost, answer, dead>>
      /\ frame' = [at |-> "given", id |-> id, record |-> r]
  BY DEF Store, Entered, Enter
<1>2. \A h \in Holder : held[h] = None
  BY <1>1, HeldIdle DEF NoneHeld
<1>3. frame' \in Frame /\ frame' # None
  BY <1>1, FrameMade
<1>4. TypeOK'
  BY <1>1, <1>3 DEF TypeOK
<1>5. FrameHolds'
  BY <1>1, <1>2, <1>3 DEF FrameHolds, HolderOf, Holder
<1>6. HeldBlocks' = HeldBlocks
  BY <1>1 DEF HeldBlocks
<1> QED
  BY <1>1, <1>4, <1>5, <1>6, HeapSame

\* The record given is serialized, or cannot be.
LEMMA SerializeStep ==
  ASSUME Inv, Serialize
  PROVE  Inv'
<1>1. frame # None /\ frame.at = "given" /\ UNCHANGED <<kind, rows, lost, dead>>
  BY DEF Serialize, At
<1>2. HeldBlocks = {} /\ \A h \in Holder : held[h] = None
  BY <1>1, HeldGiven DEF Inv, NoneHeld
<1>3. frame \in Frame /\ frame.id \in Ids /\ frame.record \in Records
  BY <1>1 DEF Inv, TypeOK, FrameHolds
<1>4. ASSUME NEW b \in Blocks, Malloc(b, frame.record), Hold("buffer", b),
             Become("serialized"), answer' = answer
      PROVE  Inv'
  <2>1. /\ frame' \in Frame /\ frame'.at = "serialized"
        /\ frame'.id = frame.id /\ frame'.record = frame.record
    BY <1>3, <1>4 DEF Become, Frame
  <2>2. "buffer" \in Holder /\ HolderOf(frame'.at) = "buffer"
    BY <2>1 DEF Holder, HolderOf
  <2> QED
    BY <1>1, <1>2, <1>3, <1>4, <2>1, <2>2, TakeStep
<1>5. CASE Return(Error) /\ UNCHANGED <<bytes, held>>
  BY <1>1, <1>2, <1>5, ReturnStep DEF Return
<1> QED
  BY <1>4, <1>5 DEF Serialize

\* The library's buffer is freed after the record was put.
LEMMA FreeBufferStep ==
  ASSUME Inv, FreeBuffer
  PROVE  Inv'
<1>1. /\ frame # None /\ frame.at = "put" /\ UNCHANGED <<kind, rows, lost, dead>>
      /\ Free(held["buffer"]) /\ Release("buffer") /\ frame' = None /\ answer' = Done
  BY DEF FreeBuffer, At, Return
<1>2. HolderOf(frame.at) = "buffer" /\ "buffer" \in Holder
  BY <1>1 DEF HolderOf, Holder
<1> QED
  BY <1>1, <1>2, FreeStep

\* One row has the key and the record now, the others are as they were.
RowPut(id, record) ==
    \E n \in DOMAIN rows' :
       /\ rows'[n].key = id /\ bytes'[rows'[n].data] = record
       /\ \A i \in DOMAIN rows' \ {n} :
             /\ i \in DOMAIN rows /\ rows'[i].key = rows[i].key
             /\ bytes'[rows'[i].data] = bytes[rows[i].data]
       /\ \A i \in DOMAIN rows : i \in DOMAIN rows' /\ (i = n => rows[i].key = id)

\* The bytes of a row are freed and the new ones put in their place; the
\* allocator may give the same block again.
LEMMA ReplaceHeap ==
  ASSUME Inv, NEW id \in Ids, RowsOf(id) # {}, NEW b \in Blocks,
         NEW content \in Records, kv_replace(id, b, content),
         HeldBlocks' = HeldBlocks, UNCHANGED <<kind, lost>>
  PROVE  /\ rows' \in Seq(Row) /\ Len(rows') = Len(rows)
         /\ bytes' \in [Blocks -> Records \union {KeyPair, None}]
         /\ \A e \in HeldBlocks : bytes'[e] = bytes[e]
         /\ RowsHoldRecords' /\ HeapOwned' /\ KeysDistinct'
         /\ RowPut(id, content)
<1> USE DEF Inv
<1> DEFINE n == RowOf(id)
           old == rows[n].data
<1>1. n \in DOMAIN rows /\ rows[n] \in Row /\ old \in Blocks
  BY RowFound, RowType
<1>2. /\ b = old \/ bytes[b] = None
      /\ bytes' = [bytes EXCEPT ![old] = None, ![b] = content]
      /\ rows' = [rows EXCEPT ![n].data = b]
  BY DEF kv_replace, FreeThenMalloc
<1>3. /\ rows' \in Seq(Row) /\ Len(rows') = Len(rows) /\ DOMAIN rows' = DOMAIN rows
  <2>1. rows' = [rows EXCEPT ![n] = [rows[n] EXCEPT !.data = b]]
    BY <1>2
  <2>2. [rows[n] EXCEPT !.data = b] \in Row
    BY <1>1 DEF Row
  <2>3. rows \in Seq(Row) /\ n \in 1 .. Len(rows)
    BY <1>1, LenProperties DEF TypeOK
  <2> QED
    BY <2>1, <2>2, <2>3, ExceptSeq, LenProperties
<1>4. /\ rows'[n].data = b
      /\ \A i \in DOMAIN rows \ {n} : rows'[i] = rows[i]
      /\ \A i \in DOMAIN rows : rows'[i].key = rows[i].key
  BY <1>1, <1>2 DEF Row
<1>5. /\ bytes' \in [Blocks -> Records \union {KeyPair, None}]
      /\ bytes'[b] = content /\ (b # old => bytes'[old] = None)
      /\ \A e \in Blocks \ {b, old} : bytes'[e] = bytes[e]
  BY <1>1, <1>2 DEF TypeOK
<1>6. /\ old \in RowBlocks /\ old \notin HeldBlocks /\ old \notin lost
      /\ b \notin HeldBlocks /\ b \notin lost
  BY <1>1, <1>2 DEF HeapOwned, Owned, RowBlocks
<1>7. \A i \in DOMAIN rows \ {n} : rows[i].data \in Blocks \ {b, old}
  <2> SUFFICES ASSUME NEW i \in DOMAIN rows \ {n}
               PROVE  rows[i].data \in Blocks \ {b, old}
    OBVIOUS
  <2>1. rows[i].data \in Blocks /\ rows[i].data # old
    BY <1>1, RowType DEF HeapOwned
  <2>2. rows[i].data \in RowBlocks
    BY DEF RowBlocks
  <2>3. bytes[rows[i].data] # None
    BY <2>1, <2>2 DEF HeapOwned, Owned
  <2> QED
    BY <1>2, <2>1, <2>3
<1>8. RowBlocks' = (RowBlocks \ {old}) \union {b}
  BY <1>1, <1>3, <1>4, <1>7 DEF RowBlocks
<1>9. RowsHoldRecords'
  BY <1>3, <1>4, <1>5, <1>7 DEF RowsHoldRecords
<1>10. \A e \in HeldBlocks : bytes'[e] = bytes[e]
  <2>1. HeldBlocks \subseteq Blocks
    BY DEF HeldBlocks, TypeOK
  <2> QED
    BY <1>5, <1>6, <2>1
<1>11. \A e \in Blocks : bytes'[e] # None <=> Owned(e)'
  <2> SUFFICES ASSUME NEW e \in Blocks
               PROVE  bytes'[e] # None <=> e \in RowBlocks' \/ e \in HeldBlocks \/ e \in lost
    BY DEF Owned
  <2>1. CASE e = b
    BY <1>5, <1>8, <2>1, NoneContent
  <2>2. CASE e # b /\ e = old
    BY <1>5, <1>6, <1>8, <2>2
  <2>3. CASE e # b /\ e # old
    BY <1>5, <1>8, <2>3 DEF HeapOwned, Owned
  <2> QED
    BY <2>1, <2>2, <2>3
<1>12. \A i, j \in DOMAIN rows' : rows'[i].data = rows'[j].data => i = j
  BY <1>3, <1>4, <1>7 DEF HeapOwned
<1>13. /\ (RowBlocks \intersect HeldBlocks = {})'
       /\ (lost \intersect (RowBlocks \union HeldBlocks) = {})'
  BY <1>6, <1>8 DEF HeapOwned
<1>14. HeapOwned'
  BY <1>11, <1>12, <1>13 DEF HeapOwned
<1>15. KeysDistinct'
  BY <1>3, <1>4 DEF KeysDistinct
<1>16. RowPut(id, content)
  <2>1. rows'[n].key = id /\ rows[n].key = id
    BY <1>1, <1>4, RowFound
  <2> QED
    BY <1>1, <1>3, <1>4, <1>5, <1>7, <2>1 DEF RowPut
<1> QED
  BY <1>3, <1>5, <1>9, <1>10, <1>14, <1>15, <1>16

\* A row is added for a key that has none.
LEMMA AppendHeap ==
  ASSUME Inv, NEW id \in Ids, RowsOf(id) = {}, NEW b \in Blocks,
         NEW content \in Records, kv_append(id, b, content),
         HeldBlocks' = HeldBlocks, UNCHANGED <<kind, lost>>
  PROVE  /\ rows' \in Seq(Row) /\ Len(rows') = Len(rows) + 1
         /\ bytes' \in [Blocks -> Records \union {KeyPair, None}]
         /\ \A e \in HeldBlocks : bytes'[e] = bytes[e]
         /\ RowsHoldRecords' /\ HeapOwned' /\ KeysDistinct'
         /\ RowPut(id, content)
<1> USE DEF Inv
<1> DEFINE n == Len(rows) + 1
           new == [key |-> id, data |-> b]
<1>1. bytes[b] = None /\ bytes' = [bytes EXCEPT ![b] = content] /\ rows' = Append(rows, new)
  BY DEF kv_append, Malloc
<1>2. new \in Row /\ rows \in Seq(Row) /\ DOMAIN rows = 1 .. Len(rows) /\ Len(rows) \in Nat
  BY LenProperties DEF TypeOK, Row
<1>3. /\ rows' \in Seq(Row) /\ Len(rows') = n
      /\ \A i \in 1 .. Len(rows) : rows'[i] = rows[i]
      /\ rows'[n] = new
  BY <1>1, <1>2, AppendProperties
<1>4. DOMAIN rows' = 1 .. n
  BY <1>3, LenProperties
<1>5. DOMAIN rows' = DOMAIN rows \union {n} /\ n \notin DOMAIN rows
  BY <1>2, <1>4
<1>6. /\ bytes' \in [Blocks -> Records \union {KeyPair, None}]
      /\ bytes'[b] = content
      /\ \A e \in Blocks \ {b} : bytes'[e] = bytes[e]
  BY <1>1 DEF TypeOK
<1>7. b \notin RowBlocks /\ b \notin HeldBlocks /\ b \notin lost
  BY <1>1 DEF HeapOwned, Owned
<1>8. \A i \in DOMAIN rows : rows'[i] = rows[i] /\ rows[i].data \in Blocks \ {b}
  BY <1>2, <1>3, <1>7, RowType DEF RowBlocks
<1>9. rows'[n].data = b /\ rows'[n].key = id
  BY <1>3
<1>10. RowBlocks' = RowBlocks \union {b}
  BY <1>5, <1>8, <1>9 DEF RowBlocks
<1>11. RowsHoldRecords'
  BY <1>5, <1>6, <1>8, <1>9 DEF RowsHoldRecords
<1>12. \A e \in HeldBlocks : bytes'[e] = bytes[e]
  <2>1. HeldBlocks \subseteq Blocks
    BY DEF HeldBlocks, TypeOK
  <2> QED
    BY <1>6, <1>7, <2>1
<1>13. \A e \in Blocks : bytes'[e] # None <=> Owned(e)'
  <2> SUFFICES ASSUME NEW e \in Blocks
               PROVE  bytes'[e] # None <=> e \in RowBlocks' \/ e \in HeldBlocks \/ e \in lost
    BY DEF Owned
  <2>1. CASE e = b
    BY <1>6, <1>10, <2>1, NoneContent
  <2>2. CASE e # b
    BY <1>6, <1>10, <2>2 DEF HeapOwned, Owned
  <2> QED
    BY <2>1, <2>2
<1>14. \A i, j \in DOMAIN rows' : rows'[i].data = rows'[j].data => i = j
  BY <1>5, <1>8, <1>9 DEF HeapOwned
<1>15. /\ (RowBlocks \intersect HeldBlocks = {})'
       /\ (lost \intersect (RowBlocks \union HeldBlocks) = {})'
  BY <1>7, <1>10 DEF HeapOwned
<1>16. HeapOwned'
  BY <1>13, <1>14, <1>15 DEF HeapOwned
<1>17. \A i \in DOMAIN rows : rows[i].key # id
  BY DEF RowsOf
<1>18. KeysDistinct'
  BY <1>5, <1>8, <1>9, <1>17 DEF KeysDistinct
<1>19. RowPut(id, content)
  BY <1>5, <1>6, <1>8, <1>9 DEF RowPut
<1> QED
  BY <1>3, <1>6, <1>11, <1>12, <1>16, <1>18, <1>19

\* The record is put in its row.
LEMMA PutStep ==
  ASSUME Inv, kv_put
  PROVE  Inv'
<1> USE DEF Inv
<1> DEFINE content == bytes[held["buffer"]]
<1>1. /\ frame # None /\ frame.at = "serialized"
      /\ RowsOf(frame.id) # {} \/ Len(rows) < KvMax
      /\ Become("put") /\ UNCHANGED <<kind, held, lost, answer, dead>>
  BY DEF kv_put, At
<1>2. PICK b \in Blocks :
         IF RowsOf(frame.id) # {} THEN kv_replace(frame.id, b, content)
         ELSE kv_append(frame.id, b, content)
  BY DEF kv_put
<1>3. /\ HolderOf(frame.at) = "buffer" /\ "buffer" \in Holder
      /\ frame \in Frame /\ frame.id \in Ids
      /\ content = frame.record /\ content \in Records
  BY <1>1 DEF HolderOf, Holder, TypeOK, FrameHolds
<1>4. held["buffer"] \in Blocks /\ HeldBlocks = {held["buffer"]}
  BY <1>1, <1>3, HeldBusy
<1>5. HeldBlocks' = HeldBlocks
  BY <1>1 DEF HeldBlocks
<1>6. /\ rows' \in Seq(Row) /\ Len(rows') <= KvMax
      /\ bytes' \in [Blocks -> Records \union {KeyPair, None}]
      /\ \A e \in HeldBlocks : bytes'[e] = bytes[e]
      /\ RowsHoldRecords' /\ HeapOwned' /\ KeysDistinct'
  <2>1. CASE RowsOf(frame.id) # {}
    BY <1>1, <1>2, <1>3, <1>5, <2>1, ReplaceHeap DEF TypeOK
  <2>2. CASE RowsOf(frame.id) = {}
    <3>1. Len(rows) < KvMax /\ Len(rows) \in Nat /\ KvMax \in Nat
      BY <1>1, <2>2, LenProperties, BoundAssumption DEF TypeOK
    <3> QED
      BY <1>1, <1>2, <1>3, <1>5, <2>2, <3>1, AppendHeap
  <2> QED
    BY <2>1, <2>2
<1>7. /\ frame' \in Frame /\ frame' # None /\ frame'.at = "put"
      /\ frame'.id = frame.id /\ frame'.record = frame.record
  BY <1>1, <1>3, AnswerAssumption DEF Become, Frame
<1>8. TypeOK'
  BY <1>1, <1>6, <1>7 DEF TypeOK
<1>9. FrameHolds'
  <2>1. HolderOf(frame'.at) = "buffer"
    BY <1>7 DEF HolderOf
  <2>2. \A h \in Holder : held'[h] # None <=> h = "buffer"
    BY <1>1, <1>3 DEF FrameHolds
  <2>3. bytes'[held'["buffer"]] = frame.record
    BY <1>1, <1>3, <1>4, <1>6
  <2> QED
    BY <1>3, <1>7, <2>1, <2>2, <2>3 DEF FrameHolds
<1> QED
  BY <1>6, <1>8, <1>9

\* Answers and the end of the process leave the stores alone.
LEMMA AnswerStep ==
  ASSUME Inv, answer' \in Records \union {None, Error, Done}, dead' \in BOOLEAN,
         UNCHANGED <<kind, rows, bytes, held, lost, frame>>
  PROVE  Inv'
<1>1. HeldBlocks' = HeldBlocks
  BY DEF HeldBlocks
<1> QED
  BY <1>1, HeapSame DEF Inv, TypeOK, FrameHolds

\* The callback for the key pair starts, or fails at once.
LEMMA KeyPairStep ==
  ASSUME Inv, id_get_kp
  PROVE  Inv'
<1>1. frame = None /\ kind = "identity" /\ UNCHANGED <<kind, rows, lost, dead>>
  BY DEF id_get_kp, Entered
<1>2. HeldBlocks = {} /\ \A h \in Holder : held[h] = None
  BY <1>1, HeldIdle DEF Inv, NoneHeld
<1>3. ASSUME NEW b \in Blocks, Malloc(b, KeyPair), Hold("private", b),
             Enter("private", None, None), answer' = answer
      PROVE  Inv'
  <2>1. frame' \in Frame /\ frame'.at = "private"
    BY <1>3, FrameMade DEF Enter
  <2>2. "private" \in Holder /\ HolderOf(frame'.at) = "private"
    BY <2>1 DEF Holder, HolderOf
  <2> QED
    BY <1>1, <1>2, <1>3, <2>1, <2>2, TakeStep
<1>4. CASE Return(Error) /\ UNCHANGED <<bytes, held>>
  BY <1>1, <1>2, <1>4, ReturnStep DEF Return
<1> QED
  BY <1>3, <1>4 DEF id_get_kp

\* The public key is made, or the private one is left behind.
LEMMA PublicKeyStep ==
  ASSUME Inv, GetPublicKey
  PROVE  Inv'
<1> USE DEF Inv
<1>1. /\ frame # None /\ frame.at = "private" /\ Release("private")
      /\ UNCHANGED <<kind, rows, dead>>
  BY DEF GetPublicKey, At
<1>2. HolderOf(frame.at) = "private" /\ "private" \in Holder /\ kind = "identity"
  BY <1>1 DEF HolderOf, Holder, FrameHolds
<1>3. CASE Return(Done) /\ Free(held["private"]) /\ UNCHANGED lost
  BY <1>1, <1>2, <1>3, FreeStep DEF Return
<1>4. CASE Return(Error) /\ lost' = lost \union {held["private"]} /\ UNCHANGED bytes
  <2>1. /\ held["private"] \in Blocks /\ HeldBlocks = {held["private"]}
        /\ \A g \in Holder \ {"private"} : held[g] = None
    BY <1>1, <1>2, HeldBusy DEF FrameHolds
  <2>2. held' \in [Holder -> Blocks \union {None}] /\ \A g \in Holder : held'[g] = None
    BY <1>1, <2>1 DEF TypeOK, Release, Hold
  <2>3. HeldBlocks' = {}
    BY <2>2 DEF HeldBlocks
  <2>4. TypeOK' /\ FrameHolds'
    BY <1>1, <1>4, <2>1, <2>2 DEF TypeOK, FrameHolds, Return
  <2>5. RowsHoldRecords' /\ HeapOwned'
    BY <1>1, <1>2, <1>4, <2>1, <2>3, Leave
  <2> QED
    BY <1>1, <2>4, <2>5 DEF KeysDistinct
<1> QED
  BY <1>3, <1>4 DEF GetPublicKey

\* The rows and their bytes are freed.
LEMMA FreeAllStep ==
  ASSUME Inv, kv_free
  PROVE  Inv'
<1> USE DEF Inv
<1>1. /\ frame = None /\ rows' = <<>>
      /\ UNCHANGED <<kind, held, lost, frame, answer, dead>>
  BY DEF kv_free
<1>2. bytes' = [b \in Blocks |-> IF b \in RowBlocks THEN None ELSE bytes[b]]
  BY DEF kv_free, RowBlocks
<1>3. HeldBlocks = {} /\ HeldBlocks' = HeldBlocks
  BY <1>1, HeldIdle DEF HeldBlocks
<1>4. /\ rows' \in Seq(Row) /\ Len(rows') = 0 /\ DOMAIN rows' = {}
      /\ RowBlocks' = {}
  BY <1>1, EmptySeq DEF RowBlocks
<1>5. TypeOK'
  BY <1>1, <1>2, <1>4, BoundAssumption DEF TypeOK
<1>6. FrameHolds'
  BY <1>1 DEF FrameHolds
<1>7. \A e \in Blocks : bytes'[e] # None <=> Owned(e)'
  BY <1>1, <1>2, <1>3, <1>4 DEF HeapOwned, Owned
<1>8. RowsHoldRecords' /\ HeapOwned' /\ KeysDistinct'
  BY <1>1, <1>3, <1>4, <1>7 DEF RowsHoldRecords, HeapOwned, KeysDistinct
<1> QED
  BY <1>5, <1>6, <1>8

\* A store starts empty.
LEMMA InitInv ==
  ASSUME Init
  PROVE  Inv
<1>1. /\ rows \in Seq(Row) /\ Len(rows) = 0 /\ DOMAIN rows = {}
  BY EmptySeq DEF Init
<1>2. RowBlocks = {} /\ HeldBlocks = {}
  BY <1>1 DEF Init, RowBlocks, HeldBlocks, NoneHeld
<1>3. /\ bytes \in [Blocks -> Records \union {KeyPair, None}]
      /\ held \in [Holder -> Blocks \union {None}]
      /\ lost \subseteq Blocks
  BY DEF Init, NoneHeld
<1>4. frame \in Frame \union {None} /\ answer \in Records \union {None, Error, Done}
  BY DEF Init
<1>5. Len(rows) <= KvMax
  BY <1>1, BoundAssumption
<1>6. dead \in BOOLEAN
  BY DEF Init
<1>7. TypeOK
  BY <1>1, <1>3, <1>4, <1>5, <1>6 DEF Init, TypeOK
<1> QED
  BY <1>1, <1>2, <1>7
  DEF Init, Inv, NoneHeld, FrameHolds, RowsHoldRecords, HeapOwned, Owned, KeysDistinct

\* Every step of a store keeps the invariant.
LEMMA NextInv ==
  ASSUME Inv, [Next]_vars
  PROVE  Inv'
<1>1. CASE UNCHANGED vars
  BY <1>1, AnswerStep DEF vars, Inv, TypeOK
<1>2. ASSUME NEW id \in Ids,
             \/ sess_load(id) \/ id_get(id) \/ pk_load(id)
             \/ spk_load(id) \/ kpk_load(id) \/ sk_load_fn(id)
      PROVE  Inv'
  BY <1>2, LoadStep
  DEF sess_load, id_get, pk_load, spk_load, kpk_load, sk_load_fn
<1>3. ASSUME NEW id \in Ids, pk_remove(id) \/ kpk_mark_used(id)
      PROVE  Inv'
  BY <1>3, AnswerStep DEF pk_remove, kpk_mark_used, Inv, TypeOK
<1>4. ASSUME NEW id \in Ids, NEW r \in Records,
             \/ sess_store_fn(id, r) \/ id_save(id, r) \/ pk_store_fn(id, r)
             \/ spk_store_fn(id, r) \/ kpk_store_fn(id, r) \/ sk_store_fn(id, r)
      PROVE  Inv'
  BY <1>4, StoreStep
  DEF sess_store_fn, id_save, pk_store_fn, spk_store_fn, kpk_store_fn, sk_store_fn
<1>5. CASE Deserialize
  BY <1>5, DeserializeStep
<1>6. CASE TakeRecord
  BY <1>6, TakeRecordStep
<1>7. CASE Serialize
  BY <1>7, SerializeStep
<1>8. CASE kv_put
  BY <1>8, PutStep
<1>9. CASE kv_put_full
  BY <1>9, AnswerStep DEF kv_put_full, Inv, TypeOK
<1>10. CASE FreeBuffer
  BY <1>10, FreeBufferStep
<1>11. CASE id_get_kp
  BY <1>11, KeyPairStep
<1>12. CASE GetPublicKey
  BY <1>12, PublicKeyStep
<1>13. CASE kv_free
  BY <1>13, FreeAllStep
<1> QED
  BY <1>1, <1>2, <1>3, <1>4, <1>5, <1>6, <1>7, <1>8, <1>9, <1>10, <1>11,
     <1>12, <1>13 DEF Next

-----------------------------------------------------------------------------
(* Theorems *)

\* The invariant of a store.
THEOREM Invariant == Spec => []Inv
<1>1. Init => Inv
  BY InitInv
<1>2. Inv /\ [Next]_vars => Inv'
  BY NextInv
<1> QED
  BY <1>1, <1>2, PTL DEF Spec

\* The rows, the heap and the callback that runs keep their types: no more
\* rows than KV_MAX, and no block that was not allocated.
THEOREM TypeCorrect == Spec => []TypeOK
<1>1. Inv => TypeOK
  BY DEF Inv
<1> QED
  BY <1>1, Invariant, PTL

\* The callbacks of examples/c/main.c keep the memory contract of the header:
\* one owner for every live block, none for a freed one, in every order of
\* calls and failures and whatever the allocator hands out again.
THEOREM HeapAccountedCorrect == Spec => []HeapAccounted
<1>1. Inv => HeapAccounted
  BY Accounted DEF Inv
<1> QED
  BY <1>1, Invariant, PTL

\* kv_put never leaves two rows of a key.
THEOREM KeysDistinctCorrect == Spec => []KeysDistinct
<1>1. Inv => KeysDistinct
  BY DEF Inv
<1> QED
  BY <1>1, Invariant, PTL

-----------------------------------------------------------------------------
(* HostStores implements MapStores *)

\* The mapped frame and answer of the refinement.
Shown == IF Put THEN None ELSE frame

Told == IF Put THEN Done ELSE answer

\* The mapped store has the keys of the rows and the record of each.
LEMMA ContentsIs ==
  TypeOK /\ KeysDistinct =>
     /\ DOMAIN Contents = {rows[i].key : i \in DOMAIN rows}
     /\ \A i \in DOMAIN rows : Contents[rows[i].key] = bytes[rows[i].data]
<1> SUFFICES ASSUME TypeOK, KeysDistinct, NEW i \in DOMAIN rows
             PROVE  Contents[rows[i].key] = bytes[rows[i].data]
  BY DEF Contents
<1> QED
  BY RowOfUnique DEF Contents

\* The same after a step.
LEMMA ContentsIsNext ==
  ASSUME Inv'
  PROVE  /\ (DOMAIN Contents)' = {rows'[i].key : i \in DOMAIN rows'}
         /\ \A i \in DOMAIN rows' : Contents'[rows'[i].key] = bytes'[rows'[i].data]
<1>1. (TypeOK /\ KeysDistinct =>
     /\ DOMAIN Contents = {rows[i].key : i \in DOMAIN rows}
     /\ \A i \in DOMAIN rows : Contents[rows[i].key] = bytes[rows[i].data])'
  BY ContentsIs, PTL
<1> QED
  BY <1>1 DEF Inv

\* The mapped store stays as it is when no row and no byte of a row changes.
LEMMA ContentsSame ==
  ASSUME rows' = rows, \A b \in RowBlocks : bytes'[b] = bytes[b],
         TypeOK, KeysDistinct
  PROVE  Contents' = Contents
<1>1. \A id \in {rows[i].key : i \in DOMAIN rows} :
         bytes'[rows[RowOf(id)].data] = bytes[rows[RowOf(id)].data]
  BY RowOfUnique DEF RowBlocks
<1>2. Contents' = [id \in {rows[i].key : i \in DOMAIN rows} |->
                     bytes'[rows[RowOf(id)].data]]
  BY DEF Contents, RowOf, RowsOf
<1> QED
  BY <1>1, <1>2 DEF Contents

\* A row of the key is what makes the key present.
LEMMA Present ==
  ASSUME Inv, NEW id \in Ids
  PROVE  /\ id \in DOMAIN Contents <=> RowsOf(id) # {}
         /\ RowsOf(id) # {} => Contents[id] = bytes[rows[RowOf(id)].data]
BY RowFound, ContentsIs DEF Inv, RowsOf

\* An allocation leaves the mapped store as it is.
LEMMA AcquireMap ==
  ASSUME Inv, NEW b \in Blocks, NEW c, bytes[b] = None,
         bytes' = [bytes EXCEPT ![b] = c], rows' = rows
  PROVE  Contents' = Contents
<1>1. b \notin RowBlocks
  BY DEF Inv, HeapOwned, Owned
<1>2. \A e \in RowBlocks : bytes'[e] = bytes[e]
  BY <1>1, RowType DEF RowBlocks, Inv, TypeOK
<1> QED
  BY <1>2, ContentsSame DEF Inv

\* So does freeing the block that is held.
LEMMA DiscardMap ==
  ASSUME Inv, frame # None, NEW h \in Holder, h = HolderOf(frame.at),
         bytes' = [bytes EXCEPT ![held[h]] = None], rows' = rows
  PROVE  Contents' = Contents
<1>1. held[h] \notin RowBlocks
  BY HeldBusy DEF Inv, HeapOwned
<1>2. \A e \in RowBlocks : bytes'[e] = bytes[e]
  BY <1>1, RowType DEF RowBlocks, Inv, TypeOK
<1> QED
  BY <1>2, ContentsSame DEF Inv

\* Nothing happens to the heap.
LEMMA SameMap ==
  ASSUME Inv, UNCHANGED <<rows, bytes>>
  PROVE  Contents' = Contents
BY ContentsSame DEF Inv

\* Loading a record.
LEMMA LoadMap ==
  ASSUME Inv, NEW k, NEW id \in Ids, Load(k, id)
  PROVE  Map!Load(k, id)
<1>1. frame = None /\ kind = k /\ UNCHANGED <<kind, rows>> /\ kv_get(id)
  BY DEF Load, Entered
<1>2. CASE RowsOf(id) = {}
  <2>1. /\ frame' = None /\ UNCHANGED bytes
        /\ answer' = IF kind \in {"pre_key", "signed_pre_key", "kyber_pre_key"}
                     THEN Error ELSE None
    BY <1>1, <1>2 DEF kv_get, Missing, Return
  <2>2. Contents' = Contents
    BY <1>1, <2>1, SameMap
  <2> QED
    BY <1>1, <1>2, <2>1, <2>2, Present
    DEF Put, Map!Load, Map!kv_get, Map!Return, Map!Required
<1>3. CASE RowsOf(id) # {}
  <2> DEFINE content == bytes[rows[RowOf(id)].data]
  <2>1. PICK b \in Blocks :
           /\ bytes[b] = None /\ bytes' = [bytes EXCEPT ![b] = content]
           /\ frame' = [at |-> "copied", id |-> id, record |-> content]
           /\ answer' = answer
    BY <1>1, <1>3 DEF kv_get, Malloc, Enter
  <2>2. Contents' = Contents
    BY <1>1, <2>1, AcquireMap
  <2>3. id \in DOMAIN Contents /\ Contents[id] = content
    BY <1>3, Present
  <2>4. ~Put /\ ~Put'
    BY <1>1, <2>1 DEF Put
  <2> QED
    BY <1>1, <2>1, <2>2, <2>3, <2>4 DEF Map!Load, Map!kv_get, Map!NewFrame
<1> QED
  BY <1>2, <1>3

\* The copy becomes a handle, or is given up.
LEMMA DeserializeMap ==
  ASSUME Inv, Deserialize
  PROVE  Map!Deserialize
<1>1. frame # None /\ frame.at = "copied" /\ UNCHANGED <<kind, rows>> /\ frame \in Frame
  BY DEF Deserialize, At, Inv, TypeOK
<1>2. HolderOf(frame.at) = "copy" /\ "copy" \in Holder /\ ~Put
  BY <1>1 DEF HolderOf, Holder, Put
<1>3. ASSUME NEW b \in Blocks, b # held["copy"], bytes[b] = None,
             bytes' = [bytes EXCEPT ![b] = bytes[held["copy"]],
                                    ![held["copy"]] = None],
             Become("loaded"), answer' = answer
      PROVE  Map!Deserialize
  <2>1. held["copy"] \notin RowBlocks /\ b \notin RowBlocks
    BY <1>1, <1>2, <1>3, HeldBusy DEF Inv, HeapOwned, Owned
  <2>2. \A e \in RowBlocks : bytes'[e] = bytes[e]
    BY <1>3, <2>1, RowType DEF RowBlocks, Inv, TypeOK
  <2>3. Contents' = Contents
    BY <1>1, <2>2, ContentsSame DEF Inv
  <2>4. frame' = [frame EXCEPT !.at = "loaded"] /\ ~Put'
    BY <1>1, <1>3 DEF Become, Put, Frame
  <2> QED
    BY <1>1, <1>2, <1>3, <2>3, <2>4 DEF Map!Deserialize, Map!At
<1>4. CASE Free(held["copy"]) /\ Return(Error)
  <2>1. Contents' = Contents
    BY <1>1, <1>2, <1>4, DiscardMap DEF Free
  <2>2. frame' = None /\ answer' = Error /\ ~Put'
    BY <1>4 DEF Return, Put
  <2> QED
    BY <1>1, <1>2, <2>1, <2>2 DEF Map!Deserialize, Map!At, Map!Return
<1> QED
  BY <1>3, <1>4 DEF Deserialize

\* The library gets the record of the frame.
LEMMA TakeRecordMap ==
  ASSUME Inv, TakeRecord
  PROVE  Map!TakeRecord
<1>1. frame # None /\ frame.at = "loaded" /\ UNCHANGED <<kind, rows>>
  BY DEF TakeRecord, At
<1>2. HolderOf(frame.at) = "handle" /\ "handle" \in Holder /\ ~Put
  BY <1>1 DEF HolderOf, Holder, Put
<1>3. bytes[held["handle"]] = frame.record
  BY <1>1, <1>2 DEF Inv, FrameHolds
<1>4. /\ frame' = None /\ answer' = frame.record /\ ~Put'
      /\ bytes' = [bytes EXCEPT ![held["handle"]] = None]
  BY <1>3 DEF TakeRecord, Return, Free, Put
<1>5. Contents' = Contents
  BY <1>1, <1>2, <1>4, DiscardMap
<1> QED
  BY <1>1, <1>2, <1>4, <1>5 DEF Map!TakeRecord, Map!At, Map!Return

\* A record is handed over.
LEMMA StoreMap ==
  ASSUME Inv, NEW k, NEW id \in Ids, NEW r \in Records, Store(k, id, r)
  PROVE  Map!Store(k, id, r)
<1>1. /\ frame = None /\ kind = k /\ UNCHANGED <<kind, rows, bytes, answer>>
      /\ frame' = [at |-> "given", id |-> id, record |-> r]
  BY DEF Store, Entered, Enter
<1>2. Contents' = Contents
  BY <1>1, SameMap
<1>3. ~Put /\ ~Put'
  BY <1>1 DEF Put
<1> QED
  BY <1>1, <1>2, <1>3 DEF Map!Store, Map!NewFrame

\* The record is serialized, or cannot be.
LEMMA SerializeMap ==
  ASSUME Inv, Serialize
  PROVE  Map!Serialize
<1>1. frame # None /\ frame.at = "given" /\ UNCHANGED <<kind, rows>> /\ frame \in Frame
  BY DEF Serialize, At, Inv, TypeOK
<1>2. ~Put
  BY <1>1 DEF Put
<1>3. ASSUME NEW b \in Blocks, Malloc(b, frame.record), Become("serialized"),
             answer' = answer
      PROVE  Map!Serialize
  <2>1. Contents' = Contents
    BY <1>1, <1>3, AcquireMap DEF Malloc
  <2>2. frame' = [frame EXCEPT !.at = "serialized"] /\ ~Put'
    BY <1>1, <1>3 DEF Become, Put, Frame
  <2> QED
    BY <1>1, <1>2, <1>3, <2>1, <2>2 DEF Map!Serialize, Map!At
<1>4. CASE Return(Error) /\ UNCHANGED bytes
  <2>1. Contents' = Contents /\ frame' = None /\ answer' = Error /\ ~Put'
    BY <1>1, <1>4, SameMap DEF Return, Put
  <2> QED
    BY <1>1, <1>2, <2>1 DEF Map!Serialize, Map!At, Map!Return
<1> QED
  BY <1>3, <1>4 DEF Serialize

\* kv_put changes the mapped store at the key and nowhere else.
LEMMA PutMap ==
  ASSUME Inv, Inv', kv_put
  PROVE  Map!kv_put
<1> DEFINE content == bytes[held["buffer"]]
           id == frame.id
<1>1. /\ frame # None /\ frame.at = "serialized" /\ frame \in Frame
      /\ RowsOf(id) # {} \/ Len(rows) < KvMax
      /\ frame' = [frame EXCEPT !.at = "put"] /\ UNCHANGED <<kind, held, lost>>
  BY DEF kv_put, At, Become, Inv, TypeOK
<1>2. /\ HolderOf(frame.at) = "buffer" /\ "buffer" \in Holder
      /\ id \in Ids /\ content = frame.record /\ content \in Records
  BY <1>1 DEF HolderOf, Holder, Inv, FrameHolds
<1>3. HeldBlocks' = HeldBlocks
  BY <1>1 DEF HeldBlocks
<1>4. RowPut(id, content)
  <2>1. PICK b \in Blocks :
           IF RowsOf(id) # {} THEN kv_replace(id, b, content)
           ELSE kv_append(id, b, content)
    BY DEF kv_put
  <2>2. CASE RowsOf(id) # {}
    BY <1>1, <1>2, <1>3, <2>1, <2>2, ReplaceHeap
  <2>3. CASE RowsOf(id) = {}
    BY <1>1, <1>2, <1>3, <2>1, <2>3, AppendHeap
  <2> QED
    BY <2>2, <2>3
<1>5. PICK n \in DOMAIN rows' :
         /\ rows'[n].key = id /\ bytes'[rows'[n].data] = content
         /\ \A i \in DOMAIN rows' \ {n} :
               /\ i \in DOMAIN rows /\ rows'[i].key = rows[i].key
               /\ bytes'[rows'[i].data] = bytes[rows[i].data]
         /\ \A i \in DOMAIN rows : i \in DOMAIN rows' /\ (i = n => rows[i].key = id)
  BY <1>4 DEF RowPut
<1>6. (DOMAIN Contents)' = DOMAIN Contents \union {id}
  <2>1. {rows'[i].key : i \in DOMAIN rows'} = {rows[i].key : i \in DOMAIN rows} \union {id}
    BY <1>5
  <2> QED
    BY <2>1, ContentsIs, ContentsIsNext DEF Inv
<1>7. Contents'[id] = frame.record
  BY <1>2, <1>5, ContentsIsNext
<1>8. \A x \in DOMAIN Contents \ {id} : Contents'[x] = Contents[x]
  <2> SUFFICES ASSUME NEW i \in DOMAIN rows, rows[i].key # id
               PROVE  Contents'[rows[i].key] = Contents[rows[i].key]
    BY ContentsIs DEF Inv
  <2>1. i \in DOMAIN rows' \ {n} /\ rows'[i].key = rows[i].key
    BY <1>5
  <2>2. Contents'[rows[i].key] = bytes'[rows'[i].data]
    BY <2>1, ContentsIsNext
  <2> QED
    BY <1>5, <2>1, <2>2, ContentsIs DEF Inv
<1>9. Contents' = [x \in DOMAIN Contents \union {id} |->
                     IF x = id THEN frame.record ELSE Contents[x]]
  <2>1. Contents' = [x \in (DOMAIN Contents)' |-> Contents'[x]]
    BY DEF Contents
  <2> QED
    BY <1>6, <1>7, <1>8, <2>1
<1>10. ~Put /\ Put'
  <2>1. frame'.at = "put" /\ frame' # None
    BY <1>1, AnswerAssumption DEF Frame
  <2> QED
    BY <1>1, <2>1 DEF Put
<1> QED
  BY <1>1, <1>9, <1>10 DEF Map!kv_put, Map!At, Map!Return

\* Freeing the library's buffer is not seen.
LEMMA FreeBufferMap ==
  ASSUME Inv, FreeBuffer
  PROVE  UNCHANGED Map!vars
<1>1. /\ frame # None /\ frame.at = "put" /\ UNCHANGED <<kind, rows>>
      /\ bytes' = [bytes EXCEPT ![held["buffer"]] = None]
      /\ frame' = None /\ answer' = Done
  BY DEF FreeBuffer, At, Return, Free
<1>2. HolderOf(frame.at) = "buffer" /\ "buffer" \in Holder
  BY <1>1 DEF HolderOf, Holder
<1>3. Contents' = Contents
  BY <1>1, <1>2, DiscardMap
<1>4. Put /\ ~Put'
  BY <1>1 DEF Put
<1> QED
  BY <1>1, <1>3, <1>4 DEF Map!vars

\* The key pair: its memory is not seen either.
LEMMA KeyPairMap ==
  ASSUME Inv, id_get_kp
  PROVE  Map!id_get_kp
<1>1. frame = None /\ kind = "identity" /\ UNCHANGED <<kind, rows>>
  BY DEF id_get_kp, Entered
<1>2. ASSUME NEW b \in Blocks, Malloc(b, KeyPair), Enter("private", None, None),
             answer' = answer
      PROVE  Map!id_get_kp
  <2>1. Contents' = Contents
    BY <1>1, <1>2, AcquireMap DEF Malloc
  <2>2. frame' = [at |-> "private", id |-> None, record |-> None] /\ ~Put /\ ~Put'
    BY <1>1, <1>2 DEF Enter, Put
  <2> QED
    BY <1>1, <1>2, <2>1, <2>2 DEF Map!id_get_kp, Map!NewFrame
<1>3. CASE Return(Error) /\ UNCHANGED bytes
  <2>1. Contents' = Contents /\ frame' = None /\ answer' = Error /\ ~Put /\ ~Put'
    BY <1>1, <1>3, SameMap DEF Return, Put
  <2> QED
    BY <1>1, <2>1 DEF Map!id_get_kp, Map!Return
<1> QED
  BY <1>2, <1>3 DEF id_get_kp

\* A private key left behind is not seen.
LEMMA PublicKeyMap ==
  ASSUME Inv, GetPublicKey
  PROVE  Map!GetPublicKey
<1>1. frame # None /\ frame.at = "private" /\ UNCHANGED <<kind, rows>>
  BY DEF GetPublicKey, At
<1>2. HolderOf(frame.at) = "private" /\ "private" \in Holder /\ ~Put
  BY <1>1 DEF HolderOf, Holder, Put
<1>3. /\ frame' = None /\ answer' \in {Done, Error}
      /\ \/ bytes' = [bytes EXCEPT ![held["private"]] = None]
         \/ bytes' = bytes
  BY DEF GetPublicKey, Return, Free
<1>4. Contents' = Contents /\ ~Put'
  BY <1>1, <1>2, <1>3, DiscardMap, SameMap DEF Put
<1> QED
  BY <1>1, <1>2, <1>3, <1>4 DEF Map!GetPublicKey, Map!At, Map!Return

\* The end of a test clears the mapped store.
LEMMA FreeAllMap ==
  ASSUME Inv, Inv', kv_free
  PROVE  Map!Clear
<1>1. frame = None /\ rows' = <<>> /\ UNCHANGED <<kind, frame, answer>>
  BY DEF kv_free
<1>2. DOMAIN rows' = {}
  BY <1>1, EmptySeq
<1>3. Contents' = [i \in {} |-> None]
  <2>1. Contents' = [x \in (DOMAIN Contents)' |-> Contents'[x]]
    BY DEF Contents
  <2>2. (DOMAIN Contents)' = {}
    BY <1>2, ContentsIsNext
  <2> QED
    BY <2>1, <2>2
<1>4. ~Put /\ ~Put'
  BY <1>1 DEF Put
<1> QED
  BY <1>1, <1>3, <1>4 DEF Map!Clear

\* The mapped store starts empty.
LEMMA InitMap ==
  ASSUME Init
  PROVE  Map!Init
<1>1. DOMAIN rows = {} /\ frame = None /\ answer = Done /\ kind \in Map!Kinds
  BY EmptySeq DEF Init, Map!Kinds
<1>2. Contents = [i \in {} |-> None]
  <2>1. {rows[i].key : i \in DOMAIN rows} = {}
    BY <1>1
  <2> QED
    BY <2>1 DEF Contents
<1> QED
  BY <1>1, <1>2 DEF Map!Init, Put

\* Every step is a step of the mapped store or is not seen.
LEMMA NextMap ==
  ASSUME Inv, Inv', [Next]_vars
  PROVE  [Map!Next]_(Map!vars)
<1>1. CASE UNCHANGED vars
  <2>1. Contents' = Contents
    BY <1>1, SameMap DEF vars
  <2> QED
    BY <1>1, <2>1 DEF vars, Map!vars, Put
<1>2. ASSUME NEW id \in Ids,
             \/ sess_load(id) \/ id_get(id) \/ pk_load(id)
             \/ spk_load(id) \/ kpk_load(id) \/ sk_load_fn(id)
      PROVE  Map!Next
  <2>1. \/ Map!sess_load(id) \/ Map!id_get(id) \/ Map!pk_load(id)
        \/ Map!spk_load(id) \/ Map!kpk_load(id) \/ Map!sk_load_fn(id)
    BY <1>2, LoadMap
    DEF sess_load, id_get, pk_load, spk_load, kpk_load, sk_load_fn,
        Map!sess_load, Map!id_get, Map!pk_load, Map!spk_load, Map!kpk_load,
        Map!sk_load_fn
  <2> QED
    BY <2>1 DEF Map!Next
<1>3. ASSUME NEW id \in Ids, pk_remove(id) \/ kpk_mark_used(id)
      PROVE  Map!Next
  <2>1. /\ frame = None /\ answer' = Done /\ UNCHANGED <<kind, rows, bytes, frame>>
    BY <1>3 DEF pk_remove, kpk_mark_used, Entered
  <2>2. Contents' = Contents /\ ~Put /\ ~Put'
    BY <2>1, SameMap DEF Put
  <2>3. Map!pk_remove(id) \/ Map!kpk_mark_used(id)
    BY <1>3, <2>1, <2>2
    DEF pk_remove, kpk_mark_used, Entered, Map!pk_remove, Map!kpk_mark_used
  <2> QED
    BY <2>3 DEF Map!Next
<1>4. ASSUME NEW id \in Ids, NEW r \in Records,
             \/ sess_store_fn(id, r) \/ id_save(id, r) \/ pk_store_fn(id, r)
             \/ spk_store_fn(id, r) \/ kpk_store_fn(id, r) \/ sk_store_fn(id, r)
      PROVE  Map!Next
  <2>1. \/ Map!sess_store_fn(id, r) \/ Map!id_save(id, r)
        \/ Map!pk_store_fn(id, r) \/ Map!spk_store_fn(id, r)
        \/ Map!kpk_store_fn(id, r) \/ Map!sk_store_fn(id, r)
    BY <1>4, StoreMap
    DEF sess_store_fn, id_save, pk_store_fn, spk_store_fn, kpk_store_fn,
        sk_store_fn, Map!sess_store_fn, Map!id_save, Map!pk_store_fn,
        Map!spk_store_fn, Map!kpk_store_fn, Map!sk_store_fn
  <2> QED
    BY <2>1 DEF Map!Next
<1>5. CASE Deserialize
  BY <1>5, DeserializeMap DEF Map!Next
<1>6. CASE TakeRecord
  BY <1>6, TakeRecordMap DEF Map!Next
<1>7. CASE Serialize
  BY <1>7, SerializeMap DEF Map!Next
<1>8. CASE kv_put
  BY <1>8, PutMap DEF Map!Next
<1>9. CASE kv_put_full
  <2>1. UNCHANGED <<kind, rows, bytes, frame, answer>>
    BY <1>9 DEF kv_put_full
  <2>2. Contents' = Contents
    BY <2>1, SameMap
  <2> QED
    BY <2>1, <2>2 DEF Map!vars, Put
<1>10. CASE FreeBuffer
  BY <1>10, FreeBufferMap
<1>11. CASE id_get_kp
  BY <1>11, KeyPairMap DEF Map!Next
<1>12. CASE GetPublicKey
  BY <1>12, PublicKeyMap DEF Map!Next
<1>13. CASE kv_free
  BY <1>13, FreeAllMap DEF Map!Next
<1> QED
  BY <1>1, <1>2, <1>3, <1>4, <1>5, <1>6, <1>7, <1>8, <1>9, <1>10, <1>11,
     <1>12, <1>13 DEF Next

\* The C host's store implements the map of the C++ host: a load gives the
\* record last stored under the key, in every order of calls and failures and
\* however the blocks of memory are used again.
THEOREM Implements == Spec => MapStoresImplemented
<1>1. Init => Map!Init
  BY InitMap
<1>2. Inv /\ Inv' /\ [Next]_vars => [Map!Next]_(Map!vars)
  BY NextMap
<1> QED
  BY <1>1, <1>2, Invariant, PTL DEF Spec, MapStoresImplemented, Map!Spec

=============================================================================
