--------------------------- MODULE IncrementalMac ---------------------------
(***************************************************************************)
(* The chunked HMAC of an attachment: Incremental and Validating of        *)
(* incremental_mac.zig behind the C functions of ffi/crypto.zig. A sender  *)
(* feeds its content in slices of any size and collects the chunk MACs     *)
(* that each call returns; a receiver that was given all of them feeds     *)
(* what it got, in slices of its own.                                      *)
(*                                                                         *)
(* HMAC is ideal: a chunk's MAC is the chunk. An allocation can fail after *)
(* the work of a call is done, when its result is copied for the caller.   *)
(***************************************************************************)
EXTENDS Naturals, Sequences, SequencesExt

CONSTANTS
    Byte, Zero,     \* the values of a byte; Zero is the padding
    ChunkSize,
    MaxSlice,       \* bound of the model: the longest slice passed in a call
    MaxInput        \* bound of the model: the most bytes a party feeds

ASSUME ByteAssumption == Zero \in Byte

ASSUME SizeAssumption ==
    /\ ChunkSize \in Nat \ {0}
    /\ MaxSlice \in Nat
    /\ MaxInput \in Nat

Slice == BoundedSeq(Byte, MaxSlice)

Chunk == [1 .. ChunkSize -> Byte]

\* The buffer of ChunkSize bytes, of which buf is the part in use.
Padded(buf) ==
    [i \in 1 .. ChunkSize |-> IF i <= Len(buf) THEN buf[i] ELSE Zero]

ChunkCount(size) == (size + ChunkSize - 1) \div ChunkSize

\* The chunks of a whole content: what the calls together should work on.
ChunkOf(data, i) == Padded(SubSeq(data, (i - 1) * ChunkSize + 1, Len(data)))

ChunksOf(data) == [i \in 1 .. ChunkCount(Len(data)) |-> ChunkOf(data, i)]

VARIABLES
    sender,     \* Incremental with macs_emitted: buf, macs, emitted
    input,      \* history: the bytes fed by the sender
    returned,   \* the MACs the sender's host received
    stage,      \* "open" until finalize succeeds, then "final"
    lost,       \* history: an allocation failed in finalize
    receiver,   \* Validating: buf, idx, and whether its last call failed
    received,   \* history: the bytes fed by the receiver
    refused,    \* history: an update of the receiver failed
    closed      \* history: finalize was called by the receiver

vars == <<sender, input, returned, stage, lost, receiver, received, refused,
          closed>>

Init ==
    /\ sender = [buf |-> <<>>, macs |-> <<>>, emitted |-> 0]
    /\ input = <<>>
    /\ returned = <<>>
    /\ stage = "open"
    /\ lost = FALSE
    /\ receiver = [buf |-> <<>>, idx |-> 0, failed |-> FALSE]
    /\ received = <<>>
    /\ refused = FALSE
    /\ closed = FALSE

-----------------------------------------------------------------------------
(* The sender *)

\* Faulty variant: the buffer is not emptied.
FlushChunkKeeping(s) == [s EXCEPT !.macs = Append(@, Padded(s.buf))]

FlushChunk(s) ==
    [s EXCEPT !.macs = Append(@, Padded(s.buf)), !.buf = <<>>]

\* One byte of the copying loop of Incremental.update.
PutByte(s, b) ==
    LET put == [s EXCEPT !.buf = Append(@, b)]
    IN  IF Len(put.buf) = ChunkSize THEN FlushChunk(put) ELSE put

Fed(s, slice) ==
    LET fed[n \in 0 .. Len(slice)] ==
            IF n = 0 THEN s ELSE PutByte(fed[n - 1], slice[n])
    IN  fed[Len(slice)]

NewMacs(s) == SubSeq(s.macs, s.emitted + 1, Len(s.macs))

\* Faulty variant: macs_emitted is advanced although nothing was returned.
UpdateUnreturnedCounted(s) == [s EXCEPT !.emitted = Len(s.macs)]

\* The copy for the caller cannot be allocated: the data was taken in, its
\* MACs wait for the next call.
UpdateUnreturned(s) == s

Update(slice) ==
    LET s == Fed(sender, slice)
    IN  /\ stage = "open" /\ ~lost
        /\ Len(input) + Len(slice) <= MaxInput
        /\ input' = input \o slice
        /\ \/ /\ returned' = returned \o NewMacs(s)
              /\ sender' = [s EXCEPT !.emitted = Len(s.macs)]
           \/ /\ sender' = UpdateUnreturned(s)
              /\ UNCHANGED returned
        /\ UNCHANGED <<stage, lost, receiver, received, refused, closed>>

\* finalize takes the list of MACs out of the object (toOwnedSlice).
Flushed(s) == IF s.buf = <<>> THEN s ELSE FlushChunk(s)

Finalize ==
    LET s == Flushed(sender)
    IN  /\ stage = "open"
        /\ sender' = [s EXCEPT !.macs = <<>>]
        /\ \/ /\ returned' = returned \o NewMacs(s)
              /\ stage' = "final"
              /\ UNCHANGED lost
           \/ /\ lost' = TRUE
              /\ UNCHANGED <<returned, stage>>
        /\ UNCHANGED <<input, receiver, received, refused, closed>>

-----------------------------------------------------------------------------
(* The receiver, whose expected_macs are what the sender's host received *)

\* Faulty variant: a chunk that does not match is dropped from the buffer.
VerifyChunkDropping(r) ==
    IF r.idx < Len(returned) /\ returned[r.idx + 1] = Padded(r.buf)
    THEN [buf |-> <<>>, idx |-> r.idx + 1, failed |-> FALSE]
    ELSE [r EXCEPT !.buf = <<>>, !.failed = TRUE]

\* Faulty variant: data beyond the last expected MAC is let through.
VerifyChunkLenient(r) ==
    IF r.idx < Len(returned) => returned[r.idx + 1] = Padded(r.buf)
    THEN [buf |-> <<>>, idx |-> r.idx + 1, failed |-> FALSE]
    ELSE [r EXCEPT !.failed = TRUE]

\* Faulty variant: the last expected MAC is taken for missing.
VerifyChunkShort(r) ==
    IF r.idx + 1 < Len(returned) /\ returned[r.idx + 1] = Padded(r.buf)
    THEN [buf |-> <<>>, idx |-> r.idx + 1, failed |-> FALSE]
    ELSE [r EXCEPT !.failed = TRUE]

\* A failure leaves buffer and index as they are.
VerifyChunk(r) ==
    IF r.idx < Len(returned) /\ returned[r.idx + 1] = Padded(r.buf)
    THEN [buf |-> <<>>, idx |-> r.idx + 1, failed |-> FALSE]
    ELSE [r EXCEPT !.failed = TRUE]

\* One byte of the copying loop of Validating.update. The call returns at the
\* first failure; a buffer that is already full, after an earlier failure, has
\* no room for the byte and is verified again.
CheckByte(r, b) ==
    LET put == IF Len(r.buf) < ChunkSize THEN [r EXCEPT !.buf = Append(@, b)]
                                         ELSE r
    IN  IF r.failed THEN r
        ELSE IF Len(put.buf) = ChunkSize THEN VerifyChunk(put) ELSE put

Calling(r) == [r EXCEPT !.failed = FALSE]

Checked(r, slice) ==
    LET checked[n \in 0 .. Len(slice)] ==
            IF n = 0 THEN Calling(r) ELSE CheckByte(checked[n - 1], slice[n])
    IN  checked[Len(slice)]

ValidatingUpdate(slice) ==
    /\ stage = "final" /\ ~closed
    /\ Len(received) + Len(slice) <= MaxInput
    /\ receiver' = Checked(receiver, slice)
    /\ received' = received \o slice
    /\ refused' = (refused \/ receiver'.failed)
    /\ UNCHANGED <<sender, input, returned, stage, lost, closed>>

ValidatingFinalize ==
    /\ stage = "final"
    /\ receiver' = IF receiver.buf = <<>> THEN Calling(receiver)
                   ELSE VerifyChunk(Calling(receiver))
    /\ closed' = TRUE
    /\ UNCHANGED <<sender, input, returned, stage, lost, received, refused>>

Next ==
    \/ \E slice \in Slice : Update(slice)
    \/ Finalize
    \/ \E slice \in Slice : ValidatingUpdate(slice)
    \/ ValidatingFinalize

Spec == Init /\ [][Next]_vars

-----------------------------------------------------------------------------
(* Properties *)

\* Buffers stay shorter than a chunk unless a full one was refused, and the
\* counters stay within the lists they index.
TypeOK ==
    /\ sender.buf \in BoundedSeq(Byte, ChunkSize - 1)
    /\ sender.macs \in Seq(Chunk)
    /\ sender.emitted \in Nat
    /\ stage = "open" /\ ~lost => sender.emitted <= Len(sender.macs)
    /\ input \in BoundedSeq(Byte, MaxInput)
    /\ returned \in Seq(Chunk)
    /\ stage \in {"open", "final"}
    /\ lost \in BOOLEAN /\ refused \in BOOLEAN /\ closed \in BOOLEAN
    /\ receiver.buf \in BoundedSeq(Byte, ChunkSize)
    /\ receiver.idx \in 0 .. Len(returned)
    /\ receiver.failed \in BOOLEAN
    /\ received \in BoundedSeq(Byte, MaxInput)

\* However the content is cut into slices and whichever copies could not be
\* allocated, the host gets the MACs of the content's chunks in order, each
\* once, and all of them by the time finalize succeeds - unless an earlier
\* finalize failed, whose MACs are gone (incremental_mac.zig, ffi/crypto.zig).
MacsOfContent ==
    /\ IsPrefix(returned, ChunksOf(input))
    /\ stage = "final" /\ ~lost => returned = ChunksOf(input)

\* The receiver's calls accept what the sender was fed, in any slices: nothing
\* fails as long as the data is a prefix of the content, and finalize accepts
\* the whole.
GenuineAccepted ==
    stage = "final" /\ ~lost /\ IsPrefix(received, input)
        /\ (closed => received = input)
    => ~receiver.failed

\* What was verified is the sender's content, chunk by chunk; when finalize
\* succeeds that covers everything the receiver was fed, up to the padding.
AcceptedAgrees ==
    /\ \A i \in 1 .. receiver.idx : ChunkOf(received, i) = ChunkOf(input, i)
    /\ closed /\ ~receiver.failed =>
           IsPrefix(ChunksOf(received), ChunksOf(input))

\* Once an update was refused no later call gets past the chunk: the index
\* stays, more data is refused as well, and finalize never succeeds.
RefusedForGood ==
    [][refused => /\ receiver'.idx = receiver.idx
                  /\ received' # received \/ closed' => receiver'.failed]_vars
=============================================================================
