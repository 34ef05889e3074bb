----------------------------- MODULE SenderKeys -----------------------------
(***************************************************************************)
(* Group messaging with sender keys: GroupSessionBuilder.createSession and *)
(* processSession, GroupCipher.encrypt and decrypt, for one sender and one *)
(* distribution id (records of other senders and ids are kept apart by the *)
(* store's key, so they do not interact).                                  *)
(*                                                                         *)
(* A sender key state is named by its generation, which stands for the     *)
(* random chain key and signing key pair it was created with, and by the   *)
(* iteration its chain key was advanced to. The chain id is read from the  *)
(* distribution id, the same in every generation: comparing it tells no    *)
(* two generations apart, only the signature does.                         *)
(***************************************************************************)
EXTENDS Integers, FiniteSets

CONSTANTS
    Member,               \* the members that receive from the sender
    None,                 \* no record in the sender key store
    MaxGeneration,        \* bound: sender key states ever created
    MaxSent               \* bound: messages ever sealed

SenderKeyState == [generation : Nat, iteration : Nat]

Message == [generation : Nat, iteration : Nat, text : Nat]

ASSUME NoneAssumption == None \notin SenderKeyState

VARIABLES
    senderKey,            \* the sender's own record
    memberKey,            \* each member's record for the sender
    generations,          \* number of sender key states created
    distributed,          \* every SenderKeyDistributionMessage created
    sent,                 \* number of messages sealed
    network,              \* every group message sealed
    processed,            \* history: distributions each member processed
    opened                \* history: texts each member decrypted

vars == <<senderKey, memberKey, generations, distributed, sent, network,
          processed, opened>>

Init ==
    /\ senderKey = None
    /\ memberKey = [r \in Member |-> None]
    /\ generations = 0
    /\ distributed = {}
    /\ sent = 0
    /\ network = {}
    /\ processed = [r \in Member |-> {}]
    /\ opened = [r \in Member |-> {}]

-----------------------------------------------------------------------------
(* GroupSessionBuilder *)

\* With a readable record: a distribution message for its present position.
DistributeExisting ==
    /\ senderKey # None
    /\ distributed' = distributed \union {senderKey}
    /\ UNCHANGED <<senderKey, memberKey, generations, sent, network,
                   processed, opened>>

\* Without one: a new chain key and signing key at iteration 0.
CreateSession ==
    /\ senderKey = None
    /\ generations < MaxGeneration
    /\ senderKey' = [generation |-> generations, iteration |-> 0]
    /\ generations' = generations + 1
    /\ distributed' = distributed \union {senderKey'}
    /\ UNCHANGED <<memberKey, sent, network, processed, opened>>

\* The sender's host drops the record to rotate the key, or it became
\* unreadable, which createSession treats the same way.
DropSenderKey ==
    /\ senderKey # None
    /\ senderKey' = None
    /\ UNCHANGED <<memberKey, generations, distributed, sent, network,
                   processed, opened>>

\* processSession replaces whatever the member had stored.
ProcessSession(r, d) ==
    /\ memberKey' = [memberKey EXCEPT ![r] = d]
    /\ processed' = [processed EXCEPT ![r] = @ \union {d}]
    /\ UNCHANGED <<senderKey, generations, distributed, sent, network, opened>>

-----------------------------------------------------------------------------
(* GroupCipher *)

\* Faulty variant: the chain key used to seal is kept.
KeepIteration(state) == state

Advance(state) == [state EXCEPT !.iteration = @ + 1]

\* The message is returned only after the advanced chain was stored.
Encrypt ==
    /\ senderKey # None
    /\ sent < MaxSent
    /\ network' = network \union
           {[generation |-> senderKey.generation,
             iteration |-> senderKey.iteration, text |-> sent]}
    /\ senderKey' = Advance(senderKey)
    /\ sent' = sent + 1
    /\ UNCHANGED <<memberKey, generations, distributed, processed, opened>>

\* Faulty variant: the iteration is not compared with the chain's.
ReadableAnyIteration(state, m) == state.generation = m.generation

\* The signature verifies and the chain can be advanced to the iteration; an
\* iteration already passed is reported as DuplicateMessage.
Readable(state, m) ==
    /\ state.generation = m.generation
    /\ state.iteration <= m.iteration

\* Faulty variants: the chain is left one iteration before the message, or
\* one too far behind it.
AfterReadingBefore(state, m) == [state EXCEPT !.iteration = m.iteration - 1]

AfterReadingTooFar(state, m) == [state EXCEPT !.iteration = m.iteration + 2]

\* There is no cache: the keys of the iterations in between are given up.
AfterReading(state, m) == [state EXCEPT !.iteration = m.iteration + 1]

Decrypt(r, m) ==
    /\ memberKey[r] # None
    /\ Readable(memberKey[r], m)
    /\ memberKey' = [memberKey EXCEPT ![r] = AfterReading(@, m)]
    /\ opened' = [opened EXCEPT ![r] = @ \union {m.text}]
    /\ UNCHANGED <<senderKey, generations, distributed, sent, network,
                   processed>>

Next ==
    \/ DistributeExisting
    \/ CreateSession
    \/ DropSenderKey
    \/ Encrypt
    \/ \E r \in Member :
          \/ \E d \in distributed : ProcessSession(r, d)
          \/ \E m \in network : Decrypt(r, m)

Spec == Init /\ [][Next]_vars

-----------------------------------------------------------------------------
(* Properties *)

\* Type invariant of the records, the messages and the histories.
TypeOK ==
    /\ senderKey \in SenderKeyState \union {None}
    /\ memberKey \in [Member -> SenderKeyState \union {None}]
    /\ generations \in Nat
    /\ distributed \subseteq SenderKeyState
    /\ sent \in Nat
    /\ network \subseteq Message
    /\ processed \in [Member -> SUBSET SenderKeyState]
    /\ opened \in [Member -> SUBSET Nat]

\* No iteration of a sender key is used for two messages, also when the
\* record is dropped and created again under the same distribution id.
SenderKeysUnique ==
    \A m, n \in network :
        m.generation = n.generation /\ m.iteration = n.iteration => m = n

\* A member on the sender's present key is never ahead of the sender, by
\* whatever mix of old and new distributions and messages it got there: the
\* next message the sender seals will open for it.
NeverAhead ==
    \A r \in Member :
        /\ senderKey # None
        /\ memberKey[r] # None
        /\ memberKey[r].generation = senderKey.generation
        => memberKey[r].iteration <= senderKey.iteration

\* A member reads a message only if it was given that generation's key at or
\* before the message's iteration: a member that joins late reads nothing of
\* what was sealed before, one that was left out of a rotation nothing after.
ReadsWithinGrant ==
    \A r \in Member : \A m \in network :
        m.text \in opened[r] =>
            \E d \in processed[r] :
                d.generation = m.generation /\ d.iteration <= m.iteration

=============================================================================
