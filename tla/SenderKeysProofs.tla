-------------------------- MODULE SenderKeysProofs --------------------------
(***************************************************************************)
(* Proofs about SenderKeys, for any set of members and any bounds on the   *)
(* sender key states created and the messages sealed, and about the group  *)
(* programs over it.                                                       *)
(***************************************************************************)
EXTENDS GroupHosts, TLAPS

-----------------------------------------------------------------------------
(* The inductive invariant *)

\* Everything in existence was made under a generation already created, so a
\* state created after the record was dropped shares nothing with it.
GenerationsPast ==
    /\ senderKey # None => senderKey.generation < generations
    /\ \A d \in distributed : d.generation < generations
    /\ \A m \in network : m.generation < generations
    /\ \A r \in Member :
          memberKey[r] # None => memberKey[r].generation < generations

\* Under the present generation the sender is past every message it sealed
\* and not behind any distribution message or any member.
SenderInFront ==
    senderKey # None =>
      /\ \A m \in network :
            m.generation = senderKey.generation =>
                m.iteration < senderKey.iteration
      /\ \A d \in distributed :
            d.generation = senderKey.generation =>
                d.iteration <= senderKey.iteration
      /\ \A r \in Member :
            memberKey[r] # None /\ memberKey[r].generation = senderKey.generation
              => memberKey[r].iteration <= senderKey.iteration

\* Texts number the messages, and only sealed messages were opened.
TextsNumbered ==
    /\ \A m \in network : m.text < sent
    /\ \A m, n \in network : m.text = n.text => m = n
    /\ \A r \in Member : \A t \in opened[r] : t < sent

\* Each member's record descends from a distribution message it processed.
DescendsFromGrant ==
    \A r \in Member :
        memberKey[r] # None =>
            \E d \in processed[r] :
                /\ d.generation = memberKey[r].generation
                /\ d.iteration <= memberKey[r].iteration

Inv ==
    /\ TypeOK
    /\ GenerationsPast
    /\ SenderInFront
    /\ SenderKeysUnique
    /\ TextsNumbered
    /\ DescendsFromGrant
    /\ ReadsWithinGrant

-----------------------------------------------------------------------------
(* Type correctness *)

\* Init gives the records, messages and histories their types.
LEMMA InitType == Init => TypeOK
BY NoneAssumption DEF Init, TypeOK

\* Every operation of GroupSessionBuilder and GroupCipher keeps them.
LEMMA NextType == TypeOK /\ [Next]_vars => TypeOK'
<1> SUFFICES ASSUME TypeOK, [Next]_vars PROVE TypeOK'
  OBVIOUS
<1> USE NoneAssumption DEF TypeOK, SenderKeyState, Message
<1>1. CASE DistributeExisting
  BY <1>1 DEF DistributeExisting
<1>2. CASE CreateSession
  BY <1>2 DEF CreateSession
<1>3. CASE DropSenderKey
  BY <1>3 DEF DropSenderKey
<1>4. CASE Encrypt
  BY <1>4 DEF Encrypt, Advance
<1>5. ASSUME NEW r \in Member, NEW d \in distributed, ProcessSession(r, d)
      PROVE  TypeOK'
  BY <1>5 DEF ProcessSession
<1>6. ASSUME NEW r \in Member, NEW m \in network, Decrypt(r, m)
      PROVE  TypeOK'
  BY <1>6 DEF Decrypt, AfterReading
<1>7. CASE UNCHANGED vars
  BY <1>7 DEF vars
<1> QED
  BY <1>1, <1>2, <1>3, <1>4, <1>5, <1>6, <1>7 DEF Next

\* The records, messages and histories of SenderKeys keep their types under
\* every operation of GroupSessionBuilder and GroupCipher.
THEOREM TypeCorrect == Spec => []TypeOK
<1>1. Init => TypeOK
  BY InitType
<1>2. TypeOK /\ [Next]_vars => TypeOK'
  BY NextType
<1> QED
  BY <1>1, <1>2, PTL DEF Spec

-----------------------------------------------------------------------------
(* Safety *)

\* Init establishes the inductive invariant: nothing exists yet.
LEMMA InitInv == Init => Inv
<1> SUFFICES ASSUME Init PROVE Inv
  OBVIOUS
<1>1. TypeOK
  BY InitType
<1> QED
  BY <1>1 DEF Init, Inv, GenerationsPast, SenderInFront, SenderKeysUnique,
              TextsNumbered, DescendsFromGrant, ReadsWithinGrant

\* createSession without a record starts a generation nothing was made under.
LEMMA CreateSessionInv ==
  ASSUME Inv, CreateSession, TypeOK' PROVE Inv'
<1> USE DEF Inv, CreateSession, TypeOK, SenderKeyState, Message
<1>1. GenerationsPast'
  BY NoneAssumption DEF GenerationsPast
<1>2. SenderInFront'
  BY DEF GenerationsPast, SenderInFront
<1>3. SenderKeysUnique' /\ TextsNumbered'
  BY DEF SenderKeysUnique, TextsNumbered
<1>4. DescendsFromGrant' /\ ReadsWithinGrant'
  BY DEF DescendsFromGrant, ReadsWithinGrant
<1> QED
  BY <1>1, <1>2, <1>3, <1>4

\* GroupCipher.encrypt seals at the sender's iteration and steps past it.
LEMMA EncryptInv ==
  ASSUME Inv, Encrypt, TypeOK' PROVE Inv'
<1> USE NoneAssumption
    DEF Inv, Encrypt, Advance, TypeOK, SenderKeyState, Message
<1> DEFINE new == [generation |-> senderKey.generation,
                   iteration |-> senderKey.iteration, text |-> sent]
<1>0. /\ senderKey \in SenderKeyState
      /\ senderKey'.generation = senderKey.generation
      /\ senderKey'.iteration = senderKey.iteration + 1
      /\ network' = network \union {new}
  OBVIOUS
<1>1. GenerationsPast'
  BY <1>0 DEF GenerationsPast
<1>2. SenderInFront'
  BY <1>0 DEF SenderInFront
<1>3. SenderKeysUnique'
  BY <1>0 DEF SenderKeysUnique, SenderInFront
<1>4. TextsNumbered'
  BY <1>0 DEF TextsNumbered
<1>5. DescendsFromGrant'
  BY DEF DescendsFromGrant
<1>6. ReadsWithinGrant'
  BY <1>0 DEF ReadsWithinGrant, TextsNumbered
<1> QED
  BY <1>1, <1>2, <1>3, <1>4, <1>5, <1>6

\* processSession installs a position the sender has reached.
LEMMA ProcessSessionInv ==
  ASSUME Inv, TypeOK', NEW r \in Member, NEW d \in distributed,
         ProcessSession(r, d)
  PROVE  Inv'
<1> USE DEF Inv, ProcessSession, TypeOK, SenderKeyState, Message
<1>1. GenerationsPast'
  BY DEF GenerationsPast
<1>2. SenderInFront'
  BY DEF SenderInFront
<1>3. SenderKeysUnique' /\ TextsNumbered'
  BY DEF SenderKeysUnique, TextsNumbered
<1>4. DescendsFromGrant'
  BY DEF DescendsFromGrant
<1>5. ReadsWithinGrant'
  BY DEF ReadsWithinGrant
<1> QED
  BY <1>1, <1>2, <1>3, <1>4, <1>5

\* GroupCipher.decrypt moves a member past a message that was sealed, under a
\* key it was granted at or before that message.
LEMMA DecryptInv ==
  ASSUME Inv, TypeOK', NEW r \in Member, NEW m \in network, Decrypt(r, m)
  PROVE  Inv'
<1> USE NoneAssumption
    DEF Inv, Decrypt, Readable, AfterReading, TypeOK, SenderKeyState, Message
<1>0. /\ memberKey[r] \in SenderKeyState
      /\ memberKey'[r].generation = m.generation
      /\ memberKey'[r].iteration = m.iteration + 1
      /\ memberKey[r].generation = m.generation
      /\ memberKey[r].iteration <= m.iteration
      /\ \A q \in Member \ {r} : memberKey'[q] = memberKey[q]
  OBVIOUS
<1>1. GenerationsPast'
  BY <1>0 DEF GenerationsPast
<1>2. SenderInFront'
  BY <1>0 DEF SenderInFront
<1>3. SenderKeysUnique' /\ TextsNumbered'
  BY DEF SenderKeysUnique, TextsNumbered
<1>4. PICK d \in processed[r] :
        /\ d.generation = m.generation
        /\ d.iteration <= memberKey[r].iteration
  BY <1>0 DEF DescendsFromGrant
<1>5. d.iteration \in Nat
  OBVIOUS
<1>6. DescendsFromGrant'
  BY <1>0, <1>4, <1>5 DEF DescendsFromGrant
<1>7. ReadsWithinGrant'
  BY <1>0, <1>4, <1>5 DEF ReadsWithinGrant, TextsNumbered
<1> QED
  BY <1>1, <1>2, <1>3, <1>6, <1>7

\* Every step keeps the inductive invariant.
LEMMA NextInv == Inv /\ [Next]_vars => Inv'
<1> SUFFICES ASSUME Inv, [Next]_vars PROVE Inv'
  OBVIOUS
<1>0. TypeOK'
  BY NextType DEF Inv
<1> USE DEF Inv, GenerationsPast, SenderInFront, SenderKeysUnique,
            TextsNumbered, DescendsFromGrant, ReadsWithinGrant
<1>1. CASE DistributeExisting
  BY <1>0, <1>1 DEF DistributeExisting, TypeOK, SenderKeyState
<1>2. CASE DropSenderKey
  BY <1>0, <1>2 DEF DropSenderKey
<1>3. CASE UNCHANGED vars
  BY <1>0, <1>3 DEF vars
<1> QED
  BY <1>0, <1>1, <1>2, <1>3, CreateSessionInv, EncryptInv,
     ProcessSessionInv, DecryptInv DEF Next

\* The inductive invariant holds in every reachable state.
LEMMA Invariance == Spec => []Inv
<1>1. Init => Inv
  BY InitInv
<1>2. Inv /\ [Next]_vars => Inv'
  BY NextInv
<1> QED
  BY <1>1, <1>2, PTL DEF Spec

\* No iteration of a sender key seals two messages, also across dropped and
\* recreated records.
THEOREM SenderKeysUniqueCorrect == Spec => []SenderKeysUnique
<1>1. Inv => SenderKeysUnique
  BY DEF Inv
<1> QED
  BY <1>1, Invariance, PTL

\* A member on the sender's present key is never ahead of the sender.
THEOREM NeverAheadCorrect == Spec => []NeverAhead
<1>1. Inv => NeverAhead
  BY DEF Inv, SenderInFront, NeverAhead
<1> QED
  BY <1>1, Invariance, PTL

\* A member reads only messages at or after a position it was granted.
THEOREM ReadsWithinGrantCorrect == Spec => []ReadsWithinGrant
<1>1. Inv => ReadsWithinGrant
  BY DEF Inv
<1> QED
  BY <1>1, Invariance, PTL

-----------------------------------------------------------------------------
(* The group programs *)

\* Every call of test_group is one that a group may make.
LEMMA ExampleCalls == test_group => Next
<1>1. TheMember \in Member
  BY MemberAssumption DEF TheMember
<1> QED
  BY <1>1 DEF test_group, Next

\* Both programs, test_group and the group that calls in any order, only make
\* steps of SenderKeys.
THEOREM GroupHostsImplement == SpecGroup => Spec
<1>1. InitGroup => Init
  BY DEF InitGroup
<1>2. [NextGroup]_groupVars => [Next]_vars
  <2>1. NextGroup => Next
    BY ExampleCalls DEF NextGroup, ExampleStep, AnyStep
  <2>2. UNCHANGED groupVars => UNCHANGED vars
    BY DEF groupVars, vars
  <2> QED
    BY <2>1, <2>2
<1> QED
  BY <1>1, <1>2, PTL DEF SpecGroup, Spec

\* So what was proved holds of test_group and of every other group program: no
\* iteration seals two messages, no member is ahead of the sender, and members
\* read only what a distribution message granted them.
THEOREM GroupHostsSafe ==
  SpecGroup => [](TypeOK /\ SenderKeysUnique /\ NeverAhead /\ ReadsWithinGrant)
BY GroupHostsImplement, TypeCorrect, SenderKeysUniqueCorrect,
   NeverAheadCorrect, ReadsWithinGrantCorrect, PTL

=============================================================================
