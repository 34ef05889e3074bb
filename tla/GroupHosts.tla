----------------------------- MODULE GroupHosts -----------------------------
(***************************************************************************)
(* Programs over SenderKeys: a group whose members and sender call in any  *)
(* order, and test_group of examples/c/main.c (examples/cpp/main.cpp makes *)
(* the same calls), one sender and one member in a fixed order.            *)
(***************************************************************************)
EXTENDS SenderKeys

VARIABLES
    example,        \* this program is test_group
    made            \* how many calls test_group has made

groupVars == <<senderKey, memberKey, generations, distributed, sent, network,
               processed, opened, example, made>>

InitGroup == Init /\ example \in BOOLEAN /\ made = 0

\* test_group has one member, bob.
ASSUME MemberAssumption == Member # {}

TheMember == CHOOSE r \in Member : TRUE

\* Faulty variant: the member gets the distribution after the message.
test_groupLate ==
    \/ made = 0 /\ CreateSession
    \/ made = 1 /\ Encrypt
    \/ made = 2 /\ DistributeExisting
    \/ made = 3 /\ ProcessSession(TheMember, senderKey)
    \/ made = 4 /\ \E m \in network : Decrypt(TheMember, m)

\* A call that fails ends the process, and nothing more happens.
test_group ==
    \/ made = 0 /\ CreateSession
    \/ made = 1 /\ \E d \in distributed : ProcessSession(TheMember, d)
    \/ made = 2 /\ Encrypt
    \/ made = 3 /\ \E m \in network : Decrypt(TheMember, m)

ExampleStep == example /\ test_group /\ made' = made + 1 /\ UNCHANGED example

AnyStep == ~example /\ Next /\ UNCHANGED <<example, made>>

NextGroup == ExampleStep \/ AnyStep

SpecGroup ==
    InitGroup /\ [][NextGroup]_groupVars /\ WF_groupVars(ExampleStep)

-----------------------------------------------------------------------------
(* Properties *)

\* The example prints PASS: the member that processed the distribution
\* message reads the text that was sealed after it.
GroupExamplePasses == <>(example => 0 \in opened[TheMember])

=============================================================================
