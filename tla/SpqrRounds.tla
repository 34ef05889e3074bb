----------------------------- MODULE SpqrRounds -----------------------------
(***************************************************************************)
(* The SPQR state machine under the schedule of the repository's test:     *)
(* spqrStep lets Alice send, Bob send, Bob receive, Alice receive, and so  *)
(* on, one message at a time in each direction.                            *)
(***************************************************************************)
EXTENDS Spqr

VARIABLE turn        \* the step of the round that comes next

roundVars == <<sm, chain, auth, drawn, channel, turn>>

InitRounds == Init /\ turn = 1

RoundStep ==
    /\ turn' = (turn % 4) + 1
    /\ \/ turn = 1 /\ Send(Alice)
       \/ turn = 2 /\ Send(Bob)
       \/ turn = 3 /\ Receive(Bob)
       \/ turn = 4 /\ Receive(Alice)

SpecRounds == InitRounds /\ [][RoundStep]_roundVars /\ WF_roundVars(RoundStep)
=============================================================================
