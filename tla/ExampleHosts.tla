---------------------------- MODULE ExampleHosts ----------------------------
(***************************************************************************)
(* Programs over SessionCalls: a host that calls in any order, and         *)
(* test_session of examples/c/main.c and of examples/cpp/main.cpp, which   *)
(* run the calls of both parties one after the other and abort at the      *)
(* first one that does not do what the example expects.                    *)
(***************************************************************************)
EXTENDS SessionCalls

VARIABLES
    made,       \* how many calls test_session has made
    passed      \* it printed PASS

exampleVars == <<session, preKeys, kyberUsed, identities, nextKey, sent,
                 network, opened, reopened, host, call, outcome, freed,
                 made, passed>>

ExampleKey == CHOOSE k \in OneTimeKeys : TRUE

\* Only the responder makes pre-keys: one of each kind.
setup_bob == [p \in Party |-> IF p = Bob THEN {ExampleKey} ELSE {}]

\* The bundle of the keys that setup_bob stored.
bundle == [opk |-> ExampleKey, kem |-> TRUE]

\* The examples have a one-time pre-key, and their bundle may be published.
ASSUME ExampleAssumption ==
    \/ Hosts \subseteq {"any"}
    \/ ExampleKey \in OneTimeKeys /\ bundle \in Bundles

InitExample ==
    /\ session = [p \in Party |-> NewRecord]
    /\ preKeys = setup_bob
    /\ kyberUsed = {}
    /\ identities = {}
    /\ nextKey = 3
    /\ sent = 0
    /\ network = {}
    /\ opened = [p \in Party |-> {}]
    /\ reopened = [p \in Party |-> {}]

InitHosts ==
    /\ InitCalls
    /\ IF host = "any" THEN Init ELSE InitExample
    /\ made = 0
    /\ passed = FALSE

-----------------------------------------------------------------------------
(* test_session *)

\* One call of the script; kinds are the message types it goes on with after
\* encrypting, text is the plaintext it compares after decrypting.
ScriptCall(by, op, kinds, text) ==
    [by |-> by, op |-> op, kinds |-> kinds, text |-> text]

AnyKind == {"pre_key", "whisper"}

\* Faulty variant: the reply is made before the message is read.
test_session_c_early ==
    <<ScriptCall(Alice, "process_prekey_bundle", {}, None),
      ScriptCall(Alice, "encrypt_message", {"pre_key"}, None),
      ScriptCall(Bob, "encrypt_message", {"whisper"}, None),
      ScriptCall(Bob, "decrypt_pre_key_message", {}, 0),
      ScriptCall(Alice, "decrypt_message", {}, 1)>>

\* The C example checks the type of both messages.
test_session_c ==
    <<ScriptCall(Alice, "process_prekey_bundle", {}, None),
      ScriptCall(Alice, "encrypt_message", {"pre_key"}, None),
      ScriptCall(Bob, "decrypt_pre_key_message", {}, 0),
      ScriptCall(Bob, "encrypt_message", {"whisper"}, None),
      ScriptCall(Alice, "decrypt_message", {}, 1)>>

\* The C++ example takes the reply for a whisper message unseen.
test_session_cpp ==
    <<ScriptCall(Alice, "process_prekey_bundle", {}, None),
      ScriptCall(Alice, "encrypt_message", {"pre_key"}, None),
      ScriptCall(Bob, "decrypt_pre_key_message", {}, 0),
      ScriptCall(Bob, "encrypt_message", AnyKind, None),
      ScriptCall(Alice, "decrypt_message", {}, 1)>>

Script == IF host = "c" THEN test_session_c ELSE test_session_cpp

Between == host # "any" /\ ~passed /\ call = NoCall

\* The message sealed last.
LastSealed == CHOOSE m \in network : m.text = sent - 1

\* MUST, the type check and the comparison after the call made last. One that
\* fails ends the process: no step follows.
Expected ==
    made > 0 =>
        LET s == Script[made]
        IN  /\ outcome[s.by] = "ok"
            /\ s.op = "encrypt_message" => LastSealed.kind \in s.kinds
            /\ s.text # None => s.text \in opened[s.by]

MakeCall ==
    LET s == Script[made + 1]
    IN  /\ Between /\ Expected
        /\ made < Len(Script)
        /\ CASE s.op = "process_prekey_bundle" -> Begin(s.by, s.op, None, bundle)
             [] s.op = "encrypt_message" -> Begin(s.by, s.op, None, None)
             [] OTHER -> Begin(s.by, s.op, LastSealed, None)
        /\ made' = made + 1
        /\ UNCHANGED passed

Finish ==
    /\ Between /\ Expected
    /\ made = Len(Script)
    /\ passed' = TRUE
    /\ UNCHANGED <<vars, callVars, made>>

ExampleStep ==
    /\ host # "any"
    /\ \/ MakeCall \/ Finish
       \/ \E p \in Party : CallStep(p) /\ UNCHANGED <<made, passed>>

AnyStep ==
    /\ host = "any"
    /\ \E p \in Party : AnyCall(p) \/ CallStep(p)
    /\ UNCHANGED <<made, passed>>

NextHosts == AnyStep \/ ExampleStep

\* The examples are sequential programs: the processor runs their next step.
SpecHosts ==
    InitHosts /\ [][NextHosts]_exampleVars /\ WF_exampleVars(ExampleStep)

-----------------------------------------------------------------------------
(* Properties *)

\* Both examples print PASS: the calls they make, with stores that never
\* remove a pre-key, end as the examples expect, and end at all.
ExamplesPass == <>(host = "any" \/ passed)

=============================================================================
