---------------------------- MODULE PartitionTests ----------------------------
(***************************************************************************)
(* The repository's own tests of the measured boot and the delegated       *)
(* attestation partitions (measured_boot_tests_common.c,                   *)
(* delegated_attest_test.c), run against their models.  A test is the      *)
(* sequence of its calls, each with the statuses that the test accepts.    *)
(* While one partition is tested its other clients go on: the attestation  *)
(* partition reads the slots during the tests of measured boot, and slots  *)
(* are extended during the tests of delegated attestation.                 *)
(***************************************************************************)
EXTENDS DelegatedAttest

CONSTANTS
    Tester,                 \* the client that runs the tests of measured boot
    TestSlot,               \* a slot that no boot stage uses
    TestSigner, WrongSigner,
    TestValue1, TestValue2  \* SW_SHA256_VAL_TEST_0 and _1

ASSUME TesterAssumption ==
    /\ Tester \in Client \ {Attest}
    /\ TestSlot \in Slot
    /\ {TestSigner, WrongSigner} \subseteq Signer /\ Len(TestSigner) = SignerMax
    /\ VersionMax > 0 /\ SwTypeMax > 0
    /\ {TestValue1, TestValue2} \subseteq Value

VARIABLE test   \* the running test: its name, the step reached, the verdict

testVars == <<allVars, test>>

-------------------------------------------------------------------------------
(* measured_boot_tests_common.c *)

(* load_test_measurement_data, load_default_valid_test_data *)
TestExtend(checked, i, signer, value, lock) ==
    [type |-> "extend", checked |-> checked, index |-> i, signer_id |-> signer,
     value |-> value, version_size |-> VersionMax, sw_type_size |-> SwTypeMax,
     lock |-> lock]
TestRead(i, signer, version, sw_type, value) ==
    [type |-> "read", checked |-> "ok", index |-> i, signer_id_size |-> signer,
     version_size |-> version, sw_type_size |-> sw_type, value_size |-> value]
ReadAll(i) == TestRead(i, SignerMax, VersionMax, SwTypeMax, 1)

Extends(expected) ==
    [call |-> TestExtend("ok", TestSlot, TestSigner, TestValue1, FALSE),
     expect |-> {expected}]
(* A measurement with a size that is out of range. *)
BadExtend ==
    [call |-> TestExtend("invalid_argument", TestSlot, TestSigner, TestValue1, FALSE),
     expect |-> {"invalid_argument"}]
(* A buffer that is one byte short of the size that was extended. *)
ShortRead(signer, version, sw_type, value) ==
    [call |-> TestRead(TestSlot, signer, version, sw_type, value),
     expect |-> {"invalid_argument"}]

(* The values of the measurement and the lengths of its version and its    *)
(* software type that expected_test_data names: a second extension clears  *)
(* both.                                                                   *)
CoreTest(v, values, version_size, sw_type_size) ==
    <<[call |-> TestExtend("ok", TestSlot, TestSigner, v, FALSE), expect |-> {"ok"}],
      [call |-> ReadAll(TestSlot), expect |-> {"ok"},
       measurement |-> [j \in 1 .. Len(values) |-> [val |-> values[j],
                                                    by |-> TestSigner]],
       version_size |-> version_size, sw_type_size |-> sw_type_size]>>

mboot_001 == CoreTest(TestValue1, <<TestValue1>>, VersionMax, SwTypeMax)
               \o CoreTest(TestValue2, <<TestValue1, TestValue2>>, 0, 0)
mboot_003 ==
    <<[call |-> TestExtend("ok", NumSlots, TestSigner, TestValue1, FALSE),
       expect |-> {"invalid_argument"}],
      [call |-> ReadAll(NumSlots), expect |-> {"invalid_argument"}]>>
mboot_004 == <<BadExtend, BadExtend>>
mboot_005 == <<Extends("ok"), ShortRead(SignerMax, VersionMax, SwTypeMax, 0)>>
mboot_007 == <<Extends("ok"), ShortRead(SignerMax - 1, VersionMax, SwTypeMax, 1)>>
mboot_009 == <<Extends("ok"), ShortRead(SignerMax, VersionMax - 1, SwTypeMax, 1)>>
mboot_011 == <<Extends("ok"), ShortRead(SignerMax, VersionMax, SwTypeMax - 1, 1)>>
mboot_012 ==
    <<[call |-> TestExtend("ok", TestSlot, TestSigner, TestValue1, TRUE),
       expect |-> {"ok"}], Extends("bad_state")>>
mboot_013 ==
    <<Extends("ok"),
      [call |-> TestExtend("ok", TestSlot, WrongSigner, TestValue1, FALSE),
       expect |-> {"not_permitted"}]>>

-------------------------------------------------------------------------------
(* delegated_attest_test.c *)

TestBits == 384
KeyCall(curve, bits, algo, room, size_out) ==
    [type |-> "key", curve |-> curve, bits |-> bits, algo |-> algo, room |-> room,
     size_out |-> size_out]
Token(hash_of, len, room, expected) ==
    [req |-> [type |-> "token", hash_of |-> hash_of, len |-> len, room |-> room,
              size_out |-> TRUE], expect |-> {expected}]
Key(bits, algo) ==
    [req |-> KeyCall("secp_r1", bits, algo, Bytes(521), TRUE), expect |-> {"ok"},
     key_size |-> Bytes(bits)]
BadKey(curve, bits, algo, room, size_out, expected) ==
    [req |-> KeyCall(curve, bits, algo, room, size_out), expect |-> expected]

attest_1001 ==
    <<Token("other", 32, TokenSize, "invalid_argument"),
      Key(TestBits, "sha_256"),
      Token("given", 32, TokenSize, "ok"),
      Token("other", 32, TokenSize, "invalid_argument"),
      Token("given", 31, TokenSize, "invalid_argument"),
      Token("given", 32, 1, "buffer_too_small"),
      Token("given", 32, TokenSize, "ok")>>
attest_1002 ==
    <<Key(256, "sha_256"), Key(384, "sha_256"), Key(521, "sha_256"),
      Key(TestBits, "sha_256"), Key(TestBits, "sha_384"), Key(TestBits, "sha_512")>>
attest_1003 ==
    <<BadKey("secp_k1", TestBits, "sha_256", Bytes(521), TRUE, {"invalid_argument"}),
      BadKey("secp_r1", 224, "sha_256", Bytes(521), TRUE, {"invalid_argument"}),
      BadKey("secp_r1", TestBits, "sha_256", Bytes(TestBits) - 1, TRUE,
             {"buffer_too_small"}),
      BadKey("secp_r1", TestBits, "sha_256", Bytes(521), FALSE, {"invalid_argument"}),
      BadKey("secp_r1", TestBits, "unsupported", Bytes(521), TRUE,
             {"not_supported", "invalid_argument"})>>

-------------------------------------------------------------------------------
(* The tests of measured boot leave out 002, 006, 008 and 010, which       *)
(* repeat 001 and 004 with another algorithm or another field.             *)
MbootTests ==
    [mboot_001 |-> mboot_001, mboot_003 |-> mboot_003, mboot_004 |-> mboot_004,
     mboot_005 |-> mboot_005, mboot_007 |-> mboot_007, mboot_009 |-> mboot_009,
     mboot_011 |-> mboot_011, mboot_012 |-> mboot_012, mboot_013 |-> mboot_013]
AttestTests ==
    [attest_1001 |-> attest_1001, attest_1002 |-> attest_1002,
     attest_1003 |-> attest_1003]

NoTest == [name |-> "none", step |-> 1, waits |-> FALSE, verdict |-> "none"]
TestInit ==
    /\ Init /\ AttestInit
    /\ \/ test = NoTest
       \/ \E n \in DOMAIN MbootTests \cup DOMAIN AttestTests :
            test = [name |-> n, step |-> 1, waits |-> FALSE, verdict |-> "running"]

Steps == IF test.name \in DOMAIN MbootTests THEN MbootTests[test.name]
         ELSE AttestTests[test.name]
Step == Steps[test.step]

Accepted(a) ==
    /\ a.status \in Step.expect
    /\ "measurement" \in DOMAIN Step =>
         /\ a.value = Step.measurement
         /\ a.version_size = Step.version_size /\ a.sw_type_size = Step.sw_type_size
    /\ "key_size" \in DOMAIN Step => a.key_size = Step.key_size

(* Errors of the crypto service: no statement about the partition. *)
CryptoError(a) ==
    \/ a.status \in {"hash_error", "generic_error"}
    \/ "key_size" \in DOMAIN Step /\ a.status = "buffer_too_small"

Judge(a) ==
    test' = IF CryptoError(a) THEN [test EXCEPT !.verdict = "aborted"]
            ELSE IF ~Accepted(a) THEN [test EXCEPT !.verdict = "failed"]
            ELSE IF test.step < Len(Steps)
              THEN [test EXCEPT !.step = @ + 1, !.waits = FALSE]
            ELSE [test EXCEPT !.verdict = "passed"]

MbootTestStep ==
    /\ test.verdict = "running" /\ test.name \in DOMAIN MbootTests
    /\ \/ /\ ~test.waits
          /\ Send(Tester, Step.call)
          /\ test' = [test EXCEPT !.waits = TRUE]
       \/ /\ test.waits /\ msg[Tester] = NoMsg
          /\ Judge(answer[Tester])
          /\ UNCHANGED vars
    /\ UNCHANGED attestVars

AttestTestStep ==
    /\ test.verdict = "running" /\ test.name \in DOMAIN AttestTests
    /\ \/ /\ ~test.waits
          /\ Serve(Step.req)
          /\ test' = [test EXCEPT !.waits = TRUE]
       \/ /\ test.waits /\ att = Idle
          /\ Judge(outcome)
          /\ UNCHANGED allVars

(* The clients that are not under test. *)
OtherSend ==
    /\ \E c \in Client \ {Attest}, m \in Call :
         (c = Tester => test.name \notin DOMAIN MbootTests) /\ Send(c, m)
    /\ UNCHANGED <<attestVars, test>>
OtherServe ==
    /\ test.name \notin DOMAIN AttestTests
    /\ \E r \in Request : Serve(r)
    /\ UNCHANGED test

TestNext ==
    \/ MbootTestStep \/ AttestTestStep
    \/ OtherSend \/ OtherServe
    \/ MeasuredBootStep /\ UNCHANGED <<attestVars, test>>
    \/ AttestStep /\ UNCHANGED test

TestSpec ==
    TestInit /\ [][TestNext]_testVars /\ Fairness /\ WF_allVars(AttestStep)

(* Every test of the two partitions passes, whatever their other clients   *)
(* do at the same time, unless the crypto service fails.                   *)
TestsPass == test.verdict # "failed"
===============================================================================
