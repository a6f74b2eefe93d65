------------------------------ MODULE EtssTests ------------------------------
(***************************************************************************)
(* The repository's test suites of the ETSS service, run against its       *)
(* model: the secure suite (etss_s_interface_testsuite.c), in one client,  *)
(* and the non-secure one (etss_ns_interface_testsuite.c), whose tasks run *)
(* one after the other in threads with client ids of their own.  The two   *)
(* run at the same time, in any interleaving of their calls.  A task is    *)
(* the sequence of its calls, each with what the test accepts.  Resets are *)
(* left out: the suites do not clean up what an interrupted run has left.  *)
(***************************************************************************)
EXTENDS EtssService

CONSTANTS
    SecureTest,                         \* the partition with the secure suite
    ThreadA, ThreadB, ThreadInvalid     \* the threads of the non-secure one

ASSUME TestAssumption ==
    /\ {SecureTest, ThreadA, ThreadB} \subseteq CtxClient \cap Client
    /\ ThreadInvalid \in Client \ CtxClient
    /\ {0, 1, 2, 3, 4} \subseteq Uid
    /\ MaxFile = 4

VARIABLE suite  \* per suite: the next step, whether it waits, the verdict

testVars == <<vars, suite>>

-------------------------------------------------------------------------------
(* The calls, and what a test accepts of them *)

INVALID_UID == 0
WRITE_ONCE_UID == 1
TEST_UID_1 == 2
TEST_UID_2 == 3
TEST_UID_3 == 4
WRITE_DATA == <<1, 2, 3>>
WRITE_DATA_SIZE == Len(WRITE_DATA)
WRITE_ONCE_DATA == <<4, 5>>

SetCall(u, data, once, flags_ok) ==
    [op |-> "set", uid |-> u, data |-> data, once |-> once, sizes_ok |-> TRUE,
     flags_ok |-> flags_ok]
SetIs(u, data, status) ==
    [req |-> SetCall(u, data, FALSE, TRUE), expect |-> {status}]
SetOk(u, data) == SetIs(u, data, "ok")

GetCall(u, off, n) == [op |-> "get", uid |-> u, offset |-> off, size |-> n, sizes_ok |-> TRUE]
GetOk(u, off, n, data) == [req |-> GetCall(u, off, n), expect |-> {"ok"}, data |-> data]
GetIs(u, off, n, status) ==
    [req |-> GetCall(u, off, n), expect |-> {status}, data |-> << >>]

InfoCall(u) == [op |-> "get_info", uid |-> u, sizes_ok |-> TRUE]
InfoOk(u, size, once) ==
    [req |-> InfoCall(u), expect |-> {"ok"}, info |-> [size |-> size, once |-> once]]
InfoIs(u, status) == [req |-> InfoCall(u), expect |-> {status}]

RemoveIs(u, status) ==
    [req |-> [op |-> "remove", uid |-> u, sizes_ok |-> TRUE], expect |-> {status}]
RemoveOk(u) == RemoveIs(u, "ok")

-------------------------------------------------------------------------------
(* The tasks of the non-secure suite *)

task_1001 ==
    <<SetOk(TEST_UID_1, << >>), SetOk(TEST_UID_1, << >>),
      SetIs(INVALID_UID, << >>, "invalid_argument"), RemoveOk(TEST_UID_1)>>

(* The second set is skipped if an earlier run of the suite has made it. *)
task_1002 ==
    <<[req |-> SetCall(WRITE_ONCE_UID, WRITE_DATA, FALSE, TRUE),
       expect |-> {"ok", "not_permitted"}],
      [req |-> SetCall(WRITE_ONCE_UID, WRITE_ONCE_DATA, TRUE, TRUE),
       expect |-> {"ok"}, only_after |-> "ok"],
      [req |-> SetCall(TEST_UID_2, WRITE_DATA, FALSE, FALSE),
       expect |-> {"not_supported"}]>>
task_1003 == <<SetOk(TEST_UID_3, << >>)>>
task_1004 ==
    <<SetIs(WRITE_ONCE_UID, WRITE_DATA, "not_permitted"),
      GetOk(WRITE_ONCE_UID, 0, Len(WRITE_ONCE_DATA), WRITE_ONCE_DATA)>>
task_1005 ==
    <<SetOk(TEST_UID_2, WRITE_DATA),
      GetOk(TEST_UID_2, 0, WRITE_DATA_SIZE, WRITE_DATA),
      GetOk(TEST_UID_2, 1, WRITE_DATA_SIZE - 2, <<2>>), RemoveOk(TEST_UID_2)>>
task_1006 ==
    <<SetOk(TEST_UID_3, WRITE_DATA), GetOk(TEST_UID_3, 0, 0, << >>),
      GetOk(TEST_UID_3, 1, 0, << >>), RemoveOk(TEST_UID_3)>>
task_1007 ==
    <<GetIs(TEST_UID_1, 0, 1, "does_not_exist"),
      GetIs(INVALID_UID, 0, 1, "invalid_argument")>>
task_1008 ==
    <<SetOk(TEST_UID_2, WRITE_DATA),
      GetIs(TEST_UID_2, WRITE_DATA_SIZE + 1, 1, "invalid_argument"),
      GetOk(TEST_UID_2, 0, WRITE_DATA_SIZE + 1, WRITE_DATA),
      GetOk(TEST_UID_2, 1, WRITE_DATA_SIZE, <<2, 3>>), RemoveOk(TEST_UID_2)>>
task_1009 ==
    <<SetOk(TEST_UID_3, WRITE_DATA), GetOk(TEST_UID_3, 0, 0, << >>),
      RemoveOk(TEST_UID_3)>>
task_1010 == <<InfoOk(WRITE_ONCE_UID, Len(WRITE_ONCE_DATA), TRUE)>>
task_1011 ==
    <<SetOk(TEST_UID_1, WRITE_DATA), InfoOk(TEST_UID_1, WRITE_DATA_SIZE, FALSE),
      RemoveOk(TEST_UID_1)>>
task_1012 ==
    <<InfoIs(TEST_UID_2, "does_not_exist"), InfoIs(INVALID_UID, "invalid_argument")>>
task_1013 ==
    <<SetOk(TEST_UID_1, WRITE_DATA), RemoveOk(TEST_UID_1),
      InfoIs(TEST_UID_1, "does_not_exist"),
      GetIs(TEST_UID_1, 0, WRITE_DATA_SIZE, "does_not_exist"),
      RemoveIs(TEST_UID_1, "does_not_exist")>>
task_1014 == <<RemoveIs(WRITE_ONCE_UID, "not_permitted")>>
task_1015 == <<RemoveIs(INVALID_UID, "invalid_argument")>>

task_1016_1 == <<SetOk(TEST_UID_3, WRITE_DATA)>>
task_1016_2 == <<GetIs(TEST_UID_3, 0, WRITE_DATA_SIZE, "not_permitted")>>
task_1016_3 == <<RemoveOk(TEST_UID_3)>>
task_1017_1 == <<SetOk(TEST_UID_1, WRITE_DATA)>>
task_1017_2 == <<InfoIs(TEST_UID_1, "not_permitted")>>
task_1017_3 == <<RemoveOk(TEST_UID_1)>>
task_1018_1 == <<SetOk(TEST_UID_2, WRITE_DATA)>>
task_1018_2 == <<RemoveIs(TEST_UID_2, "not_permitted")>>
task_1018_3 == <<RemoveOk(TEST_UID_2)>>

task_1019_1 == <<SetOk(TEST_UID_3, <<6, 6>>)>>
task_1019_2 ==
    <<GetIs(TEST_UID_3, 0, WRITE_DATA_SIZE, "does_not_exist"),
      InfoIs(TEST_UID_3, "does_not_exist"), RemoveIs(TEST_UID_3, "does_not_exist"),
      SetOk(TEST_UID_3, WRITE_DATA),
      GetOk(TEST_UID_3, 0, WRITE_DATA_SIZE, WRITE_DATA), RemoveOk(TEST_UID_3)>>
task_1019_3 ==
    <<InfoOk(TEST_UID_3, 2, FALSE), GetOk(TEST_UID_3, 0, 2, <<6, 6>>),
      RemoveOk(TEST_UID_3)>>

task_1020_1 == <<SetOk(TEST_UID_1, <<1>>)>>
task_1020_2 == <<SetOk(TEST_UID_1, <<2>>)>>
task_1020_3 == <<SetOk(TEST_UID_1, <<3, 3>>)>>
task_1020_4 == <<SetOk(TEST_UID_1, <<4, 4, 4>>)>>
task_1020_5 == <<GetOk(TEST_UID_1, 0, 2, <<3, 3>>)>>
task_1020_6 == <<GetOk(TEST_UID_1, 0, 3, <<4, 4, 4>>), RemoveOk(TEST_UID_1)>>
task_1020_7 == <<RemoveOk(TEST_UID_1)>>

task_1021 ==
    <<SetOk(TEST_UID_2, <<6, 6>>), SetOk(TEST_UID_3, WRITE_DATA), RemoveOk(TEST_UID_2),
      GetOk(TEST_UID_3, 0, WRITE_DATA_SIZE, WRITE_DATA), RemoveOk(TEST_UID_3)>>
task_1022 ==
    <<SetOk(TEST_UID_1, WRITE_DATA)>>
      \o [j \in 1 .. WRITE_DATA_SIZE |-> GetOk(TEST_UID_1, j - 1, 1, <<WRITE_DATA[j]>>)]
      \o <<RemoveOk(TEST_UID_1)>>
task_1023 ==
    <<SetOk(TEST_UID_2, <<1, 1>>), SetOk(TEST_UID_2, <<2, 2>>),
      SetOk(TEST_UID_2, <<3, 3, 3>>), GetOk(TEST_UID_2, 0, 3, <<3, 3, 3>>),
      RemoveOk(TEST_UID_2)>>

(* One cycle of the last test, with an asset of the given size. *)
Cycle(u, size) ==
    LET asset == [j \in 1 .. size |-> 9]
    IN  <<SetOk(u, asset), InfoOk(u, size, FALSE), GetOk(u, 0, size, asset), RemoveOk(u)>>
task_1025 ==
    Cycle(TEST_UID_1, MaxFile \div 4) \o Cycle(TEST_UID_2, MaxFile \div 2)
      \o Cycle(TEST_UID_3, MaxFile)

-------------------------------------------------------------------------------
(* The secure suite makes the calls of the non-secure one, without threads *)
(* and under other numbers.                                                *)
s_test_1001 == task_1001
s_test_1002 == task_1002
s_test_1003 == task_1003
s_test_1005 == task_1004
s_test_1006 == task_1005
s_test_1007 == task_1006
s_test_1008 == task_1007
s_test_1009 == task_1008
s_test_1010 == task_1009
s_test_1011 == task_1010
s_test_1012 == task_1011
s_test_1013 == task_1012
s_test_1015 == task_1013
s_test_1016 == task_1014
s_test_1017 == task_1015
s_test_1018 == task_1021
s_test_1019 == task_1022
s_test_1020 == task_1023
s_test_1022 == task_1025

-------------------------------------------------------------------------------
(* Running a suite *)

(* tfm_etss_run_test: the task in a thread, for which the runner waits. *)
InThread(c, task) == [j \in 1 .. Len(task) |-> [c |-> c, call |-> task[j]]]

etss_ns_tests ==
    InThread(ThreadA,
      task_1001 \o task_1002 \o task_1003 \o task_1004 \o task_1005 \o task_1006
      \o task_1007 \o task_1008 \o task_1009 \o task_1010 \o task_1011 \o task_1012
      \o task_1013 \o task_1014 \o task_1015 \o task_1016_1)
    \o InThread(ThreadInvalid, task_1016_2) \o InThread(ThreadA, task_1016_3)
    \o InThread(ThreadA, task_1017_1) \o InThread(ThreadInvalid, task_1017_2)
    \o InThread(ThreadA, task_1017_3)
    \o InThread(ThreadA, task_1018_1) \o InThread(ThreadInvalid, task_1018_2)
    \o InThread(ThreadA, task_1018_3)
    \o InThread(ThreadA, task_1019_1) \o InThread(ThreadB, task_1019_2)
    \o InThread(ThreadA, task_1019_3)
    \o InThread(ThreadA, task_1020_1) \o InThread(ThreadB, task_1020_2)
    \o InThread(ThreadA, task_1020_3) \o InThread(ThreadB, task_1020_4)
    \o InThread(ThreadA, task_1020_5) \o InThread(ThreadB, task_1020_6)
    \o InThread(ThreadA, task_1020_7)
    \o InThread(ThreadA, task_1021 \o task_1022 \o task_1023 \o task_1025)

psa_etss_s_tests ==
    InThread(SecureTest,
      s_test_1001 \o s_test_1002 \o s_test_1003 \o s_test_1005 \o s_test_1006
      \o s_test_1007 \o s_test_1008 \o s_test_1009 \o s_test_1010 \o s_test_1011
      \o s_test_1012 \o s_test_1013 \o s_test_1015 \o s_test_1016 \o s_test_1017
      \o s_test_1018 \o s_test_1019 \o s_test_1020 \o s_test_1022)

Suites == [secure |-> psa_etss_s_tests, non_secure |-> etss_ns_tests]

TestInit ==
    /\ Init
    /\ suite = [s \in DOMAIN Suites |-> [at |-> 1, waits |-> FALSE, verdict |-> "running"]]

Step(s) == Suites[s][suite[s].at]

Accepted(call, a) ==
    /\ a.status \in call.expect
    /\ "data" \in DOMAIN call /\ "data" \in DOMAIN a => a.data = call.data
    /\ "info" \in DOMAIN call => a.info = call.info

Skips(s, n, a) ==
    "only_after" \in DOMAIN Suites[s][n].call /\ Suites[s][n].call.only_after # a.status

(* The checks after a call, and the step to the next one. *)
Judge(s, a) ==
    LET next == suite[s].at + 1
    IN  suite' = [suite EXCEPT ![s] =
          IF ~Accepted(Step(s).call, a) THEN [@ EXCEPT !.verdict = "failed"]
          ELSE IF next > Len(Suites[s]) THEN [@ EXCEPT !.verdict = "passed"]
          ELSE [@ EXCEPT !.at = IF Skips(s, next, a) THEN next + 1 ELSE next,
                         !.waits = FALSE]]

(* The call before has closed its connection. *)
Returned(s) == suite[s].at > 1 => cl[Suites[s][suite[s].at - 1].c].at = "idle"

StartCall(s) ==
    /\ suite[s].verdict = "running" /\ ~suite[s].waits
    /\ Returned(s)
    /\ Start(Step(s).c, Step(s).call.req)
    /\ suite' = [suite EXCEPT ![s].waits = TRUE]

(* Once psa_call has returned, the test has the reply. *)
TestStep(s) ==
    /\ suite[s].waits
    /\ ClientStep(Step(s).c)
    /\ IF cl[Step(s).c].at = "called" THEN Judge(s, cl[Step(s).c])
       ELSE UNCHANGED suite

TestNext ==
    \/ Partition /\ UNCHANGED suite
    \/ \E s \in DOMAIN Suites : StartCall(s) \/ TestStep(s)

TestSpec == TestInit /\ [][TestNext]_testVars

(* Every test of both suites passes, whatever the order in which their     *)
(* calls reach the partition.                                              *)
SuitesPass == \A s \in DOMAIN Suites : suite[s].verdict # "failed"

(* The suites do not end up waiting for each other or for the partition:   *)
(* where nothing can happen any more, both have passed.                    *)
StopsOnlyWhenPassed ==
    ~ENABLED TestNext => \A s \in DOMAIN Suites : suite[s].verdict = "passed"
=============================================================================
