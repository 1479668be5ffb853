------------------------------ MODULE TestRetry ------------------------------
(***************************************************************************)
(* The tool that runs the end-to-end tests and runs again what has not     *)
(* passed.  A run of the test binary executes the tests that its filter    *)
(* does not skip, in order; it may end early, by a timeout or a panic, or  *)
(* yield nothing that can be read.                                         *)
(*                                                                         *)
(* A test name is the sequence of its parts.  A prefix is a path, with a   *)
(* slash at its end or without one; "*" stands for any part.  No part is   *)
(* a proper prefix, as a string, of another one.                           *)
(***************************************************************************)
EXTENDS Naturals, Sequences, FiniteSets, SequencesExt, FiniteSetsExt

CONSTANTS
    Suite,          \* the names of the tests, in the order of execution
    RetryOptions,   \* records: MaxRetries, SkipAtPrefixes, NeverSkipPrefixes, JUnitOutputPath, label
    BinaryMayCrash  \* the binary may also die between two tests

VARIABLE retry

Under(name, path) == IsPrefix(path, name)
NoMatch == [path |-> <<>>, slash |-> FALSE]
NoLevel == <<>>

-----------------------------------------------------------------------------
\* Which of the passed tests a retry skips

NeverSkipped(name, prefixes) ==
    \E p \in ToSet(prefixes) : \/ Under(name, p.path) /\ name # p.path
                               \/ name = p.path /\ ~p.slash

expandWildcardPrefix(name, p) ==
    IF /\ Len(name) >= Len(p.path)
       /\ \A k \in DOMAIN p.path : p.path[k] \in {"*", name[k]}
    THEN [path |-> SubSeq(name, 1, Len(p.path)), slash |-> FALSE] ELSE NoMatch

MatchOf(name, p) ==
    CASE "*" \in ToSet(p.path) -> expandWildcardPrefix(name, p)
      [] OTHER -> IF Under(name, p.path) /\ (p.slash => name # p.path) THEN p ELSE NoMatch

\* The parts of a string, the empty one after a slash at its end included.
PartsOf(p) == IF p = NoMatch THEN 1 ELSE Len(p.path) + (IF p.slash THEN 1 ELSE 0)

getLongestMatch(longest, p) == IF PartsOf(longest) <= PartsOf(p) THEN p ELSE longest

\* A mistake: the level lies at the prefix itself.
LevelAtPrefix(name, options) ==
    LET matches == SelectSeq([k \in DOMAIN options.SkipAtPrefixes |-> MatchOf(name, options.SkipAtPrefixes[k])],
                             LAMBDA p : p # NoMatch)
        longest == FoldLeft(getLongestMatch, NoMatch, matches)
    IN  IF NeverSkipped(name, options.NeverSkipPrefixes) THEN NoLevel ELSE longest.path

extractTestLevel(name, options) ==
    LET matches == SelectSeq([k \in DOMAIN options.SkipAtPrefixes |-> MatchOf(name, options.SkipAtPrefixes[k])],
                             LAMBDA p : p # NoMatch)
        longest == FoldLeft(getLongestMatch, NoMatch, matches)
    IN  CASE NeverSkipped(name, options.NeverSkipPrefixes) -> NoLevel
          [] matches = <<>>                                -> NoLevel
          [] OTHER -> SubSeq(name, 1, Len(longest.path) + (IF name = longest.path THEN 0 ELSE 1))

\* A mistake: the level of any passed test is skipped, siblings that failed too.
LevelsOfPassed(results, options) ==
    {extractTestLevel(r.test, options) : r \in {x \in results : x.ok}} \ {NoLevel}

buildSkipFilter(results, options) ==
    {l \in {r.test : r \in {x \in results : x.ok}} : extractTestLevel(l, options) = l}

-----------------------------------------------------------------------------
\* One run of the binary

Result(attempt, test, ok) == [attempt |-> attempt, test |-> test, ok |-> ok]
Executed(filter) == SelectSeq(Suite, LAMBDA t : \A l \in filter : ~Under(t, l))

\* A test fails by itself or through one of its subtests.
FailsIn(tests, failing, t) == \E u \in failing \cap tests : Under(u, t)

\* The first n tests were started.  A timeout strikes in the last of them, and
\* the tests that are running then, this one and its parents, count as failed.
Outcome(attempt, tests, n, failing, struck) ==
    LET started == {tests[k] : k \in 1 .. n}
        hanging == IF struck THEN {t \in started : Under(tests[n], t)} ELSE {}
    IN  {Result(attempt, t, ~(t \in hanging \/ FailsIn(started, failing, t))) : t \in started}

BetweenTests(tests, n) == n > 0 /\ (n = Len(tests) \/ Len(tests[n + 1]) = 1)

\* All that the parser may hand over: a complete run, one cut short, or nothing.
\* cut says that the binary died while no test was running.
runE2ETests(attempt, filter) ==
    LET tests == Executed(filter)
        n == Len(tests)
        Failing(k) == SUBSET {tests[j] : j \in 1 .. k}
    IN  {[some |-> TRUE, cut |-> FALSE, results |-> Outcome(attempt, tests, n, f, FALSE)] : f \in Failing(n)}
        \cup UNION {{[some |-> TRUE, cut |-> FALSE, results |-> Outcome(attempt, tests, k, f, TRUE)]
                        : f \in Failing(k)} : k \in 1 .. n}
        \cup UNION {{[some |-> TRUE, cut |-> k < n, results |-> Outcome(attempt, tests, k, f, FALSE)]
                        : f \in Failing(k)}
                        : k \in IF BinaryMayCrash THEN {j \in 1 .. n : BetweenTests(tests, j)} ELSE {}}
        \cup {[some |-> FALSE, cut |-> FALSE, results |-> {}]}

-----------------------------------------------------------------------------
\* The runner

FailedOf(results) == {r.test : r \in {x \in results : ~x.ok}}
PassedOf(results) == {r.test : r \in {x \in results : x.ok}}

NoReport == [cases |-> {}, tests |-> 0, failures |-> 0]

\* One entry for every attempt at a test.
convertToJUnitSuite(results) ==
    [cases |-> results, tests |-> Cardinality(results), failures |-> Cardinality({x \in results : ~x.ok})]

exportJUnit(r, results) == IF r.options.JUnitOutputPath THEN convertToJUnitSuite(results) ELSE NoReport

RetryStarts ==
    {[options |-> o, pc |-> "first", attempt |-> 0, aggregate |-> {}, last |-> {},
      flaky |-> FALSE, executed |-> {}, cut |-> FALSE, exit |-> "", junit |-> NoReport, label |-> FALSE] :
        o \in RetryOptions}

RetryInit == retry \in RetryStarts

\* A mistake: the report has what was collected, and nothing was.
EmptyReport(r) == exportJUnit(r, r.aggregate)

\* Without results the report gets one failure that stands for the run.
exportJUnitBestEffort(r) ==
    exportJUnit(r, IF r.aggregate = {} THEN {Result(0, <<"TestOdhOperator">>, FALSE)} ELSE r.aggregate)

FirstRun ==
    /\ retry.pc = "first"
    /\ \E run \in runE2ETests(0, {}) :
           retry' = IF run.some
                    THEN [retry EXCEPT !.pc = IF FailedOf(run.results) # {} THEN "retry" ELSE "finish",
                                       !.aggregate = run.results, !.last = run.results,
                                       !.flaky = FailedOf(run.results) # {},
                                       !.executed = {x.test : x \in run.results}, !.cut = run.cut]
                    ELSE [retry EXCEPT !.pc = "done", !.exit = "error", !.junit = exportJUnitBestEffort(retry)]

RetryRun ==
    /\ retry.pc = "retry" /\ retry.attempt < retry.options.MaxRetries
    /\ \E run \in runE2ETests(retry.attempt + 1, buildSkipFilter(retry.aggregate, retry.options)) :
           retry' = IF run.some
                    THEN [retry EXCEPT !.attempt = @ + 1, !.aggregate = @ \cup run.results, !.last = run.results,
                                       !.executed = {x.test : x \in run.results}, !.cut = @ \/ run.cut,
                                       !.pc = IF FailedOf(run.results) = {} THEN "finish" ELSE "retry"]
                    ELSE [retry EXCEPT !.attempt = @ + 1, !.executed = {}]

\* The pull request is labelled when tests passed only after a retry.
notifyPROnFailure(r) == r.options.label

Finish ==
    /\ retry.pc = "finish" \/ (retry.pc = "retry" /\ retry.attempt = retry.options.MaxRetries)
    /\ retry' = [retry EXCEPT !.pc = "done", !.executed = {}, !.junit = exportJUnit(retry, retry.aggregate),
                              !.exit = IF FailedOf(retry.last) = {} THEN "success" ELSE "error",
                              !.label = FailedOf(retry.last) = {} /\ retry.flaky /\ notifyPROnFailure(retry)]

RetryNext == FirstRun \/ RetryRun \/ Finish

-----------------------------------------------------------------------------
\* Properties

\* Success is reported only when every test of the suite has passed in some run,
\* even if runs timed out, yielded nothing, or skipped what had passed; unless the
\* binary died between two tests, which leaves no failed test behind.
SuccessMeansPassed ==
    (retry.exit = "success" /\ ~retry.cut) => ToSet(Suite) \subseteq PassedOf(retry.aggregate)

\* A run that ends in an error leaves a failure in the JUnit report, and a test
\* that the report shows as failed, in a run that succeeds, passed at a later attempt.
ReportAgrees ==
    (retry.pc = "done" /\ retry.options.JUnitOutputPath) =>
        IF retry.exit = "error" THEN retry.junit.failures > 0
        ELSE ~retry.cut => \A x \in retry.junit.cases : x.ok \/ \E y \in retry.junit.cases :
                 y.ok /\ y.test = x.test /\ y.attempt > x.attempt

\* A test that has passed and lies directly below a skip prefix is not run again,
\* nor are its subtests, unless it must never be skipped.
PassedIsNotRepeated ==
    (retry.attempt > 0 /\ retry.pc # "done") =>
        \A t \in retry.executed : \A r \in retry.aggregate :
            (r.ok /\ r.attempt < retry.attempt /\ Under(t, r.test)) =>
                \/ NeverSkipped(r.test, retry.options.NeverSkipPrefixes)
                \/ \A p \in ToSet(retry.options.SkipAtPrefixes) :
                       \/ Len(r.test) # Len(p.path) + 1
                       \/ \E k \in DOMAIN p.path : p.path[k] \notin {"*", r.test[k]}
=============================================================================
