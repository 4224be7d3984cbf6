------------------------------- MODULE Runner -------------------------------
(***************************************************************************)
(* xtf-runner's main(): it makes a selection (module Selection), and lists *)
(* it or runs it over the domains of Microkernel.  run_tests() creates a   *)
(* domain per selected test, waits until the domain is gone, finds the     *)
(* result in what the domain left on its console, and turns the worst      *)
(* result into its exit code.  The toolstack (xl) may fail at any test.    *)
(***************************************************************************)
EXTENDS Microkernel, Selection, FiniteSets

CONSTANT Modes       \* the values of --results-mode

ASSUME RunnerAssumption == Modes \subseteq {"console", "logfile"}

all_results == <<"SUCCESS", "SKIP", "ERROR", "FAILURE", "CRASH">>
ResultNames == {"SUCCESS", "SKIP", "ERROR", "FAILURE", "CRASH"}
Severity(r) == CHOOSE i \in DOMAIN all_results : all_results[i] = r

exit_code(r) ==
    CASE r = "SUCCESS" -> 0 [] r = "SKIP" -> 3 [] r = "ERROR" -> 4
      [] r = "FAILURE" -> 5 [] r = "CRASH" -> 6

VARIABLES
    mode,        \* opts.results_mode
    step,        \* where main() is
    results,     \* the result of each test that was run
    rc,          \* the severity of the worst of them
    exit,        \* the exit code, once there is one
    truths       \* what happened to each test, for the properties

runnerVars == <<mode, step, results, rc, exit, truths>>
domainVars == <<envVars, guestVars>>
vars == <<selectionVars, domainVars, runnerVars>>

\* The next test to run: the order of the selection is any fixed order.
test == CHOOSE x \in selection : x \notin DOMAIN results

Init ==
    /\ SelectionInit /\ NoDomain
    /\ mode \in Modes
    /\ step = "select" /\ results = <<>> /\ rc = Severity("SUCCESS") /\ exit = 99
    /\ truths = <<>>

-----------------------------------------------------------------------------
(* main().                                                                 *)

Exits(code) ==
    /\ step' = "done" /\ exit' = code
    /\ UNCHANGED <<selectionVars, domainVars, mode, results, rc, truths>>

Select ==
    /\ step = "select"
    /\ SelectionNext
    /\ UNCHANGED <<domainVars, runnerVars>>

\* An exception, of whatever kind, ends the program.
SelectionFails == step = "select" /\ stage = "error" /\ Exits(1)

list_tests ==
    /\ step = "select" /\ stage = "done" /\ request.list
    /\ Exits(IF request.environments \/ selection # {} THEN 0 ELSE 1)

NoTests ==
    /\ step = "select" /\ stage = "done" /\ ~request.list /\ selection = {}
    /\ Exits(1)

RunTests ==
    /\ step = "select" /\ stage = "done" /\ ~request.list /\ selection # {}
    /\ step' = "next"
    /\ UNCHANGED <<selectionVars, domainVars, mode, results, rc, exit, truths>>

-----------------------------------------------------------------------------
(* run_tests().                                                            *)

interpret_result(line) == 
    IF line.what = "result" /\ line.status \in ResultNames THEN line.status ELSE "CRASH"

\* Mutant: the first result line counts, whatever follows it.
FirstResultLine ==
    LET found == {i \in 1..Len(console) : console[i].what = "result"}
    IN  IF found = {} THEN "CRASH"
        ELSE interpret_result(console[CHOOSE i \in found : \A j \in found : i <= j])

\* run_test_console(): the last line, when there is one.
ConsoleResult ==
    IF console = <<>> THEN "CRASH" ELSE interpret_result(console[Len(console)])

\* run_test_logfile(): the first result line, or else the last line.
LogfileResult ==
    LET found == {i \in 1..Len(console) : console[i].what = "result"}
    IN  IF found = {} THEN ConsoleResult
        ELSE interpret_result(console[CHOOSE i \in found : \A j \in found : i <= j])

\* f with the value v for the test at hand.
With(f, v) == [x \in DOMAIN f \union {test} |-> IF x = test THEN v ELSE f[x]]

\* Mutant: the last result counts.
LastIsWorst(r, truth) ==
    /\ results' = With(results, r)
    /\ truths' = With(truths, truth)
    /\ rc' = Severity(r)
    /\ step' = "next"
    /\ UNCHANGED <<selectionVars, mode, exit>>

Record(r, truth) ==
    /\ results' = With(results, r)
    /\ truths' = With(truths, truth)
    /\ rc' = IF Severity(r) > rc THEN Severity(r) ELSE rc
    /\ step' = "next"
    /\ UNCHANGED <<selectionVars, mode, exit>>

MoreTests == step = "next" /\ DOMAIN results # selection

\* run_test(): the host lacks a capability that the test requires.
SkipTest ==
    /\ MoreTests /\ ~(req_caps(test) \subseteq virt_caps)
    /\ Record("SKIP", [kind |-> "skipped", reports |-> {}])
    /\ UNCHANGED domainVars

\* xl create, then xl unpause: a new domain starts.
CreateTest ==
    /\ MoreTests /\ req_caps(test) \subseteq virt_caps
    /\ CreateDomain(IF test.env \in pv_environments THEN {"pv"} ELSE {"hvm", "pvh"})
    /\ step' = "wait"
    /\ UNCHANGED <<selectionVars, mode, results, rc, exit, truths>>

\* An xl command fails: an exception, which ends the run.
XlFails == MoreTests /\ Exits(1)

RunGuest ==
    /\ step = "wait"
    /\ Guest
    /\ UNCHANGED <<selectionVars, runnerVars>>

\* xl console, or xl create -F, returns when the domain is gone.
CollectResult ==
    /\ step = "wait" /\ dom # "running"
    /\ Record(IF mode = "console" THEN ConsoleResult ELSE LogfileResult,
              [kind |-> IF pc = "dead" THEN "crashed"
                        ELSE IF "pv" \in sinks THEN "finished" ELSE "silent",
               reports |-> {reports[i] : i \in DOMAIN reports}])
    /\ UNCHANGED domainVars

Finish ==
    /\ step = "next" /\ DOMAIN results = selection
    /\ Exits(exit_code(all_results[rc]))

Done == step = "done" /\ UNCHANGED vars

Main ==
    \/ Select \/ SelectionFails \/ list_tests \/ NoTests \/ RunTests
    \/ SkipTest \/ CreateTest \/ XlFails \/ CollectResult \/ Finish

Next == Main \/ RunGuest \/ Done

Spec == Init /\ [][Next]_vars

\* Xen schedules the vCPU, and the runner goes on.
Fairness == WF_vars(RunGuest) /\ WF_vars(Main)

FairSpec == Spec /\ Fairness

-----------------------------------------------------------------------------
TypeOK ==
    /\ SelectionTypeOK /\ GuestTypeOK
    /\ mode \in Modes /\ step \in {"select", "next", "wait", "done"}
    /\ DOMAIN results \subseteq selection /\ DOMAIN truths = DOMAIN results
    /\ \A x \in DOMAIN results :
          results[x] \in ResultNames /\ truths[x].kind \in {"skipped", "crashed", "silent", "finished"}
    /\ rc \in DOMAIN all_results /\ exit \in {0, 1, 3, 4, 5, 6, 99}

Worst(S) == CHOOSE r \in S : \A s \in S : Severity(s) <= Severity(r)

\* What a test deserves: the most severe of its reports, ERROR when it made
\* none, and CRASH when it did not get to say so.
Deserved(t) ==
    CASE t.kind = "skipped"               -> "SKIP"
      [] t.kind \in {"crashed", "silent"} -> "CRASH"
      [] OTHER -> IF t.reports = {} THEN "ERROR" ELSE Worst(t.reports)

\* Read from the console, each result is the one the test deserves: a crash
\* at any moment of its life, even after its result was printed, is a CRASH,
\* and no order of reports hides the most severe one.
ConsoleResultsAreRight ==
    mode = "console" => \A i \in DOMAIN results : results[i] = Deserved(truths[i])

\* In either mode, no failure or error that a test reported is lost, unless to
\* something worse; a crash goes unseen only behind a result line.
NoReportLost ==
    \A i \in DOMAIN results : \A r \in truths[i].reports :
        Severity(results[i]) >= Severity(r)

\* The runner exits with 0 only when it made a selection and, unless it was to
\* list it, ran every test of it with success; with 1 only when something was
\* left undone; and otherwise with the code of the worst result of them all.
\* Neither an empty selection nor an xl failure looks like success.
ExitCodeIsWorst ==
    step = "done" =>
        /\ exit = 0 => /\ stage = "done"
                       /\ \/ request.list
                          \/ selection # {} /\ \A x \in selection :
                                x \in DOMAIN results /\ results[x] = "SUCCESS"
        /\ exit = 1 => selection = {} \/ DOMAIN results # selection
        /\ exit > 1 => /\ DOMAIN results = selection
                       /\ exit = exit_code(Worst({results[x] : x \in selection}))

\* Every run comes to an end: no start-up step, report or panic leaves a
\* domain that neither powers off nor crashes.
RunEnds == <>(step = "done")
=============================================================================
