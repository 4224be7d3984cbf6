---------------------------- MODULE Microkernel ----------------------------
(***************************************************************************)
(* The life of one test domain: arch_setup() brings up consoles, traps,    *)
(* hypercalls, the PV console and xenstore one after the other, test_main()*)
(* reports statuses, and xtf_exit() prints the result and powers off.  Any *)
(* step may end in panic() instead, with as much of the machinery as is up *)
(* by then (arch/x86/setup.c, common/setup.c, report.c, lib.c).            *)
(*                                                                         *)
(* The console is the sequence of its lines, where adjacent lines of plain *)
(* text count as one.                                                      *)
(***************************************************************************)
EXTENDS Naturals, Sequences

CONSTANT MaxReports   \* bound: the calls of xtf_...() that test_main() makes

ASSUME MaxReportsAssumption == MaxReports \in Nat

\* enum test_status, in the order of its values.
Statuses == <<"RUNNING", "SUCCESS", "SKIP", "ERROR", "FAILURE">>
StatusNames == {"RUNNING", "SUCCESS", "SKIP", "ERROR", "FAILURE"}
Value(s) == CHOOSE v \in DOMAIN Statuses : Statuses[v] = s

Kinds == {"pv", "hvm", "pvh"}

VARIABLES
    kind, initdomain,      \* CONFIG_PV, CONFIG_HVM, pvh_start_info; SIF_INITDOMAIN
    needsFep, hasFep,      \* test_needs_fep, xtf_has_fep
    shutdownWorks,         \* hypercall_shutdown() does not return
    pc,                    \* what the vCPU runs next
    dom,                   \* the state of the domain in Xen
    sinks,                 \* output_fns[]
    hypercalls,            \* the hypercall page is no longer poison
    status, warnings,      \* report.c
    reports,               \* the reports made so far
    console                \* the lines that reached the PV console

envVars == <<kind, initdomain, needsFep, hasFep, shutdownWorks>>
guestVars == <<pc, dom, sinks, hypercalls, status, warnings, reports, console>>

Text == [what |-> "text"]
Stars == [what |-> "stars"]
Result(s, w) == [what |-> "result", status |-> s, warnings |-> w]

\* printk() of one line: vprintk() hands it to every registered callback.
Shown(line) ==
    IF "pv" \notin sinks \/ (line = Text /\ console # <<>> /\ console[Len(console)] = Text)
    THEN console ELSE Append(console, line)

\* No domain yet.
NoDomain ==
    /\ kind = "pv" /\ initdomain = FALSE /\ needsFep = FALSE /\ hasFep = FALSE
    /\ shutdownWorks = FALSE
    /\ pc = "down" /\ dom = "absent" /\ sinks = {} /\ hypercalls = FALSE
    /\ status = "RUNNING" /\ warnings = FALSE /\ reports = <<>> /\ console = <<>>

\* A domain of one of these kinds, as the toolstack builds it.
CreateDomain(kinds) ==
    /\ kind' \in kinds /\ initdomain' \in BOOLEAN /\ (kind' = "hvm" => ~initdomain')
    /\ needsFep' \in BOOLEAN /\ hasFep' \in BOOLEAN /\ shutdownWorks' \in BOOLEAN
    /\ pc' = "callbacks" /\ dom' = "running" /\ sinks' = {}
    /\ hypercalls' = (kind' = "pv")
    /\ status' = "RUNNING" /\ warnings' = FALSE /\ reports' = <<>> /\ console' = <<>>

Goto(label) == pc' = label /\ UNCHANGED envVars

\* panic(): what it prints is abstracted to its last line, of stars.
Panic ==
    /\ Goto("panic")
    /\ UNCHANGED <<dom, sinks, hypercalls, status, warnings, reports, console>>

-----------------------------------------------------------------------------
(* arch_setup().                                                           *)

RegisterCallbacks ==
    /\ pc = "callbacks"
    /\ sinks' = IF kind = "hvm" THEN {"qemu", "xen"} ELSE {"xen"}
    /\ Goto("traps")
    /\ UNCHANGED <<dom, hypercalls, status, warnings, reports, console>>

\* Only the PV version makes hypercalls, which may fail.
ArchInitTraps ==
    /\ pc = "traps"
    /\ \/ /\ Goto("hypercalls")
          /\ UNCHANGED <<dom, sinks, hypercalls, status, warnings, reports, console>>
       \/ kind = "pv" /\ Panic

\* No Xen leaves, or a page that is still poison.
InitHypercalls ==
    /\ pc = "hypercalls"
    /\ \/ /\ hypercalls' = TRUE
          /\ Goto(IF initdomain THEN "shared_info" ELSE "console")
          /\ UNCHANGED <<dom, sinks, status, warnings, reports, console>>
       \/ ~hypercalls /\ Panic

\* An HVM domain without console parameters does without the PV console.
SetupPvConsole ==
    /\ pc = "console"
    /\ \/ /\ sinks' = sinks \union {"pv"}
          /\ Goto("xenbus")
          /\ UNCHANGED <<dom, hypercalls, status, warnings, reports, console>>
       \/ /\ kind # "pv"
          /\ Goto("xenbus")
          /\ UNCHANGED <<dom, sinks, hypercalls, status, warnings, reports, console>>
       \/ Panic                            \* init_pv_console(): port out of range

SetupXenbus ==
    /\ pc = "xenbus"
    /\ \/ /\ Goto("shared_info")
          /\ UNCHANGED <<dom, sinks, hypercalls, status, warnings, reports, console>>
       \/ Panic

MapSharedInfo ==
    /\ pc = "shared_info"
    /\ \/ /\ Goto("banner")
          /\ UNCHANGED <<dom, sinks, hypercalls, status, warnings, reports, console>>
       \/ Panic

-----------------------------------------------------------------------------
(* xtf_main() and the test.                                                *)

Banner ==
    /\ pc = "banner"
    /\ console' = Shown(Text)
    /\ Goto("setup")
    /\ UNCHANGED <<dom, sinks, hypercalls, status, warnings, reports>>

\* A definition marked "Mutant" is no part of the model: it is what the
\* definition after it would be if the code had the named bug.

\* Mutant: the last report counts.
LatestStatus(s) == s

\* set_status(): the most severe status is kept.
MoreSevere(s) == IF Value(s) > Value(status) THEN s ELSE status

\* test_setup(), then xtf_status_reported().
TestSetup ==
    /\ pc = "setup"
    /\ IF needsFep /\ ~hasFep
       THEN /\ status' = MoreSevere("SKIP")
            /\ reports' = Append(reports, "SKIP")
            /\ console' = Shown(Text)
       ELSE UNCHANGED <<status, reports, console>>
    /\ Goto(IF status' = "RUNNING" THEN "test" ELSE "exit")
    /\ UNCHANGED <<dom, sinks, hypercalls, warnings>>

\* xtf_success(), xtf_skip(), xtf_error() and xtf_failure().
Report(s) ==
    /\ pc = "test" /\ Len(reports) < MaxReports
    /\ status' = MoreSevere(s)
    /\ reports' = Append(reports, s)
    /\ console' = Shown(Text)
    /\ Goto("test")
    /\ UNCHANGED <<dom, sinks, hypercalls, warnings>>

Warning ==
    /\ pc = "test" /\ ~warnings
    /\ warnings' = TRUE
    /\ console' = Shown(Text)
    /\ Goto("test")
    /\ UNCHANGED <<dom, sinks, hypercalls, status, reports>>

\* test_main() returns, or calls xtf_exit() itself.
TestEnds ==
    /\ pc = "test"
    /\ Goto("exit")
    /\ UNCHANGED <<dom, sinks, hypercalls, status, warnings, reports, console>>

\* An exception that neither the exception table nor the test's hook handles.
TestFaults ==
    /\ pc = "test"
    /\ Panic

\* xtf_report_status().
ReportStatus ==
    /\ pc = "exit"
    /\ status' = IF Value(status) < Value("SUCCESS") THEN MoreSevere("ERROR") ELSE status
    /\ console' = Shown(Result(status', warnings /\ status' = "SUCCESS"))
    /\ Goto("poweroff")
    /\ UNCHANGED <<dom, sinks, hypercalls, warnings, reports>>

\* Mutant: no panic when the shutdown hypercall returns.
PoweroffReturns ==
    /\ pc = "poweroff"
    /\ IF shutdownWorks THEN dom' = "poweroff" /\ Goto("down") ELSE UNCHANGED <<dom, pc, envVars>>
    /\ UNCHANGED <<sinks, hypercalls, status, warnings, reports, console>>

Poweroff ==
    /\ pc = "poweroff"
    /\ IF shutdownWorks
       THEN /\ dom' = "poweroff"
            /\ Goto("down")
            /\ UNCHANGED <<sinks, hypercalls, status, warnings, reports, console>>
       ELSE Panic

PanicPrint ==
    /\ pc = "panic"
    /\ console' = Shown(Stars)
    /\ Goto("crash")
    /\ UNCHANGED <<dom, sinks, hypercalls, status, warnings, reports>>

\* hypercall_shutdown(SHUTDOWN_crash); when it returns, arch_crash_hard() halts
\* in a way that makes Xen take the domain down.
PanicShutdown ==
    /\ pc = "crash"
    /\ dom' \in IF hypercalls /\ shutdownWorks THEN {"crashed"} ELSE {"crashed", "poweroff"}
    /\ Goto("dead")
    /\ UNCHANGED <<sinks, hypercalls, status, warnings, reports, console>>

Guest ==
    \/ RegisterCallbacks \/ ArchInitTraps \/ InitHypercalls \/ SetupPvConsole
    \/ SetupXenbus \/ MapSharedInfo \/ Banner \/ TestSetup
    \/ (\E s \in StatusNames \ {"RUNNING"} : Report(s)) \/ Warning \/ TestEnds \/ TestFaults
    \/ ReportStatus \/ Poweroff \/ PanicPrint \/ PanicShutdown

GuestTypeOK ==
    /\ kind \in Kinds /\ {initdomain, needsFep, hasFep, shutdownWorks} \subseteq BOOLEAN
    /\ pc \in {"callbacks", "traps", "hypercalls", "console", "xenbus", "shared_info",
               "banner", "setup", "test", "exit", "poweroff", "panic", "crash", "dead", "down"}
    /\ dom \in {"absent", "running", "poweroff", "crashed"}
    /\ sinks \subseteq {"qemu", "xen", "pv"} /\ hypercalls \in BOOLEAN
    /\ status \in StatusNames /\ warnings \in BOOLEAN
    /\ reports \in Seq(StatusNames)
    /\ console \in Seq({Text, Stars}
                       \union {Result(s, w) : s \in StatusNames, w \in BOOLEAN})
=============================================================================
