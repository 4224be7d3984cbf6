----------------------------- MODULE Selection -----------------------------
(***************************************************************************)
(* How xtf-runner turns its arguments into the tests to list or run:       *)
(* interpret_selection() and tests_from_selection().                       *)
(*                                                                         *)
(* An argument is a category, an environment, a pseudo-environment, or the *)
(* full or partial name of a test, which is a record here and a string to  *)
(* take apart there.  Instances come out as a set: their order only        *)
(* decides the order of the output.                                        *)
(***************************************************************************)
EXTENDS Integers

CONSTANTS
    Catalogues,    \* what the info.json files may say
    Requests,      \* the command lines
    HostCaps       \* what get_virt_caps() may return

default_categories == {"functional", "xsa"}
non_default_categories == {"special", "utility", "in-development"}
all_categories == default_categories \union non_default_categories

pv_environments == {"pv64", "pv32pae"}
hvm_environments == {"hvm64", "hvm32pae", "hvm32pse", "hvm32"}
all_environments == pv_environments \union hvm_environments

None == "None"

\* What TestInfo() accepts as the information of one test.
IsTestInfo(t) ==
    /\ t.cat \in all_categories
    /\ t.envs \subseteq all_environments /\ t.envs # {}
    /\ None \notin t.variations

IsRequest(r) ==
    /\ r.cats \subseteq all_categories /\ r.envs \subseteq all_environments
    /\ r.pseudo \subseteq {"pv", "hvm"}
    /\ \A a \in r.named : a.env \in all_environments \union {None}

ASSUME SelectionAssumption ==
    /\ \A i \in Catalogues : \A n \in DOMAIN i : IsTestInfo(i[n])
    /\ \A r \in Requests : IsRequest(r)

VARIABLES
    info,          \* _all_test_info
    request,       \* opts
    virt_caps,     \* what the host can do, as xl tells
    cats, envs,    \* the categories and environments asked for
    others,        \* the names that are still to be looked up
    tests,         \* the instances that were named
    caps,          \* the capabilities to filter by; none: no filter
    selection,     \* the selection so far
    stage

selectionVars == <<info, request, virt_caps, cats, envs, others, tests, caps, selection, stage>>

env_to_virt_caps(env) ==
    IF env \in hvm_environments THEN {"hvm"}
    ELSE {"pv"} \union {c \in {"pv32"} : env = "pv32pae"}

req_caps(x) == env_to_virt_caps(x.env) \union ({"hap", "shadow"} \intersect {x.variation})

\* TestInfo.all_instances(): a test without variations has one instance for
\* each environment.  No filter is one that lets all pass.
all_instances(n, es, vs) ==
    [name : {n}, env : info[n].envs \intersect es,
     variation : IF info[n].variations = {} THEN {None} ELSE info[n].variations \intersect vs]

InAnyEnv(n) == all_instances(n, info[n].envs, info[n].variations)

SelectionInit ==
    /\ info \in Catalogues
    /\ request \in Requests
    /\ virt_caps \in HostCaps
    /\ cats = {} /\ envs = {} /\ others = {}
    /\ tests = {} /\ caps = {} /\ selection = {}
    /\ stage = "interpret"

-----------------------------------------------------------------------------
(* interpret_selection().                                                  *)

\* The first half: what kind each argument is of.
Interpret ==
    /\ stage = "interpret"
    /\ cats' = request.cats
               \union {c \in default_categories : request.all}
               \union {c \in non_default_categories : request.non_default}
    /\ envs' = request.envs
               \union {e \in pv_environments : "pv" \in request.pseudo}
               \union {e \in hvm_environments : "hvm" \in request.pseudo}
    /\ others' = request.named
    /\ stage' = IF cats' = {} /\ envs' = {} /\ others' = {} THEN "done" ELSE "parse"
    /\ UNCHANGED <<info, request, virt_caps, tests, caps, selection>>

\* parse_test_instance_string() accepts a.
IsTest(a) ==
    /\ a.name \in DOMAIN info
    /\ a.env = None \/ a.env \in info[a.name].envs
    /\ a.variation = None \/ a.variation \in info[a.name].variations

\* A definition marked "Mutant" is no part of the model: it is what the
\* definition after it would be if the code had the named bug.

\* Mutant: each argument replaces those before it.
LastArgument ==
    /\ stage = "parse"
    /\ \E a \in others :
          /\ IsTest(a)
          /\ tests' = all_instances(a.name, IF a.env = None THEN info[a.name].envs ELSE {a.env},
                                    IF a.variation = None THEN info[a.name].variations
                                    ELSE {a.variation})
          /\ others' = others \ {a}
    /\ UNCHANGED <<info, request, virt_caps, cats, envs, caps, selection, stage>>

Parse ==
    /\ stage = "parse"
    /\ \E a \in others :
          /\ IsTest(a)
          /\ tests' = tests \union
                all_instances(a.name, IF a.env = None THEN info[a.name].envs ELSE {a.env},
                              IF a.variation = None THEN info[a.name].variations
                              ELSE {a.variation})
          /\ others' = others \ {a}
    /\ UNCHANGED <<info, request, virt_caps, cats, envs, caps, selection, stage>>

\* RunnerError, and exit code 1.
ParseFails ==
    /\ stage = "parse"
    /\ \E a \in others : ~IsTest(a)
    /\ stage' = "error"
    /\ UNCHANGED <<info, request, virt_caps, cats, envs, others, tests, caps, selection>>

QueryHost ==
    /\ stage = "parse" /\ others = {}
    /\ caps' = IF request.host THEN virt_caps ELSE {}
    /\ stage' = "cats"
    /\ UNCHANGED <<info, request, virt_caps, cats, envs, others, tests, selection>>

\* xl info fails: an exception, and exit code 1.
QueryFails ==
    /\ stage = "parse" /\ others = {} /\ request.host
    /\ stage' = "error"
    /\ UNCHANGED <<info, request, virt_caps, cats, envs, others, tests, caps, selection>>

-----------------------------------------------------------------------------
(* tests_from_selection().  An empty selection is none yet, or one that    *)
(* nothing is left of: the code does not tell these apart.                 *)

ByCategory ==
    /\ stage = "cats"
    /\ selection' = UNION {InAnyEnv(n) : n \in {m \in DOMAIN info : info[m].cat \in cats}}
    /\ stage' = "envs"
    /\ UNCHANGED <<info, request, virt_caps, cats, envs, others, tests, caps>>

\* Mutant: an environment alone reaches the non-default categories too.
EveryCategory == all_categories

\* The categories that an environment alone stands for.
Categories ==
    IF \/ non_default_categories \intersect cats # {}
       \/ \E x \in tests : info[x.name].cat \in non_default_categories
    THEN all_categories ELSE default_categories

ByEnvironment ==
    /\ stage = "envs"
    /\ selection' =
          IF envs = {} THEN selection
          ELSE IF selection # {} THEN {x \in selection : x.env \in envs}
          ELSE UNION {all_instances(n, envs, info[n].variations) :
                        n \in {m \in DOMAIN info : info[m].cat \in Categories}}
    /\ stage' = "tests"
    /\ UNCHANGED <<info, request, virt_caps, cats, envs, others, tests, caps>>

ByTest ==
    /\ stage = "tests"
    /\ selection' = IF tests = {} THEN selection
                    ELSE IF selection # {} THEN selection \intersect tests
                    ELSE tests
    /\ stage' = "caps"
    /\ UNCHANGED <<info, request, virt_caps, cats, envs, others, tests, caps>>

ByCapability ==
    /\ stage = "caps"
    /\ selection' = IF caps = {} THEN selection ELSE {x \in selection : req_caps(x) \subseteq caps}
    /\ stage' = "done"
    /\ UNCHANGED <<info, request, virt_caps, cats, envs, others, tests, caps>>

SelectionNext ==
    \/ Interpret \/ Parse \/ ParseFails \/ QueryHost \/ QueryFails
    \/ ByCategory \/ ByEnvironment \/ ByTest \/ ByCapability

SelectionSpec == SelectionInit /\ [][SelectionNext]_selectionVars

-----------------------------------------------------------------------------
\* Every instance of every test.
Instances == UNION {InAnyEnv(n) : n \in DOMAIN info}

\* The selection never holds anything but instances of the tests there are.
SelectionTypeOK ==
    /\ info \in Catalogues /\ request \in Requests /\ virt_caps \in HostCaps
    /\ cats \subseteq all_categories /\ envs \subseteq all_environments
    /\ others \subseteq request.named
    /\ tests \subseteq Instances /\ selection \subseteq Instances
    /\ stage \in {"interpret", "parse", "cats", "envs", "tests", "caps", "done", "error"}

\* Some argument names x, in full or in part.
Matches(a, x) == a.name = x.name /\ a.env \in {None, x.env} /\ a.variation \in {None, x.variation}
Named(x) == \E a \in request.named : Matches(a, x)

\* What a selection means: each kind of argument that is given narrows it, and
\* a non-default category has to be asked for, by its name or a test's.
InCategories(x) == cats # {} => info[x.name].cat \in cats
InEnvironments(x) == envs # {} => x.env \in envs
InTests(x) == request.named # {} => Named(x)
InCaps(x) == caps # {} => req_caps(x) \subseteq caps
NotByDefault(x) == cats = {} /\ request.named = {} => info[x.name].cat \in default_categories

Meant == {x \in Instances : InCategories(x) /\ InEnvironments(x) /\ InTests(x)
                            /\ InCaps(x) /\ NotByDefault(x)}

\* Something is selected: interpret_selection() did not return at once.
Asked == cats # {} \/ envs # {} \/ request.named # {}

\* "Multiple parameter are combined and-wise, taking the intersection rather
\* than the union" (tests_from_selection()).
TakesIntersection == stage = "done" /\ Asked => selection = Meant

\* Neither the categories nor the environments leave nothing of the selection.
NothingEmptied ==
    /\ cats # {} => \E x \in Instances : InCategories(x)
    /\ envs # {} => \E x \in Instances :
            /\ InCategories(x) /\ InEnvironments(x)
            /\ cats = {} => info[x.name].cat \in Categories

\* As long as no filter empties the selection, it is the intersection, in
\* whatever order the arguments were given and looked up.
IntersectsUnlessEmptied == stage = "done" /\ Asked /\ NothingEmptied => selection = Meant

\* Tests that are not of the default categories run only when the category,
\* or a test of such a category, was asked for ("non-default categories are
\* available when explicitly referenced"), emptied filters included.
NonDefaultOnlyIfAsked ==
    (\E x \in selection : info[x.name].cat \in non_default_categories) =>
        \/ cats \intersect non_default_categories # {}
        \/ \E x \in tests : info[x.name].cat \in non_default_categories

\* What tests_from_selection() has selected is what was asked for, and nothing
\* else, as far as the code gets that right.
SelectsWhatWasAsked == IntersectsUnlessEmptied /\ NonDefaultOnlyIfAsked
=============================================================================
