---------------------------- MODULE Runner_proofs ----------------------------
(***************************************************************************)
(* What the runner selects is what was meant, unless a filter empties it,  *)
(* and its results are what its tests deserve: for every catalogue, every  *)
(* command line, tests that report any number of times, and a domain that  *)
(* may panic at every step of its life.                                    *)
(***************************************************************************)
EXTENDS Runner, Arithmetic, TLAPS

-----------------------------------------------------------------------------
(* The selection.                                                          *)

\* What each stage makes of the selection.
Chosen == {x \in Instances : \E a \in request.named \ others : Matches(a, x)}
AfterCats == {x \in Instances : info[x.name].cat \in cats}
AfterEnvs ==
    IF envs = {} THEN AfterCats
    ELSE IF AfterCats # {} THEN {x \in AfterCats : x.env \in envs}
    ELSE {x \in Instances : x.env \in envs /\ info[x.name].cat \in Categories}
AfterTests ==
    IF tests = {} THEN AfterEnvs
    ELSE IF AfterEnvs # {} THEN AfterEnvs \intersect tests
    ELSE tests
AfterCaps == IF caps = {} THEN AfterTests ELSE {x \in AfterTests : req_caps(x) \subseteq caps}

\* The inductive invariant: every stage has done its work, and no more.
Stages ==
    /\ stage = "interpret" => others = {} /\ tests = {}
    /\ stage # "interpret" => tests = Chosen /\ \A a \in request.named \ others : IsTest(a)
    /\ stage \in {"cats", "envs", "tests", "caps"} => others = {}
    /\ stage \in {"interpret", "parse", "cats", "error"} => selection = {}
    /\ stage = "envs" => selection = AfterCats
    /\ stage = "tests" => selection = AfterEnvs
    /\ stage = "caps" => selection = AfterTests
    /\ stage = "done" => IF Asked THEN others = {} /\ selection = AfterCaps ELSE selection = {}

SelectionInv == SelectionTypeOK /\ Stages

-----------------------------------------------------------------------------
\* The fields of an instance, and what becomes of them under a filter.
LEMMA InstanceFields ==
    ASSUME NEW n, NEW es, NEW vs, NEW x, x \in all_instances(n, es, vs)
    PROVE  x.name = n /\ x.env \in info[n].envs /\ x.env \in es
<1> QED BY DEF all_instances

\* An environment filter picks the instances of these environments.
LEMMA EnvFilter ==
    ASSUME NEW n, NEW es, NEW x
    PROVE  x \in all_instances(n, es, info[n].variations) <=> x \in InAnyEnv(n) /\ x.env \in es
<1> DEFINE V == IF info[n].variations = {} THEN {None} ELSE info[n].variations
<1>1. all_instances(n, es, info[n].variations) = [name : {n}, env : info[n].envs \intersect es, variation : V]
    BY DEF all_instances
<1>2. InAnyEnv(n) = [name : {n}, env : info[n].envs, variation : V]
    BY DEF all_instances, InAnyEnv
<1> HIDE DEF V
<1> QED BY <1>1, <1>2

\* A name stands for the instances that it matches.
LEMMA NameFilter ==
    ASSUME SelectionTypeOK, NEW a \in request.named, IsTest(a), NEW x
    PROVE  x \in all_instances(a.name, IF a.env = None THEN info[a.name].envs ELSE {a.env},
                               IF a.variation = None THEN info[a.name].variations ELSE {a.variation})
           <=> x \in InAnyEnv(a.name) /\ Matches(a, x)
<1> DEFINE n == a.name
           E == info[n].envs
           W == info[n].variations
           V == IF W = {} THEN {None} ELSE W
           es == IF a.env = None THEN E ELSE {a.env}
           vs == IF a.variation = None THEN W ELSE {a.variation}
           U == IF W = {} THEN {None} ELSE W \intersect vs
<1>1. None \notin E /\ None \notin W
    BY SelectionAssumption
       DEF SelectionTypeOK, IsTest, IsTestInfo, all_environments, pv_environments, hvm_environments, None
<1>2. (a.env = None \/ a.env \in E) /\ (a.variation = None \/ a.variation \in W)
    BY DEF IsTest
<1>3. all_instances(n, es, vs) = [name : {n}, env : E \intersect es, variation : U]
    BY DEF all_instances
<1>4. InAnyEnv(n) = [name : {n}, env : E, variation : V]
    BY DEF all_instances, InAnyEnv
<1>5. \A e \in E : e \in es <=> a.env \in {None, e}
    BY <1>1, <1>2
<1>6. \A v : v \in U <=> v \in V /\ a.variation \in {None, v}
    BY <1>1, <1>2
<1> HIDE DEF E, U, V, es, vs, W, n
<1>7. ASSUME x \in [name : {n}, env : E \intersect es, variation : U]
      PROVE  x \in [name : {n}, env : E, variation : V]
             /\ x.name = n /\ a.env \in {None, x.env} /\ a.variation \in {None, x.variation}
    <2>1. x.name = n /\ x.env \in E /\ x.env \in es /\ x.variation \in U
        BY <1>7
    <2>2. x = [name |-> x.name, env |-> x.env, variation |-> x.variation]
        BY <1>7
    <2> QED BY <1>5, <1>6, <2>1, <2>2
<1>8. ASSUME x \in [name : {n}, env : E, variation : V],
             a.env \in {None, x.env}, a.variation \in {None, x.variation}
      PROVE  x \in [name : {n}, env : E \intersect es, variation : U]
    <2>1. x.name = n /\ x.env \in E /\ x.variation \in V
        BY <1>8
    <2>2. x = [name |-> x.name, env |-> x.env, variation |-> x.variation]
        BY <1>8
    <2>3. x.env \in es /\ x.variation \in U
        BY <1>5, <1>6, <1>8, <2>1
    <2> QED BY <2>1, <2>2, <2>3
<1>9. x \in [name : {n}, env : E, variation : V] => x.name = n
    OBVIOUS
<1>10. x \in all_instances(n, es, vs) <=> x \in InAnyEnv(n) /\ Matches(a, x)
    BY <1>3, <1>4, <1>7, <1>8, <1>9 DEF Matches, n
<1> QED BY <1>10 DEF n, es, vs, E, W

\* Every name that parses has an instance.
LEMMA NameHasInstance ==
    ASSUME SelectionTypeOK, NEW a \in request.named, IsTest(a)
    PROVE  \E x \in InAnyEnv(a.name) : Matches(a, x)
<1> DEFINE n == a.name
           E == info[n].envs
           W == info[n].variations
           V == IF W = {} THEN {None} ELSE W
<1>1. E # {} /\ V # {}
    BY SelectionAssumption DEF SelectionTypeOK, IsTest, IsTestInfo
<1>2. \E e \in E : a.env \in {None, e}
    BY <1>1 DEF IsTest
<1>3. \E v \in V : a.variation \in {None, v}
    BY <1>1 DEF IsTest
<1>4. PICK e \in E, v \in V : a.env \in {None, e} /\ a.variation \in {None, v}
    BY <1>2, <1>3
<1>5. InAnyEnv(n) = [name : {n}, env : E, variation : V]
    BY DEF all_instances, InAnyEnv
<1> DEFINE x == [name |-> n, env |-> e, variation |-> v]
<1>6. x \in InAnyEnv(n)
    BY <1>5
<1>7. Matches(a, x)
    BY <1>4 DEF Matches
<1> QED BY <1>6, <1>7

\* The instances by name, and by environment.
LEMMA InstancesByName ==
    ASSUME NEW S
    PROVE  UNION {InAnyEnv(n) : n \in {m \in DOMAIN info : info[m].cat \in S}}
           = {x \in Instances : info[x.name].cat \in S}
<1>1. \A n : \A x \in InAnyEnv(n) : x.name = n
    BY InstanceFields DEF InAnyEnv
<1> QED BY <1>1 DEF Instances

\* The same for the instances of some environments.
LEMMA InstancesByEnv ==
    ASSUME NEW S, NEW es
    PROVE  UNION {all_instances(n, es, info[n].variations) : n \in {m \in DOMAIN info : info[m].cat \in S}}
           = {x \in Instances : x.env \in es /\ info[x.name].cat \in S}
<1>1. \A n : \A x \in InAnyEnv(n) : x.name = n
    BY InstanceFields DEF InAnyEnv
<1>2. \A n : all_instances(n, es, info[n].variations) = {x \in InAnyEnv(n) : x.env \in es}
    BY EnvFilter
<1> QED BY <1>1, <1>2 DEF Instances

\* Nothing is selected before the command line is read.
LEMMA SelectionInvInit == SelectionInit => SelectionInv
BY DEF SelectionInit, SelectionInv, SelectionTypeOK, Stages

\* Each stage does its work.
LEMMA SelectionInvStep == SelectionInv /\ [SelectionNext]_selectionVars => SelectionInv'
<1> SUFFICES ASSUME SelectionInv, [SelectionNext]_selectionVars PROVE SelectionInv'
    OBVIOUS
<1> USE DEF SelectionInv
<1>1. CASE Interpret
    <2>1. cats' \subseteq all_categories /\ envs' \subseteq all_environments
        BY <1>1, SelectionAssumption
           DEF Interpret, SelectionTypeOK, IsRequest, all_categories, all_environments
    <2>2. SelectionTypeOK'
        BY <1>1, <2>1 DEF Interpret, SelectionTypeOK, Instances, InAnyEnv, all_instances
    <2>3. /\ others' = request'.named /\ tests' = {} /\ selection' = {}
          /\ stage' \in {"parse", "done"}
          /\ stage' = "done" => cats' = {} /\ envs' = {} /\ request'.named = {}
        BY <1>1 DEF Interpret, Stages
    <2> QED BY <2>2, <2>3 DEF Stages, Chosen, Asked
<1>2. CASE Parse
    <2>1. PICK a \in others :
             /\ IsTest(a) /\ others' = others \ {a}
             /\ tests' = tests \union
                   all_instances(a.name, IF a.env = None THEN info[a.name].envs ELSE {a.env},
                                 IF a.variation = None THEN info[a.name].variations
                                 ELSE {a.variation})
        BY <1>2 DEF Parse
    <2>2. /\ stage = "parse" /\ UNCHANGED <<info, request, virt_caps, cats, envs, caps, selection, stage>>
          /\ a \in request.named /\ others \subseteq request.named
          /\ a.name \in DOMAIN info
        BY <1>2, <2>1 DEF Parse, SelectionTypeOK, IsTest
    <2>3. Instances' = Instances
        BY <2>2 DEF Instances, InAnyEnv, all_instances
    <2>4. \A x : x \in tests' <=> x \in tests \/ (x \in InAnyEnv(a.name) /\ Matches(a, x))
        BY <2>1, <2>2, NameFilter
    <2>5. \A x : x \in InAnyEnv(a.name) /\ Matches(a, x) <=> x \in Instances /\ Matches(a, x)
        BY <2>2, InstanceFields DEF Instances, Matches, InAnyEnv
    <2>6. request.named \ others' = (request.named \ others) \union {a}
        BY <2>1, <2>2
    <2>7. tests = Chosen /\ \A b \in request.named \ others : IsTest(b)
        BY <2>2 DEF Stages
    <2>8. tests' = {x \in Instances : \E b \in request.named \ others' : Matches(b, x)}
        BY <2>4, <2>5, <2>6, <2>7 DEF Chosen
    <2>9. \A b \in request.named \ others' : IsTest(b)
        BY <2>1, <2>6, <2>7
    <2>10. SelectionTypeOK'
        BY <2>1, <2>2, <2>3, <2>8 DEF SelectionTypeOK
    <2> QED BY <2>2, <2>3, <2>8, <2>9, <2>10 DEF Stages, Chosen, Matches, IsTest
<1> DEFINE Fixed == UNCHANGED <<info, request, virt_caps, cats, envs, others, tests>>
<1>3. ASSUME Fixed
      PROVE  /\ Instances' = Instances /\ Chosen' = Chosen /\ Asked' = Asked
             /\ AfterCats' = AfterCats /\ AfterEnvs' = AfterEnvs /\ AfterTests' = AfterTests
             /\ \A a : IsTest(a)' <=> IsTest(a)
    <2>1. Instances' = Instances
        BY <1>3 DEF Instances, InAnyEnv, all_instances
    <2> HIDE DEF SelectionInv
    <2>2. AfterCats' = AfterCats
        BY <1>3, <2>1 DEF AfterCats
    <2>3. Categories' = Categories
        BY <1>3 DEF Categories
    <2>4. AfterEnvs' = AfterEnvs
        BY <1>3, <2>1, <2>2, <2>3 DEF AfterEnvs
    <2> QED BY <1>3, <2>1, <2>2, <2>4 DEF Chosen, Asked, AfterTests, Matches, IsTest
<1>4. CASE ParseFails
    <2>1. Fixed /\ stage = "parse" /\ stage' = "error" /\ UNCHANGED <<caps, selection>>
        BY <1>4 DEF ParseFails
    <2> QED BY <2>1, <1>3 DEF SelectionTypeOK, Stages
<1>5. CASE QueryHost
    <2>1. Fixed /\ stage = "parse" /\ stage' = "cats" /\ others = {} /\ UNCHANGED selection
        BY <1>5 DEF QueryHost
    <2> QED BY <2>1, <1>3 DEF SelectionTypeOK, Stages
<1>11. CASE QueryFails
    <2>1. Fixed /\ stage = "parse" /\ stage' = "error" /\ others = {} /\ UNCHANGED <<caps, selection>>
        BY <1>11 DEF QueryFails
    <2> QED BY <2>1, <1>3 DEF SelectionTypeOK, Stages
<1>6. CASE ByCategory
    <2>1. Fixed /\ stage = "cats" /\ stage' = "envs" /\ UNCHANGED caps
        BY <1>6 DEF ByCategory
    <2>2. selection' = AfterCats
        BY <1>6, InstancesByName DEF ByCategory, AfterCats
    <2> QED BY <2>1, <2>2, <1>3 DEF SelectionTypeOK, Stages, AfterCats
<1>7. CASE ByEnvironment
    <2>1. Fixed /\ stage = "envs" /\ stage' = "tests" /\ UNCHANGED caps /\ selection = AfterCats
        BY <1>7 DEF ByEnvironment, Stages
    <2>2. selection' = AfterEnvs
        <3>1. UNION {all_instances(n, envs, info[n].variations) :
                        n \in {m \in DOMAIN info : info[m].cat \in Categories}}
              = {x \in Instances : x.env \in envs /\ info[x.name].cat \in Categories}
            BY InstancesByEnv
        <3> QED BY <1>7, <2>1, <3>1 DEF ByEnvironment, AfterEnvs
    <2>3. AfterEnvs \subseteq Instances
        BY DEF AfterEnvs, AfterCats
    <2> QED BY <2>1, <2>2, <2>3, <1>3 DEF SelectionTypeOK, Stages
<1>8. CASE ByTest
    <2>1. Fixed /\ stage = "tests" /\ stage' = "caps" /\ UNCHANGED caps /\ selection = AfterEnvs
        BY <1>8 DEF ByTest, Stages
    <2>2. selection' = AfterTests /\ selection' \subseteq Instances
        BY <1>8, <2>1 DEF ByTest, AfterTests, SelectionTypeOK
    <2> QED BY <2>1, <2>2, <1>3 DEF SelectionTypeOK, Stages
<1>9. CASE ByCapability
    <2>1. Fixed /\ stage = "caps" /\ stage' = "done" /\ UNCHANGED caps /\ selection = AfterTests
        BY <1>9 DEF ByCapability, Stages
    <2>2. selection' = AfterCaps /\ selection' \subseteq Instances
        BY <1>9, <2>1 DEF ByCapability, AfterCaps, SelectionTypeOK
    <2>3. AfterCaps' = AfterCaps
        BY <2>1, <1>3 DEF AfterCaps, req_caps, env_to_virt_caps
    <2>4. tests = Chosen /\ others = {} /\ \A a \in request.named \ others : IsTest(a)
        BY <2>1 DEF Stages
    <2>5. ~Asked => AfterCaps = {}
        <3>1. SUFFICES ASSUME ~Asked PROVE AfterTests = {}
            BY DEF AfterCaps
        <3>2. tests = {}
            BY <2>4, <3>1 DEF Chosen, Asked
        <3> QED BY <3>1, <3>2 DEF AfterTests, AfterEnvs, AfterCats, Asked
    <2> QED BY <2>1, <2>2, <2>3, <2>4, <2>5, <1>3 DEF SelectionTypeOK, Stages
<1>10. CASE UNCHANGED selectionVars
    <2>1. Fixed /\ UNCHANGED <<caps, selection, stage>>
        BY <1>10 DEF selectionVars
    <2>2. AfterCaps' = AfterCaps
        BY <2>1, <1>3 DEF AfterCaps, req_caps, env_to_virt_caps
    <2> QED BY <2>1, <2>2, <1>3 DEF SelectionTypeOK, Stages
<1> QED BY <1>1, <1>2, <1>4, <1>5, <1>6, <1>7, <1>8, <1>9, <1>10, <1>11 DEF SelectionNext

-----------------------------------------------------------------------------
\* The stages are as described in every reachable state.
THEOREM SelectionInvariance == SelectionSpec => []SelectionInv
BY SelectionInvInit, SelectionInvStep, PTL DEF SelectionSpec

\* Whatever is selected is an instance of a test that there is.
THEOREM SelectionTypeCorrect == SelectionSpec => []SelectionTypeOK
<1>1. SelectionInv => SelectionTypeOK
    BY DEF SelectionInv
<1> QED BY SelectionInvariance, <1>1, PTL

\* The selection is the intersection of what was asked for, for every
\* catalogue and command line, unless a filter empties it on the way.
THEOREM Intersects == SelectionSpec => []IntersectsUnlessEmptied
<1>1. SelectionInv => IntersectsUnlessEmptied
    <2>1. SUFFICES ASSUME SelectionInv, stage = "done", Asked, NothingEmptied PROVE selection = Meant
        BY DEF IntersectsUnlessEmptied
    <2>2. /\ others = {} /\ selection = AfterCaps
          /\ tests = Chosen /\ \A a \in request.named : IsTest(a)
        BY <2>1 DEF SelectionInv, Stages
    <2>3. \A x : x \in tests <=> x \in Instances /\ Named(x)
        BY <2>2 DEF Chosen, Named
    <2>4. tests = {} <=> request.named = {}
        <3>1. ASSUME NEW a \in request.named PROVE tests # {}
            <4>1. IsTest(a) /\ a.name \in DOMAIN info
                BY <2>2, <3>1 DEF IsTest
            <4>2. PICK x \in InAnyEnv(a.name) : Matches(a, x)
                BY <2>1, <4>1, NameHasInstance DEF SelectionInv
            <4>3. x \in Instances /\ Named(x)
                BY <4>1, <4>2, <3>1 DEF Instances, Named
            <4> QED BY <2>3, <4>3
        <3> QED BY <2>3, <3>1 DEF Named
    <2>5. \A x : x \in AfterCats <=> x \in Instances /\ info[x.name].cat \in cats
        BY DEF AfterCats
    <2>6. cats # {} => AfterCats # {}
        BY <2>1, <2>5 DEF NothingEmptied, InCategories
    <2>7. \A x : x \in AfterEnvs <=>
             /\ x \in Instances /\ InCategories(x) /\ InEnvironments(x)
             /\ cats = {} => envs # {} /\ info[x.name].cat \in Categories
        BY <2>5, <2>6 DEF AfterEnvs, InCategories, InEnvironments
    <2>8. cats # {} \/ envs # {} => AfterEnvs # {}
        BY <2>1, <2>6, <2>5, <2>7 DEF NothingEmptied, InCategories, InEnvironments
    <2>9. cats = {} => \A x \in tests : info[x.name].cat \in Categories
        BY <2>1, <2>3, SelectionAssumption
           DEF Categories, SelectionInv, SelectionTypeOK, Instances, InAnyEnv, all_instances, IsTestInfo, all_categories
    <2>10. cats = {} /\ tests = {} => Categories = default_categories
        BY DEF Categories
    <2>11. \A x : x \in AfterTests <=>
              /\ x \in Instances /\ InCategories(x) /\ InEnvironments(x)
              /\ InTests(x) /\ NotByDefault(x)
        <3>1. CASE tests = {}
            BY <2>1, <2>4, <2>7, <2>10, <3>1 DEF AfterTests, InTests, NotByDefault, Asked
        <3>2. CASE tests # {} /\ AfterEnvs # {}
            BY <2>3, <2>4, <2>7, <2>9, <3>2 DEF AfterTests, InTests, NotByDefault, InCategories, AfterEnvs
        <3>3. CASE tests # {} /\ AfterEnvs = {}
            BY <2>3, <2>4, <2>8, <3>3 DEF AfterTests, InTests, NotByDefault, InCategories, InEnvironments
        <3> QED BY <3>1, <3>2, <3>3
    <2>12. \A x : x \in AfterCaps <=> x \in AfterTests /\ InCaps(x)
        BY DEF AfterCaps, InCaps
    <2> QED BY <2>2, <2>11, <2>12 DEF Meant
<1> QED BY SelectionInvariance, <1>1, PTL

\* No command line reaches the tests of a non-default category without naming
\* the category or such a test.
THEOREM DefaultsOnly == SelectionSpec => []NonDefaultOnlyIfAsked
<1>1. SelectionInv => NonDefaultOnlyIfAsked
    <2>1. SUFFICES ASSUME SelectionInv, NEW x \in selection, info[x.name].cat \in non_default_categories,
                          cats \intersect non_default_categories = {}
                   PROVE  \E y \in tests : info[y.name].cat \in non_default_categories
        BY DEF NonDefaultOnlyIfAsked
    <2>2. x \notin AfterCats
        BY <2>1 DEF AfterCats
    <2>3. x \in AfterEnvs => info[x.name].cat \in Categories
        BY <2>2 DEF AfterEnvs
    <2>4. info[x.name].cat \notin default_categories
        BY <2>1 DEF default_categories, non_default_categories
    <2>5. x \in AfterEnvs => \E y \in tests : info[y.name].cat \in non_default_categories
        BY <2>1, <2>3, <2>4 DEF Categories
    <2>6. x \in AfterTests => x \in AfterEnvs \/ x \in tests
        BY DEF AfterTests
    <2>7. x \in AfterCats \/ x \in AfterEnvs \/ x \in AfterTests
        BY <2>1 DEF SelectionInv, SelectionTypeOK, Stages, AfterCaps
    <2> QED BY <2>1, <2>2, <2>5, <2>6, <2>7
<1> QED BY SelectionInvariance, <1>1, PTL

\* The selection is what was asked for: exactly that unless a filter empties it on
\* the way, and without tests of non-default categories even then.
THEOREM SelectionIsRight == SelectionSpec => []SelectsWhatWasAsked
BY Intersects, DefaultsOnly, PTL DEF SelectsWhatWasAsked

-----------------------------------------------------------------------------
(* The life of a domain.                                                   *)

Lines == {Text, Stars} \union {Result(s, w) : s \in StatusNames, w \in BOOLEAN}

\* Where the result has been printed, or a panic may have come after it.
Ended == {"poweroff", "down", "panic", "crash", "dead"}

\* The status is the most severe of the reports.
StatusIsWorst ==
    /\ reports \in Seq(StatusNames \ {"RUNNING"})
    /\ \A i \in DOMAIN reports : Value(reports[i]) <= Value(status)
    /\ reports # <<>> => \E i \in DOMAIN reports : status = reports[i]
    /\ reports = <<>> => status \in {"RUNNING", "ERROR"}
    /\ pc \notin Ended /\ reports = <<>> => status = "RUNNING"
    /\ pc \in {"poweroff", "down"} => status # "RUNNING"

\* The console ends in the result as long as nothing came after it, in the
\* stars of a panic otherwise, and no line is an earlier result.
ConsoleTells ==
    /\ pc = "callbacks" => sinks = {}
    /\ "pv" \notin sinks => console = <<>>
    /\ \A i \in DOMAIN console : console[i].what = "result" =>
           pc \in Ended /\ console[i].status = status /\ status # "RUNNING"
    /\ pc \in {"poweroff", "down"} /\ "pv" \in sinks =>
           console # <<>> /\ console[Len(console)].what = "result"
    /\ pc \in {"crash", "dead"} /\ "pv" \in sinks =>
           console # <<>> /\ console[Len(console)] = Stars

\* The inductive invariant of a domain.
GuestInv ==
    /\ GuestTypeOK
    /\ dom = "running" <=> pc \notin {"down", "dead"}
    /\ StatusIsWorst /\ ConsoleTells

\* The orders of enum test_status and of the runner's results.
LEMMA Values ==
    /\ Value("RUNNING") = 1 /\ Value("SUCCESS") = 2 /\ Value("SKIP") = 3
    /\ Value("ERROR") = 4 /\ Value("FAILURE") = 5
BY DEF Value, Statuses

LEMMA Severities ==
    /\ Severity("SUCCESS") = 1 /\ Severity("SKIP") = 2
    /\ Severity("ERROR") = 3 /\ Severity("FAILURE") = 4 /\ Severity("CRASH") = 5
BY DEF Severity, all_results

\* A line of text that follows another adds nothing; any other line is the last.
LEMMA ShownAdds ==
    ASSUME console \in Seq(Lines), NEW line \in Lines
    PROVE  /\ Shown(line) \in Seq(Lines)
           /\ "pv" \notin sinks => Shown(line) = console
           /\ "pv" \in sinks => Shown(line) # <<>> /\ Shown(line)[Len(Shown(line))] = line
           /\ \A i \in DOMAIN Shown(line) :
                 \/ Shown(line)[i] = line
                 \/ i \in DOMAIN console /\ Shown(line)[i] = console[i]
<1>1. CASE "pv" \notin sinks \/ (line = Text /\ console # <<>> /\ console[Len(console)] = Text)
    BY <1>1 DEF Shown
<1>2. CASE ~("pv" \notin sinks \/ (line = Text /\ console # <<>> /\ console[Len(console)] = Text))
    <2>1. Shown(line) = Append(console, line)
        BY <1>2 DEF Shown
    <2> QED BY <1>2, <2>1
<1> QED BY <1>1, <1>2

\* The kinds of lines differ.
LEMMA LinesDiffer ==
    /\ Text \in Lines /\ Text.what # "result" /\ Stars \in Lines /\ Stars.what # "result"
    /\ \A s \in StatusNames, w \in BOOLEAN :
          Result(s, w) \in Lines /\ Result(s, w).what = "result" /\ Result(s, w).status = s
<1>1. /\ Text \in Lines /\ Text.what # "result" /\ Stars \in Lines /\ Stars.what # "result"
    BY DEF Lines, Text, Stars
<1>2. \A s \in StatusNames, w \in BOOLEAN : Result(s, w) \in Lines
    BY DEF Lines
<1>3. \A s, w : Result(s, w).what = "result" /\ Result(s, w).status = s
    BY DEF Result
<1> QED BY <1>1, <1>2, <1>3

\* A new domain has done nothing yet.
LEMMA GuestInvCreated == ASSUME NEW kinds, kinds \subseteq Kinds, CreateDomain(kinds) PROVE GuestInv'
<1> USE DEF CreateDomain, Ended
<1>1. GuestTypeOK'
    <2>1. kind' \in Kinds
        OBVIOUS
    <2>2. reports' \in Seq(StatusNames) /\ console' \in Seq(Lines)
        OBVIOUS
    <2>3. /\ initdomain' \in BOOLEAN /\ needsFep' \in BOOLEAN /\ hasFep' \in BOOLEAN
          /\ shutdownWorks' \in BOOLEAN /\ warnings' \in BOOLEAN
        OBVIOUS
    <2>4. hypercalls' \in BOOLEAN
        OBVIOUS
    <2>5. {initdomain, needsFep, hasFep, shutdownWorks}' \subseteq BOOLEAN
        BY <2>3
    <2>6. /\ pc' = "callbacks" /\ dom' = "running" /\ sinks' = {} /\ status' = "RUNNING"
        OBVIOUS
    <2> HIDE DEF CreateDomain
    <2> QED BY <2>1, <2>2, <2>3, <2>4, <2>5, <2>6 DEF GuestTypeOK, StatusNames, Lines
<1>2. StatusIsWorst'
    BY DEF StatusIsWorst, StatusNames
<1>3. ConsoleTells'
    BY DEF ConsoleTells
<1> QED BY <1>1, <1>2, <1>3 DEF GuestInv

\* Each step of the domain, and a panic at any of them.
LEMMA GuestInvStep == GuestInv /\ Guest => GuestInv'
<1> SUFFICES ASSUME GuestInv, Guest PROVE GuestInv'
    OBVIOUS
<1>1. console \in Seq(Lines)
    BY DEF GuestInv, GuestTypeOK, Lines
<1> DEFINE Started == {"callbacks", "traps", "hypercalls", "console", "xenbus", "shared_info",
                       "banner", "setup", "test"}
<1>2. ASSUME pc \in Started, pc' \in (Started \union {"exit"}) \ {"callbacks"},
             UNCHANGED <<dom, status, warnings, reports, console, envVars>>,
             hypercalls' \in BOOLEAN, sinks' \subseteq {"qemu", "xen", "pv"},
             "pv" \in sinks => "pv" \in sinks'
      PROVE  GuestInv'
    <2> USE DEF GuestInv
    <2>1. GuestTypeOK'
        BY <1>2 DEF GuestTypeOK, envVars
    <2>2. StatusIsWorst'
        BY <1>2 DEF StatusIsWorst, Ended
    <2>3. ConsoleTells'
        BY <1>2 DEF ConsoleTells, Ended
    <2> QED BY <1>2, <2>1, <2>2, <2>3
<1>21. GuestInv => hypercalls \in BOOLEAN /\ warnings \in BOOLEAN /\ sinks \subseteq {"qemu", "xen", "pv"}
    BY DEF GuestInv, GuestTypeOK
<1>3. ASSUME Panic, dom = "running", pc \notin {"crash", "panic"}
      PROVE GuestInv'
    <2> USE DEF GuestInv, Panic, Goto
    <2>1. GuestTypeOK'
        BY <1>3 DEF GuestTypeOK, envVars
    <2>2. StatusIsWorst'
        BY <1>3 DEF StatusIsWorst, Ended
    <2>3. ConsoleTells'
        BY <1>3 DEF ConsoleTells, Ended
    <2> QED BY <1>3, <2>1, <2>2, <2>3
<1> USE DEF Goto
<1>4. CASE RegisterCallbacks
    BY <1>4, <1>2 DEF RegisterCallbacks, GuestInv, GuestTypeOK, ConsoleTells
<1>5. CASE ArchInitTraps
    <2>1. dom = "running" /\ pc \notin {"crash", "panic"}
        BY <1>5 DEF ArchInitTraps, GuestInv
    <2>2. CASE Panic
        BY <2>1, <2>2, <1>3
    <2>3. CASE ~Panic
        <3>1. /\ pc \in Started /\ pc' \in (Started \union {"exit"}) \ {"callbacks"}
              /\ UNCHANGED <<dom, status, warnings, reports, console, envVars>>
            BY <1>5, <2>3 DEF ArchInitTraps
        <3>2. hypercalls' \in BOOLEAN
            BY <1>5, <2>3, <1>21 DEF ArchInitTraps
        <3>3. sinks' \subseteq {"qemu", "xen", "pv"} /\ ("pv" \in sinks => "pv" \in sinks')
            BY <1>5, <2>3, <1>21 DEF ArchInitTraps
        <3> QED BY <3>1, <3>2, <3>3, <1>2
    <2> QED BY <2>2, <2>3
<1>6. CASE InitHypercalls
    <2>1. dom = "running" /\ pc \notin {"crash", "panic"}
        BY <1>6 DEF InitHypercalls, GuestInv
    <2>2. CASE Panic
        BY <2>1, <2>2, <1>3
    <2>3. CASE ~Panic
        <3>1. /\ pc \in Started /\ pc' \in (Started \union {"exit"}) \ {"callbacks"}
              /\ UNCHANGED <<dom, status, warnings, reports, console, envVars>>
            BY <1>6, <2>3 DEF InitHypercalls
        <3>2. hypercalls' \in BOOLEAN
            BY <1>6, <2>3, <1>21 DEF InitHypercalls
        <3>3. sinks' \subseteq {"qemu", "xen", "pv"} /\ ("pv" \in sinks => "pv" \in sinks')
            BY <1>6, <2>3, <1>21 DEF InitHypercalls
        <3> QED BY <3>1, <3>2, <3>3, <1>2
    <2> QED BY <2>2, <2>3
<1>7. CASE SetupPvConsole
    <2>1. dom = "running" /\ pc \notin {"crash", "panic"}
        BY <1>7 DEF SetupPvConsole, GuestInv
    <2>2. CASE Panic
        BY <2>1, <2>2, <1>3
    <2>3. CASE ~Panic
        <3>1. /\ pc \in Started /\ pc' \in (Started \union {"exit"}) \ {"callbacks"}
              /\ UNCHANGED <<dom, status, warnings, reports, console, envVars>>
            BY <1>7, <2>3 DEF SetupPvConsole
        <3>2. hypercalls' \in BOOLEAN
            BY <1>7, <2>3, <1>21 DEF SetupPvConsole
        <3>3. sinks' \subseteq {"qemu", "xen", "pv"} /\ ("pv" \in sinks => "pv" \in sinks')
            BY <1>7, <2>3, <1>21 DEF SetupPvConsole
        <3> QED BY <3>1, <3>2, <3>3, <1>2
    <2> QED BY <2>2, <2>3
<1>8. CASE SetupXenbus
    <2>1. dom = "running" /\ pc \notin {"crash", "panic"}
        BY <1>8 DEF SetupXenbus, GuestInv
    <2>2. CASE Panic
        BY <2>1, <2>2, <1>3
    <2>3. CASE ~Panic
        <3>1. /\ pc \in Started /\ pc' \in (Started \union {"exit"}) \ {"callbacks"}
              /\ UNCHANGED <<dom, status, warnings, reports, console, envVars>>
            BY <1>8, <2>3 DEF SetupXenbus
        <3>2. hypercalls' \in BOOLEAN
            BY <1>8, <2>3, <1>21 DEF SetupXenbus
        <3>3. sinks' \subseteq {"qemu", "xen", "pv"} /\ ("pv" \in sinks => "pv" \in sinks')
            BY <1>8, <2>3, <1>21 DEF SetupXenbus
        <3> QED BY <3>1, <3>2, <3>3, <1>2
    <2> QED BY <2>2, <2>3
<1>9. CASE MapSharedInfo
    <2>1. dom = "running" /\ pc \notin {"crash", "panic"}
        BY <1>9 DEF MapSharedInfo, GuestInv
    <2>2. CASE Panic
        BY <2>1, <2>2, <1>3
    <2>3. CASE ~Panic
        <3>1. /\ pc \in Started /\ pc' \in (Started \union {"exit"}) \ {"callbacks"}
              /\ UNCHANGED <<dom, status, warnings, reports, console, envVars>>
            BY <1>9, <2>3 DEF MapSharedInfo
        <3>2. hypercalls' \in BOOLEAN
            BY <1>9, <2>3, <1>21 DEF MapSharedInfo
        <3>3. sinks' \subseteq {"qemu", "xen", "pv"} /\ ("pv" \in sinks => "pv" \in sinks')
            BY <1>9, <2>3, <1>21 DEF MapSharedInfo
        <3> QED BY <3>1, <3>2, <3>3, <1>2
    <2> QED BY <2>2, <2>3
<1>10. CASE TestEnds
    BY <1>10, <1>2 DEF TestEnds, GuestInv, GuestTypeOK
<1>11. CASE TestFaults
    BY <1>11, <1>3 DEF TestFaults, GuestInv
\* Before the end, a report is a line of text and a status.
<1>12. ASSUME pc \in {"banner", "setup", "test"}, pc' \in {"setup", "test", "exit"}, dom' = dom, sinks' = sinks,
              console' = Shown(Text), UNCHANGED envVars, hypercalls' \in BOOLEAN, warnings' \in BOOLEAN,
              \/ UNCHANGED <<status, reports>>
              \/ \E s \in StatusNames \ {"RUNNING"} :
                    status' = MoreSevere(s) /\ reports' = Append(reports, s)
       PROVE GuestInv'
    <2> USE DEF GuestInv
    <2>3. /\ console' \in Seq(Lines)
          /\ "pv" \notin sinks => console' = console
          /\ \A i \in DOMAIN console' : console'[i].what = "result" =>
                i \in DOMAIN console /\ console'[i] = console[i]
        <3>1. Text \in Lines /\ Text.what # "result"
            BY LinesDiffer
        <3>2. /\ Shown(Text) \in Seq(Lines) /\ ("pv" \notin sinks => Shown(Text) = console)
              /\ \A i \in DOMAIN Shown(Text) :
                    Shown(Text)[i] = Text \/ (i \in DOMAIN console /\ Shown(Text)[i] = console[i])
            BY <1>1, <3>1, ShownAdds
        <3>3. console' = Shown(Text)
            BY <1>12
        <3> HIDE DEF Shown, Text
        <3> QED BY <3>1, <3>2, <3>3
    <2>1. GuestTypeOK' /\ StatusIsWorst'
        <3>1. UNCHANGED <<status, reports>> => GuestTypeOK' /\ StatusIsWorst'
            BY <1>12, <2>3 DEF GuestTypeOK, Lines, StatusIsWorst, Ended, envVars
        <3>2. ASSUME NEW s \in StatusNames \ {"RUNNING"},
                     status' = MoreSevere(s), reports' = Append(reports, s)
              PROVE  GuestTypeOK' /\ StatusIsWorst'
            <4>1. /\ reports \in Seq(StatusNames \ {"RUNNING"}) /\ status \in StatusNames
                  /\ reports = <<>> => status = "RUNNING"
                BY <1>12 DEF StatusIsWorst, GuestTypeOK, Ended
            <4>2. /\ status' \in {s, status} /\ Value(s) <= Value(status') /\ Value(status) <= Value(status')
                  /\ status = "RUNNING" => status' = s
                BY <3>2, <4>1, Values DEF MoreSevere, StatusNames
            <4>3. /\ reports' \in Seq(StatusNames \ {"RUNNING"}) /\ reports' # <<>>
                  /\ \A i \in DOMAIN reports' : reports'[i] = s \/ (i \in DOMAIN reports /\ reports'[i] = reports[i])
                  /\ \A i \in DOMAIN reports : i \in DOMAIN reports' /\ reports'[i] = reports[i]
                  /\ \E i \in DOMAIN reports' : reports'[i] = s
                <5>1. /\ DOMAIN reports = 1..Len(reports) /\ Len(reports) \in Nat
                      /\ DOMAIN reports' = 1..(Len(reports) + 1)
                      /\ \A i \in 1..Len(reports) : reports'[i] = reports[i]
                      /\ reports'[Len(reports) + 1] = s
                    BY <3>2, <4>1
                <5>2. reports' \in Seq(StatusNames \ {"RUNNING"}) /\ reports' # <<>>
                    BY <3>2, <4>1
                <5>3. \A i \in DOMAIN reports : i \in DOMAIN reports' /\ reports'[i] = reports[i]
                    BY <5>1
                <5>4. \A i \in DOMAIN reports' : reports'[i] = s \/ (i \in DOMAIN reports /\ reports'[i] = reports[i])
                    BY <5>1
                <5>5. \E i \in DOMAIN reports' : reports'[i] = s
                    BY <5>1
                <5> QED BY <5>2, <5>3, <5>4, <5>5
            <4>4. \A t \in StatusNames : Value(t) \in Nat
                BY Values DEF StatusNames
            <4>5. \A i \in DOMAIN reports' : Value(reports'[i]) <= Value(status')
                BY <4>1, <4>2, <4>3, <4>4 DEF StatusIsWorst
            <4>6. \E i \in DOMAIN reports' : status' = reports'[i]
                BY <4>1, <4>2, <4>3 DEF StatusIsWorst
            <4>7. StatusIsWorst'
                BY <1>12, <4>3, <4>5, <4>6 DEF StatusIsWorst, Ended
            <4>8. status' \in StatusNames /\ reports' \in Seq(StatusNames)
                BY <4>2, <4>1, <4>3
            <4> QED BY <1>12, <2>3, <4>7, <4>8 DEF GuestTypeOK, Lines, envVars
        <3> QED BY <1>12, <3>1, <3>2
    <2>2. ConsoleTells'
        BY <1>12, <2>3 DEF ConsoleTells, Ended
    <2> QED BY <1>12, <2>1, <2>2
<1>13. CASE Banner
    BY <1>13, <1>12 DEF Banner, GuestInv, GuestTypeOK
<1>14. CASE TestSetup
    <2>1. CASE needsFep /\ ~hasFep
        BY <1>14, <2>1, <1>12 DEF TestSetup, GuestInv, GuestTypeOK, StatusNames
    <2>2. CASE ~(needsFep /\ ~hasFep)
        BY <1>14, <2>2, <1>2 DEF TestSetup, GuestInv, GuestTypeOK
    <2> QED BY <2>1, <2>2
<1>15. ASSUME NEW s \in StatusNames \ {"RUNNING"}, Report(s) PROVE GuestInv'
    BY <1>15, <1>12 DEF Report, GuestInv, GuestTypeOK
<1>16. CASE Warning
    BY <1>16, <1>12 DEF Warning, GuestInv, GuestTypeOK
<1>17. CASE ReportStatus
    <2> USE DEF GuestInv, ReportStatus
    <2>1. status' \in StatusNames \ {"RUNNING"} /\ status' \in {status, "ERROR"}
        BY <1>17, Values DEF StatusNames, GuestTypeOK, MoreSevere
    <2>2. status # "RUNNING" => status' = status
        BY <1>17, Values DEF StatusNames, GuestTypeOK
    <2>3. status = "RUNNING" => reports = <<>>
        BY DEF StatusIsWorst
    <2>4. StatusIsWorst'
        BY <1>17, <2>1, <2>2, <2>3 DEF StatusIsWorst, Ended
    <2>5. PICK line \in Lines : /\ line = Result(status', warnings /\ status' = "SUCCESS")
                                /\ line.what = "result" /\ line.status = status' /\ console' = Shown(line)
        <3>1. (warnings /\ status' = "SUCCESS") \in BOOLEAN
            OBVIOUS
        <3> QED BY <1>17, <2>1, <3>1, LinesDiffer
    <2>6. ConsoleTells'
        <3>1. /\ "pv" \notin sinks => console' = console
              /\ "pv" \in sinks => console' # <<>> /\ console'[Len(console')] = line
              /\ \A i \in DOMAIN console' : console'[i] = line \/ (i \in DOMAIN console /\ console'[i] = console[i])
            BY <1>1, <2>5, ShownAdds DEF ReportStatus
        <3> QED BY <1>17, <2>1, <2>5, <3>1 DEF ConsoleTells, Ended
    <2>7. GuestTypeOK'
        BY <1>17, <1>1, <2>1, <2>5, ShownAdds DEF GuestTypeOK, Lines, envVars
    <2> QED BY <1>17, <2>4, <2>6, <2>7
<1>18. CASE Poweroff
    <2>1. CASE shutdownWorks
        <3>1. /\ pc = "poweroff" /\ pc' = "down" /\ dom' = "poweroff"
              /\ UNCHANGED <<sinks, hypercalls, status, warnings, reports, console, envVars>>
            BY <1>18, <2>1 DEF Poweroff
        <3>2. GuestTypeOK'
            BY <3>1 DEF GuestInv, GuestTypeOK, envVars
        <3>3. StatusIsWorst' /\ ConsoleTells'
            BY <3>1 DEF GuestInv, StatusIsWorst, ConsoleTells, Ended
        <3> QED BY <3>1, <3>2, <3>3 DEF GuestInv
    <2> QED BY <1>18, <2>1, <1>3 DEF Poweroff, GuestInv
<1>19. CASE PanicPrint
    <2> USE DEF GuestInv, PanicPrint
    <2>1. GuestTypeOK'
        BY <1>19, <1>1, ShownAdds, LinesDiffer DEF GuestTypeOK, Lines, envVars
    <2>2. StatusIsWorst'
        BY <1>19 DEF StatusIsWorst, Ended
    <2>3. ConsoleTells'
        <3>1. /\ "pv" \notin sinks => console' = console
              /\ "pv" \in sinks => console' # <<>> /\ console'[Len(console')] = Stars
              /\ \A i \in DOMAIN console' : console'[i] = Stars \/ (i \in DOMAIN console /\ console'[i] = console[i])
            BY <1>19, <1>1, ShownAdds, LinesDiffer
        <3> QED BY <1>19, <3>1, LinesDiffer DEF ConsoleTells, Ended
    <2> QED BY <1>19, <2>1, <2>2, <2>3
<1>20. CASE PanicShutdown
    <2> USE DEF GuestInv, PanicShutdown
    <2>1. GuestTypeOK'
        BY <1>20 DEF GuestTypeOK, envVars
    <2>2. StatusIsWorst' /\ ConsoleTells'
        BY <1>20 DEF StatusIsWorst, ConsoleTells, Ended
    <2> QED BY <1>20, <2>1, <2>2
<1> QED BY <1>4, <1>5, <1>6, <1>7, <1>8, <1>9, <1>10, <1>11, <1>13, <1>14, <1>15, <1>16, <1>17,
           <1>18, <1>19, <1>20 DEF Guest

-----------------------------------------------------------------------------
(* The results.                                                            *)

\* What happened to a test whose domain is gone.
Gone == [kind |-> IF pc = "dead" THEN "crashed" ELSE IF "pv" \in sinks THEN "finished" ELSE "silent",
         reports |-> {reports[i] : i \in DOMAIN reports}]

LEMMA SeverityInjective ==
    \A r, s \in ResultNames : Severity(r) = Severity(s) => r = s
BY Severities DEF ResultNames

\* The worst of a set of results.
LEMMA WorstIs ==
    ASSUME NEW S, S \subseteq ResultNames, NEW r \in S, \A s \in S : Severity(s) <= Severity(r)
    PROVE  Worst(S) = r
<1>1. Worst(S) \in S /\ \A s \in S : Severity(s) <= Severity(Worst(S))
    BY DEF Worst
<1>2. Severity(Worst(S)) <= Severity(r) /\ Severity(r) <= Severity(Worst(S))
    BY <1>1
<1>3. \A s \in ResultNames : Severity(s) \in Nat
    BY Severities DEF ResultNames
<1>4. Worst(S) \in ResultNames /\ r \in ResultNames
    BY <1>1
<1> QED BY <1>2, <1>3, <1>4, SeverityInjective

\* A status is as severe as the result it becomes.
LEMMA ValueIsSeverity ==
    \A s \in StatusNames \ {"RUNNING"} : s \in ResultNames /\ Value(s) = Severity(s) + 1
BY Values, Severities DEF StatusNames, ResultNames

\* The console of a domain that is gone leads to the result it deserves, and
\* a log file to one that is no less severe than any of its reports.
LEMMA ResultsOfGone ==
    ASSUME GuestInv, dom # "running"
    PROVE  /\ Gone.kind \in {"crashed", "silent", "finished"}
           /\ ConsoleResult = Deserved(Gone)
           /\ ConsoleResult \in ResultNames /\ LogfileResult \in ResultNames
           /\ \A r \in Gone.reports : /\ Severity(ConsoleResult) >= Severity(r)
                                      /\ Severity(LogfileResult) >= Severity(r)
<1> DEFINE found == {i \in 1..Len(console) : console[i].what = "result"}
<1>1. pc \in {"down", "dead"} /\ pc \in Ended /\ status \in StatusNames
    BY DEF GuestInv, GuestTypeOK, Ended
<1>2. console \in Seq(Lines) /\ DOMAIN console = 1..Len(console) /\ Len(console) \in Nat
    BY DEF GuestInv, GuestTypeOK, Lines
<1>3. Gone.reports \subseteq StatusNames \ {"RUNNING"}
    BY DEF GuestInv, StatusIsWorst, Gone
<1>4. \A r \in Gone.reports : r \in ResultNames /\ Severity(r) \in Nat /\ Severity(r) <= Severity("CRASH")
    BY <1>3, Severities DEF StatusNames, ResultNames
<1>5. ASSUME status # "RUNNING"
      PROVE  /\ status \in ResultNames
             /\ \A r \in Gone.reports : Severity(status) >= Severity(r)
    <2>1. \A i \in DOMAIN reports : reports[i] \in Gone.reports /\ Value(reports[i]) <= Value(status)
        BY DEF GuestInv, StatusIsWorst, Gone
    <2>2. \A r \in Gone.reports : Value(r) <= Value(status)
        BY <2>1 DEF Gone
    <2> QED BY <1>1, <1>3, <1>4, <1>5, <2>2, ValueIsSeverity, Severities DEF StatusNames
<1>6. \A i \in found : interpret_result(console[i]) = status /\ status # "RUNNING"
    BY <1>1, <1>2, <1>5 DEF GuestInv, ConsoleTells, interpret_result
<1>7. ConsoleResult \in {"CRASH", status} /\ (ConsoleResult = "CRASH" \/ status # "RUNNING")
    BY <1>2, <1>6 DEF ConsoleResult, interpret_result
<1>8. LogfileResult \in {"CRASH", status} /\ (LogfileResult = "CRASH" \/ status # "RUNNING")
    <2>1. CASE found = {}
        BY <2>1, <1>7 DEF LogfileResult
    <2>2. CASE found # {}
        <3> DEFINE first == CHOOSE i \in found : \A j \in found : i <= j
        <3>1. PICK n \in found : \A j \in found : n <= j
            <4>1. found \subseteq Nat
                BY <1>2
            <4> HIDE DEF found
            <4> QED BY <2>2, <4>1, LeastNumber
        <3>2. first \in found
            BY <3>1
        <3>3. LogfileResult = interpret_result(console[first])
            BY <2>2 DEF LogfileResult
        <3> QED BY <3>2, <3>3, <1>6
    <2> QED BY <2>1, <2>2
<1>9. \A r : r \in {"CRASH", status} /\ (r = "CRASH" \/ status # "RUNNING") =>
            r \in ResultNames /\ \A s \in Gone.reports : Severity(r) >= Severity(s)
    BY <1>4, <1>5, Severities DEF ResultNames
<1>10. ConsoleResult = Deserved(Gone)
    <2>1. CASE pc = "dead" \/ "pv" \notin sinks
        <3>1. Gone.kind \in {"crashed", "silent"}
            BY <2>1 DEF Gone
        <3>2. console = <<>> \/ console[Len(console)] = Stars
            BY <2>1 DEF GuestInv, ConsoleTells
        <3>3. ConsoleResult = "CRASH"
            BY <3>2, LinesDiffer DEF ConsoleResult, interpret_result
        <3> QED BY <3>1, <3>3 DEF Deserved
    <2>2. CASE pc = "down" /\ "pv" \in sinks
        <3>1. Gone.kind = "finished"
            BY <2>2 DEF Gone
        <3>2. console # <<>> /\ Len(console) \in found
            BY <1>2, <2>2 DEF GuestInv, ConsoleTells
        <3>3. ConsoleResult = status /\ status # "RUNNING"
            BY <3>2, <1>6 DEF ConsoleResult
        <3>4. CASE reports = <<>>
            BY <3>1, <3>3, <3>4 DEF GuestInv, StatusIsWorst, Deserved, Gone
        <3>5. CASE reports # <<>>
            <4>1. status \in Gone.reports
                BY <3>5 DEF GuestInv, StatusIsWorst, Gone
            <4>2. Worst(Gone.reports) = status
                BY <4>1, <1>4, <1>5, <3>3, WorstIs
            <4> QED BY <3>1, <3>3, <4>1, <4>2 DEF Deserved
        <3> QED BY <3>4, <3>5
    <2> QED BY <1>1, <2>1, <2>2
<1> QED BY <1>7, <1>8, <1>9, <1>10 DEF Gone

\* What main() has done by each of its steps, and what the results so far are.
Recorded ==
    /\ DOMAIN truths = DOMAIN results
    /\ \A x \in DOMAIN results :
          /\ results[x] \in ResultNames
          /\ mode = "console" => results[x] = Deserved(truths[x])
          /\ \A r \in truths[x].reports : Severity(results[x]) >= Severity(r)
    /\ rc \in 1..5
    /\ \A x \in DOMAIN results : Severity(results[x]) <= rc
    /\ rc = 1 \/ \E x \in DOMAIN results : Severity(results[x]) = rc

Running ==
    /\ step = "select" => results = <<>>
    /\ step \in {"next", "wait"} =>
          /\ stage = "done" /\ ~request.list
          /\ selection # {} /\ DOMAIN results \subseteq selection
    /\ step = "wait" => DOMAIN results # selection /\ GuestInv

\* The inductive invariant.
RunnerInv ==
    /\ step \in {"select", "next", "wait", "done"}
    /\ SelectionInv /\ Recorded /\ Running /\ ExitCodeIsWorst

\* Nothing has run yet.
LEMMA RunnerInvInit == Init => RunnerInv
<1> SUFFICES ASSUME Init PROVE RunnerInv
    OBVIOUS
<1>1. SelectionInv
    BY SelectionInvInit DEF Init
<1>2. Recorded
    BY Severities DEF Init, Recorded
<1> QED BY <1>1, <1>2 DEF Init, RunnerInv, Running, ExitCodeIsWorst

\* There is a test left, of which the result is not known.
LEMMA TestIsLeft ==
    ASSUME DOMAIN results \subseteq selection, DOMAIN results # selection
    PROVE  test \in selection /\ test \notin DOMAIN results
BY DEF test

\* A result is added to those that there are.
LEMMA RecordedStep ==
    ASSUME Recorded, NEW r \in ResultNames, NEW truth, Record(r, truth), test \notin DOMAIN results,
           mode = "console" => r = Deserved(truth),
           \A s \in truth.reports : Severity(r) >= Severity(s)
    PROVE  Recorded' /\ DOMAIN results' = DOMAIN results \union {test}
<1>1. /\ DOMAIN results' = DOMAIN results \union {test} /\ results'[test] = r
      /\ DOMAIN truths' = DOMAIN truths \union {test} /\ truths'[test] = truth
      /\ \A x \in DOMAIN results : results'[x] = results[x] /\ (x \in DOMAIN truths => truths'[x] = truths[x])
      /\ mode' = mode /\ rc' = IF Severity(r) > rc THEN Severity(r) ELSE rc
    BY DEF Record, With
<1>2. Severity(r) \in 1..5 /\ \A x \in DOMAIN results : Severity(results[x]) \in 1..5
    BY Severities DEF Recorded, ResultNames
<1>3. rc' \in 1..5 /\ rc <= rc' /\ Severity(r) <= rc' /\ rc' \in {rc, Severity(r)}
    BY <1>1, <1>2 DEF Recorded
<1>4. DOMAIN truths' = DOMAIN results' /\ \A x \in DOMAIN results' :
          /\ results'[x] \in ResultNames
          /\ mode' = "console" => results'[x] = Deserved(truths'[x])
          /\ \A s \in truths'[x].reports : Severity(results'[x]) >= Severity(s)
    BY <1>1 DEF Recorded
<1>5. \A x \in DOMAIN results' : Severity(results'[x]) <= rc'
    BY <1>1, <1>2, <1>3 DEF Recorded
<1>6. rc' = 1 \/ \E x \in DOMAIN results' : Severity(results'[x]) = rc'
    BY <1>1, <1>3 DEF Recorded
<1> QED BY <1>1, <1>3, <1>4, <1>5, <1>6 DEF Recorded

\* Each step of main() and of the domain.
LEMMA RunnerInvStep == RunnerInv /\ [Next]_vars => RunnerInv'
<1> SUFFICES ASSUME RunnerInv, [Next]_vars PROVE RunnerInv'
    OBVIOUS
<1>1. UNCHANGED selectionVars => SelectionInv'
    BY SelectionInvStep DEF RunnerInv
<1>2. UNCHANGED <<mode, results, rc, truths>> => Recorded'
    BY DEF RunnerInv, Recorded
<1>3. UNCHANGED domainVars => (GuestInv => GuestInv')
    BY DEF domainVars, envVars, guestVars, GuestInv, GuestTypeOK, StatusIsWorst, ConsoleTells
<1>4. ASSUME NEW code, Exits(code), step # "done", ExitCodeIsWorst' PROVE RunnerInv'
    BY <1>1, <1>2, <1>4 DEF Exits, RunnerInv, Running
<1>5. CASE Select
    <2>1. SelectionInv'
        BY <1>5, SelectionInvStep DEF Select, RunnerInv
    <2> QED BY <1>2, <1>5, <2>1 DEF Select, RunnerInv, runnerVars, Running, ExitCodeIsWorst
<1>6. CASE SelectionFails
    <2>1. selection = {}
        BY <1>6 DEF SelectionFails, RunnerInv, SelectionInv, Stages
    <2>2. ExitCodeIsWorst'
        BY <1>6, <2>1 DEF SelectionFails, Exits, selectionVars, ExitCodeIsWorst
    <2> QED BY <1>4, <1>6, <2>2 DEF SelectionFails
<1>7. CASE list_tests
    <2>1. ExitCodeIsWorst'
        BY <1>7 DEF list_tests, Exits, selectionVars, ExitCodeIsWorst
    <2> QED BY <1>4, <1>7, <2>1 DEF list_tests
<1>8. CASE NoTests
    <2>1. ExitCodeIsWorst'
        BY <1>8 DEF NoTests, Exits, selectionVars, ExitCodeIsWorst
    <2> QED BY <1>4, <1>8, <2>1 DEF NoTests
<1>9. CASE RunTests
    <2>1. DOMAIN results = {}
        BY <1>9 DEF RunTests, RunnerInv, Running
    <2>2. Running'
        BY <1>9, <2>1 DEF RunTests, selectionVars, Running
    <2> QED BY <1>1, <1>2, <1>9, <2>2 DEF RunTests, RunnerInv, ExitCodeIsWorst
<1>10. ASSUME NEW r \in ResultNames, NEW truth, Record(r, truth), step \in {"next", "wait"},
              DOMAIN results # selection,
              mode = "console" => r = Deserved(truth),
              \A s \in truth.reports : Severity(r) >= Severity(s)
       PROVE  RunnerInv'
    <2>1. test \in selection /\ test \notin DOMAIN results
        BY <1>10, TestIsLeft DEF RunnerInv, Running
    <2>2. Recorded' /\ DOMAIN results' = DOMAIN results \union {test}
        BY <1>10, <2>1, RecordedStep DEF RunnerInv
    <2>3. step' = "next" /\ UNCHANGED selectionVars
        BY <1>10 DEF Record
    <2>4. Running'
        BY <1>10, <2>1, <2>2, <2>3 DEF RunnerInv, Running, selectionVars
    <2> QED BY <1>1, <2>2, <2>3, <2>4 DEF RunnerInv, ExitCodeIsWorst
<1>11. CASE SkipTest
    <2>1. PICK truth : truth = [kind |-> "skipped", reports |-> {}] /\ Record("SKIP", truth)
        BY <1>11 DEF SkipTest
    <2>2. truth.reports = {} /\ Deserved(truth) = "SKIP" /\ "SKIP" \in ResultNames
        BY <2>1 DEF Deserved, ResultNames
    <2> QED BY <1>10, <1>11, <2>1, <2>2 DEF SkipTest, MoreTests
<1>12. CASE CreateTest
    <2>1. GuestInv'
        BY <1>12, GuestInvCreated DEF CreateTest, Kinds
    <2>2. Running'
        BY <1>12, <2>1 DEF CreateTest, MoreTests, RunnerInv, Running, selectionVars
    <2> QED BY <1>1, <1>2, <1>12, <2>2 DEF CreateTest, RunnerInv, ExitCodeIsWorst
<1>13. CASE XlFails
    <2>1. ExitCodeIsWorst'
        BY <1>13 DEF XlFails, MoreTests, Exits, selectionVars, ExitCodeIsWorst
    <2> QED BY <1>4, <1>13, <2>1 DEF XlFails, MoreTests
<1>14. CASE CollectResult
    <2> DEFINE r == IF mode = "console" THEN ConsoleResult ELSE LogfileResult
    <2>1. step = "wait" /\ DOMAIN results # selection /\ GuestInv /\ dom # "running"
        BY <1>14 DEF CollectResult, RunnerInv, Running
    <2>2. Record(r, Gone)
        BY <1>14 DEF CollectResult, Gone
    <2>3. /\ r \in ResultNames
          /\ mode = "console" => r = Deserved(Gone)
          /\ \A s \in Gone.reports : Severity(r) >= Severity(s)
        BY <2>1, ResultsOfGone
    <2> HIDE DEF r
    <2> QED BY <1>10, <2>1, <2>2, <2>3
<1>15. CASE Finish
    <2>1. step = "next" /\ DOMAIN results = selection /\ selection # {} /\ stage = "done"
        BY <1>15 DEF Finish, RunnerInv, Running
    <2>2. exit' = exit_code(all_results[rc]) /\ UNCHANGED <<selectionVars, results, rc>>
        BY <1>15 DEF Finish, Exits
    <2> DEFINE S == {results[x] : x \in selection}
    <2>3. PICK w \in S : Severity(w) = rc /\ \A s \in S : Severity(s) <= Severity(w)
        <3>1. \A s \in S : Severity(s) \in 1..5 /\ Severity(s) <= rc
            BY <2>1, Severities DEF RunnerInv, Recorded, ResultNames
        <3>2. S # {}
            BY <2>1
        <3>3. \E s \in S : Severity(s) = rc
            BY <2>1, <3>1, <3>2 DEF RunnerInv, Recorded
        <3> QED BY <3>1, <3>3
    <2>4. S \subseteq ResultNames /\ w \in ResultNames
        BY <2>1 DEF RunnerInv, Recorded
    <2>5. all_results[rc] = w /\ Worst(S) = w
        <3>1. Worst(S) = w
            BY <2>3, <2>4, WorstIs
        <3>2. all_results[Severity(w)] = w
            BY <2>4, Severities DEF ResultNames, all_results
        <3> QED BY <2>3, <3>1, <3>2
    <2>6. exit' = exit_code(w) /\ exit' # 1 /\ (exit' = 0 => w = "SUCCESS")
        BY <2>2, <2>4, <2>5 DEF exit_code, ResultNames
    <2>7. w = "SUCCESS" => \A x \in selection : results[x] = "SUCCESS"
        BY <2>3, <2>4, Severities DEF ResultNames
    <2>8. ExitCodeIsWorst'
        BY <2>1, <2>2, <2>5, <2>6, <2>7 DEF ExitCodeIsWorst, selectionVars
    <2> QED BY <1>4, <1>15, <2>1, <2>8 DEF Finish
<1>16. CASE RunGuest
    <2>1. GuestInv'
        BY <1>16, GuestInvStep DEF RunGuest, RunnerInv, Running
    <2>2. Running'
        BY <1>16, <2>1 DEF RunGuest, RunnerInv, Running, runnerVars, selectionVars
    <2> QED BY <1>1, <1>2, <1>16, <2>2 DEF RunGuest, RunnerInv, runnerVars, ExitCodeIsWorst
<1>17. CASE UNCHANGED vars
    <2>1. Running'
        BY <1>3, <1>17 DEF vars, runnerVars, selectionVars, RunnerInv, Running
    <2>2. ExitCodeIsWorst'
        BY <1>17 DEF vars, runnerVars, selectionVars, RunnerInv, ExitCodeIsWorst
    <2> QED BY <1>1, <1>2, <1>17, <2>1, <2>2 DEF vars, runnerVars, RunnerInv
<1> QED BY <1>5, <1>6, <1>7, <1>8, <1>9, <1>11, <1>12, <1>13, <1>14, <1>15, <1>16, <1>17
        DEF Next, Main, Done

-----------------------------------------------------------------------------
\* The results so far, and what led to them, are in order in every reachable state.
THEOREM RunnerInvariance == Spec => []RunnerInv
BY RunnerInvInit, RunnerInvStep, PTL DEF Spec

\* Within the runner the selection is still what was asked for.
THEOREM RunnerSelects == Spec => []SelectsWhatWasAsked
<1>1. Init => SelectionInit
    BY DEF Init
<1>2. [Next]_vars => [SelectionNext]_selectionVars
    BY DEF Next, Main, Select, SelectionFails, list_tests, NoTests, RunTests, SkipTest, CreateTest,
           XlFails, CollectResult, Finish, RunGuest, Done, Exits, Record, vars
<1> QED BY <1>1, <1>2, SelectionIsRight, PTL DEF Spec, SelectionSpec

\* A test that ends as it should has its most severe report as its result, one
\* that says nothing is an error, and one that panics, at any step of its life
\* and with its result printed or not, a crash.
THEOREM ResultsRight == Spec => []ConsoleResultsAreRight
<1>1. RunnerInv => ConsoleResultsAreRight
    BY DEF RunnerInv, Recorded, ConsoleResultsAreRight
<1> QED BY RunnerInvariance, <1>1, PTL

\* No result is less severe than a report, however the runner got at it.
THEOREM ReportsKept == Spec => []NoReportLost
<1>1. RunnerInv => NoReportLost
    BY DEF RunnerInv, Recorded, NoReportLost
<1> QED BY RunnerInvariance, <1>1, PTL

\* The exit code tells the worst of the results, and 0 that all were good.
THEOREM ExitCodeRight == Spec => []ExitCodeIsWorst
<1>1. RunnerInv => ExitCodeIsWorst
    BY DEF RunnerInv
<1> QED BY RunnerInvariance, <1>1, PTL
=============================================================================
