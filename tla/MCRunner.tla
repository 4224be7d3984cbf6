------------------------------ MODULE MCRunner ------------------------------
\* Small instances of Runner.  Any command line of up to three arguments is
\* listed, over two tests, the one with variations and the other without.  The
\* selections that are run have up to two tests, of up to two reports each.
EXTENDS Runner

MCInfo(variations) ==
    [cat : {"functional", "special"}, envs : {{"hvm64"}, {"hvm64", "pv32pae"}},
     variations : variations]

MCCatalogues ==
    {[n \in {"t1", "t2"} |-> IF n = "t1" THEN i ELSE j] :
        i \in MCInfo({{}, {"hap", "hypercall"}}), j \in MCInfo({{}})}

\* One of the names is no test's.
MCNames ==
    [env : {None, "hvm64", "pv32pae"}, name : {"t1"}, variation : {None, "hap"}]
    \union [env : {None, "hvm64"}, name : {"t2"}, variation : {None}]
    \union [env : {None}, name : {"t3"}, variation : {None}]

MaxArgs == 3

MCCommands ==
    {r \in [cats : SUBSET {"functional", "special"}, envs : SUBSET {"hvm64", "pv32pae"},
            pseudo : SUBSET {"pv", "hvm"}, named : UNION {{{}, {a}, {a, b}} : a, b \in MCNames},
            all : BOOLEAN, non_default : BOOLEAN, host : BOOLEAN,
            environments : {FALSE}, list : {TRUE}] :
        Cardinality(r.cats) + Cardinality(r.envs) + Cardinality(r.pseudo) + Cardinality(r.named)
        + (IF r.all THEN 1 ELSE 0) + (IF r.non_default THEN 1 ELSE 0) <= MaxArgs}

NoArgs == [cats |-> {}, envs |-> {}, pseudo |-> {}, named |-> {}, all |-> FALSE,
           non_default |-> FALSE, host |-> FALSE, environments |-> TRUE, list |-> TRUE]

\* The second test in its environments, of which the host may lack one.
MCRuns ==
    {[NoArgs EXCEPT !.named = {[env |-> None, name |-> "t2", variation |-> None]}, !.pseudo = p,
                    !.host = h, !.environments = FALSE, !.list = FALSE] :
        p \in {{}, {"pv"}}, h \in BOOLEAN}

MCRequests == MCCommands \union MCRuns \union {NoArgs}

MCHostCaps == {{"pv", "pv32"}, {"hvm"}, {"pv", "hvm", "hap"}}

\* Bounds: tests are run over one catalogue, and the mode varies only for them.
MCInit ==
    /\ Init
    /\ request.list => mode = "console"
    /\ ~request.list =>
          info = [n \in {"t1", "t2"} |-> [cat |-> "functional", envs |-> {"hvm64", "pv32pae"},
                                        variations |-> {}]]

MCSpec == MCInit /\ [][Next]_vars /\ Fairness
=============================================================================
