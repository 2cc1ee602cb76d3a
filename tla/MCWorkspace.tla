---------------------------- MODULE MCWorkspace -----------------------------
(* Workspace on small instances. *)
EXTENDS Workspace

MCRank == [free |-> 0, gone |-> 1, paid |-> 2]
MCPlace == [paid |-> 1, gone |-> 2, free |-> 3]
MCAlphabet == [free |-> 1, gone |-> 2, paid |-> 3]
MCDomain == [shop |-> "shop", intranet |-> "intranet"]
MCRecipe == [shop |-> <<>>, intranet |-> <<"paid">>]
MCCommands ==
    {[list |-> <<"intranet", "shop">>, strategy |-> "none"],
     [list |-> <<"shop">>, strategy |-> "free"]}
\* The file names `gone`, which is not installed any more, and not `paid`, which is.
MCBase == [free |-> TRUE, gone |-> TRUE]
\* The first leaves `paid` alone, the second a gateway without providers.
MCSettings ==
    {[free |-> FALSE, paid |-> TRUE], [free |-> FALSE, paid |-> FALSE, gone |-> TRUE]}
MCPrice == [free |-> 0, gone |-> 1, paid |-> 5]
MCExact == [free |-> TRUE, gone |-> FALSE, paid |-> FALSE]

Past(p, outcome, index, stamp) ==
    [run |-> 100 + stamp, index |-> index, url |-> "shop", domain |-> "shop", provider |-> p,
     outcome |-> outcome, cost |-> MCPrice[p], exact |-> MCExact[p], stamp |-> stamp,
     explored |-> FALSE, seen |-> 0]

\* `paid` has proved itself; `free` and `gone` have failed long ago.
MCHistories ==
    {<<Past("paid", "failed", 1, 3), Past("paid", "ok", 2, 3)>>,
     <<Past("free", "failed", 1, 0), Past("free", "failed", 2, 0),
       Past("gone", "failed", 3, 0), Past("gone", "failed", 4, 0)>>}

=============================================================================
