---------------------------- MODULE MCRunnerForms -----------------------------
(* Instances of RunnerForms for TLC.                                          *)
EXTENDS RunnerForms

\* Paths with parents in every place that matters, with parts that say nothing,
\* the root, a relative one and none.
SomePaths ==
  {AbsPath(parts) : parts \in {<<"a", "b", "..", "..">>, <<"..", "a", "", ".", "..", "b">>}}
    \cup {NoPath, [abs |-> FALSE, parts |-> <<"a">>]}

\* One value comes with a space at its end.
SomeTrimmed == [v \in {"1", "2", "2 "} |-> IF v = "2 " THEN "2" ELSE v]

SomeEnvs ==
  {<<Pair("k", "1"), Comment, Pair("k", "2 ")>>, <<Pair("k", "1"), BadLine>>}

SomeEntries ==
  [labels |-> {<<"gpu", Blank>>}, limit |-> {-1}, env |-> SomeEnvs,
   sock |-> {"yes"},
   cacheEnabled |-> BOOLEAN, cacheType |-> {"bind", "volume"}, volume |-> {"v"},
   host |-> SomePaths, target |-> SomePaths, readOnly |-> BOOLEAN]

\* A runner with a volume; those with a bind are created.
SomeRecords ==
  {[labels |-> <<"gpu">>, image |-> DefaultImage, limit |-> 1, env |-> [k \in Keys |-> "2 "],
    sock |-> "no", cache |-> Volume(Unset, AbsPath(<<"b">>), FALSE)]}

================================================================================
