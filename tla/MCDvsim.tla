------------------------------ MODULE MCDvsim -------------------------------
(***************************************************************************)
(* A small project for dvsim: two block configurations below a primary     *)
(* one, a lint configuration, modes that enable other modes, a regression, *)
(* and a testplan in which two testpoints list the same test.              *)
(***************************************************************************)
EXTENDS DvRun

O(x) == <<Text(x)>>                   \* an option or string of one piece
W(x, w) == <<Text(x), Wild(w)>>       \* and one that ends in a wildcard
S1(x) == Str(<<Text(x)>>)

MCEnv == [home |-> <<Text("/home")>>]

Common ==
  <<Entry("flow", S1("sim")),
    Entry("build_cmd", Str(<<Text("make"), Wild("tool")>>)), Entry("run_cmd", Str(W("simv", "test"))),
    Entry("scratch", Str(<<Wild("home"), Text("/scratch")>>)),
    Entry("build_dir", Str(<<Wild("scratch"), Wild("build_mode")>>)),
    Entry("run_dir", Str(<<Wild("scratch"), Wild("index")>>)),
    Entry("cov_merge_dir", S1("merge")), Entry("cov_report_dir", S1("report")),
    Entry("build_opts", List(<<O("+g")>>)), Entry("run_opts", List(<<W("+seed=", "seed")>>)),
    Entry("run_modes",
          List(<<[name |-> "trace", run_opts |-> <<O("+trace")>>, en_modes |-> <<"dump">>],
                 [name |-> "slow", run_opts |-> <<O("+slow")>>],
                 [name |-> "dump", run_opts |-> <<O("+dump")>>, en_modes |-> <<"slow">>],
                 [name |-> "wide", run_opts |-> <<O("+wide")>>, build_mode |-> "wide"]>>)),
    Entry("build_modes",
          List(<<[name |-> "cov", is_sim_mode |-> 1, build_opts |-> <<O("+cov")>>],
                 [name |-> "profile", is_sim_mode |-> 1, build_opts |-> <<O("+prof")>>],
                 [name |-> "fast", is_sim_mode |-> 1, build_opts |-> <<O("+fast")>>,
                  run_opts |-> <<O("+rfast")>>]>>))>>

\* Builds "wide" and "deep" enable the same mode and define macros called like
\* themselves: they are taken for equivalent.
BlockA ==
  <<Entry("name", S1("a")), Entry("testplan", S1("plan_a")), Entry("uvm_test", S1("base_test")),
    Entry("reseed", Num(1)), Entry("import_cfgs", List(<<O("common")>>)),
    Entry("build_modes",
          List(<<[name |-> "bits", build_opts |-> <<O("+bits")>>, run_opts |-> <<O("+rbits")>>],
                 [name |-> "wide", en_modes |-> <<"bits">>, build_opts |-> <<<<Text("+define+"), Text("wide")>>>>],
                 [name |-> "deep", en_modes |-> <<"bits">>, build_opts |-> <<<<Text("+define+"), Text("deep")>>>>]>>)),
    Entry("tests",
          List(<<[name |-> "t1", reseed |-> 2, en_modes |-> <<"trace">>, run_opts |-> <<O("+t1")>>],
                 [name |-> "t2", en_modes |-> <<"wide">>],
                 [name |-> "t3", build_mode |-> "deep", run_opts |-> <<W("+t3=", "build_mode")>>],
                 [name |-> "t5"]>>)),
    Entry("regressions",
          List(<<[name |-> "smoke", tests |-> <<"t1">>, en_run_modes |-> <<"slow">>,
                  en_sim_modes |-> <<"fast">>, reseed |-> 1, build_opts |-> <<O("+rb")>>],
                 [name |-> "nightly", tests |-> <<"t2", "t3">>, run_opts |-> <<O("+night")>>]>>))>>

BlockB ==
  <<Entry("name", S1("b")), Entry("import_cfgs", List(<<O("common")>>)), Entry("reseed", Num(1)),
    Entry("uvm_test", S1("b_test")),
    Entry("tests", List(<<[name |-> "u1"]>>)),
    Entry("regressions", List(<<[name |-> "nightly", tests |-> <<"u1">>]>>))>>

MCFiles ==
  (O("common") :> Common) @@ (O("a") :> BlockA) @@ (O("b") :> BlockB)
  @@ (O("top") :> <<Entry("flow", S1("sim")), Entry("name", S1("chip")),
                    Entry("use_cfgs", List(<<O("a"), O("b")>>))>>)
  @@ (O("lint") :> <<Entry("flow", S1("lint")), Entry("name", S1("l")), Entry("build_cmd", S1("lint")),
                     Entry("build_dir", Str(<<Wild("build_mode")>>)), Entry("tool", S1("ascent")),
                     Entry("build_modes", List(<<[name |-> "strict", build_opts |-> <<O("+s")>>]>>))>>)
  @@ (O("loop") :> <<Entry("flow", S1("sim")), Entry("import_cfgs", List(<<O("loop")>>))>>)

TP(n, m, tests) == [name |-> n, desc |-> "", milestone |-> m, tests |-> tests]
MCPlans ==
  "plan_a" :> [name |-> "a", import_testplans |-> <<"shared">>, covergroups |-> <<>>,
               subst |-> [intf |-> [vals |-> <<"1", "2">>]],
               testpoints |-> <<TP("smoke", "V1", <<O("t1")>>), TP("both", "V2", <<W("t", "intf")>>)>>]
  @@ "shared" :> [name |-> "shared", import_testplans |-> <<>>, covergroups |-> <<>>, subst |-> <<>>,
                  testpoints |-> <<TP("csr", "V1", <<O("t4")>>), TP("todo", "V3", <<>>)>>]

Cmd == [cfg |-> O("a"), items |-> <<"t1">>, tool |-> S1("vcs"), build_opts |-> <<>>, run_opts |-> <<>>,
        build_modes |-> <<>>, run_modes |-> <<>>, waves |-> "none", verdi |-> FALSE, gui |-> FALSE,
        cov |-> FALSE, cov_merge_previous |-> FALSE, profile |-> FALSE, xprop_off |-> TRUE, build_unique |-> FALSE, build_only |-> FALSE,
        run_only |-> FALSE, select |-> None, seeds |-> <<"7">>, fixed_seed |-> None, reseed |-> None,
        mult |-> 1, dry_run |-> FALSE, starts |-> TRUE, publish |-> FALSE, purge |-> FALSE, ends |-> "plain"]

MCCmdLines ==
  {[Cmd EXCEPT !.ends = "odd"], [Cmd EXCEPT !.cov = TRUE, !.cov_merge_previous = TRUE], [Cmd EXCEPT !.starts = FALSE],
   [Cmd EXCEPT !.items = <<"smoke">>, !.cov = TRUE, !.publish = TRUE, !.purge = TRUE, !.ends = "odd"],
   [Cmd EXCEPT !.items = <<"nightly">>, !.run_modes = <<"dump">>, !.purge = TRUE],
   [Cmd EXCEPT !.items = <<"t2", "t3">>, !.cov = TRUE, !.run_only = TRUE],
   [Cmd EXCEPT !.items = <<"V1">>, !.build_modes = <<"fast">>, !.fixed_seed = "5", !.reseed = 1],
   [Cmd EXCEPT !.items = <<"t1", "t2">>, !.reseed = 1, !.run_opts = <<O("+cmd")>>, !.profile = TRUE, !.purge = TRUE],
   [Cmd EXCEPT !.cfg = O("top"), !.items = <<"nightly">>, !.run_only = TRUE, !.seeds = <<>>],
   [Cmd EXCEPT !.cfg = O("top"), !.items = <<"nightly">>, !.select = {"b"}, !.dry_run = TRUE],
   [Cmd EXCEPT !.cfg = O("lint"), !.tool = None, !.publish = TRUE], [Cmd EXCEPT !.cfg = O("loop")],
   [Cmd EXCEPT !.items = <<"smoke">>, !.gui = TRUE], [Cmd EXCEPT !.items = <<"t3">>, !.build_only = TRUE]}

\* Two tests with one build, the first of them run twice
MCArrayCmdLines == {[Cmd EXCEPT !.items = <<"t1", "t5">>]}

\* A job passes, ends with an error code or prints a failure; or, with "odd" tools, it
\* may print nothing, leave no log, or have the farm report an error though it ended well.
End(e, l) == [exit |-> e, log |-> l, report |-> TRUE, stderr |-> FALSE]
Pass == End(0, {"pass"})
CovEnds ==
  [cov_merge |-> {End(0, {}), End(1, {})}, cov_report |-> {End(0, {}), [End(0, {}) EXCEPT !.report = FALSE]}]
MCEnds ==
  [plain |-> [build |-> {Pass, End(1, {"pass"}), End(0, {})},
              run |-> {Pass, End(0, {"pass", "fail"}), End(1, {"pass"})}] @@ CovEnds,
   odd |-> [build |-> {Pass, End(0, {}), End(0, None), [Pass EXCEPT !.stderr = TRUE]},
            run |-> {Pass, End(0, {}), End(0, None), [Pass EXCEPT !.stderr = TRUE]}] @@ CovEnds]

Names == <<"t1", "t2", "t3", "t4", "u1", "slow", "dump", "trace", "wide", "bits">>
MCHashes == {Names, Reverse(Names)}

MCLintReports == {("default" :> {} @@ "strict" :> {}), ("default" :> {"w"} @@ "strict" :> None)}
MCPast == {[latest |-> "r3", past |-> <<"r2", "r1", "r0">>, links |-> <<>>, to_remove |-> <<>>]}
Yes == [stat |-> TRUE, mv |-> TRUE, ls |-> TRUE, cp |-> TRUE]
MCServerAnswers == {Yes, [Yes EXCEPT !.mv = FALSE], [Yes EXCEPT !.ls = FALSE, !.cp = FALSE]}
=============================================================================
