------------------------------ MODULE DvDeploy ------------------------------
(***************************************************************************)
(* From a configuration to the jobs to deploy: the objects of SimCfg.py    *)
(* and OneShotCfg.py and the jobs of Deploy.py.                            *)
(*                                                                         *)
(* A job is a record; jobs are numbered in the order they are created,     *)
(* which is the order in which their launchers are created.                *)
(***************************************************************************)
EXTENDS DvPlan

\* The modes the command line enables add their options to the configuration.
EnableModes(C, names, modes) ==
  Then(FindModes(names, modes), LAMBDA ms :
    [C EXCEPT !.build_opts = @ \o FlattenSeq([k \in DOMAIN ms |->
                                   IF "build_opts" \in DOMAIN ms[k] THEN ms[k].build_opts ELSE <<>>]),
              !.run_opts = @ \o OptsOf(ms, "run_opts"),
              !.sw_images = @ \o OptsOf(ms, "sw_images")])

\* SimCfg._create_objects. The result has the testplan as plan.
SimObjects(C, hash, item_names) ==
  Then(CreateBuildModes(C.build_modes, hash), LAMBDA bms :
  Then(CreateRunModes(C.run_modes, hash), LAMBDA rms :
  Then(EnableModes([C EXCEPT !.build_modes = bms, !.run_modes = rms], C.en_build_modes, bms), LAMBDA C1 :
  Then(EnableModes(C1, C.en_run_modes, rms), LAMBDA C2 :
  Then(CreateTests(C2, C.tests, hash), LAMBDA C3 :
  Then(Testplan(C.testplan, C.name), LAMBDA plan :
  Then(CreateRegressions(C3, C.regressions \o MilestoneRegressions(plan, hash), hash,
                         item_names \o [t \in DOMAIN C3.tests |-> C3.tests[t].name]), LAMBDA C4 :
    [C4 EXCEPT !.plan = plan])))))))

\* OneShotCfg._create_objects
OneShotObjects(C, hash) ==
  Then(CreateBuildModes(C.build_modes, hash), LAMBDA bms :
    [C EXCEPT !.build_modes = [b \in DOMAIN bms |-> [bms[b] EXCEPT !.build_opts = @ \o C.build_opts]]])

\* FlowCfg.__init__ of a configuration that is not primary, and the part of
\* SimCfg._expand and OneShotCfg._expand that is for such a one
MakeLeaf(path, args, hjson, hash, item_names) ==
  LET flow == TextOf(Get(hjson, "flow"))
      selected(C) == args.select = None \/ C.name \in args.select
  IN Then(Expanded(args, hjson, flow), LAMBDA d :
       LET C == [plan |-> None, deploy |-> <<>>, run_list |-> <<>>, cov_report |-> None, primary |-> FALSE]
                @@ FlowCfg(path, args, d, flow)
       IN IF ~selected(C) THEN C
          ELSE IF flow # "sim" THEN OneShotObjects(C, hash)
          ELSE IF ~Has(d, "tool") THEN Exit
          ELSE SimObjects(C, hash, item_names))

\* _make_child_cfg, create_instance and _load_child_cfg for a file
MakeChild(path, args, initial, hash, item_names) ==
  Then(LoadCfg(path, initial), LAMBDA h :
    IF Has(h, "use_cfgs") THEN Exit ELSE MakeLeaf(path, args, h, hash, item_names))

TestNames(C) == IF C.plan = None THEN <<>> ELSE [t \in DOMAIN C.tests |-> C.tests[t].name]

\* make_cfg: the configuration, with the children of a primary one in cfgs
MakeCfg(path, args, hash) ==
  LET initial == <<Entry("proj_root", Str(<<Text("root")>>))>>
                 \o (IF args.tool = None THEN <<>> ELSE <<Entry("tool", args.tool)>>)
  IN Then(LoadCfg(path, initial), LAMBDA h :
       IF ~Has(h, "use_cfgs")
       THEN Then(MakeLeaf(path, args, h, hash, <<>>), LAMBDA C :
              [cfgs |-> <<C>>, primary |-> FALSE, flow |-> C.flow])
       ELSE LET flow == TextOf(Get(h, "flow"))
                ivs == Append(initial, Entry("flow", Get(h, "flow")))
                Load(acc, entry) ==
                  Then(acc, LAMBDA a :
                  Then(SubstWildcards(entry, h, {}, TRUE), LAMBDA file :
                  Then(MakeChild(file, args, ivs, hash, a.names), LAMBDA C :
                    [cfgs |-> Append(a.cfgs, C), names |-> a.names \o TestNames(C)])))
            IN Then(FoldLeft(Load, [cfgs |-> <<>>, names |-> <<>>], Get(h, "use_cfgs").v), LAMBDA all :
               Then(Expanded(args, h, flow), LAMBDA d :
                 [cfgs |-> all.cfgs, primary |-> TRUE, flow |-> flow])))

\* prune_selected_cfgs, and the check of the GUI mode in create_deploy_objects
PruneSelected(top, args) ==
  IF args.select # None /\ ~top.primary THEN Exit
  ELSE LET cfgs == IF args.select = None THEN top.cfgs
                   ELSE SelectSeq(top.cfgs, LAMBDA C : C.name \in args.select)
       IN IF args.gui /\ Len(cfgs) > 1 THEN Exit ELSE [top EXCEPT !.cfgs = cfgs]

-----------------------------------------------------------------------------
\* _create_build_and_run_list: the regressions among the items, then the tests.
\* D is [C, names, marked, error].
AddRegression(D, r) ==
  Then(D, LAMBDA x :
    LET reg == x.C.regressions[r]
        overlap == {t \in ToSet(reg.tests) : x.C.tests[t].name \in ToSet(x.names)}
    IN IF reg.name \notin ToSet(x.C.items) THEN x
       ELSE IF overlap # {} THEN Exit
       ELSE [C |-> [MergeRegressionOpts(x.C, reg) EXCEPT !.run_list = @ \o reg.tests],
             names |-> x.names \o reg.test_names, marked |-> x.marked \cup {reg.name}])

AddTest(x, t) ==
  LET n == x.C.tests[t].name
  IN IF n \notin ToSet(x.C.items) \ x.marked \/ n \in ToSet(x.names) THEN x
     ELSE [C |-> [x.C EXCEPT !.run_list = Append(@, t)],
           names |-> Append(x.names, n), marked |-> x.marked \cup {n}]

\* The reseed of a test: overridden, then multiplied once for every time the test
\* is in the run list.
Reseed(C, t, args) ==
  LET base == IF args.reseed # None THEN args.reseed ELSE C.tests[t].reseed
      times == Cardinality({k \in DOMAIN C.run_list : C.run_list[k] = t})
  IN IF args.reseed # None THEN base * args.mult ELSE IF base = None THEN None ELSE base * args.mult ^ times

CreateBuildAndRunList(C, args) ==
  IF C.items = <<>> THEN Exit
  ELSE Then(FoldLeft(AddRegression, [C |-> C, names |-> <<>>, marked |-> {}],
                     [r \in DOMAIN C.regressions |-> r]), LAMBDA x :
         LET y == FoldLeft(AddTest, x, [t \in DOMAIN C.tests |-> t])
             D == MergeGlobalOpts(y.C, y.C.run_list)
         IN IF \E t \in ToSet(D.run_list) : Reseed(D, t, args) = None THEN Exit
            ELSE [D EXCEPT !.tests = [t \in DOMAIN @ |->
                    IF t \in ToSet(D.run_list) THEN [@[t] EXCEPT !.reseed = Reseed(D, t, args)] ELSE @[t]]])

-----------------------------------------------------------------------------
\* The attributes a job reads from the configuration once its mode has none
JobAttrs(C, keys) == [k \in DOMAIN keys |-> Entry(keys[k], Get(C.d, keys[k]))]

\* _subst_vars: in the job's own dict as far as it goes, then in sim_cfg's
SubstVars(C, dict) ==
  Then(FindAndSubst(dict, None, {}, TRUE), LAMBDA d : FindAndSubst(d, C.d, {}, FALSE))

\* _construct_cmd: the attributes the command is made from, one after the other
ConstructCmd(d, keys) ==
  FlattenSeq([k \in DOMAIN keys |-> Stringify(Get(d, keys[k]))])

\* Deploy.__init__: attributes, check, substitution, command, launcher
NewJob(C, target, name, own, keys, extra) ==
  LET dict == own \o JobAttrs(C, SelectSeq(keys, LAMBDA k : ~Has(own, k)))
  IN IF \E k \in ToSet(keys) : ~Has(dict, k) THEN Exit
     ELSE Then(SubstVars(C, dict), LAMBDA d :
            extra @@ [cfg |-> C.name, target |-> target, name |-> name, build_mode |-> "", index |-> 0,
                      deps |-> {}, needs_all |-> TRUE, weight |-> 1, patterns |-> {}, previous |-> FALSE,
                      cmd |-> ConstructCmd(d, keys),
                      odir |-> Stringify(Get(d, target \o "_dir"))])

NameEntry(key, n) == Entry(key, Str(<<Text(n)>>))

\* CompileSim, CompileOneShot, which has no pass patterns
BuildJob(C, mode) ==
  NewJob(C, "build", mode.name,
         <<NameEntry("name", mode.name), NameEntry("build_mode", mode.name),
           Entry("build_opts", List(mode.build_opts))>>,
         <<"build_cmd", "build_dir", "build_opts">>,
         [build_mode |-> mode.name]
         @@ IF C.flow = "sim" THEN [patterns |-> {"pass", "fail"}, weight |-> 5]
            ELSE [patterns |-> {"fail"}, weight |-> 1])

\* RunTest.get_seed: the seeds given, then the fixed seed, then random ones
GetSeed(seeds, fixed) ==
  IF seeds # <<>> THEN Head(seeds) ELSE IF fixed # None THEN fixed ELSE "random"

\* RunTest. b is the number of its build job.
RunJob(C, t, idx, b, seed) ==
  LET test == C.tests[t]
  IN NewJob(C, "run", test.name,
            <<NameEntry("name", test.name), NameEntry("test", test.name),
              NameEntry("build_mode", test.build_mode), Entry("index", Num(idx)),
              NameEntry("seed", seed), NameEntry("uvm_test", test.uvm_test),
              Entry("sw_images", List([k \in DOMAIN Images(C, test) |-> <<Text(Images(C, test)[k])>>])),
              Entry("run_opts", List(test.run_opts))>>,
            <<"run_cmd", "run_dir", "run_opts", "sw_images", "uvm_test">>,
            [build_mode |-> test.build_mode, index |-> idx, deps |-> {b}, patterns |-> IF C.gui THEN {} ELSE {"pass", "fail"}])

\* CovMerge and CovReport. The databases merged before are there unless purged.
CovMergeJob(C, runs, args) ==
  NewJob(C, "cov_merge", C.name, <<>>, <<"cov_merge_dir">>,
         [deps |-> runs, needs_all |-> FALSE, weight |-> 10,
          previous |-> args.cov_merge_previous /\ ~args.purge])
CovReportJob(C, merge) ==
  NewJob(C, "cov_report", C.name, <<>>, <<"cov_report_dir">>, [deps |-> {merge}, weight |-> 10])

\* is_equivalent_job: the commands, with the item's name replaced by the job's
\* wherever it occurs. A piece of a command is the name or does not contain it: an
\* option with the name in it is written in several pieces.
IsEquivalentJob(job, item) ==
  LET renamed == [k \in DOMAIN item.cmd |->
                    IF item.cmd[k] = Text(item.name) THEN Text(job.name) ELSE item.cmd[k]]
  IN job.target = item.target /\ job.cmd = renamed

\* _create_deploy_objects, the builds: acc is [jobs, builds, map], where builds has
\* the numbers of the builds kept and map the build of every build mode
AddBuild(C, acc, b) ==
  Then(acc, LAMBDA a : Then(BuildJob(C, C.build_modes[b]), LAMBDA job :
    LET same == SelectInSeq(a.builds, LAMBDA j : IsEquivalentJob(a.jobs[j], job))
        n == Len(a.jobs) + 1
    IN [jobs |-> Append(a.jobs, job),
        builds |-> IF same = 0 THEN Append(a.builds, n) ELSE a.builds,
        map |-> (C.build_modes[b].name :> IF same = 0 THEN n ELSE a.builds[same]) @@ a.map]))

\* _expand_run_list, the stable sort by the index of the run
InterleaveRuns(n, tagged) ==
  FlattenSeq([k \in 1..n |-> SelectSeq(tagged, LAMBDA p : p[2] = k - 1)])

\* _expand_run_list: the runs are created test by test and dispatched interleaved.
\* acc is [jobs, seeds]; the result has the numbers of the runs in order.
ExpandRunList(C, acc, map, args) ==
  LET tagged == FlattenSeq([k \in DOMAIN C.run_list |->
                  [i \in 1..C.tests[C.run_list[k]].reseed |-> <<C.run_list[k], i - 1>>]])
      most == Max({0} \cup {C.tests[t].reseed : t \in ToSet(C.run_list)})
      places == [k \in DOMAIN tagged |-> Len(acc.jobs) + k]
      Create(a, p) ==
        Then(a, LAMBDA x :
        Then(RunJob(C, p[1], p[2], map[C.tests[p[1]].build_mode], GetSeed(x.seeds, args.fixed_seed)), LAMBDA job :
          [jobs |-> Append(x.jobs, job), seeds |-> IF x.seeds = <<>> THEN <<>> ELSE Tail(x.seeds)]))
      order == InterleaveRuns(most, [k \in DOMAIN tagged |-> <<places[k], tagged[k][2]>>])
  IN Then(FoldLeft(Create, acc, tagged), LAMBDA x : [runs |-> [k \in DOMAIN order |-> order[k][1]]] @@ x)

\* SimCfg._create_deploy_objects. acc is [jobs, seeds] over all configurations.
SimDeploy(C0, acc, args) ==
  Then(CreateBuildAndRunList(C0, args), LAMBDA C1 :
  LET names == BuildModesOf(C1, C1.run_list)
  IN Then(FoldLeft(LAMBDA a, n : AddBuild(C1, a, IndexOf(n, C1.build_modes)),
                   [jobs |-> acc.jobs, builds |-> <<>>, map |-> <<>>], names), LAMBDA a :
     LET C2 == [C1 EXCEPT !.tests = [t \in DOMAIN @ |->
                  IF t \in ToSet(C1.run_list)
                  THEN [@[t] EXCEPT !.build_mode = a.jobs[a.map[@]].name] ELSE @[t]]]
         none == [jobs |-> a.jobs, seeds |-> acc.seeds, runs |-> <<>>]
     IN Then(IF args.build_only THEN none
             ELSE ExpandRunList(C2, [jobs |-> a.jobs, seeds |-> acc.seeds], a.map, args), LAMBDA x :
        LET runs == IF C2.gui /\ Len(x.runs) > 1 THEN <<x.runs[1]>> ELSE x.runs
            builds == IF args.run_only THEN <<>> ELSE a.builds
            n == Len(x.jobs)
        IN IF args.build_only \/ ~C2.cov \/ runs = <<>>
           THEN [C |-> [C2 EXCEPT !.deploy = builds \o (IF args.build_only THEN <<>> ELSE runs)],
                 jobs |-> x.jobs, seeds |-> x.seeds]
           ELSE Then(CovMergeJob(C2, ToSet(runs), args), LAMBDA merge :
                Then(CovReportJob(C2, n + 1), LAMBDA report :
                  [C |-> [C2 EXCEPT !.deploy = builds \o runs \o <<n + 1, n + 2>>, !.cov_report = n + 2],
                   jobs |-> x.jobs \o <<merge, report>>, seeds |-> x.seeds])))))

\* OneShotCfg._create_deploy_objects: every build mode is built.
OneShotDeploy(C, acc) ==
  LET Deploy(new) == IF \E b \in DOMAIN new : Bad(new[b]) THEN Exit
                     ELSE [C |-> [C EXCEPT !.deploy = [b \in DOMAIN new |-> Len(acc.jobs) + b]],
                           jobs |-> acc.jobs \o new, seeds |-> acc.seeds]
  IN Deploy([b \in DOMAIN C.build_modes |-> BuildJob(C, C.build_modes[b])])

\* create_deploy_objects, and the check of deploy_objects that there is a job
CreateDeploy(top, args) ==
  Then(PruneSelected(top, args), LAMBDA pruned :
  LET Step(acc, C) ==
        Then(acc, LAMBDA a :
        Then(IF C.flow = "sim" THEN SimDeploy(C, a, args) ELSE OneShotDeploy(C, a), LAMBDA r :
          [cfgs |-> Append(a.cfgs, r.C), jobs |-> r.jobs, seeds |-> r.seeds]))
  IN Then(FoldLeft(Step, [cfgs |-> <<>>, jobs |-> <<>>, seeds |-> args.seeds], pruned.cfgs), LAMBDA all :
       IF \A k \in DOMAIN all.cfgs : all.cfgs[k].deploy = <<>> THEN Exit
       ELSE [cfgs |-> all.cfgs, jobs |-> all.jobs, primary |-> top.primary, flow |-> top.flow]))

-----------------------------------------------------------------------------
(***************************************************************************)
(* The launchers of dvsim, Launcher.py, LocalLauncher.py and               *)
(* LsfLauncher.py, with the hooks of Deploy.py they call.                  *)
(*                                                                         *)
(* S is [L, P, stale, raised]: L[j] is the launcher of job j, P[j] what    *)
(* there is of job j outside of dvsim (its process, output directory, log, *)
(* coverage data, and the output file of the LSF job), stale the build     *)
(* jobs below whose coverage directory an earlier invocation left data,    *)
(* raised an error the scheduler does not handle. jobs is the sequence of  *)
(* the jobs created, C a configuration, args the command line.             *)
(***************************************************************************)
CONSTANT MaxPollRetries

\* Launcher.__init__ and those of its subclasses
NewLauncher(index) ==
  [index |-> index, process |-> FALSE, job_id |-> FALSE, status |-> None, exit_code |-> None,
   fd |-> FALSE, retries |-> 0, msg |-> None, links |-> {}]

NewProc(odir) ==
  [state |-> "none", exit |-> 0, log |-> None, moved |-> FALSE, out |-> "none", stderr |-> FALSE,
   odir |-> odir, cov |-> FALSE, report |-> TRUE]

\* The jobs of an LSF job array have one job_name: configuration, target, build mode.
JobArray(jobs, j) ==
  {k \in DOMAIN jobs : /\ jobs[k].cfg = jobs[j].cfg /\ jobs[k].target = jobs[j].target
                       /\ jobs[k].build_mode = jobs[j].build_mode}
IndexInArray(jobs, j) == Cardinality({k \in JobArray(jobs, j) : k <= j})

Launchers(jobs) == [j \in DOMAIN jobs |-> NewLauncher(IndexInArray(jobs, j))]

-----------------------------------------------------------------------------
\* deploy.pre_launch and _make_odir: a build deletes the old coverage data, a run
\* moves an output directory aside that is already there.
PreLaunch(S, jobs, j) ==
  LET renewed == IF jobs[j].target # "run" THEN S.P[j]
                 ELSE [S.P[j] EXCEPT !.log = None, !.moved = S.P[j].state = "running"]
  IN [S EXCEPT !.stale = IF jobs[j].target = "build" THEN @ \ {j} ELSE @,
               !.P[j] = [renewed EXCEPT !.odir = TRUE]]

LinkOdir(l, status) ==
  [l EXCEPT !.links = (IF status = "D" THEN @ ELSE @ \ {"D"}) \cup {status}]

\* Seeded fault: a non-zero exit code alone is not a failure.
CheckStatusLog(job, exit_code, log, args) ==
  IF args.dry_run THEN "P"
  ELSE IF log = None THEN "F"
  ELSE IF "fail" \in job.patterns \cap log THEN "F"
  ELSE IF exit_code = 0 /\ "pass" \in job.patterns \ log THEN "F"
  ELSE "P"

\* _check_status: log is the set of the patterns found in it, None if there is none.
CheckStatus(job, exit_code, log, args) ==
  IF args.dry_run THEN "P"
  ELSE IF log = None THEN "F"
  ELSE IF "fail" \in job.patterns \cap log THEN "F"
  ELSE IF exit_code # 0 THEN "F"
  ELSE IF "pass" \in job.patterns \ log THEN "F"
  ELSE "P"

\* Seeded fault: only a run with an error code loses its coverage data.
DeployPostFinishFailed(S, jobs, j, status, args) ==
  CASE jobs[j].target = "run" /\ status = "F" /\ S.P[j].exit # 0 -> [S EXCEPT !.P[j].cov = FALSE]
    [] jobs[j].target = "cov_report" /\ status = "P" /\ ~args.dry_run ->
         IF S.P[j].report THEN [S EXCEPT !.P[j].log = None] ELSE [S EXCEPT !.raised = "TypeError"]
    [] OTHER -> S

\* deploy.post_finish: RunTest deletes the coverage data of a run that did not pass;
\* CovReport reads the report, and adding to fail_msg raises when it cannot.
DeployPostFinish(S, jobs, j, status, args) ==
  CASE jobs[j].target = "run" /\ status # "P" -> [S EXCEPT !.P[j].cov = FALSE]
    [] jobs[j].target = "cov_report" /\ status = "P" /\ ~args.dry_run ->
         IF S.P[j].report THEN [S EXCEPT !.P[j].log = None] ELSE [S EXCEPT !.raised = "TypeError"]
    [] OTHER -> S

\* Launcher._post_finish. msg is an ErrorMessage, None, or "str" for a bare string,
\* which the assertion refuses.
PostFinish(S, jobs, j, status, msg, args) ==
  LET linked == IF status = "K" THEN S ELSE [S EXCEPT !.L[j] = LinkOdir(@, status)]
      done == DeployPostFinish(linked, jobs, j, status, args)
  IN IF done.raised # None \/ status = "P" THEN done
     ELSE IF msg \in {None, "str"} THEN [done EXCEPT !.raised = "AssertionError"]
     ELSE [done EXCEPT !.L[j].msg = msg]

\* The message that goes with a status of CheckStatus
MessageOf(exit_code, log) ==
  IF log = None THEN "no log" ELSE IF "fail" \in log THEN "pattern"
  ELSE IF exit_code # 0 THEN "exit code" ELSE "pass pattern missing"

-----------------------------------------------------------------------------
\* LocalLauncher._do_launch. When Popen fails, the finally clause asserts.
LocalLaunch(S, j, starts) ==
  IF ~starts THEN [S EXCEPT !.raised = "AssertionError"]
  ELSE [S EXCEPT !.L[j] = LinkOdir([@ EXCEPT !.process = TRUE], "D"),
                 !.P[j].state = "running", !.P[j].log = {}]

\* LocalLauncher._post_finish
LocalPostFinish(S, jobs, j, status, msg, args) ==
  LET done == PostFinish(S, jobs, j, status, msg, args)
  IN IF done.raised # None THEN done ELSE [done EXCEPT !.L[j].process = FALSE]

\* LocalLauncher.poll: <<status, S>>
LocalPoll(S, jobs, j, args) ==
  LET p == S.P[j]
      status == CheckStatus(jobs[j], p.exit, p.log, args)
  IN IF ~S.L[j].process THEN <<"D", [S EXCEPT !.raised = "AssertionError"]>>
     ELSE IF p.state = "running" THEN <<"D", S>>
     ELSE <<status, LocalPostFinish([S EXCEPT !.L[j].exit_code = p.exit], jobs, j, status,
                                    MessageOf(p.exit, p.log), args)>>

\* LocalLauncher.kill
LocalKill(S, jobs, j, args) ==
  IF ~S.L[j].process THEN [S EXCEPT !.raised = "AssertionError"]
  ELSE LocalPostFinish([S EXCEPT !.P[j].state = "ended"], jobs, j, "K", "Job killed!", args)

-----------------------------------------------------------------------------
\* LsfLauncher._post_finish
LsfPostFinish(S, jobs, j, status, msg, args) ==
  PostFinish([S EXCEPT !.L[j].fd = FALSE, !.L[j].status = status,
                       !.L[j].exit_code = IF @ # None THEN @ ELSE IF status = "P" THEN 0 ELSE 1],
             jobs, j, status, msg, args)

\* _post_finish_job_array
LsfPostFinishArray(S, jobs, j, args) ==
  FoldSet(LAMBDA k, s : LsfPostFinish(s, jobs, k, "F", "bsub", args), S, JobArray(jobs, j))

\* LsfLauncher._do_launch and make_job_script: nothing happens but for the job with
\* the last index. Returns <<failed, S>>, failed where a LauncherError is raised.
\* answer is what writing the script and bsub come to.
LsfLaunch(S, jobs, j, answer, args) ==
  LET array == JobArray(jobs, j)
      sent == [S EXCEPT
                 !.L = [k \in DOMAIN @ |-> IF k \in array THEN LinkOdir([@[k] EXCEPT !.job_id = TRUE], "D")
                                           ELSE @[k]],
                 !.P = [k \in DOMAIN @ |-> IF k \in array THEN [@[k] EXCEPT !.state = "pending"] ELSE @[k]]]
  IN IF S.L[j].index < Cardinality(array) THEN <<FALSE, S>>
     ELSE CASE answer = "sent" -> <<FALSE, sent>>
            [] answer = "refused" -> <<TRUE, LsfPostFinishArray(S, jobs, j, args)>>
            [] answer = "no job id" ->
                 <<FALSE, [LsfPostFinishArray(S, jobs, j, args) EXCEPT !.raised = "UnboundLocalError"]>>
            [] OTHER -> <<FALSE, [S EXCEPT !.raised = "TimeoutExpired"]>>

\* _get_job_exit_code: None while the output does not tell. Where it begins with
\* error messages, the line "Successfully completed" is not looked for.
JobExitCode(p) == IF p.out = "complete" /\ (p.exit # 0 \/ ~p.stderr) THEN p.exit ELSE None

\* LsfLauncher.poll: <<status, S>>. opens is whether the output can be opened.
LsfPoll(S, jobs, j, opens, args) ==
  LET l == S.L[j]
      p == S.P[j]
      opened == [S EXCEPT !.L[j].fd = TRUE]
      exit == JobExitCode(p)
      status == CheckStatus(jobs[j], exit, p.log, args)
      tries == l.retries + 1
  IN IF l.status # None THEN <<l.status, S>>
     ELSE IF ~l.fd /\ (~l.job_id \/ p.out = "none") THEN <<"D", S>>
     ELSE IF ~l.fd /\ ~opens THEN <<"F", LsfPostFinish(S, jobs, j, "F", "no output", args)>>
     ELSE IF exit # None
          THEN <<status, LsfPostFinish([opened EXCEPT !.L[j].exit_code = exit], jobs, j, status,
                                       IF p.stderr THEN "stderr" ELSE MessageOf(exit, p.log), args)>>
     ELSE IF tries = MaxPollRetries
          THEN <<"F", LsfPostFinish([opened EXCEPT !.L[j].retries = tries], jobs, j, "F", "str", args)>>
     ELSE <<"D", [opened EXCEPT !.L[j].retries = tries]>>

\* LsfLauncher.kill
LsfKill(S, jobs, j, args) ==
  LsfPostFinish(IF S.L[j].job_id THEN [S EXCEPT !.P[j].state = "ended"] ELSE S,
                jobs, j, "K", "str", args)

-----------------------------------------------------------------------------
(***************************************************************************)
(* What the jobs do by themselves. An LSF job whose output directory is    *)
(* not there cannot open its log: the shell says so, and it ends at once.  *)
(***************************************************************************)
ProcStarts(p) ==
  IF p.odir THEN [p EXCEPT !.state = "running", !.log = {}]
  ELSE [p EXCEPT !.state = "ended", !.exit = 1, !.stderr = TRUE]

ProcEnds(p, e, cov, stderr) ==
  [p EXCEPT !.state = "ended", !.exit = e.exit, !.cov = cov, !.report = e.report, !.stderr = stderr,
            !.log = IF p.moved THEN @ ELSE e.log]
=============================================================================
