------------------------------- MODULE DvRun --------------------------------
(***************************************************************************)
(* An invocation of dvsim: main of dvsim.py, from the command line to the  *)
(* exit status, with the jobs running beside it.                           *)
(*                                                                         *)
(* Which queued job the scheduler takes next, and how many run at once, is *)
(* the subject of module Scheduler; here it dispatches any first job of a  *)
(* queue and polls any running job, which includes what it really does.    *)
(***************************************************************************)
EXTENDS DvDeploy

CONSTANTS
  CmdLines,      \* the command lines, records with the fields of args
  Hashes,        \* the orders in which a Python set may list its strings
  Kinds,         \* the launchers to use: "local", "lsf"
  Ends,          \* how a job of a target may end, by what args.ends says of the tools:
                 \* [exit, log, report, stderr]
  BsubAnswers,   \* what bsub may answer
  Opens,         \* whether the output file of an LSF job can be opened
  LintReports,   \* the possible reports of a lint job
  Interrupts,    \* whether an interrupt may arrive
  ServerAnswers, \* which commands to the results server succeed
  PastResults,   \* what the server may hold: [latest, past]
  LinkCount, HistoryLimit     \* 7 and 14 in _publish_results

VARIABLES
  phase,         \* start, loaded, run, results, exit (normal end), stopped (error)
  args, hash, kind,
  top,           \* the configuration object, with its configurations
  jobs,          \* the jobs created, and
  status,        \* item_to_status of the ones deployed, None while scheduled
  queue,         \* _queued of each target
  S,             \* launchers and processes
  results,       \* what gen_results collected, per configuration
  server,        \* the results server
  exit_status

vars == <<phase, args, hash, kind, top, jobs, status, queue, S, results, server, exit_status>>

Targets == <<"build", "run", "cov_merge", "cov_report">>

Init ==
  /\ phase = "start" /\ args \in CmdLines /\ hash \in Hashes /\ kind \in Kinds
  /\ top = None /\ jobs = <<>> /\ status = <<>> /\ queue = [t \in ToSet(Targets) |-> <<>>]
  /\ S = [L |-> <<>>, P |-> <<>>, stale |-> {}, raised |-> None]
  /\ results = <<>> /\ server \in PastResults /\ exit_status = None

Stop == phase' = "stopped" /\ exit_status' = 1

\* make_cfg
LoadCfgs ==
  /\ phase = "start"
  /\ \E new \in {MakeCfg(args.cfg, args, hash)} :
       IF Bad(new) THEN Stop /\ UNCHANGED top
       ELSE phase' = "loaded" /\ top' = new /\ UNCHANGED exit_status
  /\ UNCHANGED <<args, hash, kind, jobs, status, queue, S, results, server>>

Deployed(cfgs) == FlattenSeq([c \in DOMAIN cfgs |-> cfgs[c].deploy])

\* What is in the queues once the items become ready: _enqueue_successors
Enqueue(q, items, js) ==
  [t \in DOMAIN q |-> q[t] \o SelectSeq(items, LAMBDA j : js[j].target = t)]

FirstTarget(items, js) ==
  Targets[Min({k \in DOMAIN Targets : \E j \in ToSet(items) : js[j].target = Targets[k]})]

\* purge, create_deploy_objects, and deploy_objects up to the scheduler's loop. An
\* earlier invocation left its directories, unless they are purged. The jobs of the
\* first target are queued.
CreateJobs ==
  /\ phase = "loaded"
  /\ \E new \in {CreateDeploy(top, args)} :
       LET items == Deployed(new.cfgs)
           first == SelectSeq(items, LAMBDA j : new.jobs[j].target = FirstTarget(items, new.jobs))
           odir == ~args.purge
       IN IF Bad(new) THEN Stop /\ UNCHANGED <<top, jobs, status, queue, S>>
          ELSE
            /\ phase' = "run" /\ top' = new /\ jobs' = new.jobs
            /\ status' = [j \in ToSet(items) |-> IF j \in ToSet(first) THEN "Q" ELSE None]
            /\ queue' = Enqueue(queue, first, new.jobs)
            /\ S' = [S EXCEPT !.L = Launchers(new.jobs),
                              !.P = [j \in DOMAIN new.jobs |-> NewProc(odir)],
                              !.stale = {j \in DOMAIN new.jobs : odir /\ new.jobs[j].target = "build"}]
            /\ UNCHANGED exit_status
  /\ UNCHANGED <<args, hash, kind, results, server>>

-----------------------------------------------------------------------------
\* _get_successors and _ok_to_enqueue, with the statuses st
Ended == {"P", "F", "K"}
Successors(j, st) ==
  SelectSeq(Deployed(top.cfgs), LAMBDA k :
    /\ j \in jobs[k].deps /\ st[k] = None
    /\ \A d \in jobs[k].deps \cap DOMAIN st : st[d] \in Ended)

\* The statuses and queues once job j has ended
After(j, st, q) ==
  LET next == Successors(j, st)
  IN /\ status' = [k \in DOMAIN st |-> IF k \in ToSet(next) THEN "Q" ELSE st[k]]
     /\ queue' = Enqueue(q, next, jobs)

\* _ok_to_run
OkToRun(j) ==
  LET deps == jobs[j].deps \cap DOMAIN status
  IN IF jobs[j].needs_all THEN \A d \in deps : status[d] = "P" ELSE \E d \in deps : status[d] = "P"

Kill(s, j) == IF kind = "lsf" THEN LsfKill(s, jobs, j, args) ELSE LocalKill(s, jobs, j, args)

\* An error nothing handles ends the invocation.
Settle(s, ph) == IF s.raised # None THEN Stop ELSE phase' = ph /\ UNCHANGED exit_status

\* _dispatch, for the first job in a queue that cannot run
Cancel(t) ==
  /\ phase = "run" /\ queue[t] # <<>> /\ ~OkToRun(Head(queue[t]))
  /\ LET j == Head(queue[t]) IN After(j, [status EXCEPT ![j] = "K"], [queue EXCEPT ![t] = Tail(@)])
  /\ UNCHANGED <<phase, args, hash, kind, top, jobs, S, results, server, exit_status>>

\* _dispatch and launch of the first job in a queue, by itself
LaunchLocal(t) ==
  /\ phase = "run" /\ kind = "local" /\ queue[t] # <<>> /\ OkToRun(Head(queue[t]))
  /\ LET j == Head(queue[t])
         s == LocalLaunch(PreLaunch(S, jobs, j), j, args.starts)
     IN /\ S' = s /\ Settle(s, "run")
        /\ status' = [status EXCEPT ![j] = "D"] /\ queue' = [queue EXCEPT ![t] = Tail(@)]
  /\ UNCHANGED <<args, hash, kind, top, jobs, results, server>>

\* ... and through LSF. After a LauncherError the job is killed.
LaunchLsf(t) ==
  /\ phase = "run" /\ kind = "lsf" /\ queue[t] # <<>> /\ OkToRun(Head(queue[t]))
  /\ \E answer \in BsubAnswers :
       LET j == Head(queue[t])
           r == LsfLaunch(PreLaunch(S, jobs, j), jobs, j, answer, args)
           s == IF r[1] THEN Kill(r[2], j) ELSE r[2]
       IN /\ S' = s /\ Settle(s, "run")
          /\ status' = [status EXCEPT ![j] = "D"] /\ queue' = [queue EXCEPT ![t] = Tail(@)]
  /\ UNCHANGED <<args, hash, kind, top, jobs, results, server>>

\* _poll of one running job
PollJob(j) ==
  /\ phase = "run" /\ status[j] = "D"
  /\ \E r \in IF kind = "lsf" THEN {LsfPoll(S, jobs, j, opens, args) : opens \in Opens}
               ELSE {LocalPoll(S, jobs, j, args)} :
        /\ S' = r[2] /\ Settle(r[2], "run")
        /\ IF r[1] = "D" \/ r[2].raised # None THEN UNCHANGED <<status, queue>>
           ELSE After(j, [status EXCEPT ![j] = r[1]], queue)
  /\ UNCHANGED <<args, hash, kind, top, jobs, results, server>>

\* _kill on an interrupt: what is not running is cancelled, what is running is killed
\* one job after the other.
Interrupt ==
  /\ phase = "run" /\ Interrupts
  /\ LET running == SelectSeq(Deployed(top.cfgs), LAMBDA j : status[j] = "D")
         s == FoldLeft(LAMBDA x, j : IF x.raised # None THEN x ELSE Kill(x, j), S, running)
     IN S' = s /\ Settle(s, "run")
  /\ status' = [j \in DOMAIN status |-> IF status[j] \in Ended THEN status[j] ELSE "K"]
  /\ queue' = [t \in DOMAIN queue |-> <<>>]
  /\ UNCHANGED <<args, hash, kind, top, jobs, results, server>>

-----------------------------------------------------------------------------
\* The farm starts a job that was sent; a job ends; its output file is written.
JobStarts(j) ==
  /\ phase = "run" /\ S.P[j].state = "pending" /\ S' = [S EXCEPT !.P[j] = ProcStarts(@)]
  /\ UNCHANGED <<phase, args, hash, kind, top, jobs, status, queue, results, server, exit_status>>

JobEnds(j) ==
  /\ phase = "run" /\ S.P[j].state = "running"
  /\ \E e \in Ends[args.ends][jobs[j].target] :
       S' = [S EXCEPT !.P[j] = ProcEnds(@, e, jobs[j].target = "run" /\ args.cov, kind = "lsf" /\ e.stderr)]
  /\ UNCHANGED <<phase, args, hash, kind, top, jobs, status, queue, results, server, exit_status>>

OutputGrows(j) ==
  /\ phase = "run" /\ kind = "lsf" /\ S.P[j].state = "ended" /\ S.P[j].out # "complete"
  /\ S' = [S EXCEPT !.P[j].out = IF @ = "none" THEN "partial" ELSE "complete"]
  /\ UNCHANGED <<phase, args, hash, kind, top, jobs, status, queue, results, server, exit_status>>

-----------------------------------------------------------------------------
\* gen_results, once the scheduler has returned, and the exit status
GenResults ==
  /\ phase = "run" /\ \A j \in DOMAIN status : status[j] \in Ended
  /\ \E reports \in LintReports :
       LET msg == [j \in DOMAIN status |-> S.L[j].msg]
           Gen(C) == IF C.flow = "sim" THEN GenSimResults(C, jobs, C.deploy, status, msg, C.cov_report)
                     ELSE GenLintResults(C, reports)
       IN /\ results' = [c \in DOMAIN top.cfgs |-> Gen(top.cfgs[c])]
          /\ exit_status' = IF \E c \in DOMAIN results' : results'[c].errors_seen THEN 1 ELSE 0
  /\ phase' = IF args.publish THEN "results" ELSE "exit"
  /\ UNCHANGED <<args, hash, kind, top, jobs, status, queue, S, server>>

\* publish_results, for the pages of one configuration
Publish ==
  /\ phase = "results" /\ phase' = "exit"
  /\ \E answers \in ServerAnswers :
       server' = PublishResults(server, results, LinkCount, HistoryLimit, answers)
  /\ UNCHANGED <<args, hash, kind, top, jobs, status, queue, S, results, exit_status>>

Next ==
  \/ LoadCfgs \/ CreateJobs \/ Interrupt \/ GenResults \/ Publish
  \/ \E t \in DOMAIN queue : Cancel(t) \/ LaunchLocal(t) \/ LaunchLsf(t)
  \/ \E j \in DOMAIN status : PollJob(j) \/ JobStarts(j) \/ JobEnds(j) \/ OutputGrows(j)

Spec == Init /\ [][Next]_vars

-----------------------------------------------------------------------------
(***************************************************************************)
(* What a run and a build should be given, from the dicts as they are in   *)
(* the configuration: by reachability, not by merging.                     *)
(***************************************************************************)
Raw(C, key) == IF Has(C.d, key) THEN ToSet(Get(C.d, key).v) ELSE {}
Attr(m, a, default) == IF a \in DOMAIN m THEN m[a] ELSE default
Named(dicts, names) == {m \in dicts : m.name \in names}

Reach(dicts, names) ==
  LET Step(ns, k) == ns \cup UNION {ToSet(Attr(m, "en_modes", <<>>)) : m \in Named(dicts, ns)}
  IN FoldLeft(Step, names, [k \in 1..Cardinality(dicts) |-> k])

TextsIn(strs) == UNION {{s[k].t : k \in {i \in DOMAIN s : ~IsWild(s[i])}} : s \in ToSet(strs)}
OptTexts(dicts, a) == UNION {TextsIn(Attr(m, a, <<>>)) : m \in dicts}

TestModes(C, t) ==
  LET own == Named(Raw(C, "tests"), {t})
  IN own \cup Named(Raw(C, "run_modes"),
                    Reach(Raw(C, "run_modes"), UNION {ToSet(Attr(m, "en_modes", <<>>)) : m \in own}))

BuildModeName(C, t) ==
  LET given == {m.build_mode : m \in {x \in TestModes(C, t) : "build_mode" \in DOMAIN x}}
  IN IF given = {} THEN C.build_mode ELSE CHOOSE b \in given : TRUE

BuildModeDicts(C, names) == Named(Raw(C, "build_modes"), Reach(Raw(C, "build_modes"), names))

\* The regressions asked for that have some of the tests
Chosen(C, tests) ==
  {r \in Raw(C, "regressions") : r.name \in ToSet(args.items)
     /\ ("tests" \in DOMAIN r => ToSet(r.tests) \cap tests # {})}

SimModesOf(C, regs) == BuildModeDicts(C, UNION {ToSet(Attr(r, "en_sim_modes", <<>>)) : r \in regs})
EnabledBuilds(C) == BuildModeDicts(C, ToSet(EnBuildModes(args, C.flow)))

RunTexts(C, t) ==
  LET regs == Chosen(C, {t})
      rms == UNION {ToSet(Attr(r, "en_run_modes", <<>>)) : r \in regs} \cup ToSet(args.run_modes)
  IN TextsIn(Get(C.d, "run_opts").v)
     \cup OptTexts(TestModes(C, t) \cup BuildModeDicts(C, {BuildModeName(C, t)}) \cup regs
                   \cup SimModesOf(C, regs) \cup EnabledBuilds(C)
                   \cup Named(Raw(C, "run_modes"), Reach(Raw(C, "run_modes"), rms)), "run_opts")

BuildTexts(C, b) ==
  LET regs == Chosen(C, {t.name : t \in {x \in Raw(C, "tests") : BuildModeName(C, x.name) = b}})
  IN TextsIn(Get(C.d, "build_opts").v)
     \cup OptTexts(BuildModeDicts(C, {b}) \cup EnabledBuilds(C) \cup regs \cup SimModesOf(C, regs), "build_opts")

AllTexts(C, a) ==
  TextsIn(Get(C.d, a).v) \cup OptTexts(Raw(C, "tests") \cup Raw(C, "build_modes") \cup Raw(C, "run_modes")
                                       \cup Raw(C, "regressions"), a)

Given(C, j, a) ==
  {jobs[j].cmd[k].t : k \in {i \in DOMAIN jobs[j].cmd : ~IsWild(jobs[j].cmd[i])}} \cap AllTexts(C, a)

SimCfgs == {c \in DOMAIN top.cfgs : top.cfgs[c].flow = "sim"}
RunsOf(c) == {j \in ToSet(top.cfgs[c].deploy) : jobs[j].target = "run"}
Running == phase \in {"run", "results", "exit"}

\* Every run is started with the options of its test, of the modes the test, its build
\* mode, the regression and the command line enable, directly or through other modes,
\* and with no others: the merging in place of Modes.py loses none and leaks none. The
\* build it depends on has the options of the run's own build mode, and is deployed unless
\* builds are skipped. It may be the build of another mode, which is_equivalent_job found
\* to be alike: then an option with the name of the run's build mode in it is there with
\* the name of that other mode instead. The jobs are as they will be run once the scheduler
\* starts, before it dispatches one.
OptionsReachJobs ==
  phase = "run" /\ (\A j \in DOMAIN status : status[j] \in {None, "Q"}) => \A c \in SimCfgs : \A j \in RunsOf(c) :
    /\ Given(top.cfgs[c], j, "run_opts") = RunTexts(top.cfgs[c], jobs[j].name)
    /\ \E b \in jobs[j].deps :
         /\ LET mode == BuildModeName(top.cfgs[c], jobs[j].name)
            IN Given(top.cfgs[c], b, "build_opts")
                 = {IF x = mode THEN jobs[b].name ELSE x : x \in BuildTexts(top.cfgs[c], mode)}
         /\ args.run_only \/ b \in DOMAIN status

\* A job passes only if what it needed passed, its process ended with 0, it left a log that
\* shows the pass pattern and no fail pattern where it has such patterns (CovReport deletes
\* its log once it has read the report), and it is linked as passed.
StatusEarned ==
  Running => \A j \in DOMAIN status : status[j] = "P" =>
    /\ \A d \in jobs[j].deps \cap DOMAIN status : jobs[j].needs_all => status[d] = "P"
    /\ \/ args.dry_run
       \/ /\ S.P[j].exit = 0
          /\ \/ S.P[j].log = None /\ jobs[j].target = "cov_report"
             \/ /\ S.P[j].log # None
                /\ "pass" \in jobs[j].patterns => "pass" \in S.P[j].log
                /\ "fail" \in jobs[j].patterns => "fail" \notin S.P[j].log
    /\ S.L[j].links = {"P"}

\* When coverage is merged, the coverage directories hold the data of passing runs of
\* this invocation only: failed and killed runs left none, and neither did earlier
\* invocations. Builds that run delete what those left; with --run-only none runs, and
\* earlier coverage is merged, too, although only --cov-merge-previous asks for that
\* (dvsim.py:526): the property does not speak of that case.
MergeSeesPassing ==
  Running => \A c \in SimCfgs : \A m \in ToSet(top.cfgs[c].deploy) :
    jobs[m].target = "cov_merge" /\ status[m] \in {"D", "P", "F"} =>
      /\ \A j \in RunsOf(c) : S.P[j].cov => status[j] = "P"
      /\ ~args.run_only => S.stale \cap UNION {jobs[j].deps : j \in RunsOf(c)} = {}
      /\ jobs[m].previous => args.cov_merge_previous

\* The totals count every run once, however many testpoints list its test, the passing
\* ones are those that passed, and every failed job is in exactly one bucket.
ResultsAccount ==
  phase \in {"results", "exit"} => \A c \in SimCfgs :
    LET r == results[c]
        failed == {j \in ToSet(top.cfgs[c].deploy) : status[j] = "F"}
    IN /\ r.summary # None =>
            r.summary = [passing |-> Cardinality({j \in RunsOf(c) : status[j] = "P"}),
                         total |-> Cardinality(RunsOf(c))]
       /\ \A j \in failed : Cardinality({s \in DOMAIN r.buckets : j \in ToSet(r.buckets[s])}) = 1
       /\ r.errors_seen <=> failed # {}

\* A job array is sent to LSF only when all of its jobs have been dispatched
\* (LsfLauncher.py:157).
BsubAfterAll ==
  Running => \A j \in DOMAIN status : S.L[j].job_id => status[j] \notin {None, "Q"}
=============================================================================
