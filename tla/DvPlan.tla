------------------------------- MODULE DvPlan -------------------------------
(***************************************************************************)
(* Testplans and results of dvsim: Testplan.py, SimResults.py, the result  *)
(* generation of SimCfg.py and LintCfg.py and the publishing of FlowCfg.py.*)
(*                                                                         *)
(* Tables and pages are left out; what is kept is every number, list and   *)
(* verdict they are made from.                                             *)
(***************************************************************************)
EXTENDS DvCfg

CONSTANT Plans     \* the testplan files: name |-> raw dict

Milestones == <<"N.A.", "V1", "V2", "V3">>

\* Result
Result(name, passing, total) == [name |-> name, passing |-> passing, total |-> total]

\* Element, Covergroup and Testpoint: the fields must all be there and no other.
TestpointFields == {"name", "desc", "milestone", "tests"}
Testpoint(dict) ==
  IF DOMAIN dict # TestpointFields THEN Exit
  ELSE IF dict.name = "" \/ dict.milestone \notin ToSet(Milestones) THEN Exit
  ELSE [name |-> dict.name, milestone |-> dict.milestone, tests |-> dict.tests, results |-> <<>>]

Covergroup(dict) ==
  IF DOMAIN dict # {"name", "desc", "is_cg"} \/ dict.name = "" \/ ~dict.is_cg THEN Exit ELSE dict

\* _create_testplan_elements
Elements(items) ==
  IF Exit \in Range(items) THEN Exit
  ELSE IF \E i, j \in DOMAIN items : i # j /\ items[i].name = items[j].name THEN Exit
  ELSE items

\* _merge_dicts of two testplans: lists are joined, for anything else the first
\* plan's value stays.
MergeDicts(a, b) ==
  LET lists == {"testpoints", "covergroups", "import_testplans"}
      Both(x, y) == IF DOMAIN x = {"vals"} THEN [vals |-> x.vals \o y.vals] ELSE x
      Sub(k) == IF k \notin DOMAIN b.subst THEN a.subst[k]
                ELSE IF k \notin DOMAIN a.subst THEN b.subst[k] ELSE Both(a.subst[k], b.subst[k])
  IN [k \in DOMAIN a |->
        IF k \in lists THEN a[k] \o b[k]
        ELSE IF k = "subst" THEN [x \in DOMAIN a.subst \cup DOMAIN b.subst |-> Sub(x)]
        ELSE a[k]]

\* _parse_testplan, the loop over imported_testplans
RECURSIVE ImportPlans(_, _, _)
ImportPlans(obj, work, parsed) ==
  IF work = <<>> THEN obj
  ELSE LET next == Head(work)
       IN IF next \in parsed \/ next \notin DOMAIN Plans THEN Exit
          ELSE ImportPlans(MergeDicts(obj, Plans[next]),
                           Tail(work) \o Plans[next].import_testplans, parsed \cup {next})

\* do_substitutions of one test: every value of every wildcard in it. A wildcard
\* with no value becomes the empty string.
SubstTest(test, subst) ==
  LET names == FoldLeft(LAMBDA s, tok : IF IsWild(tok) /\ tok.w \notin ToSet(s)
                                        THEN Append(s, tok.w) ELSE s, <<>>, test)
      values(n) == IF n \in DOMAIN subst THEN subst[n].vals ELSE <<"">>
      Replace(s, n, v) == [k \in DOMAIN s |-> IF s[k] = Wild(n) THEN Text(v) ELSE s[k]]
      Each(done, n) == FlattenSeq([i \in DOMAIN done |->
                                     [j \in DOMAIN values(n) |-> Replace(done[i], n, values(n)[j])]])
      Join(s) == FoldLeft(LAMBDA str, tok : str \o tok.t, "", s)
      all == FoldLeft(Each, <<test>>, names)
  IN [i \in DOMAIN all |-> Join(all[i])]

DoSubstitutions(tp, subst) ==
  [tp EXCEPT !.tests = FlattenSeq([k \in DOMAIN @ |-> SubstTest(@[k], subst)])]

\* _sort: stable, by milestone
SortPoints(tps) ==
  FlattenSeq([m \in DOMAIN Milestones |-> SelectSeq(tps, LAMBDA tp : tp.milestone = Milestones[m])])

\* Testplan.__init__ and _parse_testplan. file is None for the dummy testplan.
Testplan(file, name) ==
  IF file = None THEN [name |-> name, testpoints |-> <<>>, covergroups |-> <<>>]
  ELSE IF file \notin DOMAIN Plans THEN Exit
  ELSE Then(ImportPlans(Plans[file], Plans[file].import_testplans, {}), LAMBDA obj :
         Then(Elements([k \in DOMAIN obj.testpoints |-> Testpoint(obj.testpoints[k])]), LAMBDA tps :
           Then(Elements([k \in DOMAIN obj.covergroups |-> Covergroup(obj.covergroups[k])]), LAMBDA cgs :
             IF (tps = <<>> /\ cgs = <<>>) \/ obj.name = "" THEN Exit
             ELSE [name |-> obj.name, covergroups |-> cgs,
                   testpoints |-> SortPoints([k \in DOMAIN tps |->
                                                DoSubstitutions(tps[k], obj.subst)])])))

\* get_milestone_regressions
MilestoneRegressions(plan, hash) ==
  LET tests(m) == UNION {ToSet(tp.tests) : tp \in {x \in ToSet(plan.testpoints) : x.milestone = m}} \ {""}
      targeted == SelectSeq(Tail(Milestones),
                            LAMBDA m : \E tp \in ToSet(plan.testpoints) : tp.milestone = m)
  IN [k \in DOMAIN targeted |->
        [name |-> targeted[k], tests |-> SelectSeq(hash, LAMBDA t : t \in tests(targeted[k]))]]

-----------------------------------------------------------------------------
\* Testpoint.map_test_results
MapPoint(tp, table) ==
  LET found == SelectSeq(table, LAMBDA r : r.name \in ToSet(tp.tests))
      missing == SelectSeq(tp.tests, LAMBDA t : \A k \in DOMAIN table : table[k].name # t)
  IN IF tp.tests = <<>> THEN [tp EXCEPT !.results = <<Result(tp.name, 0, 0)>>]
     ELSE [tp EXCEPT !.results = found \o [k \in DOMAIN missing |-> Result(missing[k], 0, 0)]]

Zeros == [m \in ToSet(Milestones) |-> 0]

\* Seeded fault: a test two testpoints list is counted for both.
ProcessPointTwice(acc, tp) ==
  LET sum(attr) == FoldLeft(LAMBDA s, r : s + r[attr], 0, tp.results)
      counted == {tp.milestone, "N.A."}
  IN [acc EXCEPT
        !.passing = [m \in DOMAIN @ |-> @[m] + IF m \in counted THEN sum("passing") ELSE 0],
        !.total = [m \in DOMAIN @ |-> @[m] + IF m \in counted THEN sum("total") ELSE 0]]

\* map_test_results._process_testpoint: a name is counted where it is met first.
ProcessPoint(acc, tp) ==
  LET new == FoldLeft(LAMBDA s, r : IF r.name \in acc.seen \/ \E k \in DOMAIN s : s[k].name = r.name
                                    THEN s ELSE Append(s, r), <<>>, tp.results)
      sum(attr) == FoldLeft(LAMBDA s, r : s + r[attr], 0, new)
      counted == {tp.milestone, "N.A."}
  IN [seen |-> acc.seen \cup {r.name : r \in ToSet(new)},
      points |-> [acc.points EXCEPT ![tp.milestone] = @ + Len(new)],
      written |-> [acc.written EXCEPT ![tp.milestone] =
                     @ + Len(SelectSeq(new, LAMBDA r : r.total # 0))],
      passing |-> [m \in DOMAIN acc.passing |-> acc.passing[m] + IF m \in counted THEN sum("passing") ELSE 0],
      total |-> [m \in DOMAIN acc.total |-> acc.total[m] + IF m \in counted THEN sum("total") ELSE 0]]

\* map_test_results. unmapped is the pseudo testpoint of what no testpoint lists.
MapTestResults(plan, table) ==
  LET tps == [k \in DOMAIN plan.testpoints |-> MapPoint(plan.testpoints[k], table)]
      listed == UNION {ToSet(tp.tests) : tp \in ToSet(plan.testpoints)}
      unmapped == [name |-> "Unmapped tests", milestone |-> "N.A.", tests |-> <<>>,
                   results |-> SelectSeq(table, LAMBDA r : r.name \notin listed)]
      start == [seen |-> {}, points |-> Zeros, written |-> Zeros, passing |-> Zeros, total |-> Zeros]
      acc == FoldLeft(ProcessPoint, start, Append(tps, unmapped))
  IN [testpoints |-> tps, unmapped |-> unmapped.results,
      progress |-> [m \in {x \in DOMAIN acc.points : acc.points[x] # 0} |->
                      [written |-> acc.written[m], total |-> acc.points[m]]],
      milestones |-> [m \in DOMAIN acc.total |-> [passing |-> acc.passing[m], total |-> acc.total[m]]]]

\* get_test_results_summary: the grand total
Summary(mapped) == mapped.milestones["N.A."]

-----------------------------------------------------------------------------
(***************************************************************************)
(* Results of a run of the jobs. A job here has target and name; result[j]  *)
(* is its status "P", "F" or "K", msg[j] the message its launcher kept.    *)
(***************************************************************************)
\* SimResults._add_run
AddRun(table, job, status) ==
  LET i == IndexOf(job.name, table)
      rows == IF i = 0 THEN Append(table, Result(job.name, 0, 0)) ELSE table
      r == IF i = 0 THEN Len(rows) ELSE i
  IN [rows EXCEPT ![r].total = @ + 1, ![r].passing = @ + IF status = "P" THEN 1 ELSE 0]

\* SimResults: the table of the runs, and the failed jobs by the signature that
\* _bucketize takes from the message.
SimResults(jobs, ids, result, msg) ==
  LET failed == SelectSeq(ids, LAMBDA j : result[j] = "F")
      runs == SelectSeq(ids, LAMBDA j : jobs[j].target = "run")
      signatures == {msg[j] : j \in ToSet(failed)}
  IN [table |-> FoldLeft(LAMBDA t, j : AddRun(t, jobs[j], result[j]), <<>>, runs),
      buckets |-> [s \in signatures |-> SelectSeq(failed, LAMBDA j : msg[j] = s)]]

\* SimCfg._gen_results. summary is None when there is no run to show.
GenSimResults(C, jobs, ids, result, msg, cov_report) ==
  LET res == SimResults(jobs, ids, result, msg)
      mapped == MapTestResults(C.plan, res.table)
  IN [table |-> res.table, buckets |-> res.buckets, errors_seen |-> res.buckets # <<>>,
      summary |-> IF res.table = <<>> THEN None ELSE Summary(mapped),
      coverage |-> IF res.table = <<>> \/ cov_report = None THEN None
                   ELSE IF result[cov_report] = "P" THEN "results" ELSE "--",
      mapped |-> IF res.table = <<>> THEN None ELSE mapped]

\* LintCfg._gen_results: the messages of a build mode's report, None when the
\* report cannot be read
LintMessages(report) == IF report = None THEN {"IOError"} ELSE report

\* LintCfg._gen_results. errors_seen is set anew for every build mode.
GenLintResults(C, reports) ==
  LET modes == C.build_modes
      Step(acc, m) == [messages |-> acc.messages \cup LintMessages(reports[m.name]),
                       errors_seen |-> LintMessages(reports[m.name]) # {}]
  IN FoldLeft(Step, [messages |-> {}, errors_seen |-> FALSE], modes)

-----------------------------------------------------------------------------

\* _publish_results: latest moves to its timestamp, the new page becomes latest.
\* Past results beyond the last to keep are listed for removal, and kept. answers
\* says which commands to the results server succeed.
PublishResults(server, page, links, limit, answers) ==
  LET moves == answers.stat /\ server.latest # None /\ answers.mv
      past == IF moves THEN <<server.latest>> \o server.past ELSE server.past
      shown == IF answers.ls THEN past ELSE <<>>
  IN [latest |-> IF answers.cp THEN page ELSE IF moves THEN None ELSE server.latest,
      past |-> past,
      links |-> SubSeq(shown, 1, IF Len(shown) < links THEN Len(shown) ELSE links),
      to_remove |-> SubSeq(shown, limit + 2, Len(shown))]

=============================================================================
