------------------------------- MODULE DvCfg --------------------------------
(***************************************************************************)
(* How dvsim loads a flow configuration: wildcard substitution (utils.py), *)
(* hjson files and their imports (CfgJson.py), the choice of the flow      *)
(* (CfgFactory.py) and the constructors of FlowCfg, SimCfg and OneShotCfg. *)
(*                                                                         *)
(* A string is a sequence of tokens, each a piece of text or a wildcard. A *)
(* Python dict is a sequence of [key, val] in insertion order. A value is  *)
(* [k, v] with k "str", "int" (bool included), "num" (a hjson decimal) or  *)
(* "list"; the elements of a list are strings, names or raw mode dicts.    *)
(*                                                                         *)
(* The modes, tests and regressions it makes are those of Modes.py.        *)
(*                                                                         *)
(* A mode is a record. Attributes the code treats alike are one attribute: *)
(* build_opts stands for pre_build_cmds, post_build_cmds and build_opts,   *)
(* run_opts for pre_run_cmds, post_run_cmds and run_opts, uvm_test for     *)
(* uvm_test, uvm_test_seq and sw_build_device, en_modes for en_build_modes *)
(* of a build mode and en_run_modes of a run mode. Objects refer to each   *)
(* other by name; a list is a sequence. A list two objects share is marked *)
(* by Alias: the value then is the list of the flow configuration.         *)
(*                                                                         *)
(* An operator returns Exit where the code ends in sys.exit or a raised    *)
(* error, and Endless where it recurses without end.                       *)
(***************************************************************************)
EXTENDS Integers, Sequences, SequencesExt, FiniteSets, FiniteSetsExt, Functions, TLC

CONSTANTS
  None, Exit, Endless, Alias, True,
  Files,      \* the hjson files: string |-> dict
  Env         \* the environment: wildcard name |-> string

Bad(x) == x = Exit \/ x = Endless

\* The first result that is not a value stops the code: Then(x, F) is F(x).
Then(x, F(_)) == IF Bad(x) THEN x ELSE F(x)

\* The place of the object called n in a list of objects, 0 if it is not there
IndexOf(n, objs) == SelectInSeq(objs, LAMBDA o : o.name = n)

-----------------------------------------------------------------------------
\* The attributes of each type, with their default values.
BuildDefaults ==
  [name |-> "", is_sim_mode |-> 0, en_modes |-> <<>>, build_opts |-> <<>>,
   run_opts |-> <<>>, sw_images |-> <<>>]

RunDefaults ==
  [name |-> "", reseed |-> None, en_modes |-> <<>>, run_opts |-> <<>>, uvm_test |-> "",
   build_mode |-> "", sw_images |-> <<>>]

RegressionDefaults ==
  [name |-> "", tests |-> None, test_names |-> <<>>, reseed |-> None, en_sim_modes |-> <<>>,
   en_run_modes |-> <<>>, build_opts |-> <<>>, run_opts |-> <<>>]

ListAttrs == {"en_modes", "build_opts", "run_opts", "sw_images", "tests", "test_names",
              "en_sim_modes", "en_run_modes"}

\* list(set(s)): the order is the one of the hashes, which differs from one
\* process to the next.
Unique(s, hash) == SelectSeq(hash, LAMBDA x : x \in ToSet(s))

\* Modes.__init__ of a raw dict, with the constructor of the type around it
NewMode(defaults, dict, hash) ==
  IF "name" \notin DOMAIN dict \/ ~(DOMAIN dict \subseteq DOMAIN defaults) THEN Exit
  ELSE [a \in DOMAIN defaults |->
          IF a \notin DOMAIN dict THEN defaults[a]
          ELSE IF a = "en_modes" THEN Unique(dict[a], hash) ELSE dict[a]]

\* What merge_mode makes of one attribute. The default of a number is -1.
MergeAttr(a, mine, other) ==
  LET default == IF a \in {"reseed", "is_sim_mode"} THEN -1 ELSE ""
  IN IF other = None \/ mine = other THEN mine
     ELSE IF mine = None THEN other
     ELSE IF a \in ListAttrs THEN mine \o other
     ELSE IF mine = default THEN other
     ELSE IF other = default THEN mine
     ELSE Exit

SubModes(mode) == IF "en_modes" \in DOMAIN mode THEN mode.en_modes ELSE <<>>

\* The sub modes without the mode itself and without duplicates
Pruned(mode) ==
  IF SubModes(mode) = <<>> THEN mode
  ELSE [mode EXCEPT !.en_modes =
          FoldLeft(LAMBDA s, x : IF x = mode.name \/ x \in ToSet(s) THEN s ELSE Append(s, x),
                   <<>>, @)]

\* Seeded fault: the run options of the other mode are not merged.
MergeModeForgets(mode, other) ==
  LET is_sub == other.name \in ToSet(SubModes(mode))
      merged == [a \in DOMAIN mode |->
                   IF (is_sub /\ a = "name") \/ a \notin DOMAIN other \/ a = "run_opts" THEN mode[a]
                   ELSE MergeAttr(a, mode[a], other[a])]
  IN IF mode.name # other.name /\ ~is_sub THEN mode
     ELSE IF Exit \in Range(merged) THEN Exit ELSE Pruned(merged)

\* merge_mode
MergeMode(mode, other) ==
  LET is_sub == other.name \in ToSet(SubModes(mode))
      merged == [a \in DOMAIN mode |->
                   IF (is_sub /\ a = "name") \/ a \notin DOMAIN other THEN mode[a]
                   ELSE MergeAttr(a, mode[a], other[a])]
  IN IF mode.name # other.name /\ ~is_sub THEN mode
     ELSE IF Exit \in Range(merged) THEN Exit ELSE Pruned(merged)

\* Pass 1 of create_modes, create_tests and create_regressions: objects of the
\* same name are merged into the first.
MergeByName(defaults, dicts, hash, first) ==
  LET Add(objs, dict) ==
        Then(objs, LAMBDA os : Then(NewMode(defaults, dict, hash), LAMBDA new :
          LET i == IndexOf(new.name, os)
          IN IF i = 0 THEN Append(os, new)
             ELSE Then(MergeMode(os[i], new), LAMBDA m : [os EXCEPT ![i] = m])))
  IN FoldLeft(Add, first, dicts)

\* merge_sub_modes of objs[i], below the mode root (None at the top). The loop
\* runs over the list the first merge extends; later merges extend the list that
\* replaced it. A mode below itself that is not the root is entered for ever.
RECURSIVE MergeSubs(_, _, _, _), WalkSubs(_, _, _, _, _, _, _)
MergeSubs(objs, i, root, depth) ==
  IF objs[i].en_modes = <<>> THEN objs
  ELSE IF root = objs[i].name THEN Exit
  ELSE IF depth > Len(objs) THEN Endless
  ELSE WalkSubs(objs, i, IF root = None THEN objs[i].name ELSE root, depth,
                objs[i].en_modes, 1, TRUE)

WalkSubs(objs, i, root, depth, list, k, fresh) ==
  IF k > Len(list) THEN objs
  ELSE LET j == IndexOf(list[k], objs)
       IN IF j = 0 THEN Exit
          ELSE Then(MergeSubs(objs, j, root, depth + 1), LAMBDA os :
                 Then(MergeMode(os[i], os[j]), LAMBDA m :
                   WalkSubs([os EXCEPT ![i] = m], i, root, depth,
                            IF fresh THEN MergeAttr("en_modes", list, os[j].en_modes) ELSE list,
                            k + 1, FALSE)))

\* create_modes
CreateModes(defaults, dicts, hash, first) ==
  Then(MergeByName(defaults, dicts, hash, first), LAMBDA objs :
    FoldLeft(LAMBDA os, i : Then(os, LAMBDA x : MergeSubs(x, i, None, 0)), objs,
             [i \in DOMAIN objs |-> i]))

CreateBuildModes(dicts, hash) ==
  CreateModes(BuildDefaults, dicts, hash, <<[BuildDefaults EXCEPT !.name = "default"]>>)

CreateRunModes(dicts, hash) == CreateModes(RunDefaults, dicts, hash, <<>>)

\* find_and_merge_modes without the merge: the modes of those names
FindModes(names, modes) ==
  IF \E n \in ToSet(names) : IndexOf(n, modes) = 0 THEN Exit
  ELSE [k \in DOMAIN names |-> modes[IndexOf(names[k], modes)]]

-----------------------------------------------------------------------------
(***************************************************************************)
(* The flow configuration C has build_modes, run_modes, tests and          *)
(* regressions, the modes enabled on the command line (en_build_modes,     *)
(* en_run_modes), its own build_opts, run_opts and sw_images, and the      *)
(* values reseed, uvm_test and build_mode that tests fall back on.         *)
(***************************************************************************)
Images(C, test) == IF test.sw_images = Alias THEN C.sw_images ELSE test.sw_images

\* test.sw_images.extend(list): the list the test shares grows for everyone.
ExtendImages(C, t, list) ==
  IF C.tests[t].sw_images = Alias THEN [C EXCEPT !.sw_images = @ \o list]
  ELSE [C EXCEPT !.tests[t].sw_images = @ \o list]

\* create_tests: the attributes a test leaves at their default come from sim_cfg
FillDefaults(C, test) ==
  [a \in DOMAIN test |->
     IF a \in {"reseed", "uvm_test", "build_mode"} /\ test[a] = RunDefaults[a]
        /\ C[a] # None THEN C[a]
     ELSE IF a = "sw_images" /\ test[a] = <<>> /\ C.sw_images # <<>> THEN Alias
     ELSE test[a]]

\* create_tests, pass 2, of one test. A build mode with is_sim_mode = 1 passes
\* the test "is True".
FinishTest(C, t) ==
  LET test == C.tests[t]
      enabled == SelectSeq(test.en_modes, LAMBDA m : m \notin ToSet(C.en_run_modes))
      found == FindModes(enabled, C.run_modes)
      Merge(o, m) == Then(o, LAMBDA x : MergeMode(x, m))
  IN Then(found, LAMBDA fs : Then(FoldLeft(Merge, test, fs), LAMBDA merged :
       LET full == FillDefaults(C, merged)
           b == IndexOf(full.build_mode, C.build_modes)
       IN IF b = 0 \/ C.build_modes[b].is_sim_mode = True THEN Exit
          ELSE LET mode == C.build_modes[b]
                   done == [full EXCEPT !.run_opts = @ \o mode.run_opts]
               IN ExtendImages([C EXCEPT !.tests[t] = done], t, mode.sw_images)))

\* create_tests
CreateTests(C, dicts, hash) ==
  Then(MergeByName(RunDefaults, dicts, hash, <<>>), LAMBDA objs :
    FoldLeft(LAMBDA c, t : Then(c, LAMBDA x : FinishTest(x, t)), [C EXCEPT !.tests = objs],
             [t \in DOMAIN objs |-> t]))

\* The build modes of the tests of C at those places, each once
BuildModesOf(C, places) ==
  FoldLeft(LAMBDA s, t : LET b == C.tests[t].build_mode
                         IN IF b \in ToSet(s) THEN s ELSE Append(s, b), <<>>, places)

\* The options given to the builds and the runs of some tests: once to each
\* build mode, and to every test.
AddOpts(C, places, build_opts, run_opts) ==
  LET bs == ToSet(BuildModesOf(C, places))
      times(t) == Cardinality({k \in DOMAIN places : places[k] = t})
      copies(t) == FlattenSeq([k \in 1..times(t) |-> run_opts])
  IN [C EXCEPT
        !.build_modes = [b \in DOMAIN @ |-> IF @[b].name \in bs
                           THEN [@[b] EXCEPT !.build_opts = @ \o build_opts] ELSE @[b]],
        !.tests = [t \in DOMAIN @ |-> [@[t] EXCEPT !.run_opts = @ \o copies(t)]]]

\* merge_global_opts
MergeGlobalOpts(C, places) ==
  FoldLeft(LAMBDA c, t : ExtendImages(c, t, c.sw_images),
           AddOpts(C, places, C.build_opts, C.run_opts), places)

-----------------------------------------------------------------------------
\* create_regressions: the sim modes a regression enables
SimModes(C, reg) ==
  Then(FindModes(reg.en_sim_modes, C.build_modes), LAMBDA modes :
    IF \E m \in ToSet(modes) :
         m.is_sim_mode = 0 \/ ToSet(m.en_modes) \cap ToSet(reg.en_sim_modes) # {}
    THEN Exit
    ELSE SelectSeq(modes, LAMBDA m : m.name \notin ToSet(C.en_build_modes)))

\* create_regressions: the run modes a regression enables
RegRunModes(C, reg) ==
  Then(FindModes(reg.en_run_modes, C.run_modes), LAMBDA modes :
    SelectSeq(modes, LAMBDA m : m.name \notin ToSet(C.en_run_modes)))

OptsOf(modes, a) == FlattenSeq([k \in DOMAIN modes |-> modes[k][a]])

\* create_regressions: the tests of a regression become places in C.tests
RegTests(C, reg, item_names) ==
  IF reg.tests = None
  THEN [reg EXCEPT !.tests = [t \in DOMAIN C.tests |-> t], !.test_names = item_names]
  ELSE LET known == SelectSeq(reg.tests, LAMBDA n : IndexOf(n, C.tests) # 0)
       IN [reg EXCEPT !.tests = [k \in DOMAIN known |-> IndexOf(known[k], C.tests)],
                      !.test_names = reg.tests]

FinishRegression(C, reg, item_names) ==
  Then(SimModes(C, reg), LAMBDA sims : Then(RegRunModes(C, reg), LAMBDA runs :
    RegTests(C, [reg EXCEPT !.build_opts = @ \o OptsOf(sims, "build_opts"),
                            !.run_opts = @ \o OptsOf(sims, "run_opts") \o OptsOf(runs, "run_opts")],
             item_names)))

\* create_regressions. item_names is Tests.item_names, which holds the names of
\* the tests of every configuration loaded so far.
CreateRegressions(C, dicts, hash, item_names) ==
  IF \E k \in DOMAIN dicts : "name" \in DOMAIN dicts[k] /\ dicts[k].name \in ToSet(item_names) THEN Exit
  ELSE Then(MergeByName(RegressionDefaults, dicts, hash, <<>>), LAMBDA objs :
         LET done == [r \in DOMAIN objs |-> FinishRegression(C, objs[r], item_names)]
         IN IF \E r \in DOMAIN done : Bad(done[r]) THEN Exit ELSE [C EXCEPT !.regressions = done])

\* merge_regression_opts
MergeRegressionOpts(C, reg) ==
  LET D == AddOpts(C, reg.tests, reg.build_opts, reg.run_opts)
  IN IF reg.reseed = None THEN D
     ELSE [D EXCEPT !.tests = [t \in DOMAIN @ |-> IF t \in ToSet(reg.tests)
                                 THEN [@[t] EXCEPT !.reseed = reg.reseed] ELSE @[t]]]

-----------------------------------------------------------------------------
\* Strings, dicts and values of a configuration.
Text(x) == [t |-> x]
Wild(n) == [w |-> n]
IsWild(tok) == "w" \in DOMAIN tok
WildsOf(s) == {s[k].w : k \in {j \in DOMAIN s : IsWild(s[j])}}

Str(s) == [k |-> "str", v |-> s]
Num(n) == [k |-> "int", v |-> n]
List(s) == [k |-> "list", v |-> s]
Entry(key, val) == [key |-> key, val |-> val]

Has(d, key) == \E i \in DOMAIN d : d[i].key = key /\ d[i].val # None
Get(d, key) ==
  LET i == SelectInSeq(d, LAMBDA e : e.key = key) IN IF i = 0 THEN None ELSE d[i].val
Put(d, key, val) ==
  LET i == SelectInSeq(d, LAMBDA e : e.key = key)
  IN IF i = 0 THEN Append(d, Entry(key, val)) ELSE [d EXCEPT ![i].val = val]

-----------------------------------------------------------------------------
\* run_cmd: what a command prints
RunCmd(cmd) == <<[out |-> cmd]>>

\* _stringify_wildcard_value
Stringify(value) ==
  CASE value.k = "str" -> value.v
    [] value.k = "int" -> <<Text(ToString(value.v))>>
    [] value.k = "list" -> FlattenSeq(value.v)
    [] OTHER -> Exit

\* The value of a wildcard: the dict first, then the environment
Lookup(name, mdict) ==
  IF Has(mdict, name) THEN Stringify(Get(mdict, name))
  ELSE IF name \in DOMAIN Env THEN Env[name] ELSE None

\* _subst_wildcards, from the loop's state var, idx, any_err. What is left of an
\* {eval_cmd} is cut at match.start(), which is counted from idx.
RECURSIVE Subst(_, _, _, _, _, _, _)
Subst(var, idx, err, mdict, ignored, lax, seen) ==
  LET wilds == {k \in (idx + 1)..Len(var) : IsWild(var[k])}
      at == Min(wilds)
      name == var[at].w
      rest == SubSeq(var, at + 1, Len(var))
      Again(v, i, e) == Subst(v, i, e, mdict, ignored, lax, seen)
  IN IF wilds = {} THEN [v |-> var, err |-> err]
     ELSE IF name \in ignored THEN Again(var, at, err)
     ELSE IF name \in seen THEN Exit
     ELSE IF name = "eval_cmd" THEN
       Then(Subst(rest, 0, FALSE, mdict, ignored, lax, seen), LAMBDA cmd :
         IF WildsOf(cmd.v) = {}
         THEN Again(SubSeq(var, 1, at - 1 - idx) \o RunCmd(cmd.v), idx, err)
         ELSE IF ~lax /\ ~(WildsOf(cmd.v) \subseteq ignored) THEN Exit
         ELSE [v |-> SubSeq(var, 1, at) \o cmd.v, err |-> TRUE])
     ELSE LET raw == Lookup(name, mdict)
          IN IF raw = None THEN IF lax THEN Again(var, at, err) ELSE Exit
             ELSE Then(raw, LAMBDA r :
                    Then(Subst(r, 0, FALSE, mdict, ignored, lax, seen \cup {name}), LAMBDA val :
                      Again(SubSeq(var, 1, at - 1) \o val.v \o rest,
                            IF val.err THEN at - 1 + Len(val.v) ELSE idx, err \/ val.err)))

\* subst_wildcards
SubstWildcards(var, mdict, ignored, lax) ==
  Then(Subst(var, 0, FALSE, mdict, ignored, lax, {}), LAMBDA r : r.v)

SubstAll(strs, mdict, ignored, lax) ==
  LET All(new) == IF Exit \in Range(new) THEN Exit ELSE new
  IN All([k \in DOMAIN strs |-> SubstWildcards(strs[k], mdict, ignored, lax)])

\* The strings in a raw mode dict are its options.
OptAttrs == {"build_opts", "run_opts"}
SubstModes(dicts, mdict, ignored, lax) ==
  LET One(m) == [a \in DOMAIN m |->
                   IF a \in OptAttrs THEN SubstAll(m[a], mdict, ignored, lax) ELSE m[a]]
      All(new) == IF \E k \in DOMAIN new : \E a \in DOMAIN new[k] : new[k][a] = Exit THEN Exit ELSE new
  IN All([k \in DOMAIN dicts |-> One(dicts[k])])

ModeKeys == {"build_modes", "run_modes", "tests", "regressions", "overrides"}
StringKeys == {"build_opts", "run_opts"}

\* find_and_substitute_wildcards: one key after the other, in place. full is the
\* dict to look names up in, None for the dict itself.
SubstEntry(e, m, ignored, lax) ==
  IF e.val = None THEN None
  ELSE IF e.val.k = "str" THEN SubstWildcards(e.val.v, m, ignored, lax)
  ELSE IF e.val.k = "list" /\ e.key \in ModeKeys THEN SubstModes(e.val.v, m, ignored, lax)
  ELSE IF e.val.k = "list" /\ e.key \in StringKeys THEN SubstAll(e.val.v, m, ignored, lax)
  ELSE e.val.v
RECURSIVE SubstFrom(_, _, _, _, _)
SubstFrom(i, dict, full, ignored, lax) ==
  IF i > Len(dict) THEN dict
  ELSE Then(SubstEntry(dict[i], IF full = None THEN dict ELSE full, ignored, lax), LAMBDA v :
         SubstFrom(i + 1, IF v = None THEN dict ELSE [dict EXCEPT ![i].val.v = v], full, ignored, lax))
FindAndSubst(dict, full, ignored, lax) == SubstFrom(1, dict, full, ignored, lax)

-----------------------------------------------------------------------------
\* set_target_attribute. bool is an int to isinstance, so False is the default 0.
SetTarget(d, key, val) ==
  LET old == Get(d, key)
      default(x) == IF x.k = "str" THEN x.v = <<>> ELSE x.v \in {0, -1}
  IN IF old = None THEN Put(d, key, val)
     ELSE IF old.k = "list"
          THEN IF val.k # "list" THEN Exit ELSE Put(d, key, List(old.v \o val.v))
     ELSE IF val.k \notin {"str", "int"} \/ old.k # val.k THEN Exit
     ELSE IF old.v = val.v \/ default(val) THEN d
     ELSE IF default(old) THEN Put(d, key, val)
     ELSE Exit

\* _load_single_file
LoadFile(target, path, is_first, arg_keys) ==
  LET Step(acc, e) ==
        Then(acc, LAMBDA a :
          IF e.key \in arg_keys THEN a
          ELSE IF e.key = "import_cfgs"
               THEN IF e.val.k # "list" THEN Exit ELSE [a EXCEPT !.imports = @ \o e.val.v]
          ELSE IF e.key = "use_cfgs" /\ (~is_first \/ e.val.k # "list") THEN Exit
          ELSE Then(SetTarget(a.d, e.key, e.val), LAMBDA d : [a EXCEPT !.d = d]))
      loaded == IF path \notin DOMAIN Files THEN Exit
                ELSE FoldLeft(Step, [d |-> target, imports |-> <<>>], Files[path])
  IN Then(loaded, LAMBDA l : Then(SubstAll(l.imports, l.d, {}, FALSE), LAMBDA paths :
       [l EXCEPT !.imports = paths]))

\* load_hjson: the file named last is loaded next.
RECURSIVE LoadWork(_, _, _, _, _)
LoadWork(work, seen, d, is_first, arg_keys) ==
  IF work = <<>> THEN d
  ELSE Then(LoadFile(d, Last(work), is_first, arg_keys), LAMBDA l :
         IF ToSet(l.imports) \cap seen # {} THEN Exit
         ELSE LoadWork(Front(work) \o l.imports, seen \cup ToSet(l.imports), l.d, FALSE, arg_keys))

LoadHjson(path, initial) ==
  LoadWork(<<path>>, {path}, initial, TRUE, IF Has(initial, "tool") THEN {"tool"} ELSE {})

\* _load_cfg
FlowNames == {"lint", "syn", "formal", "sim"}
LoadCfg(path, initial) ==
  Then(LoadHjson(path, initial), LAMBDA d :
    IF Has(d, "flow") /\ \E f \in FlowNames : Get(d, "flow") = Str(<<Text(f)>>) THEN d ELSE Exit)

-----------------------------------------------------------------------------
\* What the wave format becomes: SimCfg._resolve_waves, pick_wave_format. have
\* says whether the viewer of fsdb is installed.
RECURSIVE PickWaveFormat(_, _)
PickWaveFormat(fmts, have) ==
  IF fmts = <<>> THEN Exit
  ELSE IF fmts[1] = "fsdb" /\ ~have THEN PickWaveFormat(Tail(fmts), have) ELSE fmts[1]

ResolveWaves(args, d, primary) ==
  LET fmts == IF Has(d, "supported_wave_formats") THEN Get(d, "supported_wave_formats").v ELSE <<>>
  IN IF args.waves = "none" \/ primary THEN "none"
     ELSE IF ~Has(d, "tool") THEN Exit
     ELSE IF args.waves = "default"
          THEN IF fmts = <<>> THEN "vpd" ELSE PickWaveFormat(fmts, args.verdi)
     ELSE IF fmts # <<>> /\ args.waves \notin ToSet(fmts) THEN Exit
     ELSE args.waves

\* FlowCfg._process_overrides, _do_override
ProcessOverrides(dict) ==
  LET ovs == IF Has(dict, "overrides") THEN Get(dict, "overrides").v ELSE <<>>
      Do(d, ov) == Then(d, LAMBDA x :
                     IF ~Has(x, ov.name) THEN Exit
                     ELSE IF Get(x, ov.name).k # ov.value.k THEN Exit
                     ELSE Put(x, ov.name, ov.value))
  IN IF \E i, j \in DOMAIN ovs : i # j /\ ovs[i].name = ovs[j].name THEN Exit
     ELSE FoldLeft(Do, dict, ovs)

\* The attributes the constructors set before the hjson data is merged in:
\* FlowCfg.__init__ and SimCfg.__init__, or OneShotCfg.__init__ for the others.
BaseAttrs(args, flow) ==
  <<Entry("tool", args.tool), Entry("build_opts", List(args.build_opts)),
    Entry("flow", Str(<<>>)), Entry("build_dir", Str(<<>>)), Entry("name", Str(<<>>)),
    Entry("build_modes", List(<<>>)), Entry("run_modes", List(<<>>)),
    Entry("regressions", List(<<>>)), Entry("build_cmd", Str(<<>>))>>
  \o (IF flow = "sim"
      THEN <<Entry("run_opts", List(args.run_opts)), Entry("sw_images", List(<<>>)),
             Entry("run_dir", Str(<<>>)), Entry("run_cmd", Str(<<>>)),
             Entry("supported_wave_formats", None), Entry("testplan", Str(<<>>))>>
      ELSE <<>>)
  \o <<Entry("scratch_path", Str(<<>>)), Entry("overrides", List(<<>>))>>

\* SimCfg.__init__: the build modes the command line enables
EnBuildModes(args, flow) ==
  IF flow # "sim" THEN <<>>
  ELSE args.build_modes \o (IF args.gui THEN <<"gui">> ELSE <<>>)
       \o (IF args.waves # "none" THEN <<"waves">> ELSE <<>>)
       \o (IF args.cov THEN <<"cov">> ELSE <<>>)
       \o (IF args.profile THEN <<"profile">> ELSE <<>>)
       \o (IF args.xprop_off THEN <<>> ELSE <<"xprop">>)

\* ignored_wildcards of each flow
IgnoredWildcards(flow) ==
  {"build_mode", "index", "test"}
  \cup (IF flow = "sim" THEN {"seed", "uvm_test", "cov_db_dirs", "sw_images"} ELSE {})

\* FlowCfg.__init__ up to the objects: merge, overrides, waves, build_unique and
\* expansion, in the order of each class. OneShotCfg adds the timestamp to
\* build_dir before the hjson data is merged, so a build_dir in the file conflicts.
Stamp(d, args) ==
  IF args.build_unique THEN Put(d, "build_dir", Str(Get(d, "build_dir").v \o <<Text("stamp")>>)) ELSE d
MergeHjson(args, hjson, flow) ==
  LET base == BaseAttrs(args, flow)
  IN FoldLeft(LAMBDA acc, e : Then(acc, LAMBDA x : IF e.val = None THEN x ELSE SetTarget(x, e.key, e.val)),
              IF flow = "sim" THEN base ELSE Stamp(base, args), hjson)

Expanded(args, hjson, flow) ==
  LET primary == Has(hjson, "use_cfgs")
  IN Then(MergeHjson(args, hjson, flow), LAMBDA merged :
       Then(ProcessOverrides(merged), LAMBDA d0 :
         LET waves == IF flow = "sim" THEN ResolveWaves(args, d0, primary) ELSE "none"
             d1 == IF flow = "sim" THEN Stamp(Put(d0, "waves", Str(<<Text(waves)>>)), args) ELSE d0
         IN IF waves = Exit THEN Exit
            ELSE FindAndSubst(d1, None, IgnoredWildcards(flow), primary)))

TextOf(val) == IF val = None \/ val.v = <<>> THEN "" ELSE val.v[1].t

\* A configuration object. Attributes that hold objects are taken out of the dict.
FlowCfg(path, args, d, flow) ==
  LET l(key) == IF Has(d, key) THEN Get(d, key).v ELSE <<>>
  IN [path |-> path, flow |-> flow, d |-> d, name |-> TextOf(Get(d, "name")), cfgs |-> <<>>,
      items |-> args.items, gui |-> args.gui, cov |-> args.cov,
      build_modes |-> l("build_modes"), run_modes |-> l("run_modes"), tests |-> l("tests"),
      regressions |-> l("regressions"), sw_images |-> l("sw_images"),
      build_opts |-> l("build_opts"), run_opts |-> l("run_opts"),
      en_build_modes |-> EnBuildModes(args, flow), en_run_modes |-> args.run_modes,
      reseed |-> IF Has(d, "reseed") THEN Get(d, "reseed").v ELSE None,
      uvm_test |-> TextOf(Get(d, "uvm_test")),
      build_mode |-> IF Has(d, "build_mode") THEN TextOf(Get(d, "build_mode")) ELSE "default",
      testplan |-> IF TextOf(Get(d, "testplan")) = "" THEN None ELSE TextOf(Get(d, "testplan"))]
=============================================================================
