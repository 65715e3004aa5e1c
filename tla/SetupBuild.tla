----------------------------- MODULE SetupBuild -----------------------------
(***************************************************************************)
(* The commands build, clean, run and exec-hook of infra/setup.py.  What a *)
(* command does follows from its arguments and the dependency graph except *)
(* for the tests of the stages, which look at the disk when they run: a    *)
(* command is the list of its operations (Plan), worked off from the head. *)
(* The disk outlives commands; the context, built_packages and the jobs of *)
(* the pool do not.  A command is interrupted between any two steps: by    *)
(* the user, or by an external command that fails (sys.exit in util.run).  *)
(***************************************************************************)
EXTENDS Recipes, Dependencies

CONSTANTS
  Package, Target, Instance,
  graph,           \* dependencies() of every package, target and instance
  Commands,        \* the command lines the user may give
  TakesPool,       \* the targets whose build and run have a parameter pool
  RunsHooks,       \* the targets that run the post-build hooks in the setup itself
  MaxCommands,     \* bound: commands given
  MaxInterrupts    \* bound: commands interrupted

ASSUME SetupAssumption ==
  /\ graph \in [Package \cup Target \cup Instance -> Seq(Package)]
  /\ IsFiniteSet(Package \cup Target \cup Instance) /\ Recursive \notin Package
  /\ "none" \notin Instance
  /\ MaxCommands \in Nat /\ MaxInterrupts \in Nat

\* What argparse lets through, and _run_run and _run_exec_hook: one target to run,
\* none of build's own options for it; a hook is for one target and instance.
ASSUME CommandsAssumption == \A a \in Commands :
  /\ a.command \in {"build", "clean", "run", "exec-hook"}
  /\ a.targets \in Seq(Target) /\ a.instances \in Seq(Instance) /\ a.packages \in Seq(Package)
  /\ {a.parallel, a.deps_only, a.clean, a.force_rebuild_deps, a.dry_run, a.relink, a.build}
       \subseteq BOOLEAN
  /\ a.command \in {"run", "exec-hook"} => Len(a.targets) = 1 /\ a.instances # <<>>
  /\ a.command = "run" => a.packages = <<>> /\ ~a.deps_only /\ ~a.clean /\ ~a.dry_run /\ ~a.relink

VARIABLES
  disk,        \* build/packages and build/targets: the files of each
  binary,      \* the binary of a target and instance: the context it was built in
  configured,  \* the targets and instances whose SPEC config file was written
  args,        \* the command line being worked off
  todo,        \* the operations it still has to do
  stage,       \* the stage of a package it is in
  steps,       \* what this stage still has to do
  built,       \* built_packages
  ctx,         \* the context: packages in runenv, instances configured
  saved,       \* the copies of the context to go back to, the last one first
  jobs,        \* the builds the pool still runs, with their context
  status,      \* how the command stands
  hurt,        \* the packages a stage of which was interrupted, until cleaned
  commands, interrupts

diskVars == <<disk, binary, configured, hurt>>
boundVars == <<commands, interrupts>>
vars == <<disk, binary, configured, args, todo, stage, steps, built, ctx, saved, jobs,
          status, hurt, commands, interrupts>>

None == [env |-> {}, configured |-> <<"none">>]
Fresh == [env |-> {}, configured |-> <<>>]
DepsOf == [o \in DOMAIN graph |-> get_deps(graph, <<o>>)]
Deps(o) == DepsOf[o]

\* With a cycle get_deps raises FatalError and nothing is done (Dependencies).
ASSUME GraphAssumption == \A o \in DOMAIN graph : ~Contains(Deps(o), Recursive)

\* Operations ---------------------------------------------------------------------

Op(op, obj, force) == [op |-> op, obj |-> obj, force |-> force]
Each(objs, Do(_)) == FlattenSeq([k \in DOMAIN objs |-> Do(objs[k])])

\* Work in a copy of the context.
Scoped(ops) == <<Op("save", "", FALSE)>> \o ops \o <<Op("restore", "", FALSE)>>

load_deps(obj) == Each(Deps(obj), LAMBDA p : <<Op("env", p, FALSE)>>)

\* The packages a command builds without asking the tests of the stages.
Forced(a, p) ==
  \/ a.force_rebuild_deps
  \/ /\ Contains(a.packages, p)
     /\ Contains(get_deps(graph, a.targets \o a.instances \o a.packages), p)

\* Slip: the packages are put into the environment after all of them are built.
SlipBuildDepsOnce(a, o) ==
  Each(Deps(o), LAMBDA p : <<Op("once", p, Forced(a, p))>>) \o load_deps(o)

build_deps_once(a, o) ==
  Each(Deps(o), LAMBDA p : <<Op("once", p, Forced(a, p)), Op("env", p, FALSE)>>)

\* Slip: the hooks run before the target is built.
SlipBuildAndLink(a, b) ==
  IF a.deps_only \/ a.dry_run THEN <<>>
  ELSE <<Op("hooks", b, FALSE)>> \o (IF a.relink THEN <<>> ELSE <<Op("build", b, FALSE)>>)

\* target.build, target.link and run_hooks_post_build of the target and instance b.
BuildAndLink(a, b) ==
  IF a.deps_only \/ a.dry_run THEN <<>>
  ELSE (IF a.relink THEN <<>> ELSE <<Op("build", b, FALSE)>>) \o <<Op("hooks", b, FALSE)>>

BuildTargets(a, i) ==
  Each(a.targets, LAMBDA t : Scoped(build_deps_once(a, t) \o BuildAndLink(a, <<t, i>>)))

\* Slip: one context for all instances.
SlipBuildInstances(a) ==
  Each(a.instances, LAMBDA i :
    <<Op("configure", i, FALSE)>> \o build_deps_once(a, i) \o BuildTargets(a, i))

BuildInstances(a) ==
  Each(a.instances, LAMBDA i :
    Scoped(<<Op("configure", i, FALSE)>> \o build_deps_once(a, i) \o BuildTargets(a, i)))

FetchAll(a, deps, separate) ==
  Each(deps, LAMBDA p : <<Op("fetch", p, a.force_rebuild_deps)>>)
  \o Each(separate, LAMBDA p : <<Op("fetch", p, TRUE)>>)
  \o (IF a.deps_only THEN <<>> ELSE Each(a.targets, LAMBDA t : <<Op("fetch", t, TRUE)>>))

CleanAll(a) == Each(a.packages \o a.targets, LAMBDA o : <<Op("clean", o, FALSE)>>)

\* Slip: the command does not wait for the jobs of the pool.
SlipWaitForPool == <<>>
WaitForPool == <<Op("wait", "", FALSE)>>

BuildPlan(a) ==
  LET deps == get_deps(graph, a.targets \o a.instances \o a.packages)
      separate == Each(a.packages, LAMBDA p : IF Contains(deps, p) THEN <<>> ELSE <<p>>)
  IN (IF a.clean THEN CleanAll(a) ELSE <<>>)
     \o FetchAll(a, deps, separate)
     \o Each(separate, LAMBDA p : Scoped(build_deps_once(a, p) \o <<Op("once", p, TRUE)>>))
     \o (IF a.deps_only /\ a.instances = <<>>
         THEN Each(a.targets, LAMBDA t : Scoped(build_deps_once(a, t))) ELSE <<>>)
     \o BuildInstances(a)
     \o WaitForPool

RunPlan(a) ==
  LET t == a.targets[1] IN
  (IF a.build THEN BuildPlan(a) ELSE <<>>)
  \o load_deps(t)
  \o Each(a.instances, LAMBDA i : Scoped(load_deps(i) \o <<Op("run", <<t, i>>, FALSE)>>))
  \o WaitForPool

ExecHookPlan(a) ==
  LET i == a.instances[1] IN
  load_deps(i) \o <<Op("configure", i, FALSE), Op("exec-hook", <<a.targets[1], i>>, FALSE)>>

\* What raises FatalError before anything is done.
BadArguments(a) ==
  CASE a.command = "build" /\ a.deps_only -> a.targets \o a.instances \o a.packages = <<>>
    [] a.command = "build" /\ ~a.deps_only ->
         (a.targets = <<>> \/ a.instances = <<>>) /\ a.packages = <<>>
    [] a.command = "clean" -> a.targets \o a.packages = <<>>
    [] OTHER -> FALSE

PlanOf(a) ==
  IF BadArguments(a) THEN <<Op("fatal", "", FALSE)>>
  ELSE CASE a.command = "build" -> BuildPlan(a)
         [] a.command = "clean" -> CleanAll(a)
         [] a.command = "run" -> RunPlan(a)
         [] a.command = "exec-hook" -> ExecHookPlan(a)
Plan == [a \in Commands |-> PlanOf(a)]

\* Commands -----------------------------------------------------------------------

Init ==
  /\ disk = [o \in Package \cup Target |-> Empty]
  /\ binary = [b \in Target \X Instance |-> None] /\ configured = {}
  /\ args = [command |-> "none"]
  /\ todo = <<>> /\ stage = "none" /\ steps = <<>>
  /\ built = {} /\ ctx = Fresh /\ saved = <<>> /\ jobs = {}
  /\ status = "none" /\ hurt = {} /\ commands = 0 /\ interrupts = 0

\* main() with the user's command line.
Begin(a) ==
  /\ status # "running" /\ commands < MaxCommands
  /\ commands' = commands + 1
  /\ args' = a /\ todo' = Plan[a] /\ status' = "running"
  /\ stage' = "none" /\ steps' = <<>> /\ built' = {} /\ ctx' = Fresh /\ saved' = <<>> /\ jobs' = {}
  /\ UNCHANGED <<diskVars, interrupts>>

\* The process ends and takes what it had in memory with it.
EndAs(outcome) ==
  /\ status' = outcome
  /\ todo' = <<>> /\ stage' = "none" /\ steps' = <<>> /\ built' = {}
  /\ ctx' = Fresh /\ saved' = <<>> /\ jobs' = {}
  /\ UNCHANGED args

Finish ==
  /\ status = "running" /\ todo = <<>>
  /\ EndAs("done") /\ UNCHANGED <<diskVars, boundVars>>

Interrupt ==
  /\ status = "running" /\ interrupts < MaxInterrupts
  /\ interrupts' = interrupts + 1
  /\ hurt' = IF steps = <<>> THEN hurt ELSE hurt \cup {Head(todo).obj}
  /\ EndAs("killed") /\ UNCHANGED <<disk, binary, configured, commands>>

\* Working off the list -------------------------------------------------------------

Doing(op) == status = "running" /\ todo # <<>> /\ Head(todo).op = op
obj == Head(todo).obj
Advance == todo' = Tail(todo)
memory == <<built, ctx, saved, jobs>>
control == <<args, status, boundVars>>

\* Slip: a package to be forced is fetched again over what is there.
SlipFetchSteps(p) ==
  LET r == recipe(p, disk[p]) IN IF Head(todo).force \/ ~r.is_installed THEN r.fetch ELSE <<>>

\* _fetch_package, and the fetch of a target, which no installation spares.
FetchSteps(p) ==
  LET r == recipe(p, disk[p]) IN
  IF \/ r.is_fetched
     \/ (~Head(todo).force /\ r.is_installed)
     \/ (args.dry_run /\ p \in Package)
  THEN <<>> ELSE r.fetch

\* Slip: a package whose build was done before is taken for installed as well.
SlipInstallSteps(p) ==
  LET r == recipe(p, disk[p]) IN
  IF (~Head(todo).force /\ (r.is_installed \/ r.is_built)) \/ args.dry_run THEN <<>> ELSE r.install

\* _build_package and _install_package.
BuildSteps(p) ==
  LET r == recipe(p, disk[p]) IN
  IF (~Head(todo).force /\ (r.is_built \/ r.is_installed)) \/ args.dry_run THEN <<>> ELSE r.build
InstallSteps(p) ==
  LET r == recipe(p, disk[p]) IN
  IF (~Head(todo).force /\ r.is_installed) \/ args.dry_run THEN <<>> ELSE r.install

Enter(s, its) == stage' = s /\ steps' = its /\ UNCHANGED <<todo, memory, control, diskVars>>

StartFetch == Doing("fetch") /\ stage = "none" /\ Enter("fetch", FetchSteps(obj))

\* build_package_once.
StartOnce ==
  /\ Doing("once") /\ stage = "none" /\ obj \notin built
  /\ Enter("build", BuildSteps(obj))
SkipOnce ==
  /\ Doing("once") /\ stage = "none" /\ obj \in built
  /\ Advance /\ UNCHANGED <<stage, steps, memory, control, diskVars>>
StartInstall == Doing("once") /\ stage = "build" /\ steps = <<>> /\ Enter("install", InstallSteps(obj))

DoStep ==
  /\ status = "running" /\ steps # <<>> /\ Possible(Head(steps), disk[obj])
  /\ disk' = [disk EXCEPT ![obj] = Effect(Head(steps), @)]
  /\ steps' = Tail(steps)
  /\ UNCHANGED <<todo, stage, memory, control, binary, configured, hurt>>

\* The external command fails: util.run ends the process.
FailStep ==
  /\ status = "running" /\ steps # <<>> /\ ~Possible(Head(steps), disk[obj])
  /\ EndAs("failed") /\ UNCHANGED <<diskVars, boundVars>>

EndFetch ==
  /\ stage = "fetch" /\ steps = <<>>
  /\ stage' = "none" /\ Advance /\ UNCHANGED <<steps, memory, control, diskVars>>
EndOnce ==
  /\ stage = "install" /\ steps = <<>>
  /\ stage' = "none" /\ Advance /\ built' = built \cup {obj}
  /\ UNCHANGED <<steps, ctx, saved, jobs, control, diskVars>>

\* Operations without steps of their own.
Quick == Advance /\ UNCHANGED <<stage, steps, built, control>>

Env ==
  /\ Doing("env") /\ Quick
  /\ ctx' = [ctx EXCEPT !.env = @ \cup {obj}] /\ UNCHANGED <<saved, jobs, diskVars>>
Configure ==
  /\ Doing("configure") /\ Quick
  /\ ctx' = [ctx EXCEPT !.configured = Append(@, obj)] /\ UNCHANGED <<saved, jobs, diskVars>>
Save ==
  /\ Doing("save") /\ Quick
  /\ saved' = <<ctx>> \o saved /\ UNCHANGED <<ctx, jobs, diskVars>>
Restore ==
  /\ Doing("restore") /\ Quick
  /\ ctx' = Head(saved) /\ saved' = Tail(saved) /\ UNCHANGED <<jobs, diskVars>>

Clean ==
  /\ Doing("clean") /\ Quick /\ UNCHANGED <<ctx, saved, jobs>>
  /\ IF args.command # "clean" /\ args.dry_run THEN UNCHANGED diskVars
     ELSE /\ disk' = [disk EXCEPT ![obj] = Empty]
          /\ binary' = [b \in DOMAIN binary |-> IF b[1] = obj THEN None ELSE binary[b]]
          /\ configured' = {b \in configured : b[1] # obj}
          /\ hurt' = hurt \ {obj}

\* _call_with_pool: with a pool, a function without a parameter for it is not
\* called; _run_build does not look at the answer.
Calls(t) == ~args.parallel \/ t \in TakesPool

BuildTarget ==
  /\ Doing("build") /\ Quick /\ UNCHANGED <<ctx, saved, disk, hurt>>
  /\ configured' = IF Calls(obj[1]) THEN configured \cup {obj} ELSE configured
  /\ IF args.parallel /\ Calls(obj[1])
     THEN jobs' = jobs \cup {[of |-> obj, ctx |-> ctx]} /\ UNCHANGED binary
     ELSE /\ binary' = IF Calls(obj[1]) THEN [binary EXCEPT ![obj] = ctx] ELSE binary
          /\ UNCHANGED jobs

\* Slip: a finished job stays in the list the command waits for.
SlipJobDone(j) ==
  /\ status = "running" /\ j \in jobs
  /\ binary' = [binary EXCEPT ![j.of] = j.ctx]
  /\ UNCHANGED <<disk, configured, hurt, todo, stage, steps, memory, control>>

\* A process of the pool is done (BuildTarget of spec2006 starts one per target).
JobDone(j) ==
  /\ status = "running" /\ j \in jobs
  /\ jobs' = jobs \ {j} /\ binary' = [binary EXCEPT ![j.of] = j.ctx]
  /\ UNCHANGED <<disk, configured, hurt, todo, stage, steps, built, ctx, saved, control>>

\* Hooks change the binary in place; RunTarget leaves everything as it is.
Hooks == (Doing("hooks") \/ Doing("exec-hook")) /\ Quick /\ UNCHANGED <<ctx, saved, jobs, diskVars>>

\* A target that takes no pool is refused one; SPEC2006 (a target with a pool)
\* wants its config file, the others go to the directory of the binary.
Refused ==
  \/ ~Calls(obj[1])
  \/ IF obj[1] \in TakesPool THEN obj \notin configured ELSE binary[obj] = None
RunTarget == Doing("run") /\ ~Refused /\ Quick /\ UNCHANGED <<ctx, saved, jobs, diskVars>>

WaitAll == Doing("wait") /\ jobs = {} /\ Quick /\ UNCHANGED <<ctx, saved, jobs, diskVars>>

Fatal ==
  /\ Doing("fatal") \/ (Doing("run") /\ Refused)
  /\ EndAs("fatal") /\ UNCHANGED <<diskVars, boundVars>>

Work ==
  \/ Finish \/ StartFetch \/ StartOnce \/ SkipOnce \/ StartInstall \/ DoStep \/ FailStep
  \/ EndFetch \/ EndOnce \/ Env \/ Configure \/ Save \/ Restore \/ Clean \/ BuildTarget
  \/ Hooks \/ RunTarget \/ WaitAll \/ Fatal \/ \E j \in jobs : JobDone(j)

Next == Work \/ Interrupt \/ \E a \in Commands : Begin(a)
Spec == Init /\ [][Next]_vars /\ WF_vars(Work)

\* Properties -----------------------------------------------------------------------

\* While a package is built or installed, everything it depends on was built in
\* this command and is in the environment its build runs in.
DependenciesInEnv ==
  stage \in {"build", "install"} => ToSet(Deps(obj)) \subseteq ctx.env \cap built

\* What an undisturbed command makes of an empty directory; or nothing, when the
\* host's program will do.
CompleteResult == [p \in Package |-> Result(Installed(p))]
MarkedLast == {p \in Package : MarkerLast(p)}
Complete(p) ==
  \/ Result(disk[p]) = CompleteResult[p]
  \/ p \in System /\ ~Exists(disk[p], "install")

\* A package this command has dealt with is complete, whatever was rebuilt, cleaned
\* or interrupted before: the tests of the stages are right about the disk.  Only a
\* stage that was interrupted, of a package whose test can come true before the end
\* of a stage, can leave less.
UsedIsComplete ==
  status = "running" /\ args.dry_run = FALSE =>
    \A p \in built : Complete(p) \/ p \in hurt \ MarkedLast

\* The context of a binary is its instance and the packages of instance and target,
\* never what another instance, target or package left behind.
NoStacking ==
  LET Right(b) == [env |-> ToSet(Deps(b[1])) \cup ToSet(Deps(b[2])), configured |-> <<b[2]>>] IN
  /\ \A b \in DOMAIN binary : binary[b] \in {None, Right(b)}
  /\ \A j \in jobs : j.ctx = Right(j.of)

\* A command of an external program fails only where a stage was interrupted before:
\* sources are there when they are built, patches are not applied twice.
FailsOnlyAfterInterrupt == status = "failed" => hurt # {}

\* run --build runs binaries that are finished, in the environment of their own
\* instance and target, and the hooks a target runs itself find its binary built.
RunsFinishedBinary ==
  Doing("run") /\ ~Refused /\ args.build =>
    /\ binary[obj] # None /\ \A j \in jobs : j.of # obj
    /\ ctx = [env |-> ToSet(Deps(obj[1])) \cup ToSet(Deps(obj[2])), configured |-> <<>>]
HooksFindBinary ==
  Doing("hooks") /\ obj[1] \in RunsHooks /\ Calls(obj[1]) /\ ~args.relink => binary[obj] = ctx
BinariesReady == RunsFinishedBinary /\ HooksFindBinary

\* A build that ends well has built every target with every instance, if the
\* pool was given to targets that take it.
EverythingBuilt ==
  [][ /\ Finish /\ args.command = "build" /\ ~args.deps_only /\ ~args.dry_run /\ ~args.relink
      => \A b \in ToSet(args.targets) \X ToSet(args.instances) : Calls(b[1]) => binary[b] # None
    ]_vars

\* Every command ends.
CommandEnds == status = "running" ~> status # "running"

\* Within a command packages get ready in the order of their dependencies.
Order == INSTANCE BuildOrder WITH needs <- [p \in Package |-> ToSet(graph[p])], ready <- built
RefinesBuildOrder == Order!Spec
=============================================================================
