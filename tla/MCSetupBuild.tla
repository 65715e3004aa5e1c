---------------------------- MODULE MCSetupBuild ----------------------------
(***************************************************************************)
(* The set-up script of the skeleton with two of its instances, SPEC2006   *)
(* enabled, and a target that also needs packages of every other kind.     *)
(***************************************************************************)
EXTENDS SetupBuild

Yields ==
  [ libtool |-> <<>>, m4 |-> <<>>, binutils |-> <<>>, cmake |-> <<>>, python |-> <<>>,
    nothp |-> <<>>, autoconf |-> <<"m4">>, automake |-> <<"autoconf", "libtool">>,
    llvm |-> <<"binutils", "automake", "cmake">> ] @@
  ( "llvm-passes-builtin" :> <<"llvm">> ) @@
  ( "llvm-passes-skeleton" :> <<"llvm", "llvm-passes-builtin">> ) @@
  ( "hmboundscheck-runtime" :> <<>> ) @@
  ( "libcallcount-runtime" :> <<>> ) @@ ( "dhash-shared" :> <<>> ) @@
  [ gperftools |-> <<"automake", "libunwind">>, libunwind |-> <<>>, prelink |-> <<"libelf">>,
    libelf |-> <<>>, patchelf |-> <<>>, pyelftools |-> <<"python">>, specperl |-> <<"bash">>,
    bash |-> <<>>, ninja |-> <<>>, perlbrew |-> <<"specperl">>,
    libshrink |-> <<"prelink", "patchelf", "pyelftools">> ] @@
  ( "hello-world" :> <<>> ) @@
  ( "spec2006" :> <<"nothp">> ) @@
  ( "clang" :> <<"llvm">> ) @@
  ( "hmboundscheck" :> <<"llvm", "llvm-passes-skeleton", "hmboundscheck-runtime">> ) @@
  ( "shrunk" :> <<"libshrink", "gperftools">> ) @@
  ( "counting" :> <<"libcallcount-runtime", "dhash-shared">> )

PackageDef == DOMAIN Yields \ {"hello-world", "spec2006", "clang", "hmboundscheck", "shrunk", "counting"}

Build(ts, is, ps) ==
  [command |-> "build", targets |-> ts, instances |-> is, packages |-> ps, parallel |-> FALSE,
   deps_only |-> FALSE, clean |-> FALSE, force_rebuild_deps |-> FALSE, dry_run |-> FALSE,
   relink |-> FALSE, build |-> FALSE]

CommandsDef ==
  { Build(<<"hello-world">>, <<"counting", "clang">>, <<>>),
    [Build(<<"spec2006", "hello-world">>, <<"hmboundscheck", "counting">>, <<"llvm">>)
       EXCEPT !.parallel = TRUE],
    [Build(<<"hello-world">>, <<"counting">>, <<"llvm", "automake">>) EXCEPT !.clean = TRUE],
    [Build(<<>>, <<"clang">>, <<"prelink">>) EXCEPT !.force_rebuild_deps = TRUE],
    [Build(<<>>, <<"shrunk">>, <<>>) EXCEPT !.deps_only = TRUE],
    [Build(<<"spec2006">>, <<>>, <<>>) EXCEPT !.deps_only = TRUE],
    [Build(<<"spec2006">>, <<"shrunk">>, <<"perlbrew">>) EXCEPT !.dry_run = TRUE, !.clean = TRUE],
    [Build(<<"hello-world">>, <<"counting">>, <<>>) EXCEPT !.relink = TRUE],
    Build(<<"spec2006">>, <<>>, <<>>),
    [Build(<<"spec2006">>, <<>>, <<"libshrink">>) EXCEPT !.command = "clean"],
    [Build(<<"spec2006">>, <<"counting", "clang">>, <<>>)
       EXCEPT !.command = "run", !.build = TRUE, !.parallel = TRUE],
    [Build(<<"hello-world">>, <<"counting">>, <<>>) EXCEPT !.command = "run", !.parallel = TRUE],
    [Build(<<"hello-world">>, <<"clang">>, <<>>) EXCEPT !.command = "run"],
    [Build(<<"hello-world">>, <<"clang">>, <<>>) EXCEPT !.command = "exec-hook"] }

\* get_deps over every graph of three packages and two objects.
P3 == {"p", "q", "r"}
Lists == UNION {{s \in [1 .. n -> P3] : IsInjective(s)} : n \in 0 .. 2}
Graphs3 == {g @@ ("o" :> <<"p", "r">>) @@ ("u" :> <<"q">>) : g \in [P3 -> Lists]}

\* The list of dependencies of any objects names what they need, once, every
\* package after those it depends on; a cycle is reported, and only a cycle.
\* (Looked at once, before the first command.)
DependencyListsRight == commands = 0 => \A g \in Graphs3 : ListRight(g, <<"o", "u">>)
=============================================================================
