------------------------------ MODULE Recipes -------------------------------
(***************************************************************************)
(* What the packages of infra/packages do to the disk, and how they tell   *)
(* from the disk that a stage is done.                                     *)
(*                                                                         *)
(* A package's directory build/packages/<ident> is reduced to the files    *)
(* its three tests look at: src (is_fetched), obj (is_built) and install   *)
(* (is_installed), and to what else a stage decides on (makefile, and the  *)
(* stamps of apply_patch).  A file is the set of ingredients that went     *)
(* into it; no ingredient: the file does not exist.  Commands that leave   *)
(* a file complete or not at all (unpacking elsewhere and moving, make and *)
(* its targets) are one step.                                              *)
(***************************************************************************)
EXTENDS Naturals, Sequences, SequencesExt

CONSTANT System   \* the programs the host has, in the right version

File == {"src", "obj", "install", "makefile", "stamp"}
Empty == [f \in File |-> {}]
Exists(d, f) == d[f] # {}

\* Steps ------------------------------------------------------------------------

Step(act, to, from, what) == [act |-> act, to |-> to, from |-> from, what |-> what]
Put(f, what) == Step("put", f, f, what)           \* add to a file, create it
Become(f, what) == Step("become", f, f, what)     \* replace a file, {} removes it
Make(to, from) == Step("make", to, from, {})      \* produce a file from another
Clone(what) == Step("clone", "src", "src", what)  \* git clone: not into a directory
Patch(x) == Step("patch", "src", "src", {x})      \* patch -p1: not a second time
Require(x) == Step("require", "src", "src", {x})  \* needs a program of the host

Possible(s, d) ==
  /\ s.act = "make" => Exists(d, s.from)
  /\ s.act = "clone" => ~Exists(d, "src")
  /\ s.act = "patch" => Exists(d, "src") /\ s.what \cap d.src = {}
  /\ s.act = "require" => s.what \subseteq System

Effect(s, d) ==
  CASE s.act \in {"put", "clone", "patch"} -> [d EXCEPT ![s.to] = @ \cup s.what]
    [] s.act = "become" -> [d EXCEPT ![s.to] = s.what]
    [] s.act = "make" -> [d EXCEPT ![s.to] = d[s.from]]
    [] s.act = "require" -> d

apply_patch(d, x) == IF x \in d.stamp THEN <<>> ELSE <<Patch(x), Put("stamp", {x})>>

\* Packages, as a function of what their directory holds --------------------------

Files(d, fetch, build, install) ==
  [fetch |-> fetch, build |-> build, install |-> install,
   is_fetched |-> Exists(d, "src"), is_built |-> Exists(d, "obj"),
   is_installed |-> Exists(d, "install")]

\* Download, unpack, move to src; configure and make in obj; make install.
SourcePackage(d, name) ==
  Files(d, <<Put("src", {name})>>, <<Make("obj", "src")>>, <<Make("install", "obj")>>)

GNUTarPackage(d, name) == SourcePackage(d, name)

\* Bash, Make and CMake are content with the host's program.
OrSystem(recipe, name) == [recipe EXCEPT !.is_installed = @ \/ name \in System]
Bash(d) == OrSystem(GNUTarPackage(d, "bash"), "bash")
MakePackage(d) == OrSystem(GNUTarPackage(d, "make"), "make")
CMake(d) == OrSystem(SourcePackage(d, "cmake"), "cmake")

Ninja(d) == SourcePackage(d, "ninja")
PatchElf(d) == SourcePackage(d, "patchelf")
LibUnwind(d) == SourcePackage(d, "libunwind")

\* The .m4 files of libtool are linked after the installation.
AutoMake(d) ==
  [GNUTarPackage(d, "automake") EXCEPT !.install = Append(@, Put("install", {"libtool.m4"}))]

\* No build without bison.  make install installs ld; with gold it is then replaced by
\* a copy of ld.gold.
BinUtils(d) ==
  [SourcePackage(d, "binutils") EXCEPT
     !.build = <<Require("bison")>> \o @,
     !.install = @ \o <<Become("install", {}), Become("install", {"binutils", "gold"})>>]

\* Two downloads: clang goes into src/tools/clang.  As it is patched, the host's LLVM
\* does not do.
LLVM(d) ==
  Files(d, <<Put("src", {"llvm"}), Put("src", {"clang"})>>,
           apply_patch(d, "gold-plugins") \o <<Make("obj", "src")>>, <<Make("install", "obj")>>)

Perl(d) == SourcePackage(d, "perl")

\* Patched after src exists; the makefiles are edited after Configure made them.
SPECPerl(d) ==
  Files(d, <<Put("src", {"perl"})>> \o apply_patch(d, "makedepend")
             \o apply_patch(d, "pagesize") \o apply_patch(d, "Configure-paths"),
           (IF Exists(d, "makefile") THEN <<>>
            ELSE <<Put("makefile", {"Configure"}), Put("makefile", {"sed"})>>)
             \o <<Make("obj", "src")>>,
           <<Make("install", "obj")>>)

\* Nothing is built: the installer is downloaded, edited and run.
Perlbrew(d) ==
  [Files(d, <<Put("src", {"installer"}), Put("src", {"local perl"})>>, <<>>,
            <<Make("install", "src")>>) EXCEPT !.is_built = TRUE]

LibElf(d) ==
  [SourcePackage(d, "libelf") EXCEPT
     !.fetch = @ \o apply_patch(d, "prelink") \o apply_patch(d, "hash-prelink")]
Prelink(d) == [SourcePackage(d, "prelink") EXCEPT !.fetch = @ \o apply_patch(d, "execstack")]

\* A clone, then a checkout of the commit that was asked for.
Checkout == <<Clone({"master"}), Become("src", {"commit"})>>
Gperftools(d) == [SourcePackage(d, "gperftools") EXCEPT !.fetch = Checkout]
LibShrink(d) ==
  [Files(d, Checkout, <<Make("obj", "src")>>, <<>>) EXCEPT !.is_installed = Exists(d, "obj")]
PyElfTools(d) == [SourcePackage(d, "pyelftools") EXCEPT !.fetch = <<Clone({"pyelftools"})>>]

\* Not installed by the infrastructure: fetch fails when the host has none.
Python(d) ==
  [fetch |-> <<Require("python")>>, build |-> <<>>, install |-> <<>>,
   is_fetched |-> FALSE, is_built |-> FALSE, is_installed |-> "python" \in System]

\* The sources are part of the repository: nothing to fetch.
Tool(d, name) ==
  [Files(d, <<>>, <<Put("obj", {name})>>, <<Make("install", "obj")>>) EXCEPT !.is_fetched = TRUE]
BuiltinLLVMPasses(d) == Tool(d, "builtin passes")

\* Made on every command: make finds out what is to be done.
LLVMPasses(d) == [Tool(d, "passes") EXCEPT !.is_built = FALSE, !.is_installed = FALSE]
DHashRuntime(d) ==
  [Tool(d, "dhash") EXCEPT !.install = <<>>, !.is_built = FALSE, !.is_installed = FALSE]
HMBoundsCheckRuntime(d) ==
  [Tool(d, "hmboundscheck") EXCEPT !.install = <<>>, !.is_built = FALSE, !.is_installed = FALSE]

\* The counter, and both runtimes in the set-up script of the evaluation, are shared
\* libraries that are looked for where make puts them.
SharedLibrary(d, name) ==
  [Tool(d, name) EXCEPT !.install = <<>>, !.is_installed = Exists(d, "obj")]
LibcallCounterRuntime(d) == SharedLibrary(d, "count.so")
DHashShared(d) == SharedLibrary(d, "dhash.so")
HMBoundsCheckShared(d) == SharedLibrary(d, "hmboundscheck.so")

\* The target: src holds the tar file's contents until install.sh is done.
SPEC2006(d) ==
  [Files(d, <<Put("src", {"spec2006"}), Make("install", "src"), Become("src", {})>>, <<>>, <<>>)
    EXCEPT !.is_fetched = Exists(d, "install")]
HelloWorld(d) == [Files(d, <<>>, <<>>, <<>>) EXCEPT !.is_fetched = TRUE]

recipe(p, d) ==
  CASE p = "bash" -> Bash(d)           [] p = "make" -> MakePackage(d)
    [] p = "cmake" -> CMake(d)         [] p = "ninja" -> Ninja(d)
    [] p = "automake" -> AutoMake(d)   [] p = "binutils" -> BinUtils(d)
    [] p = "llvm" -> LLVM(d)           [] p = "patchelf" -> PatchElf(d)
    [] p = "perl" -> Perl(d)           [] p = "specperl" -> SPECPerl(d)
    [] p = "perlbrew" -> Perlbrew(d)   [] p = "libelf" -> LibElf(d)
    [] p = "prelink" -> Prelink(d)     [] p = "libunwind" -> LibUnwind(d)
    [] p = "gperftools" -> Gperftools(d)     [] p = "libshrink" -> LibShrink(d)
    [] p = "pyelftools" -> PyElfTools(d)     [] p = "python" -> Python(d)
    [] p = "nothp" -> Tool(d, "nothp")       [] p = "benchmark-utils" -> Tool(d, "butils")
    [] p = "llvm-passes-builtin" -> BuiltinLLVMPasses(d)
    [] p = "llvm-passes-skeleton" -> LLVMPasses(d)
    [] p = "libcallcount-runtime" -> LibcallCounterRuntime(d)
    [] p = "dhash-runtime" -> DHashRuntime(d)
    [] p = "hmboundscheck-runtime" -> HMBoundsCheckRuntime(d)
    [] p = "dhash-shared" -> DHashShared(d)
    [] p = "hmboundscheck-shared" -> HMBoundsCheckShared(d)
    [] p = "spec2006" -> SPEC2006(d)         [] p = "hello-world" -> HelloWorld(d)
    [] OTHER -> GNUTarPackage(d, p)

\* What an undisturbed command makes of an empty directory -------------------------

RunAll(steps, d) == FoldLeft(LAMBDA x, s : Effect(s, x), d, steps)
Fetched(p) == RunAll(recipe(p, Empty).fetch, Empty)
Built(p) == RunAll(recipe(p, Fetched(p)).build, Fetched(p))
Installed(p) == RunAll(recipe(p, Built(p)).install, Built(p))

\* What a package is used for: what was configured, built and installed.
Result(d) == <<d.makefile, d.obj, d.install>>

\* A stage's test becomes true with the stage's last step and not before.
MarkerLast(p) ==
  LET Early(steps, d) == {RunAll(SubSeq(steps, 1, n), d) : n \in 1 .. Len(steps) - 1} IN
  /\ \A d \in Early(recipe(p, Empty).fetch, Empty) : ~recipe(p, d).is_fetched
  /\ \A d \in Early(recipe(p, Fetched(p)).build, Fetched(p)) : ~recipe(p, d).is_built
  /\ \A d \in Early(recipe(p, Built(p)).install, Built(p)) : ~recipe(p, d).is_installed
=============================================================================
