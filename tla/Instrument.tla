------------------------------ MODULE Instrument ------------------------------
(***************************************************************************)
(* How a program is connected to the runtime: the two passes the linker    *)
(* runs over the module (flags of setup.py), ReplaceAddressTakenMalloc and *)
(* then HMDHashPass.  The first gives every allocation function whose      *)
(* address is taken a wrapper that calls it directly; the second puts a    *)
(* check before every load and store and replaces direct calls.  The       *)
(* runtime is part of the module (it is linked as bitcode); its functions  *)
(* are told by the prefix of their names, and those without it are treated *)
(* like the program's.                                                     *)
(*                                                                         *)
(* An instruction is what it does and the function it mentions: as its     *)
(* callee, as a callee under a cast (a constant expression), or as another *)
(* operand.  It keeps the number it had before the passes.  A name is its  *)
(* prefix, if it has one of those the passes give or tell, and the rest.   *)
(***************************************************************************)
EXTENDS Naturals, Sequences

CONSTANTS
  Name,       \* what a name may be, without its prefix
  Programs    \* the bodies of the program's function, main

ASSUME NameAssumption ==
  {"", "main", "malloc", "valloc", "calloc", "realloc", "reallocf", "free", "memalign",
   "posix_memalign", "malloc_usable_size", "checkMemoryAccess", "registerAddr", "removeAddr"}
    \subseteq Name

Plain(n)   == [prefix |-> "", name |-> n]
Wrapper(f) == [prefix |-> "__wrap.", name |-> f.name]
Dlib(f)    == [prefix |-> "__noinstrument_Dlib_", name |-> f.name]
check      == [prefix |-> "__noinstrument_", name |-> "checkMemoryAccess"]
main       == Plain("main")
None       == Plain("")

Instr(op, f, use) == [op |-> op, f |-> f, use |-> use]
Load == Instr("load", None, "")
Store == Instr("store", None, "")
Call(f) == Instr("call", f, "callee")

\* A callee is one of a call; the names in a program have none of the prefixes.
Operation == {"load", "store", "call", "other"}
Use == {"", "callee", "cast", "operand"}
ASSUME ProgramsAssumption ==
  \A p \in Programs :
    /\ p \in Seq([op : Operation, f : [prefix : {""}, name : Name], use : Use])
    /\ \A k \in DOMAIN p : p[k].use = "callee" => p[k].op = "call"

VARIABLES
  source,    \* the module before the passes
  code,      \* [function -> sequence of instructions]
  pass,      \* "find", "wrap", "instrument", "done"
  todo,      \* the functions it still has to go through
  current,   \* the one it works on, None if none
  work       \* WorkList: the numbers of the instructions to be rewritten

vars == <<source, code, pass, todo, current, work>>

\* The functions of the runtime that matter here: they access memory and call the
\* allocation functions of the C library.
Libc(n) == Call(Plain(n))
Own(n) == Call(Dlib(Plain(n)))
runtimeNames == {Dlib(Plain("malloc")), Dlib(Plain("realloc")), Dlib(Plain("calloc")),
                 Dlib(Plain("memalign")), Dlib(Plain("free")), check}

\* Some have no NOINSTRUMENT: to the passes they are functions of the program.
programNames == {main, Plain("registerAddr"), Plain("removeAddr")}

runtime ==
  [fn \in runtimeNames \cup programNames |->
     CASE fn.name = "malloc" -> <<Load, Libc("malloc"), Store>>
       [] fn.name = "realloc" -> <<Own("malloc"), Own("free")>>
       [] fn.name = "calloc" -> <<Own("malloc")>>
       [] fn.name = "memalign" -> <<Libc("posix_memalign"), Libc("free")>>
       [] fn.name = "free" -> <<Libc("free")>>
       [] fn.name = "registerAddr" -> <<Store>>
       [] fn.name = "removeAddr" -> <<Libc("malloc_usable_size"), Store>>
       [] OTHER -> <<Load>>]

isNoInstrument(fn) == fn.prefix \in {"__noinstrument_", "__noinstrument_Dlib_"}

\* The tables of Allocation.cpp, as far as programs here use them.
isAllocationFunc(f) ==
  f \in {Plain("malloc"), Plain("valloc"), Plain("calloc"), Plain("realloc"), Plain("reallocf")}
isFreeFunc(f) == f = Plain("free")

\* The direct calls HMDHashPass replaces, and those whose name begins like theirs.
Replaced == {Plain("malloc"), Plain("realloc"), Plain("calloc"), Plain("free"), Plain("memalign")}
Collected == Replaced \cup {Plain("malloc_usable_size"), Plain("reallocf"), Plain("freeaddrinfo")}

Numbered(body) == [k \in DOMAIN body |-> [op |-> body[k].op, f |-> body[k].f,
                                          use |-> body[k].use, id |-> k]]

Init ==
  /\ \E p \in Programs :
       source = [fn \in programNames \cup runtimeNames |->
                   Numbered(IF fn = main THEN p ELSE runtime[fn])]
  /\ code = source
  /\ pass = "find" /\ todo = {} /\ current = None /\ work = {}

\* ReplaceAddressTakenMalloc ---------------------------------------------------------

Takes(i, f) == i.f = f /\ i.use # "callee"
hasAddressTaken(f) == \E fn \in DOMAIN code : \E k \in DOMAIN code[fn] : Takes(code[fn][k], f)

Mentioned == UNION {{code[fn][k].f : k \in DOMAIN code[fn]} : fn \in DOMAIN code}

\* Slip: only the functions that allocate.
SlipWrapFunctions == {f \in Mentioned : hasAddressTaken(f) /\ isAllocationFunc(f)}
WrapFunctions == {f \in Mentioned : hasAddressTaken(f) /\ (isAllocationFunc(f) \/ isFreeFunc(f))}

Find ==
  /\ pass = "find" /\ pass' = "wrap"
  /\ todo' = WrapFunctions /\ UNCHANGED <<source, code, current, work>>

makeWrapper(f) ==
  /\ pass = "wrap" /\ current = None /\ f \in todo
  /\ code' = [fn \in DOMAIN code \cup {Wrapper(f)} |->
                IF fn = Wrapper(f) THEN Numbered(<<Call(f)>>) ELSE code[fn]]
  /\ current' = f /\ todo' = todo \ {f} /\ UNCHANGED <<source, pass, work>>

\* One user of the address after the other.
ReplaceUse ==
  /\ pass = "wrap" /\ current # None
  /\ \E fn \in DOMAIN code : \E k \in DOMAIN code[fn] :
       /\ Takes(code[fn][k], current)
       /\ code' = [code EXCEPT ![fn][k].f = Wrapper(current)]
  /\ UNCHANGED <<source, pass, todo, current, work>>

AllUsesReplaced ==
  /\ pass = "wrap" /\ current # None /\ ~hasAddressTaken(current)
  /\ current' = None /\ UNCHANGED <<source, code, pass, todo, work>>

\* HMDHashPass -----------------------------------------------------------------------

\* Slip: the check's own name has no prefix, so it is instrumented, too.
SlipInstrumented == {fn \in DOMAIN code : ~isNoInstrument(fn) \/ fn = check}
Instrumented == {fn \in DOMAIN code : ~isNoInstrument(fn)}

NextPass ==
  /\ pass = "wrap" /\ current = None /\ todo = {}
  /\ pass' = "instrument" /\ todo' = Instrumented
  /\ UNCHANGED <<source, code, current, work>>

IsAccess(i) == i.op \in {"load", "store"}
getCalledFunction(i) == IF i.op = "call" /\ i.use = "callee" THEN i.f ELSE None

\* The work list is complete before the first instruction changes.
Collect(fn) ==
  /\ pass = "instrument" /\ current = None /\ fn \in todo
  /\ LET Listed(i) == IsAccess(i) \/ getCalledFunction(i) \in Collected
     IN work' = {code[fn][k].id : k \in {n \in DOMAIN code[fn] : Listed(code[fn][n])}}
  /\ current' = fn /\ todo' = todo \ {fn} /\ UNCHANGED <<source, code, pass>>

\* What takes the place of an instruction: the check goes before an access; a call is
\* replaced when its name is the whole name.
CheckOf(i) == [op |-> "check", f |-> check, use |-> "callee", id |-> i.id]
Rewritten(i) ==
  IF IsAccess(i) THEN <<CheckOf(i), i>>
  ELSE IF i.f \in Replaced THEN <<[i EXCEPT !.f = Dlib(i.f)]>> ELSE <<i>>

\* The first of the work list.
Rewrite ==
  /\ pass = "instrument"
  /\ \E n \in work :
       /\ \A m \in work : n <= m
       /\ work' = work \ {n}
       /\ LET body == code[current]
              k == CHOOSE j \in DOMAIN body : body[j].id = n /\ body[j].op # "check"
          IN code' = [code EXCEPT ![current] = SubSeq(body, 1, k - 1) \o Rewritten(body[k])
                                                 \o SubSeq(body, k + 1, Len(body))]
  /\ UNCHANGED <<source, pass, todo, current>>

EndFunction ==
  /\ pass = "instrument" /\ current # None /\ work = {}
  /\ current' = None /\ UNCHANGED <<source, code, pass, todo, work>>

Finish ==
  /\ pass = "instrument" /\ current = None /\ todo = {}
  /\ pass' = "done" /\ UNCHANGED <<source, code, todo, current, work>>

Next ==
  \/ Find \/ ReplaceUse \/ AllUsesReplaced \/ NextPass \/ Rewrite \/ EndFunction \/ Finish
  \/ \E f \in todo : makeWrapper(f) \/ Collect(f)

Spec == Init /\ [][Next]_vars

\* Properties --------------------------------------------------------------------------

\* Without the checks, a function has the instructions it was written with, in order.
Kept(c) == {k \in DOMAIN c : c[k].op # "check"}
Written(fn) == IF fn \in DOMAIN source THEN source[fn] ELSE Numbered(<<Call(Plain(fn.name))>>)
InOrder(fn) ==
  LET c == code[fn] IN
  /\ \A k \in Kept(c) : c[k].id \in DOMAIN Written(fn) /\ c[k].op = Written(fn)[c[k].id].op
  /\ \A n \in DOMAIN Written(fn) : \E k \in Kept(c) : c[k].id = n
  /\ \A j, k \in Kept(c) : j < k => c[j].id < c[k].id

\* Every access of the program is checked, at the access and once; the order of its
\* instructions stays; and the functions with the runtime's prefix are left as they are,
\* since a check in them would call itself, and a wrapper its own allocation.
AccessesChecked ==
  pass = "done" =>
    \A fn \in DOMAIN code :
      IF isNoInstrument(fn) THEN code[fn] = source[fn]
      ELSE LET c == code[fn]
               Checks(k, i) == k \in DOMAIN c /\ c[k].op = "check" /\ c[k].id = i.id
           IN /\ \A k \in DOMAIN c : IsAccess(c[k]) => Checks(k - 1, c[k])
              /\ \A k \in DOMAIN c : c[k].op = "check" => k + 1 \in DOMAIN c /\ IsAccess(c[k + 1])
              /\ InOrder(fn)

\* Where a call of f ends, through its wrapper if it has one.
Ends(f) == IF f.prefix = "__wrap." THEN code[f][1].f ELSE f
Original(id) == source[main][id]

\* The calls the runtime takes over.
TakenOver(f, use) ==
  \/ f \in {Plain("malloc"), Plain("calloc"), Plain("realloc"), Plain("free")}
  \/ f = Plain("memalign") /\ use = "callee"

\* The runtime gets every malloc, calloc, realloc and free, whether the program calls them
\* by name, under a cast or through a pointer, so that blocks of these are freed by the
\* library they came from.  Of memalign it gets direct calls only (Allocation.cpp does not
\* list it, so its address has no wrapper), of valloc nothing ("Might need something for
\* posix_memalign", HMDHashPass.cpp:71): such blocks are the C library's, and a free of
\* one ends in Dlib_free.
CallsTakenOver ==
  pass = "done" =>
    \A k \in DOMAIN code[main] :
      LET i == code[main][k]
          f == Original(i.id).f
      IN i.op # "check" => Ends(i.f) = IF TakenOver(f, i.use) THEN Dlib(f) ELSE f
=============================================================================
