--------------------------- MODULE InstrumentProofs ---------------------------
(***************************************************************************)
(* What the two passes make of a program, for every program: its accesses  *)
(* are checked, each once and at its place, and which of its calls the     *)
(* runtime takes over.                                                     *)
(***************************************************************************)
EXTENDS Instrument, Integers, TLAPS

\* The functions with a wrapper, if their address is taken.
Allocators == {Plain("malloc"), Plain("valloc"), Plain("calloc"), Plain("realloc"),
               Plain("reallocf"), Plain("free")}
Wrappers == {Wrapper(f) : f \in Allocators}

\* The functions that are not the runtime's: the program's own, and the wrappers.
Users == DOMAIN code \ runtimeNames

\* The instructions of a function that are still as they were written.
Waiting(fn) == pass \in {"find", "wrap"} \/ (pass = "instrument" /\ fn \in todo)
Pending(fn) ==
  IF Waiting(fn) THEN DOMAIN Written(fn)
  ELSE IF pass = "instrument" /\ fn = current THEN work ELSE {}

\* The addresses of f that are taken have still to be replaced.
Open(f) == pass = "find" \/ (pass = "wrap" /\ f \in todo \cup {current})

Names == [prefix : {"", "__wrap.", "__noinstrument_", "__noinstrument_Dlib_"}, name : Name]
Items == [op : Operation \cup {"check"}, f : Names, use : Use, id : Nat]

\* The instructions of a function of the program, as they were written.
WrittenOK(s) ==
  /\ s \in Seq(Items)
  /\ \A k \in DOMAIN s : /\ s[k].id = k /\ s[k].op # "check" /\ s[k].f.prefix = ""
                         /\ s[k].use = "callee" => s[k].op = "call"

SourceOK ==
  /\ DOMAIN source = programNames \cup runtimeNames
  /\ \A fn \in programNames : WrittenOK(source[fn])
  /\ \A fn \in runtimeNames :
       /\ source[fn] \in Seq(Items)
       /\ \A k \in DOMAIN source[fn] : source[fn][k].use = "callee" \/ source[fn][k].f = None

CodeOK ==
  /\ programNames \cup runtimeNames \subseteq DOMAIN code
  /\ DOMAIN code \subseteq programNames \cup runtimeNames \cup Wrappers
  /\ \A fn \in DOMAIN code : code[fn] \in Seq(Items)
  /\ \A fn \in runtimeNames : code[fn] = source[fn]

PassOK ==
  /\ pass \in {"find", "wrap", "instrument", "done"}
  /\ pass \in {"find", "wrap"} => work = {}
  /\ pass = "find" => current = None
  /\ pass = "wrap" => /\ todo \subseteq Allocators /\ current \in Allocators \cup {None}
                      /\ current # None => Wrapper(current) \in DOMAIN code
  /\ pass = "instrument" =>
       /\ todo \subseteq Users /\ current \in Users \cup {None} /\ current \notin todo
       /\ current # None => \A n \in work :
            /\ n \in DOMAIN Written(current)
            /\ IsAccess(Written(current)[n]) \/ Written(current)[n].use = "callee"
       /\ current = None => work = {}

\* The checks there are belong to the accesses that have been rewritten.
ChecksOK(fn) ==
  /\ \A k \in DOMAIN code[fn] : code[fn][k].op = "check" =>
       /\ k + 1 \in DOMAIN code[fn] /\ IsAccess(code[fn][k + 1])
       /\ code[fn][k + 1].id = code[fn][k].id /\ code[fn][k].id \notin Pending(fn)
       /\ code[fn][k].use = "callee"
  /\ \A k \in DOMAIN code[fn] : IsAccess(code[fn][k]) /\ code[fn][k].id \notin Pending(fn) =>
       /\ k - 1 \in DOMAIN code[fn] /\ code[fn][k - 1].op = "check"
       /\ code[fn][k - 1].id = code[fn][k].id

\* The function an instruction mentions, by the one it mentioned when it was written.
NameOK(fn, i) ==
  LET w == Written(fn)[i.id] IN
  /\ i.use = w.use
  /\ w.use = "callee" =>
       i.f = IF w.f \in Replaced /\ i.id \notin Pending(fn) THEN Dlib(w.f) ELSE w.f
  /\ w.use # "callee" =>
       \/ i.f = w.f /\ (w.f \in Allocators => Open(w.f))
       \/ w.f \in Allocators /\ i.f = Wrapper(w.f) /\ Wrapper(w.f) \in DOMAIN code
NamesOK(fn) == \A k \in Kept(code[fn]) : NameOK(fn, code[fn][k])

BodyOK(fn) == InOrder(fn) /\ ChecksOK(fn) /\ NamesOK(fn)

IInv == SourceOK /\ CodeOK /\ PassOK /\ \A fn \in Users : BodyOK(fn)

\* Names and functions ------------------------------------------------------------------

\* What is in a name.
LEMMA NameParts ==
  /\ \A n : Plain(n).prefix = "" /\ Plain(n).name = n
  /\ \A f : Wrapper(f).prefix = "__wrap." /\ Wrapper(f).name = f.name
  /\ \A f : Dlib(f).prefix = "__noinstrument_Dlib_" /\ Dlib(f).name = f.name
  /\ check.prefix = "__noinstrument_" /\ check.name = "checkMemoryAccess"
  /\ \A n \in Name : Plain(n) \in Names
  /\ \A f \in Names : Wrapper(f) \in Names /\ Dlib(f) \in Names
  /\ check \in Names /\ main = Plain("main") /\ None = Plain("")
<1>1. /\ \A n : Plain(n).prefix = "" /\ Plain(n).name = n
      /\ \A f : Wrapper(f).prefix = "__wrap." /\ Wrapper(f).name = f.name
      /\ \A f : Dlib(f).prefix = "__noinstrument_Dlib_" /\ Dlib(f).name = f.name
      /\ check.prefix = "__noinstrument_" /\ check.name = "checkMemoryAccess"
  BY DEF Plain, Wrapper, Dlib, check
<1>2. ASSUME NEW n \in Name PROVE Plain(n) \in Names
  BY DEF Plain, Names
<1>3. ASSUME NEW f \in Names PROVE Wrapper(f) \in Names /\ Dlib(f) \in Names
  BY DEF Wrapper, Dlib, Names
<1>4. check \in Names
  BY NameAssumption DEF check, Names
<1> QED
  BY <1>1, <1>2, <1>3, <1>4 DEF main, None

\* The prefixes keep the functions apart.
LEMMA Prefixes ==
  /\ main \in programNames /\ programNames \cap (runtimeNames \cup Wrappers) = {}
  /\ None \notin programNames \cup runtimeNames \cup Wrappers /\ None \notin Allocators
  /\ \A f \in Allocators : /\ Plain(Wrapper(f).name) = f /\ Wrapper(f) \notin runtimeNames
                           /\ f.prefix = "" /\ Wrapper(f) \notin programNames /\ f \in Names
  /\ \A fn \in runtimeNames : isNoInstrument(fn)
  /\ \A fn \in programNames \cup Wrappers : ~isNoInstrument(fn)
  /\ main # None
<1>1. /\ \A fn \in runtimeNames : fn.prefix \in {"__noinstrument_", "__noinstrument_Dlib_"}
      /\ \A fn \in Wrappers : fn.prefix = "__wrap."
  BY NameParts DEF runtimeNames, Wrappers
<1>2. /\ main.prefix = "" /\ None.prefix = "" /\ main.name = "main" /\ None.name = ""
      /\ main \in programNames /\ \A fn \in programNames : fn.prefix = "" /\ fn.name # ""
  BY NameParts DEF programNames
<1>3. /\ \A f \in Allocators : Plain(f.name) = f /\ f.prefix = "" /\ f \in Names
      /\ None \notin Allocators
  <2>1. \A n \in Name : /\ Plain(Plain(n).name) = Plain(n) /\ Plain(n).prefix = ""
                        /\ Plain(n) \in Names /\ (n # "" => Plain(n) # None)
    BY <1>2, NameParts, ZenonT(30)
  <2>2. \A f \in Allocators : \E n \in Name : f = Plain(n) /\ n # ""
    BY NameAssumption DEF Allocators
  <2> QED
    BY <2>1, <2>2
<1>4. \A f \in Allocators : Wrapper(f) \in Wrappers /\ Plain(Wrapper(f).name) = f
  BY <1>3, NameParts DEF Wrappers
<1> QED
  BY <1>1, <1>2, <1>3, <1>4 DEF isNoInstrument

\* The functions that the first pass wraps are the allocators.
LEMMA WrapsAllocators == \A f : isAllocationFunc(f) \/ isFreeFunc(f) <=> f \in Allocators
BY DEF isAllocationFunc, isFreeFunc, Allocators

\* What a wrapper is written as.
LEMMA WrapperIs ==
  ASSUME SourceOK, NEW f \in Allocators
  PROVE  /\ Written(Wrapper(f)) = Numbered(<<Call(f)>>)
         /\ Numbered(<<Call(f)>>) = <<[op |-> "call", f |-> f, use |-> "callee", id |-> 1]>>
         /\ WrittenOK(Numbered(<<Call(f)>>))
<1>1. Wrapper(f) \notin DOMAIN source /\ Plain(Wrapper(f).name) = f
  BY Prefixes DEF SourceOK
<1>2. Written(Wrapper(f)) = Numbered(<<Call(f)>>)
  BY <1>1 DEF Written
<1>3. Numbered(<<Call(f)>>) = <<[op |-> "call", f |-> f, use |-> "callee", id |-> 1]>>
  BY DEF Numbered, Call, Instr
<1>4. f \in Names /\ f.prefix = ""
  BY Prefixes
<1>5. [op |-> "call", f |-> f, use |-> "callee", id |-> 1] \in Items
  BY <1>4 DEF Items, Operation, Use
<1>6. WrittenOK(<<[op |-> "call", f |-> f, use |-> "callee", id |-> 1]>>)
  <2> DEFINE i == [op |-> "call", f |-> f, use |-> "callee", id |-> 1]
  <2>1. i.op = "call" /\ i.f = f /\ i.id = 1 /\ i \in Items
    BY <1>5
  <2> HIDE DEF i
  <2>2. <<i>> \in Seq(Items) /\ \A k \in DOMAIN <<i>> : k = 1 /\ <<i>>[k] = i
    BY <2>1
  <2>3. WrittenOK(<<i>>)
    BY <1>4, <2>1, <2>2 DEF WrittenOK
  <2> QED
    BY <2>3 DEF i
<1> QED
  BY <1>2, <1>3, <1>6

\* Every function of the program is written as a program may be.
LEMMA UserWritten ==
  ASSUME SourceOK, CodeOK, NEW fn \in Users
  PROVE  /\ WrittenOK(Written(fn))
         /\ fn \in programNames \/ \E f \in Allocators : fn = Wrapper(f)
<1>1. fn \in programNames \/ \E f \in Allocators : fn = Wrapper(f)
  BY DEF Users, CodeOK, Wrappers
<1>2. CASE fn \in programNames
  BY <1>2 DEF Written, SourceOK
<1>3. CASE \E f \in Allocators : fn = Wrapper(f)
  BY <1>3, WrapperIs
<1> QED
  BY <1>1, <1>2, <1>3

\* The beginning ------------------------------------------------------------------------

\* The numbered instructions of a body.
LEMMA NumberedBody ==
  ASSUME NEW S, S \subseteq [op : Operation, f : Names, use : Use], NEW s \in Seq(S)
  PROVE  /\ Numbered(s) \in Seq(Items) /\ DOMAIN Numbered(s) = DOMAIN s
         /\ \A k \in DOMAIN s : /\ Numbered(s)[k].op = s[k].op /\ Numbered(s)[k].f = s[k].f
                                /\ Numbered(s)[k].use = s[k].use /\ Numbered(s)[k].id = k
<1>1. DOMAIN s = 1 .. Len(s) /\ Len(s) \in Nat /\ \A k \in DOMAIN s : s[k] \in S
  OBVIOUS
<1>2. \A k \in DOMAIN s : s[k] \in [op : Operation, f : Names, use : Use] /\ k \in Nat
  BY <1>1
<1>3. DOMAIN Numbered(s) = DOMAIN s
  BY DEF Numbered
<1>4. \A k \in DOMAIN s :
        Numbered(s)[k] = [op |-> s[k].op, f |-> s[k].f, use |-> s[k].use, id |-> k]
  BY DEF Numbered
<1>5. ASSUME NEW k \in DOMAIN s PROVE Numbered(s)[k] \in Items
  <2> DEFINE i == [op |-> s[k].op, f |-> s[k].f, use |-> s[k].use, id |-> k]
  <2>1. s[k].op \in Operation /\ s[k].f \in Names /\ s[k].use \in Use /\ k \in Nat
    BY <1>2
  <2>2. i \in Items
    BY <2>1 DEF Items
  <2> QED
    BY <1>4, <2>2
<1>6. Numbered(s) = [k \in 1 .. Len(s) |-> Numbered(s)[k]]
  BY <1>1 DEF Numbered
<1>7. Numbered(s) \in Seq(Items)
  BY <1>1, <1>5, <1>6
<1> QED
  BY <1>3, <1>4, <1>7

\* The functions of the runtime mention others only to call them.
LEMMA RuntimeCalls ==
  \A fn \in runtimeNames :
    /\ Numbered(runtime[fn]) \in Seq(Items)
    /\ \A k \in DOMAIN Numbered(runtime[fn]) :
         Numbered(runtime[fn])[k].use = "callee" \/ Numbered(runtime[fn])[k].f = None
<1> DEFINE Calls == {i \in [op : Operation, f : Names, use : Use] : i.use = "callee" \/ i.f = None}
<1>1. /\ Load \in Calls /\ Store \in Calls
      /\ \A n \in Name : Libc(n) \in Calls /\ Own(n) \in Calls
  <2>1. None \in Names /\ \A n \in Name : Plain(n) \in Names /\ Dlib(Plain(n)) \in Names
    BY NameParts, NameAssumption
  <2>2. Load \in Calls /\ Store \in Calls
    BY <2>1 DEF Load, Store, Instr, Operation, Use
  <2>3. ASSUME NEW n \in Name PROVE Libc(n) \in Calls /\ Own(n) \in Calls
    BY <2>1, <2>3 DEF Libc, Own, Call, Instr, Operation, Use
  <2> QED
    BY <2>2, <2>3
<1> HIDE DEF Calls
<1>2. /\ \A a \in Calls : <<a>> \in Seq(Calls)
      /\ \A a, b \in Calls : <<a, b>> \in Seq(Calls)
      /\ \A a, b, c \in Calls : <<a, b, c>> \in Seq(Calls)
  OBVIOUS
<1>3. /\ Libc("malloc") \in Calls /\ Libc("posix_memalign") \in Calls /\ Libc("free") \in Calls
      /\ Own("malloc") \in Calls /\ Own("free") \in Calls
  BY <1>1, NameAssumption
<1>4. ASSUME NEW fn \in runtimeNames PROVE runtime[fn] \in Seq(Calls)
  <2>1. fn.name \in {"malloc", "realloc", "calloc", "memalign", "free", "checkMemoryAccess"}
    <3>1. (\A n : Dlib(Plain(n)).name = n) /\ check.name = "checkMemoryAccess"
      BY NameParts
    <3> QED
      BY <3>1 DEF runtimeNames
  <2>2. CASE fn.name = "malloc"
    <3>1. runtime[fn] = <<Load, Libc("malloc"), Store>>
      BY <2>2 DEF runtime
    <3> QED
      BY <1>1, <1>2, <1>3, <3>1
  <2>3. CASE fn.name = "realloc"
    <3>1. runtime[fn] = <<Own("malloc"), Own("free")>>
      BY <2>3 DEF runtime
    <3> QED
      BY <1>1, <1>2, <1>3, <3>1
  <2>4. CASE fn.name = "calloc"
    <3>1. runtime[fn] = <<Own("malloc")>>
      BY <2>4 DEF runtime
    <3> QED
      BY <1>1, <1>2, <1>3, <3>1
  <2>5. CASE fn.name = "memalign"
    <3>1. runtime[fn] = <<Libc("posix_memalign"), Libc("free")>>
      BY <2>5 DEF runtime
    <3> QED
      BY <1>1, <1>2, <1>3, <3>1
  <2>6. CASE fn.name = "free"
    <3>1. runtime[fn] = <<Libc("free")>>
      BY <2>6 DEF runtime
    <3> QED
      BY <1>1, <1>2, <1>3, <3>1
  <2>7. CASE fn.name = "checkMemoryAccess"
    <3>1. runtime[fn] = <<Load>>
      BY <2>7 DEF runtime
    <3> QED
      BY <1>1, <1>2, <1>3, <3>1
  <2> QED
    BY <2>1, <2>2, <2>3, <2>4, <2>5, <2>6, <2>7
<1>5. ASSUME NEW s \in Seq(Calls)
      PROVE  /\ Numbered(s) \in Seq(Items)
             /\ \A k \in DOMAIN Numbered(s) : Numbered(s)[k].use = "callee" \/ Numbered(s)[k].f = None
  <2>1. Calls \subseteq [op : Operation, f : Names, use : Use]
    BY DEF Calls
  <2>2. \A k \in DOMAIN s : s[k] \in Calls
    OBVIOUS
  <2>3. \A k \in DOMAIN s : s[k].use = "callee" \/ s[k].f = None
    BY <2>2 DEF Calls
  <2> QED
    BY <2>1, <2>3, NumberedBody
<1> QED
  BY <1>4, <1>5

\* Nor do those of its functions that the passes take for the program's.
LEMMA UnmarkedWritten ==
  ASSUME NEW fn \in programNames, fn # main
  PROVE  WrittenOK(Numbered(runtime[fn]))
<1> DEFINE Calls == {i \in [op : Operation, f : Names, use : Use] :
                       i.f.prefix = "" /\ (i.use = "callee" => i.op = "call")}
<1>1. Store \in Calls /\ Libc("malloc_usable_size") \in Calls
  <2>1. None \in Names /\ None.prefix = "" /\ Plain("malloc_usable_size") \in Names
        /\ Plain("malloc_usable_size").prefix = ""
    BY NameParts, NameAssumption
  <2> QED
    BY <2>1 DEF Store, Instr, Libc, Call, Operation, Use
<1>2. fn.name \in {"registerAddr", "removeAddr"}
  BY NameParts DEF programNames
<1>3. Calls \subseteq [op : Operation, f : Names, use : Use]
      /\ \A i \in Calls : i.op # "check" /\ i.f.prefix = "" /\ (i.use = "callee" => i.op = "call")
  BY DEF Operation
<1> HIDE DEF Calls
<1>4. (\A a \in Calls : <<a>> \in Seq(Calls)) /\ \A a, b \in Calls : <<a, b>> \in Seq(Calls)
  OBVIOUS
<1>5. runtime[fn] \in Seq(Calls)
  <2>1. CASE fn.name = "registerAddr"
    <3>1. runtime[fn] = <<Store>>
      BY <2>1 DEF runtime
    <3> QED
      BY <1>1, <1>4, <3>1
  <2>2. CASE fn.name = "removeAddr"
    <3>1. runtime[fn] = <<Libc("malloc_usable_size"), Store>>
      BY <2>2 DEF runtime
    <3> QED
      BY <1>1, <1>4, <3>1
  <2> QED
    BY <1>2, <2>1, <2>2
<1>6. ASSUME NEW s \in Seq(Calls) PROVE WrittenOK(Numbered(s))
  <2>1. \A k \in DOMAIN s : s[k] \in Calls
    OBVIOUS
  <2>2. \A k \in DOMAIN s : s[k].op # "check" /\ s[k].f.prefix = "" /\ (s[k].use = "callee" => s[k].op = "call")
    BY <1>3, <2>1
  <2>3. /\ Numbered(s) \in Seq(Items) /\ DOMAIN Numbered(s) = DOMAIN s
        /\ \A k \in DOMAIN s : /\ Numbered(s)[k].op = s[k].op /\ Numbered(s)[k].f = s[k].f
                               /\ Numbered(s)[k].use = s[k].use /\ Numbered(s)[k].id = k
    BY <1>3, NumberedBody
  <2> QED
    BY <2>2, <2>3 DEF WrittenOK
<1> QED
  BY <1>5, <1>6

\* A function as it was written is as it should be before the second pass.
LEMMA FreshBody ==
  \A fn : /\ WrittenOK(Written(fn)) /\ code[fn] = Written(fn) /\ Waiting(fn)
          /\ \A k \in DOMAIN Written(fn) :
               \/ Written(fn)[k].use = "callee"
               \/ Written(fn)[k].f \in Allocators => Open(Written(fn)[k].f)
          => BodyOK(fn)
<1> SUFFICES ASSUME NEW fn, WrittenOK(Written(fn)), code[fn] = Written(fn), Waiting(fn),
                    \A k \in DOMAIN Written(fn) : \/ Written(fn)[k].use = "callee"
                                                  \/ Written(fn)[k].f \in Allocators => Open(Written(fn)[k].f)
             PROVE  BodyOK(fn)
  OBVIOUS
<1> DEFINE c == code[fn]
<1>1. \A k \in DOMAIN c : c[k].id = k /\ c[k].op # "check" /\ k \in Int
  <2>1. c \in Seq(Items)
    BY DEF WrittenOK
  <2>2. DOMAIN c = 1 .. Len(c)
    BY <2>1
  <2>3. \A k \in DOMAIN c : k \in Int
    BY <2>2
  <2>4. \A k \in DOMAIN c : c[k].id = k /\ c[k].op # "check"
    BY DEF WrittenOK
  <2> QED
    BY <2>3, <2>4
<1>2. Kept(c) = DOMAIN c
  BY <1>1 DEF Kept
<1>3. InOrder(fn)
  BY <1>1, <1>2 DEF InOrder
<1>4. Pending(fn) = DOMAIN c
  BY DEF Pending
<1>5. ChecksOK(fn)
  BY <1>1, <1>4 DEF ChecksOK
<1>6. NamesOK(fn)
  BY <1>1, <1>2, <1>4 DEF NamesOK, NameOK
<1> QED
  BY <1>3, <1>5, <1>6 DEF BodyOK

LEMMA InitModule == Init => IInv
<1> SUFFICES ASSUME Init PROVE IInv
  OBVIOUS
<1>1. PICK p \in Programs :
        source = [fn \in programNames \cup runtimeNames |-> Numbered(IF fn = main THEN p ELSE runtime[fn])]
  BY DEF Init
<1>2. DOMAIN source = programNames \cup runtimeNames /\ source[main] = Numbered(p)
      /\ \A fn \in runtimeNames \cup programNames : fn # main => source[fn] = Numbered(runtime[fn])
  BY <1>1, Prefixes
<1>3. \A fn \in programNames : WrittenOK(source[fn])
  <2> DEFINE S == [op : Operation, f : [prefix : {""}, name : Name], use : Use]
  <2>1. p \in Seq(S) /\ \A k \in DOMAIN p : p[k].use = "callee" => p[k].op = "call"
    BY ProgramsAssumption
  <2>2. [prefix : {""}, name : Name] \subseteq Names
    BY DEF Names
  <2>3. S \subseteq [op : Operation, f : Names, use : Use]
    BY <2>2
  <2>4. /\ Numbered(p) \in Seq(Items) /\ DOMAIN Numbered(p) = DOMAIN p
        /\ \A k \in DOMAIN p : /\ Numbered(p)[k].op = p[k].op /\ Numbered(p)[k].f = p[k].f
                               /\ Numbered(p)[k].use = p[k].use /\ Numbered(p)[k].id = k
    BY <2>1, <2>3, NumberedBody
  <2>5. \A i \in S : i.op # "check" /\ i.f.prefix = ""
    BY DEF Operation
  <2>6. \A k \in DOMAIN p : p[k].op # "check" /\ p[k].f.prefix = ""
    <3> HIDE DEF S
    <3>1. \A k \in DOMAIN p : p[k] \in S
      BY <2>1
    <3> QED
      BY <2>5, <3>1
  <2>7. \A k \in DOMAIN Numbered(p) :
          /\ Numbered(p)[k].id = k /\ Numbered(p)[k].op # "check" /\ Numbered(p)[k].f.prefix = ""
          /\ Numbered(p)[k].use = "callee" => Numbered(p)[k].op = "call"
    BY <2>1, <2>4, <2>6, ZenonT(30)
  <2>8. WrittenOK(Numbered(p))
    BY <2>4, <2>7 DEF WrittenOK
  <2> QED
    BY <1>2, <2>8, UnmarkedWritten
<1>4. SourceOK
  BY <1>2, <1>3, RuntimeCalls, Prefixes DEF SourceOK
<1>5. CodeOK
  BY <1>2, <1>3, <1>4 DEF Init, CodeOK, SourceOK, WrittenOK
<1>6. pass = "find" /\ PassOK
  BY DEF Init, PassOK
<1>7. ASSUME NEW fn \in Users PROVE BodyOK(fn)
  <2>1. fn \in programNames /\ code[fn] = Written(fn)
    BY <1>2 DEF Users, Init, Written
  <2> QED
    BY <1>3, <1>6, <2>1, FreshBody DEF Waiting, Open, Written, Init
<1> QED
  BY <1>4, <1>5, <1>6, <1>7 DEF IInv

\* What a step leaves --------------------------------------------------------------------

\* What a function was written as does not change.
LEMMA WrittenStays ==
  ASSUME source' = source
  PROVE  \A fn : Written(fn)' = Written(fn)
BY DEF Written

\* Instructions that mention another function than before are where they were.
LEMMA SameShape ==
  ASSUME source' = source, NEW fn, BodyOK(fn), Pending(fn)' \subseteq Pending(fn),
         DOMAIN code'[fn] = DOMAIN code[fn],
         \A k \in DOMAIN code[fn] :
            IsAccess(code[fn][k]) /\ code[fn][k].id \in Pending(fn) => code[fn][k].id \in Pending(fn)',
         \A k \in DOMAIN code[fn] : /\ code'[fn][k].op = code[fn][k].op
                                    /\ code'[fn][k].id = code[fn][k].id
                                    /\ code'[fn][k].use = code[fn][k].use
  PROVE  InOrder(fn)' /\ ChecksOK(fn)' /\ Kept(code[fn])' = Kept(code[fn])
<1>1. Kept(code[fn])' = Kept(code[fn])
  BY DEF Kept
<1>2. InOrder(fn)'
  <2>1. \A k \in Kept(code[fn]) : k \in DOMAIN code[fn]
    BY DEF Kept
  <2> QED
    BY <1>1, <2>1, WrittenStays DEF BodyOK, InOrder
<1>3. ChecksOK(fn)'
  BY DEF BodyOK, ChecksOK, IsAccess
<1> QED
  BY <1>1, <1>2, <1>3

\* A function whose instructions a step leaves alone.
LEMMA SameBody ==
  ASSUME source' = source, NEW fn, BodyOK(fn), Pending(fn)' = Pending(fn),
         code'[fn] = code[fn], DOMAIN code \subseteq DOMAIN code',
         \A k \in Kept(code[fn]) :
            \/ code[fn][k].f \notin Allocators \/ code[fn][k].use = "callee"
            \/ Open(code[fn][k].f) => Open(code[fn][k].f)'
  PROVE  BodyOK(fn)'
<1>1. InOrder(fn)' /\ ChecksOK(fn)' /\ Kept(code[fn])' = Kept(code[fn])
  BY SameShape
<1>2. ASSUME NEW k \in Kept(code[fn]) PROVE NameOK(fn, code[fn][k])'
  <2>1. NameOK(fn, code[fn][k])
    BY DEF BodyOK, NamesOK
  <2> QED
    BY <1>2, <2>1, WrittenStays DEF NameOK
<1>3. NamesOK(fn)'
  BY <1>1, <1>2 DEF NamesOK
<1> QED
  BY <1>1, <1>3 DEF BodyOK

\* Only functions of the program take addresses, and no check does.
LEMMA TakenByUsers ==
  ASSUME IInv, NEW f \in Allocators, NEW fn \in DOMAIN code, NEW k \in DOMAIN code[fn],
         Takes(code[fn][k], f)
  PROVE  fn \in Users /\ k \in Kept(code[fn])
<1>1. f # None
  BY Prefixes
<1>2. fn \notin runtimeNames
  BY <1>1 DEF IInv, CodeOK, SourceOK, Takes
<1>3. code[fn][k].op # "check"
  BY <1>2 DEF IInv, Users, BodyOK, ChecksOK, Takes
<1> QED
  BY <1>2, <1>3 DEF Users, Kept

\* The source stays what it was.
LEMMA SourceStays == SourceOK /\ UNCHANGED source => SourceOK'
<1> SUFFICES ASSUME SourceOK, UNCHANGED source PROVE SourceOK'
  OBVIOUS
<1>1. (\A fn \in programNames : WrittenOK(source[fn]))'
  BY DEF SourceOK, WrittenOK
<1>2. \A fn \in runtimeNames :
        /\ source'[fn] \in Seq(Items)
        /\ \A k \in DOMAIN source'[fn] : source'[fn][k].use = "callee" \/ source'[fn][k].f = None
  BY DEF SourceOK
<1> QED
  BY <1>1, <1>2 DEF SourceOK

\* A new function as it was written is as it should be before the second pass.
LEMMA FreshBodyNext ==
  (\A fn : /\ WrittenOK(Written(fn)) /\ code[fn] = Written(fn) /\ Waiting(fn)
           /\ \A k \in DOMAIN Written(fn) :
                \/ Written(fn)[k].use = "callee"
                \/ Written(fn)[k].f \in Allocators => Open(Written(fn)[k].f)
           => BodyOK(fn))'
BY FreshBody, PTL

\* The first pass -------------------------------------------------------------------------

LEMMA FindStep == IInv /\ Find => IInv'
<1> SUFFICES ASSUME IInv, Find PROVE IInv'
  OBVIOUS
<1>1. /\ pass = "find" /\ pass' = "wrap" /\ todo' = WrapFunctions
      /\ UNCHANGED <<source, code, current, work>>
  BY DEF Find
<1>2. SourceOK' /\ CodeOK'
  BY <1>1, SourceStays DEF IInv, CodeOK
<1>3. PassOK'
  <2>1. todo' \subseteq Allocators
    BY <1>1, WrapsAllocators DEF WrapFunctions
  <2> QED
    BY <1>1, <2>1 DEF IInv, PassOK
<1>4. ASSUME NEW fn \in Users PROVE BodyOK(fn)'
  <2>1. Pending(fn)' = Pending(fn)
    BY <1>1, WrittenStays DEF Pending, Waiting
  <2>2. ASSUME NEW k \in Kept(code[fn]), code[fn][k].f \in Allocators, code[fn][k].use # "callee"
        PROVE  Open(code[fn][k].f)'
    <3>1. fn \in DOMAIN code /\ k \in DOMAIN code[fn]
      BY <2>2 DEF Users, Kept
    <3>2. hasAddressTaken(code[fn][k].f)
      BY <2>2, <3>1 DEF hasAddressTaken, Takes
    <3>3. code[fn][k].f \in Mentioned
      BY <3>1 DEF Mentioned
    <3>4. code[fn][k].f \in todo'
      BY <1>1, <2>2, <3>2, <3>3, WrapsAllocators DEF WrapFunctions
    <3> QED
      BY <1>1, <3>4 DEF Open
  <2> QED
    BY <1>1, <2>1, <2>2, SameBody DEF IInv
<1> QED
  BY <1>1, <1>2, <1>3, <1>4 DEF IInv, Users

LEMMA MakeWrapperStep == IInv /\ (\E f \in todo : makeWrapper(f)) => IInv'
<1> SUFFICES ASSUME IInv, NEW f \in todo, makeWrapper(f) PROVE IInv'
  OBVIOUS
<1>1. /\ pass = "wrap" /\ current = None /\ current' = f /\ todo' = todo \ {f}
      /\ UNCHANGED <<source, pass, work>>
      /\ code' = [fn \in DOMAIN code \cup {Wrapper(f)} |->
                    IF fn = Wrapper(f) THEN Numbered(<<Call(f)>>) ELSE code[fn]]
  BY DEF makeWrapper
<1>2. f \in Allocators /\ Wrapper(f) \in Wrappers /\ todo \subseteq Allocators
  BY <1>1 DEF IInv, PassOK, Wrappers
<1>3. /\ DOMAIN code' = DOMAIN code \cup {Wrapper(f)} /\ code'[Wrapper(f)] = Numbered(<<Call(f)>>)
      /\ \A fn \in DOMAIN code : fn # Wrapper(f) => code'[fn] = code[fn]
  BY <1>1
<1>4. /\ Written(Wrapper(f)) = Numbered(<<Call(f)>>) /\ WrittenOK(Numbered(<<Call(f)>>))
      /\ \A k \in DOMAIN Numbered(<<Call(f)>>) : Numbered(<<Call(f)>>)[k].use = "callee"
  <2>1. SourceOK
    BY DEF IInv
  <2>2. \A k \in DOMAIN <<[op |-> "call", f |-> f, use |-> "callee", id |-> 1]>> :
          <<[op |-> "call", f |-> f, use |-> "callee", id |-> 1]>>[k].use = "callee"
    OBVIOUS
  <2> QED
    BY <1>2, <2>1, <2>2, WrapperIs
<1>5. SourceOK'
  BY <1>1, SourceStays DEF IInv
<1>6. CodeOK'
  <2>1. Wrapper(f) \notin programNames \cup runtimeNames
    BY <1>2, Prefixes
  <2> QED
    BY <1>1, <1>2, <1>3, <1>4, <2>1 DEF IInv, CodeOK, WrittenOK
<1>7. PassOK'
  BY <1>1, <1>2, <1>3 DEF IInv, PassOK
<1>8. ASSUME NEW fn \in Users, fn # Wrapper(f) PROVE BodyOK(fn)'
  <2>1. Pending(fn)' = Pending(fn)
    BY <1>1, WrittenStays DEF Pending, Waiting
  <2>2. \A g : g \in Allocators /\ Open(g) => Open(g)'
    BY <1>1, Prefixes DEF Open
  <2>3. code'[fn] = code[fn]
    BY <1>3, <1>8 DEF Users
  <2> QED
    BY <1>1, <1>3, <2>1, <2>2, <2>3, SameBody DEF IInv
<1>9. BodyOK(Wrapper(f))'
  <2>1. Written(Wrapper(f))' = Numbered(<<Call(f)>>)
    BY <1>1, <1>4, WrittenStays
  <2>2. (code[Wrapper(f)] = Written(Wrapper(f)))'
    BY <1>3, <2>1
  <2>5. WrittenOK(Written(Wrapper(f)))'
    BY <1>4, <2>1, ZenonT(30) DEF WrittenOK
  <2>3. Waiting(Wrapper(f))'
    BY <1>1 DEF Waiting
  <2>4. (\A k \in DOMAIN Written(Wrapper(f)) : Written(Wrapper(f))[k].use = "callee")'
    BY <1>4, <2>1
  <2> QED
    BY <2>2, <2>3, <2>4, <2>5, FreshBodyNext
<1>10. ASSUME NEW fn \in Users' PROVE fn \in Users \/ fn = Wrapper(f)
  BY <1>3, <1>10 DEF Users
<1> QED
  BY <1>5, <1>6, <1>7, <1>8, <1>9, <1>10 DEF IInv

LEMMA ReplaceUseStep == IInv /\ ReplaceUse => IInv'
<1> SUFFICES ASSUME IInv, ReplaceUse PROVE IInv'
  OBVIOUS
<1>1. PICK fn \in DOMAIN code : \E k \in DOMAIN code[fn] :
        /\ Takes(code[fn][k], current)
        /\ code' = [code EXCEPT ![fn][k].f = Wrapper(current)]
  BY DEF ReplaceUse
<1>2. PICK k \in DOMAIN code[fn] :
        /\ Takes(code[fn][k], current)
        /\ code' = [code EXCEPT ![fn][k].f = Wrapper(current)]
  BY <1>1
<1>3. pass = "wrap" /\ current # None /\ UNCHANGED <<source, pass, todo, current, work>>
  BY DEF ReplaceUse
<1>4. /\ current \in Allocators /\ Wrapper(current) \in DOMAIN code /\ Wrapper(current) \in Names
      /\ current.prefix = ""
  BY <1>3, Prefixes, NameParts DEF IInv, PassOK
<1>5. fn \in Users /\ k \in Kept(code[fn]) /\ code[fn] \in Seq(Items) /\ code[fn][k] \in Items
  <2>1. fn \in Users /\ k \in Kept(code[fn])
    BY <1>2, <1>4, TakenByUsers
  <2>2. code[fn] \in Seq(Items)
    BY DEF IInv, CodeOK
  <2> QED
    BY <2>1, <2>2
<1>6. /\ DOMAIN code' = DOMAIN code /\ \A g \in DOMAIN code : g # fn => code'[g] = code[g]
      /\ code'[fn] = [code[fn] EXCEPT ![k].f = Wrapper(current)]
  BY <1>2
<1>7. /\ DOMAIN code'[fn] = DOMAIN code[fn]
      /\ code'[fn][k] = [code[fn][k] EXCEPT !.f = Wrapper(current)]
      /\ \A j \in DOMAIN code[fn] : j # k => code'[fn][j] = code[fn][j]
  BY <1>5, <1>6
<1>8. /\ code'[fn][k].op = code[fn][k].op /\ code'[fn][k].id = code[fn][k].id
      /\ code'[fn][k].use = code[fn][k].use /\ code'[fn][k].f = Wrapper(current)
      /\ code'[fn][k] \in Items
  <2>1. PICK i, j : i \in Items /\ i = code[fn][k] /\ j = code'[fn][k]
    BY <1>5
  <2>2. j = [i EXCEPT !.f = Wrapper(current)]
    BY <1>7, <2>1
  <2>3. j.op = i.op /\ j.id = i.id /\ j.use = i.use /\ j.f = Wrapper(current) /\ j \in Items
    <3>1. i \in Items /\ Wrapper(current) \in Names
      BY <1>4, <2>1
    <3> QED
      BY <2>2, <3>1 DEF Items
  <2> QED
    BY <2>1, <2>3
<1>9. SourceOK'
  BY <1>3, SourceStays DEF IInv
<1>10. CodeOK'
  <2>1. code'[fn] \in Seq(Items)
    BY <1>5, <1>6, <1>7, <1>8
  <2> QED
    BY <1>3, <1>5, <1>6, <2>1 DEF IInv, CodeOK, Users
<1>11. PassOK'
  BY <1>3, <1>6 DEF IInv, PassOK
<1>12. \A g : Pending(g)' = Pending(g) /\ Open(g)' = Open(g)
  BY <1>3, WrittenStays DEF Pending, Waiting, Open
<1>13. ASSUME NEW g \in Users, g # fn PROVE BodyOK(g)'
  BY <1>3, <1>6, <1>12, <1>13, SameBody DEF IInv, Users
<1>14. BodyOK(fn)'
  <2>1. BodyOK(fn)
    BY <1>5 DEF IInv
  <2>2. \A j \in DOMAIN code[fn] : /\ code'[fn][j].op = code[fn][j].op
                                    /\ code'[fn][j].id = code[fn][j].id
                                    /\ code'[fn][j].use = code[fn][j].use
    BY <1>7, <1>8
  <2>3. InOrder(fn)' /\ ChecksOK(fn)' /\ Kept(code[fn])' = Kept(code[fn])
    BY <1>3, <1>7, <1>12, <2>1, <2>2, SameShape
  <2>4. ASSUME NEW j \in Kept(code[fn]), j # k PROVE NameOK(fn, code[fn][j])'
    <3>1. NameOK(fn, code[fn][j]) /\ j \in DOMAIN code[fn]
      BY <2>1 DEF BodyOK, NamesOK, Kept
    <3>2. code'[fn][j] = code[fn][j]
      BY <1>7, <2>4, <3>1
    <3> QED
      BY <1>3, <1>6, <1>12, <3>1, <3>2, WrittenStays DEF NameOK
  <2>5. NameOK(fn, code[fn][k])'
    <3>1. NameOK(fn, code[fn][k]) /\ code[fn][k].f = current /\ code[fn][k].use # "callee"
      BY <1>2, <1>5, <2>1 DEF BodyOK, NamesOK, Takes
    <3>2. current # Wrapper(Written(fn)[code[fn][k].id].f)
      BY <1>4, NameParts
    <3>3. Written(fn)[code[fn][k].id].f = current /\ Written(fn)[code[fn][k].id].use = code[fn][k].use
      BY <3>1, <3>2 DEF NameOK
    <3> QED
      BY <1>3, <1>4, <1>6, <1>8, <3>1, <3>3, WrittenStays DEF NameOK
  <2> QED
    BY <2>3, <2>4, <2>5 DEF BodyOK, NamesOK
<1> QED
  BY <1>6, <1>9, <1>10, <1>11, <1>13, <1>14 DEF IInv, Users

LEMMA AllUsesReplacedStep == IInv /\ AllUsesReplaced => IInv'
<1> SUFFICES ASSUME IInv, AllUsesReplaced PROVE IInv'
  OBVIOUS
<1>1. /\ pass = "wrap" /\ ~hasAddressTaken(current) /\ current' = None
      /\ UNCHANGED <<source, code, pass, todo, work>>
  BY DEF AllUsesReplaced
<1>2. SourceOK' /\ CodeOK' /\ PassOK'
  BY <1>1, SourceStays DEF IInv, CodeOK, PassOK
<1>3. ASSUME NEW fn \in Users PROVE BodyOK(fn)'
  <2>1. Pending(fn)' = Pending(fn)
    BY <1>1, WrittenStays DEF Pending, Waiting
  <2>2. ASSUME NEW k \in Kept(code[fn]), Open(code[fn][k].f), code[fn][k].use # "callee"
        PROVE  Open(code[fn][k].f)'
    <3>1. fn \in DOMAIN code /\ k \in DOMAIN code[fn]
      BY <2>2 DEF Users, Kept
    <3>2. code[fn][k].f # current
      BY <1>1, <2>2, <3>1 DEF hasAddressTaken, Takes
    <3> QED
      BY <1>1, <2>2, <3>2 DEF Open
  <2> QED
    BY <1>1, <2>1, <2>2, SameBody DEF IInv
<1> QED
  BY <1>1, <1>2, <1>3 DEF IInv, Users

\* The second pass ------------------------------------------------------------------------

\* It goes through the functions of the program and the wrappers.
LEMMA UsersInstrumented ==
  IInv => Instrumented = Users /\ \A fn \in DOMAIN code : isNoInstrument(fn) <=> fn \in runtimeNames
<1> SUFFICES ASSUME IInv
             PROVE  \A fn \in DOMAIN code : isNoInstrument(fn) <=> fn \in runtimeNames
  BY DEF Instrumented, Users
<1> QED
  BY Prefixes DEF IInv, CodeOK

LEMMA NextPassStep == IInv /\ NextPass => IInv'
<1> SUFFICES ASSUME IInv, NextPass PROVE IInv'
  OBVIOUS
<1>1. /\ pass = "wrap" /\ current = None /\ todo = {} /\ pass' = "instrument"
      /\ todo' = Users /\ UNCHANGED <<source, code, current, work>>
  BY UsersInstrumented DEF NextPass
<1>2. None \notin Users /\ None \notin Allocators
  BY Prefixes DEF IInv, CodeOK, Users
<1>3. SourceOK' /\ CodeOK'
  BY <1>1, SourceStays DEF IInv, CodeOK
<1>4. PassOK'
  BY <1>1, <1>2 DEF IInv, PassOK, Users
<1>5. ASSUME NEW fn \in Users PROVE BodyOK(fn)'
  <2>1. Pending(fn)' = Pending(fn)
    BY <1>1, WrittenStays DEF Pending, Waiting
  <2>2. \A f \in Allocators : ~Open(f)
    BY <1>1, <1>2 DEF Open
  <2> QED
    BY <1>1, <2>1, <2>2, SameBody DEF IInv
<1> QED
  BY <1>1, <1>3, <1>4, <1>5 DEF IInv, Users

LEMMA EndFunctionStep == IInv /\ EndFunction => IInv'
<1> SUFFICES ASSUME IInv, EndFunction PROVE IInv'
  OBVIOUS
<1>1. /\ pass = "instrument" /\ current # None /\ work = {} /\ current' = None
      /\ UNCHANGED <<source, code, pass, todo, work>>
  BY DEF EndFunction
<1>2. SourceOK' /\ CodeOK'
  BY <1>1, SourceStays DEF IInv, CodeOK
<1>3. PassOK'
  <2>1. None \notin Users
    BY Prefixes DEF IInv, CodeOK, Users
  <2> QED
    BY <1>1, <2>1 DEF IInv, PassOK, Users
<1>4. ASSUME NEW fn \in Users PROVE BodyOK(fn)'
  <2>1. Pending(fn)' = Pending(fn)
    BY <1>1, WrittenStays DEF Pending, Waiting
  <2>2. \A f : ~Open(f)
    BY <1>1 DEF Open
  <2> QED
    BY <1>1, <2>1, <2>2, SameBody DEF IInv
<1> QED
  BY <1>1, <1>2, <1>3, <1>4 DEF IInv, Users

LEMMA FinishStep == IInv /\ Finish => IInv'
<1> SUFFICES ASSUME IInv, Finish PROVE IInv'
  OBVIOUS
<1>1. /\ pass = "instrument" /\ current = None /\ todo = {} /\ pass' = "done"
      /\ UNCHANGED <<source, code, todo, current, work>>
  BY DEF Finish
<1>2. SourceOK' /\ CodeOK' /\ PassOK'
  BY <1>1, SourceStays DEF IInv, CodeOK, PassOK
<1>3. ASSUME NEW fn \in Users PROVE BodyOK(fn)'
  <2>1. fn # None
    BY Prefixes DEF IInv, CodeOK, Users
  <2>2. Pending(fn)' = Pending(fn)
    BY <1>1, <2>1, WrittenStays DEF Pending, Waiting
  <2>3. \A f : ~Open(f)
    BY <1>1 DEF Open
  <2> QED
    BY <1>1, <2>2, <2>3, SameBody DEF IInv
<1> QED
  BY <1>1, <1>2, <1>3 DEF IInv, Users

\* An instruction that is still to be gone through has no check yet, and one that needs
\* none is not an access.
LEMMA CollectStep == IInv /\ (\E fn \in todo : Collect(fn)) => IInv'
<1> SUFFICES ASSUME IInv, NEW fn \in todo, Collect(fn) PROVE IInv'
  OBVIOUS
<1> DEFINE Listed(i) == IsAccess(i) \/ getCalledFunction(i) \in Collected
           c == code[fn]
<1>1. /\ pass = "instrument" /\ current = None /\ current' = fn /\ todo' = todo \ {fn}
      /\ work' = {c[k].id : k \in {n \in DOMAIN c : Listed(c[n])}}
      /\ UNCHANGED <<source, code, pass>>
  BY DEF Collect
<1>2. fn \in Users /\ todo \subseteq Users
  BY <1>1 DEF IInv, PassOK
<1>3. Pending(fn) = DOMAIN Written(fn) /\ fn # None /\ current \notin Users
  BY <1>1, <1>2, Prefixes DEF Pending, Waiting, IInv, CodeOK, Users
<1>4. WrittenOK(Written(fn)) /\ InOrder(fn) /\ ChecksOK(fn) /\ NamesOK(fn)
  BY <1>2, UserWritten DEF IInv, BodyOK
<1>5. \A k \in Kept(c) : c[k].id \in DOMAIN Written(fn) /\ c[k].op = Written(fn)[c[k].id].op
  BY <1>4 DEF InOrder
<1>6. \A k \in DOMAIN c : c[k].op # "check" /\ k \in Kept(c)
  BY <1>3, <1>4, <1>5 DEF ChecksOK, Kept, IsAccess
<1>7. \A k \in DOMAIN c : Listed(c[k]) => c[k].id \in work'
  <2> HIDE DEF Listed
  <2> QED
    BY <1>1
<1>8. \A n \in work' : \E k \in DOMAIN c : Listed(c[k]) /\ n = c[k].id
  <2> HIDE DEF Listed
  <2> QED
    BY <1>1
<1>9. SourceOK' /\ CodeOK'
  BY <1>1, SourceStays DEF IInv, CodeOK
<1>10. PassOK'
  <2>1. ASSUME NEW n \in work'
        PROVE  /\ n \in DOMAIN Written(fn)
               /\ IsAccess(Written(fn)[n]) \/ Written(fn)[n].use = "callee"
    <3>1. PICK k \in DOMAIN c : Listed(c[k]) /\ n = c[k].id
      BY <1>8
    <3>2. n \in DOMAIN Written(fn) /\ c[k].op = Written(fn)[n].op
      BY <1>5, <1>6, <3>1
    <3>3. c[k].use = Written(fn)[n].use
      BY <1>4, <1>6, <3>1 DEF NamesOK, NameOK
    <3>4. None \notin Collected
      BY DEF Collected, Replaced, None, Plain
    <3> QED
      BY <3>1, <3>2, <3>3, <3>4 DEF IsAccess, getCalledFunction
  <2> QED
    BY <1>1, <1>2, <1>3, <2>1, WrittenStays DEF IInv, PassOK, Users
<1>11. ASSUME NEW g \in Users, g # fn PROVE BodyOK(g)'
  <2>1. Pending(g)' = Pending(g)
    BY <1>1, <1>3, <1>11, WrittenStays DEF Pending, Waiting
  <2>2. \A f : ~Open(f)
    BY <1>1 DEF Open
  <2> QED
    BY <1>1, <2>1, <2>2, SameBody DEF IInv
<1>12. BodyOK(fn)'
  <2>1. Pending(fn)' = work'
    BY <1>1 DEF Pending, Waiting
  <2>2. InOrder(fn)'
    BY <1>1, <1>4, WrittenStays DEF InOrder
  <2>3. ChecksOK(fn)'
    BY <1>1, <1>6, <1>7, <2>1 DEF ChecksOK
  <2>4. ASSUME NEW k \in Kept(c) PROVE NameOK(fn, c[k])'
    <3>1. NameOK(fn, c[k]) /\ c[k].id \in Pending(fn) /\ k \in DOMAIN c
      BY <1>3, <1>4, <1>5 DEF NamesOK, Kept
    <3>2. ~Open(c[k].f)
      BY <1>1 DEF Open
    <3>3. CASE c[k].use = "callee"
      <4>1. c[k].op = "call" /\ c[k].f = Written(fn)[c[k].id].f /\ c[k].use = Written(fn)[c[k].id].use
        BY <1>4, <1>5, <3>1, <3>3 DEF NameOK, WrittenOK
      <4>2. c[k].f \in Replaced => c[k].id \in work'
        BY <1>7, <3>1, <3>3, <4>1 DEF getCalledFunction, Collected
      <4> QED
        BY <1>1, <2>1, <3>3, <4>1, <4>2, WrittenStays DEF NameOK
    <3>4. CASE c[k].use # "callee"
      BY <1>1, <3>1, <3>2, <3>4, WrittenStays DEF NameOK, Open
    <3> QED
      BY <3>3, <3>4
  <2> QED
    BY <1>1, <2>2, <2>3, <2>4 DEF BodyOK, NamesOK, Kept
<1> QED
  BY <1>1, <1>9, <1>10, <1>11, <1>12 DEF IInv, Users

\* The sequence r is s with t in the place of its k-th element.
InPlace(r, s, k, t) ==
  /\ DOMAIN r = 1 .. (Len(s) - 1 + Len(t))
  /\ \A j \in DOMAIN r :
       r[j] = IF j < k THEN s[j] ELSE IF j < k + Len(t) THEN t[j - k + 1] ELSE s[j - Len(t) + 1]

\* That is what the code makes.
LEMMA Spliced ==
  ASSUME NEW S, NEW s \in Seq(S), NEW k \in 1 .. Len(s), NEW t \in Seq(S)
  PROVE  LET r == SubSeq(s, 1, k - 1) \o t \o SubSeq(s, k + 1, Len(s)) IN
         r \in Seq(S) /\ InPlace(r, s, k, t)
<1> DEFINE a == SubSeq(s, 1, k - 1)
           b == SubSeq(s, k + 1, Len(s))
<1>1. a \in Seq(S) /\ Len(a) = k - 1 /\ \A j \in 1 .. k - 1 : a[j] = s[j]
  OBVIOUS
<1>2. b \in Seq(S) /\ Len(b) = Len(s) - k /\ \A j \in 1 .. Len(s) - k : b[j] = s[j + k]
  OBVIOUS
<1> HIDE DEF a, b
<1>3. /\ a \o t \in Seq(S) /\ Len(a \o t) = k - 1 + Len(t)
      /\ \A j \in 1 .. Len(a \o t) : (a \o t)[j] = IF j < k THEN s[j] ELSE t[j - k + 1]
  BY <1>1
<1> DEFINE d == a \o t
<1>4. d \in Seq(S) /\ Len(d) = k - 1 + Len(t) /\ Len(t) \in Nat
      /\ \A j \in 1 .. Len(d) : d[j] = IF j < k THEN s[j] ELSE t[j - k + 1]
  BY <1>3
<1> HIDE DEF d
<1>5. /\ d \o b \in Seq(S) /\ Len(d \o b) = Len(s) - 1 + Len(t)
      /\ \A j \in 1 .. Len(d \o b) : (d \o b)[j] = IF j <= Len(d) THEN d[j] ELSE b[j - Len(d)]
  <2>1. \A x, y \in Seq(S) :
          /\ x \o y \in Seq(S) /\ Len(x \o y) = Len(x) + Len(y)
          /\ \A j \in 1 .. Len(x \o y) : (x \o y)[j] = IF j <= Len(x) THEN x[j] ELSE y[j - Len(x)]
    OBVIOUS
  <2>2. Len(d) + Len(b) = Len(s) - 1 + Len(t)
    BY <1>2, <1>4
  <2> QED
    BY <1>2, <1>4, <2>1, <2>2
<1>6. ASSUME NEW j \in 1 .. Len(d \o b)
      PROVE  (d \o b)[j] = IF j < k THEN s[j]
                           ELSE IF j < k + Len(t) THEN t[j - k + 1] ELSE s[j - Len(t) + 1]
  <2>1. CASE j <= Len(d)
    BY <1>4, <1>5, <2>1
  <2>2. CASE j > Len(d)
    <3>1. (d \o b)[j] = b[j - Len(d)] /\ j - Len(d) \in 1 .. Len(s) - k
      BY <1>4, <1>5, <2>2
    <3>2. b[j - Len(d)] = s[j - Len(d) + k]
      BY <1>2, <3>1
    <3>3. j - Len(d) + k = j - Len(t) + 1
      BY <1>4, <1>5
    <3> QED
      BY <1>4, <2>2, <3>1, <3>2, <3>3, SMTT(30)
  <2> QED
    BY <1>4, <2>1, <2>2
<1>7. DOMAIN (d \o b) = 1 .. Len(d \o b)
  BY <1>5
<1> QED
  BY <1>5, <1>6, <1>7 DEF a, b, d, InPlace

\* What a sequence is like with two elements, or one, in its place.
LEMMA TwoInPlace ==
  ASSUME NEW s, NEW n \in Nat, Len(s) = n, NEW k \in 1 .. n, NEW t, Len(t) = 2, NEW r,
         InPlace(r, s, k, t)
  PROVE  /\ DOMAIN r = 1 .. n + 1 /\ r[k] = t[1] /\ r[k + 1] = t[2]
         /\ \A j \in 1 .. k - 1 : r[j] = s[j]
         /\ \A j \in k + 2 .. n + 1 : r[j] = s[j - 1]
<1>1. /\ DOMAIN r = 1 .. (n - 1 + Len(t))
      /\ \A j \in DOMAIN r :
           r[j] = IF j < k THEN s[j] ELSE IF j < k + Len(t) THEN t[j - k + 1] ELSE s[j - Len(t) + 1]
  BY DEF InPlace
<1>2. n - 1 + Len(t) = n + 1 /\ k \in Nat
  OBVIOUS
<1>3. DOMAIN r = 1 .. n + 1
  BY <1>1, <1>2
<1>4. r[k] = t[k - k + 1] /\ r[k + 1] = t[k + 1 - k + 1]
  <2>1. k \in DOMAIN r /\ k + 1 \in DOMAIN r
    BY <1>2, <1>3
  <2>2. ~(k < k) /\ k < k + Len(t) /\ ~(k + 1 < k) /\ k + 1 < k + Len(t)
    BY <1>2
  <2> QED
    BY <1>1, <2>1, <2>2
<1>5. k - k + 1 = 1 /\ k + 1 - k + 1 = 2
  OBVIOUS
<1>6. ASSUME NEW j \in 1 .. k - 1 PROVE r[j] = s[j]
  BY <1>1, <1>3
<1>7. ASSUME NEW j \in k + 2 .. n + 1 PROVE r[j] = s[j - 1]
  <2>1. j \in DOMAIN r /\ ~(j < k) /\ ~(j < k + Len(t)) /\ j - Len(t) + 1 = j - 1
    BY <1>3
  <2> QED
    BY <1>1, <2>1
<1> QED
  BY <1>3, <1>4, <1>5, <1>6, <1>7

LEMMA OneInPlace ==
  ASSUME NEW s, NEW n \in Nat, Len(s) = n, NEW k \in 1 .. n, NEW t, Len(t) = 1, NEW r,
         InPlace(r, s, k, t)
  PROVE  /\ DOMAIN r = 1 .. n /\ r[k] = t[1]
         /\ \A j \in 1 .. n : j # k => r[j] = s[j]
<1>1. /\ DOMAIN r = 1 .. (n - 1 + Len(t))
      /\ \A j \in DOMAIN r :
           r[j] = IF j < k THEN s[j] ELSE IF j < k + Len(t) THEN t[j - k + 1] ELSE s[j - Len(t) + 1]
  BY DEF InPlace
<1>2. n - 1 + Len(t) = n /\ k \in Nat
  OBVIOUS
<1>3. DOMAIN r = 1 .. n
  BY <1>1, <1>2
<1>4. r[k] = t[k - k + 1] /\ k - k + 1 = 1
  BY <1>1, <1>2, <1>3
<1>5. ASSUME NEW j \in 1 .. n, j < k PROVE r[j] = s[j]
  BY <1>1, <1>3, <1>5
<1>6. ASSUME NEW j \in 1 .. n, k < j PROVE r[j] = s[j]
  <2>1. j \in DOMAIN r /\ ~(j < k) /\ ~(j < k + Len(t)) /\ j - Len(t) + 1 = j
    BY <1>3, <1>6
  <2> QED
    BY <1>1, <2>1
<1>7. \A j \in 1 .. n : j # k => j < k \/ k < j
  BY <1>2
<1> QED
  BY <1>3, <1>4, <1>5, <1>6, <1>7

\* With two elements, the second of them the old one, what follows is one further.
LEMMA Shifted ==
  ASSUME NEW s, NEW n \in Nat, DOMAIN s = 1 .. n, NEW k \in 1 .. n, NEW r,
         DOMAIN r = 1 .. n + 1, r[k + 1] = s[k],
         \A j \in 1 .. k - 1 : r[j] = s[j],
         \A j \in k + 2 .. n + 1 : r[j] = s[j - 1]
  PROVE  /\ \A j \in DOMAIN r :
              /\ j \in Nat /\ (j < k \/ j = k \/ j > k)
              /\ j < k => j \in DOMAIN s /\ r[j] = s[j]
              /\ j > k /\ j # k + 1 => j - 1 # k
              /\ j > k => j - 1 \in DOMAIN s /\ r[j] = s[j - 1]
         /\ \A j \in DOMAIN s :
              /\ j \in Nat
              /\ j < k => j \in DOMAIN r /\ r[j] = s[j]
              /\ j >= k => j + 1 \in DOMAIN r /\ r[j + 1] = s[j]
<1>1. ASSUME NEW j \in DOMAIN r
      PROVE  /\ j \in Nat /\ (j < k \/ j = k \/ j > k)
             /\ j < k => j \in DOMAIN s /\ r[j] = s[j]
             /\ j > k /\ j # k + 1 => j - 1 # k
             /\ j > k => j - 1 \in DOMAIN s /\ r[j] = s[j - 1]
  <2>1. j \in 1 .. n + 1
    OBVIOUS
  <2>2. CASE j < k
    BY <2>1, <2>2
  <2>3. CASE j = k
    BY <2>1, <2>3
  <2>4. CASE j = k + 1
    BY <2>1, <2>4
  <2>5. CASE j > k + 1
    BY <2>1, <2>5
  <2> QED
    BY <2>1, <2>2, <2>3, <2>4, <2>5
<1>2. ASSUME NEW j \in DOMAIN s
      PROVE  /\ j \in Nat
             /\ j < k => j \in DOMAIN r /\ r[j] = s[j]
             /\ j >= k => j + 1 \in DOMAIN r /\ r[j + 1] = s[j]
  <2>1. j \in 1 .. n /\ j + 1 - 1 = j
    OBVIOUS
  <2>2. CASE j < k
    BY <2>1, <2>2
  <2>3. CASE j = k
    BY <2>1, <2>3
  <2>4. CASE j > k
    <3>1. j + 1 \in k + 2 .. n + 1
      BY <2>1, <2>4
    <3> QED
      BY <2>1, <2>4, <3>1
  <2> QED
    BY <2>1, <2>2, <2>3, <2>4
<1> QED
  BY <1>1, <1>2

\* The instruction at k of the function the second pass works on is rewritten.
RewrittenAt(k) ==
  /\ pass = "instrument" /\ UNCHANGED <<source, pass, todo, current>>
  /\ current \in Users /\ k \in Kept(code[current])
  /\ code[current][k].id \in work /\ work' = work \ {code[current][k].id}
  /\ code' = [code EXCEPT ![current] =
                SubSeq(code[current], 1, k - 1) \o Rewritten(code[current][k])
                  \o SubSeq(code[current], k + 1, Len(code[current]))]

\* The instruction of the work list is found.
LEMMA FoundAt == IInv /\ Rewrite => \E k : RewrittenAt(k)
<1> SUFFICES ASSUME IInv, Rewrite PROVE \E k : RewrittenAt(k)
  OBVIOUS
<1> DEFINE body == code[current]
<1>1. PICK n \in work :
        /\ work' = work \ {n}
        /\ LET k == CHOOSE j \in DOMAIN body : body[j].id = n /\ body[j].op # "check"
           IN code' = [code EXCEPT ![current] = SubSeq(body, 1, k - 1) \o Rewritten(body[k])
                                                  \o SubSeq(body, k + 1, Len(body))]
  BY DEF Rewrite
<1>2. pass = "instrument" /\ UNCHANGED <<source, pass, todo, current>>
  BY DEF Rewrite
<1>3. current \in Users /\ n \in DOMAIN Written(current)
  BY <1>1, <1>2 DEF IInv, PassOK
<1>4. \E j \in DOMAIN body : body[j].id = n /\ body[j].op # "check"
  BY <1>3 DEF IInv, BodyOK, InOrder, Kept
<1> DEFINE k == CHOOSE j \in DOMAIN body : body[j].id = n /\ body[j].op # "check"
<1>5. k \in DOMAIN body /\ body[k].id = n /\ body[k].op # "check"
  BY <1>4
<1>6. code' = [code EXCEPT ![current] = SubSeq(body, 1, k - 1) \o Rewritten(body[k])
                                          \o SubSeq(body, k + 1, Len(body))]
  BY <1>1
<1> HIDE DEF k
<1>7. RewrittenAt(k)
  BY <1>1, <1>2, <1>3, <1>5, <1>6 DEF RewrittenAt, Kept
<1> QED
  BY <1>7

\* What it is like, and what the step does not touch.
LEMMA RewrittenIs ==
  ASSUME IInv, NEW k, RewrittenAt(k)
  PROVE  LET c == code[current]
             i == c[k]
             w == Written(current)[i.id]
         IN /\ c \in Seq(Items) /\ k \in 1 .. Len(c) /\ DOMAIN c = 1 .. Len(c)
            /\ i \in Items /\ i.op # "check" /\ i.op = w.op /\ i.use = w.use
            /\ i.id \in DOMAIN Written(current) /\ i.id \in Nat
            /\ w.use = "callee" => i.f = w.f /\ i.op = "call"
            /\ IsAccess(i) \/ w.use = "callee"
            /\ \A j \in Kept(c) : j # k => c[j].id # i.id
            /\ Pending(current) = work /\ Pending(current)' = work \ {i.id}
            /\ SourceOK' /\ PassOK'
            /\ \A fn \in Users : fn # current => BodyOK(fn)'
            /\ DOMAIN code' = DOMAIN code /\ UNCHANGED source
            /\ code'[current] = SubSeq(c, 1, k - 1) \o Rewritten(i) \o SubSeq(c, k + 1, Len(c))
<1> DEFINE c == code[current]
           i == c[k]
           w == Written(current)[i.id]
<1>1. /\ current \in Users /\ current \in DOMAIN code /\ k \in Kept(c) /\ i.id \in work
      /\ pass = "instrument"
  BY DEF RewrittenAt, Users
<1>2. c \in Seq(Items) /\ k \in DOMAIN c /\ i.op # "check" /\ BodyOK(current)
  BY <1>1 DEF IInv, CodeOK, Kept
<1>3. DOMAIN c = 1 .. Len(c) /\ i \in Items
  BY <1>2
<1>4. i.id \in DOMAIN Written(current) /\ i.op = w.op /\ i.id \in Nat
  BY <1>1, <1>2, <1>3 DEF BodyOK, InOrder, Items
<1>5. current # None /\ current \notin todo
  BY <1>1, Prefixes DEF IInv, CodeOK, Users, PassOK
<1>6. Pending(current) = work /\ Pending(current)' = work \ {i.id}
  BY <1>1, <1>5 DEF RewrittenAt, Pending, Waiting
<1>7. i.use = w.use /\ (w.use = "callee" => i.f = w.f)
  BY <1>1, <1>2, <1>6 DEF BodyOK, NamesOK, NameOK
<1>8. w.use = "callee" => i.op = "call"
  <2>1. SourceOK /\ CodeOK
    BY DEF IInv
  <2>2. WrittenOK(Written(current))
    BY <1>1, <2>1, UserWritten
  <2> QED
    BY <1>4, <2>2 DEF WrittenOK
<1>9. IsAccess(i) \/ w.use = "callee"
  BY <1>1, <1>4, <1>5 DEF IInv, PassOK, IsAccess
<1>10. \A j \in Kept(c) : j # k => c[j].id # i.id
  <2> SUFFICES ASSUME NEW j \in Kept(c), j # k PROVE c[j].id # i.id
    OBVIOUS
  <2>1. j \in 1 .. Len(c) /\ c[j].id \in Nat
    <3>1. j \in 1 .. Len(c)
      BY <1>3 DEF Kept
    <3>2. c[j] \in Items
      BY <1>2, <3>1
    <3> QED
      BY <3>1, <3>2 DEF Items
  <2>2. (j < k => c[j].id < i.id) /\ (k < j => i.id < c[j].id)
    BY <1>1, <1>2 DEF BodyOK, InOrder
  <2> QED
    BY <1>2, <1>3, <1>4, <2>1, <2>2
<1>11. DOMAIN code' = DOMAIN code /\ UNCHANGED <<source, pass, todo, current>>
       /\ code'[current] = SubSeq(c, 1, k - 1) \o Rewritten(i) \o SubSeq(c, k + 1, Len(c))
       /\ \A fn \in DOMAIN code : fn # current => code'[fn] = code[fn]
  BY <1>1 DEF RewrittenAt
<1>12. SourceOK'
  BY <1>11, SourceStays DEF IInv
<1>13. PassOK'
  <2>1. work' \subseteq work
    BY DEF RewrittenAt
  <2> QED
    BY <1>1, <1>5, <1>11, <2>1, WrittenStays DEF IInv, PassOK, Users
<1>14. ASSUME NEW fn \in Users, fn # current PROVE BodyOK(fn)'
  <2>1. Pending(fn)' = Pending(fn)
    BY <1>1, <1>11, <1>14, WrittenStays DEF Pending, Waiting
  <2>2. (\A f : ~Open(f)) /\ BodyOK(fn) /\ fn \in DOMAIN code
    BY <1>1 DEF Open, IInv, Users
  <2> QED
    BY <1>11, <1>14, <2>1, <2>2, SameBody
<1> QED
  BY <1>2, <1>3, <1>4, <1>6, <1>7, <1>8, <1>9, <1>10, <1>11, <1>12, <1>13, <1>14

\* An access: its check comes before it, what follows moves on by one.
LEMMA AccessStep ==
  ASSUME IInv, NEW k, RewrittenAt(k), IsAccess(code[current][k])
  PROVE  code'[current] \in Seq(Items) /\ BodyOK(current)'
<1> DEFINE c == code[current]
           i == c[k]
           d == code'[current]
<1>1. /\ c \in Seq(Items) /\ k \in 1 .. Len(c) /\ DOMAIN c = 1 .. Len(c)
      /\ i \in Items /\ i.op # "check" /\ i.op = Written(current)[i.id].op
      /\ i.id \in DOMAIN Written(current) /\ i.id \in Nat
      /\ Written(current)[i.id].use = "callee" => i.op = "call"
      /\ \A j \in Kept(c) : j # k => c[j].id # i.id
      /\ Pending(current) = work /\ Pending(current)' = work \ {i.id}
      /\ DOMAIN code' = DOMAIN code
  BY RewrittenIs
<1>2. source' = source /\ current' = current
  BY DEF RewrittenAt
<1>3. d = SubSeq(c, 1, k - 1) \o Rewritten(i) \o SubSeq(c, k + 1, Len(c))
  BY RewrittenIs
<1>4. Rewritten(i) = <<CheckOf(i), i>> /\ CheckOf(i) \in Items
      /\ CheckOf(i).op = "check" /\ CheckOf(i).id = i.id /\ CheckOf(i).use = "callee"
  <2>1. check \in Names
    BY NameParts
  <2>2. CheckOf(i) \in Items
    BY <1>1, <2>1 DEF CheckOf, Items, Use
  <2> QED
    BY <2>2 DEF Rewritten, CheckOf
<1>5. /\ pass = "instrument" /\ i.id \in work /\ current \in Users
      /\ InOrder(current) /\ ChecksOK(current) /\ NamesOK(current)
  BY DEF RewrittenAt, IInv, BodyOK
<1>6. \A j \in DOMAIN c : IsAccess(c[j]) => j \in Kept(c)
  BY DEF IsAccess, Kept
<1>7. Written(current)' = Written(current)
  BY <1>2, WrittenStays DEF Written
<1>8. IsAccess(i)
  OBVIOUS
<1>9. /\ \A j \in Kept(c) : c[j].id \in DOMAIN Written(current) /\ c[j].op = Written(current)[c[j].id].op
      /\ \A n \in DOMAIN Written(current) : \E j \in Kept(c) : c[j].id = n
      /\ \A j, m \in Kept(c) : j < m => c[j].id < c[m].id
  BY <1>5 DEF InOrder
<1>10. /\ \A j \in DOMAIN c : c[j].op = "check" =>
             /\ j + 1 \in DOMAIN c /\ IsAccess(c[j + 1]) /\ c[j + 1].id = c[j].id
             /\ c[j].id \notin work /\ c[j].use = "callee"
       /\ \A j \in DOMAIN c : IsAccess(c[j]) /\ c[j].id \notin work =>
             /\ j - 1 \in DOMAIN c /\ c[j - 1].op = "check" /\ c[j - 1].id = c[j].id
  BY <1>1, <1>5 DEF ChecksOK
<1> HIDE DEF c, d, i
<1>11. /\ d \in Seq(Items) /\ DOMAIN d = 1 .. Len(c) + 1 /\ d[k] = CheckOf(i) /\ d[k + 1] = i
       /\ \A j \in 1 .. k - 1 : d[j] = c[j]
       /\ \A j \in k + 2 .. Len(c) + 1 : d[j] = c[j - 1]
  <2> DEFINE t == <<CheckOf(i), i>>
  <2>1. t \in Seq(Items) /\ Len(t) = 2 /\ t[1] = CheckOf(i) /\ t[2] = i
    BY <1>1, <1>4
  <2>2. d = SubSeq(c, 1, k - 1) \o t \o SubSeq(c, k + 1, Len(c))
    BY <1>4, <1>3
  <2>3. Len(c) \in Nat
    BY <1>1
  <2> HIDE DEF t
  <2>4. d \in Seq(Items) /\ InPlace(d, c, k, t)
    BY <1>1, <2>1, <2>2, Spliced
  <2>5. /\ DOMAIN d = 1 .. Len(c) + 1 /\ d[k] = t[1] /\ d[k + 1] = t[2]
        /\ \A j \in 1 .. k - 1 : d[j] = c[j]
        /\ \A j \in k + 2 .. Len(c) + 1 : d[j] = c[j - 1]
    BY <1>1, <2>1, <2>3, <2>4, TwoInPlace
  <2> QED
    BY <2>1, <2>4, <2>5
<1>12. i = c[k] /\ Len(c) \in Nat /\ k \in Kept(c)
  BY <1>1 DEF i, Kept
<1>13. /\ \A j \in DOMAIN d :
             /\ j \in Nat /\ (j < k \/ j = k \/ j > k)
             /\ j < k => j \in DOMAIN c /\ d[j] = c[j]
             /\ j > k /\ j # k + 1 => j - 1 # k
             /\ j > k => j - 1 \in DOMAIN c /\ d[j] = c[j - 1]
       /\ \A j \in DOMAIN c :
             /\ j \in Nat
             /\ j < k => j \in DOMAIN d /\ d[j] = c[j]
             /\ j >= k => j + 1 \in DOMAIN d /\ d[j + 1] = c[j]
  <2>1. /\ DOMAIN c = 1 .. Len(c) /\ Len(c) \in Nat /\ k \in 1 .. Len(c)
        /\ DOMAIN d = 1 .. Len(c) + 1 /\ d[k + 1] = c[k]
        /\ \A j \in 1 .. k - 1 : d[j] = c[j]
        /\ \A j \in k + 2 .. Len(c) + 1 : d[j] = c[j - 1]
    <3>1. DOMAIN c = 1 .. Len(c) /\ k \in 1 .. Len(c)
      BY <1>1
    <3> QED
      BY <1>11, <1>12, <3>1
  <2> QED
    BY <2>1, Shifted
<1>14. \A j \in DOMAIN c :
         /\ j \in Nat
         /\ j < k => j \in DOMAIN d /\ d[j] = c[j]
         /\ j >= k => j + 1 \in DOMAIN d /\ d[j + 1] = c[j]
  BY <1>13
<1> DEFINE Old(j) == IF j < k THEN j ELSE j - 1
           New(j) == IF j < k THEN j ELSE j + 1
<1>15. \A j \in Kept(d) : j # k /\ j \in Nat /\ Old(j) \in Kept(c) /\ d[j] = c[Old(j)]
  <2>1. ASSUME NEW j \in Kept(d) PROVE j # k /\ j \in DOMAIN d /\ d[j].op # "check"
    BY <1>4, <1>11 DEF Kept
  <2>2. ASSUME NEW j \in Kept(d) PROVE j \in Nat /\ Old(j) \in DOMAIN c /\ d[j] = c[Old(j)]
    BY <1>13, <2>1
  <2> QED
    BY <2>1, <2>2 DEF Kept
<1>16. \A j \in Kept(c) : New(j) \in Kept(d) /\ d[New(j)] = c[j]
  <2>1. ASSUME NEW j \in Kept(c) PROVE j \in DOMAIN c /\ c[j].op # "check"
    BY DEF Kept
  <2>2. ASSUME NEW j \in Kept(c) PROVE New(j) \in DOMAIN d /\ d[New(j)] = c[j]
    BY <1>1, <1>14, <2>1
  <2> QED
    BY <2>1, <2>2 DEF Kept
<1>17. InOrder(current)'
  <2>1. \A j \in Kept(d) : d[j].id \in DOMAIN Written(current) /\ d[j].op = Written(current)[d[j].id].op
    BY <1>9, <1>15
  <2>2. \A n \in DOMAIN Written(current) : \E j \in Kept(d) : d[j].id = n
    <3> HIDE DEF New
    <3> QED
      BY <1>9, <1>16
  <2>3. \A j, m \in Kept(d) : j < m => d[j].id < d[m].id
    <3> SUFFICES ASSUME NEW j \in Kept(d), NEW m \in Kept(d), j < m PROVE d[j].id < d[m].id
      OBVIOUS
    <3>1. Old(j) < Old(m)
      BY <1>1, <1>15
    <3> QED
      BY <1>9, <1>15, <3>1
  <2> QED
    BY <1>2, <1>7, <2>1, <2>2, <2>3 DEF InOrder, d, Kept
<1>18. ChecksOK(current)'
  <2>1. ASSUME NEW j \in DOMAIN d, d[j].op = "check"
        PROVE  /\ j + 1 \in DOMAIN d /\ IsAccess(d[j + 1]) /\ d[j + 1].id = d[j].id
               /\ d[j].id \notin work \ {i.id} /\ d[j].use = "callee"
    <3>1. CASE j = k
      BY <1>1, <1>4, <1>11, <1>8, <1>12, <3>1
    <3>2. CASE j < k
      <4>1. d[j] = c[j] /\ j \in DOMAIN c /\ c[j].op = "check"
        BY <1>13, <2>1, <3>2
      <4>2. j + 1 # k
        BY <1>5, <1>10, <1>12, <4>1
      <4>3. d[j + 1] = c[j + 1] /\ j + 1 \in DOMAIN d
        BY <1>1, <1>11, <1>13, <1>12, <3>2, <4>2
      <4> QED
        BY <1>10, <4>1, <4>3
    <3>3. CASE j > k
      <4>1. d[j] = c[j - 1] /\ j - 1 \in DOMAIN c /\ c[j - 1].op = "check" /\ j - 1 # k /\ j \in Nat
        BY <1>1, <1>13, <1>12, <2>1, <3>3
      <4>2. j - 1 + 1 = j /\ IsAccess(c[j]) /\ j \in DOMAIN c /\ c[j].id = c[j - 1].id
        BY <1>10, <4>1
      <4>3. d[j + 1] = c[j] /\ j + 1 \in DOMAIN d
        <5>1. j >= k
          BY <1>1, <3>3, <4>1
        <5> QED
          BY <1>14, <4>2, <5>1
      <4> QED
        BY <1>10, <4>1, <4>2, <4>3
    <3> QED
      BY <1>1, <1>11, <1>12, <3>1, <3>2, <3>3
  <2>2. ASSUME NEW j \in DOMAIN d, IsAccess(d[j]), d[j].id \notin work \ {i.id}
        PROVE  j - 1 \in DOMAIN d /\ d[j - 1].op = "check" /\ d[j - 1].id = d[j].id
    <3>1. j # k /\ j \in Nat
      BY <1>4, <1>11, <1>13, <2>2 DEF IsAccess
    <3>2. CASE j < k
      <4>1. d[j] = c[j] /\ j \in DOMAIN c /\ IsAccess(c[j]) /\ c[j].id # i.id
        BY <1>1, <1>13, <1>6, <2>2, <3>1, <3>2
      <4>2. j - 1 \in DOMAIN c /\ c[j - 1].op = "check" /\ c[j - 1].id = c[j].id
        BY <1>10, <2>2, <4>1
      <4>3. d[j - 1] = c[j - 1] /\ j - 1 \in DOMAIN d
        BY <1>1, <1>11, <1>12, <3>2, <4>2
      <4> QED
        BY <4>1, <4>2, <4>3
    <3>3. CASE j = k + 1
      BY <1>1, <1>4, <1>11, <1>12, <3>3
    <3>4. CASE j > k + 1
      <4>1. d[j] = c[j - 1] /\ j - 1 \in DOMAIN c /\ IsAccess(c[j - 1]) /\ c[j - 1].id # i.id
        BY <1>1, <1>13, <1>6, <2>2, <3>1, <3>4
      <4>2. j - 1 - 1 \in DOMAIN c /\ c[j - 1 - 1].op = "check" /\ c[j - 1 - 1].id = c[j - 1].id
        BY <1>10, <2>2, <4>1
      <4>3. j - 1 - 1 >= k /\ j - 1 - 1 + 1 = j - 1
        BY <1>1, <3>1, <3>4
      <4>4. d[j - 1] = c[j - 1 - 1] /\ j - 1 \in DOMAIN d
        BY <1>14, <4>2, <4>3
      <4> QED
        BY <4>1, <4>2, <4>4
    <3> QED
      BY <1>1, <1>12, <3>1, <3>2, <3>3, <3>4
  <2> QED
    BY <1>1, <1>2, <2>1, <2>2 DEF ChecksOK, d
<1>19. NamesOK(current)'
  <2>1. ASSUME NEW x \in Kept(c) PROVE c[x].id = i.id => Written(current)[c[x].id].use # "callee"
    BY <1>1, <1>8 DEF IsAccess
  <2>2. \A x \in Kept(c) : NameOK(current, c[x])
    BY <1>5 DEF NamesOK, c
  <2>3. ASSUME NEW j \in Kept(d) PROVE NameOK(current, code[current][j])'
    <3>1. PICK x \in Kept(c) : d[j] = c[x]
      BY <1>15
    <3>3. NameOK(current, c[x]) /\ \A f : ~Open(f)
      BY <1>5, <2>2 DEF Open
    <3>4. c[x].id \in Pending(current)' <=> c[x].id \in Pending(current) /\ c[x].id # i.id
      BY <1>1
    <3> QED
      BY <1>1, <1>2, <1>7, <2>1, <3>1, <3>3, <3>4 DEF NameOK, d
  <2> QED
    BY <1>2, <2>3 DEF NamesOK, d, Kept
<1> QED
  BY <1>11, <1>17, <1>18, <1>19 DEF BodyOK, d

\* A call: the function it mentions may change.
LEMMA CallStep ==
  ASSUME IInv, NEW k, RewrittenAt(k), ~IsAccess(code[current][k])
  PROVE  code'[current] \in Seq(Items) /\ BodyOK(current)'
<1> DEFINE c == code[current]
           i == c[k]
           d == code'[current]
           new == IF i.f \in Replaced THEN [i EXCEPT !.f = Dlib(i.f)] ELSE i
<1>1. /\ c \in Seq(Items) /\ k \in 1 .. Len(c) /\ DOMAIN c = 1 .. Len(c)
      /\ i \in Items /\ i.op # "check" /\ i.id \in DOMAIN Written(current)
      /\ Written(current)[i.id].use = "callee" /\ i.use = Written(current)[i.id].use
      /\ i.f = Written(current)[i.id].f
      /\ \A j \in Kept(c) : j # k => c[j].id # i.id
      /\ Pending(current) = work /\ Pending(current)' = work \ {i.id}
  BY RewrittenIs
<1>2. d = SubSeq(c, 1, k - 1) \o Rewritten(i) \o SubSeq(c, k + 1, Len(c))
  BY RewrittenIs
<1>3. source' = source /\ current' = current
  BY DEF RewrittenAt
<1>4. Written(current)' = Written(current)
  BY <1>3 DEF Written
<1>5. pass = "instrument" /\ i.id \in work /\ BodyOK(current) /\ k \in Kept(c)
  BY DEF RewrittenAt, IInv
<1>6. Rewritten(i) = <<new>>
  BY DEF Rewritten
<1> HIDE DEF c, d, i
<1>7. /\ new \in Items /\ new.op = i.op /\ new.id = i.id /\ new.use = i.use
      /\ new.f = IF i.f \in Replaced THEN Dlib(i.f) ELSE i.f
  <2>1. i.f \in Names /\ Dlib(i.f) \in Names
    BY <1>1, NameParts DEF Items
  <2> QED
    BY <1>1, <2>1 DEF Items
<1> HIDE DEF new
<1>8. /\ d \in Seq(Items) /\ DOMAIN d = DOMAIN c /\ d[k] = new
      /\ \A j \in DOMAIN c : j # k => d[j] = c[j]
  <2> DEFINE t == <<new>>
  <2>1. t \in Seq(Items) /\ Len(t) = 1 /\ t[1] = new
    BY <1>7
  <2>2. d = SubSeq(c, 1, k - 1) \o t \o SubSeq(c, k + 1, Len(c))
    BY <1>2, <1>6
  <2>3. Len(c) \in Nat
    BY <1>1
  <2> HIDE DEF t
  <2>4. d \in Seq(Items) /\ InPlace(d, c, k, t)
    BY <1>1, <2>1, <2>2, Spliced
  <2>5. DOMAIN d = 1 .. Len(c) /\ d[k] = t[1] /\ \A j \in 1 .. Len(c) : j # k => d[j] = c[j]
    BY <1>1, <2>1, <2>3, <2>4, OneInPlace
  <2> QED
    BY <1>1, <2>1, <2>4, <2>5
<1>9. i = c[k]
  BY DEF i
<1>10. \A j \in DOMAIN c : d[j].op = c[j].op /\ d[j].id = c[j].id /\ d[j].use = c[j].use
  BY <1>7, <1>8, <1>9
<1>11. \A j \in DOMAIN c : IsAccess(c[j]) => c[j].id # i.id
  BY <1>1, <1>9 DEF Kept, IsAccess, i, c
<1>12. (InOrder(current) /\ ChecksOK(current))' /\ Kept(d) = Kept(c)
  <2>1. \A fn : /\ BodyOK(fn) /\ Pending(fn)' \subseteq Pending(fn) /\ DOMAIN code'[fn] = DOMAIN code[fn]
                /\ \A j \in DOMAIN code[fn] :
                     /\ IsAccess(code[fn][j]) /\ code[fn][j].id \in Pending(fn) => code[fn][j].id \in Pending(fn)'
                     /\ code'[fn][j].op = code[fn][j].op /\ code'[fn][j].id = code[fn][j].id
                     /\ code'[fn][j].use = code[fn][j].use
                => InOrder(fn)' /\ ChecksOK(fn)' /\ Kept(code[fn])' = Kept(code[fn])
    BY <1>3, SameShape
  <2> QED
    BY <1>1, <1>3, <1>5, <1>8, <1>10, <1>11, <2>1 DEF c, d
<1>13. NamesOK(current)'
  <2>1. ASSUME NEW j \in Kept(d) PROVE NameOK(current, code[current][j])'
    <3>1. j \in Kept(c) /\ j \in DOMAIN c /\ NameOK(current, c[j]) /\ \A f : ~Open(f)
      BY <1>5, <1>12 DEF Kept, BodyOK, NamesOK, Open, c
    <3>2. CASE j = k
      <4>1. d[j] = new
        BY <1>8, <3>2
      <4> QED
        BY <1>1, <1>3, <1>4, <1>7, <4>1 DEF NameOK, d
    <3>3. CASE j # k
      <4>1. d[j] = c[j] /\ (c[j].id \in Pending(current)' <=> c[j].id \in Pending(current))
        BY <1>1, <1>8, <3>1, <3>3
      <4>2. DOMAIN code' = DOMAIN code
        BY RewrittenIs
      <4> QED
        BY <1>3, <1>4, <3>1, <4>1, <4>2 DEF NameOK, d
    <3> QED
      BY <3>2, <3>3
  <2> QED
    BY <1>3, <2>1 DEF NamesOK, d
<1> QED
  BY <1>8, <1>12, <1>13 DEF BodyOK, d

LEMMA RewriteStep == IInv /\ Rewrite => IInv'
<1> SUFFICES ASSUME IInv, NEW k, RewrittenAt(k) PROVE IInv'
  BY FoundAt
<1>1. code'[current] \in Seq(Items) /\ BodyOK(current)'
  BY AccessStep, CallStep
<1>2. /\ SourceOK' /\ PassOK' /\ source' = source /\ DOMAIN code' = DOMAIN code
      /\ \A fn \in Users : fn # current => BodyOK(fn)'
  BY RewrittenIs
<1>3. /\ current \in Users /\ current' = current
      /\ \A fn \in DOMAIN code : fn # current => code'[fn] = code[fn]
  BY DEF RewrittenAt, Users
<1>4. CodeOK'
  BY <1>1, <1>2, <1>3 DEF IInv, CodeOK, Users
<1>5. \A fn \in Users : BodyOK(fn)'
  BY <1>1, <1>2, <1>3 DEF BodyOK
<1> QED
  BY <1>2, <1>4, <1>5 DEF IInv, Users

\* Every step -----------------------------------------------------------------------------

LEMMA PassesStep == IInv /\ [Next]_vars => IInv'
<1> SUFFICES ASSUME IInv, [Next]_vars PROVE IInv'
  OBVIOUS
<1>1. CASE Find
  BY <1>1, FindStep
<1>2. CASE \E f \in todo : makeWrapper(f)
  BY <1>2, MakeWrapperStep
<1>3. CASE ReplaceUse
  BY <1>3, ReplaceUseStep
<1>4. CASE AllUsesReplaced
  BY <1>4, AllUsesReplacedStep
<1>5. CASE NextPass
  BY <1>5, NextPassStep
<1>6. CASE \E fn \in todo : Collect(fn)
  BY <1>6, CollectStep
<1>7. CASE Rewrite
  BY <1>7, RewriteStep
<1>8. CASE EndFunction
  BY <1>8, EndFunctionStep
<1>9. CASE Finish
  BY <1>9, FinishStep
<1>10. CASE UNCHANGED vars
  <2>1. SourceOK' /\ CodeOK' /\ PassOK'
    BY <1>10, SourceStays, WrittenStays DEF vars, IInv, CodeOK, PassOK, Users
  <2>2. ASSUME NEW fn \in Users PROVE BodyOK(fn)'
    <3>1. Pending(fn)' = Pending(fn) /\ \A f : Open(f)' = Open(f)
      BY <1>10, WrittenStays DEF vars, Pending, Waiting, Open
    <3> QED
      BY <1>10, <3>1, SameBody DEF vars, IInv
  <2> QED
    BY <1>10, <2>1, <2>2 DEF vars, IInv, Users
<1> QED
  BY <1>1, <1>2, <1>3, <1>4, <1>5, <1>6, <1>7, <1>8, <1>9, <1>10 DEF Next

\* The passes keep what they have done and what they have still to do apart.
THEOREM PassesInvariant == Spec => []IInv
<1>1. Init => IInv
  BY InitModule
<1>2. IInv /\ [Next]_vars => IInv'
  BY PassesStep
<1> QED
  BY <1>1, <1>2, PTL DEF Spec

\* What the passes have made --------------------------------------------------------------

\* Of any program, with any number of instructions in any order: each access is checked,
\* at the access and once, nothing else is moved or lost, and the runtime's own functions
\* are left as they were (HMDHashPass's isNoInstrument).
THEOREM EveryAccessChecked == Spec => []AccessesChecked
<1>1. IInv => AccessesChecked
  <2> SUFFICES ASSUME IInv, pass = "done", NEW fn \in DOMAIN code
               PROVE  IF isNoInstrument(fn) THEN code[fn] = source[fn]
                      ELSE LET c == code[fn]
                               Checks(k, i) == k \in DOMAIN c /\ c[k].op = "check" /\ c[k].id = i.id
                           IN /\ \A k \in DOMAIN c : IsAccess(c[k]) => Checks(k - 1, c[k])
                              /\ \A k \in DOMAIN c : c[k].op = "check" =>
                                   k + 1 \in DOMAIN c /\ IsAccess(c[k + 1])
                              /\ InOrder(fn)
    BY DEF AccessesChecked
  <2>1. CASE isNoInstrument(fn)
    BY <2>1, UsersInstrumented DEF IInv, CodeOK
  <2>2. CASE ~isNoInstrument(fn)
    <3>1. fn \in Users
      BY <2>2, UsersInstrumented DEF Users
    <3>2. InOrder(fn) /\ ChecksOK(fn) /\ Pending(fn) = {}
      BY <3>1 DEF IInv, BodyOK, Pending, Waiting
    <3> QED
      BY <2>2, <3>2 DEF ChecksOK
  <2> QED
    BY <2>1, <2>2
<1> QED
  BY <1>1, PassesInvariant, PTL

\* A wrapper begins with the call of what it wraps, of the runtime's when it is replaced.
LEMMA WrapperEnds ==
  ASSUME IInv, pass = "done", NEW f \in Allocators, Wrapper(f) \in DOMAIN code
  PROVE  code[Wrapper(f)][1].f = IF f \in Replaced THEN Dlib(f) ELSE f
<1> DEFINE fn == Wrapper(f)
           c == code[fn]
<1>1. fn \in Users
  BY Prefixes DEF Users
<1>2. BodyOK(fn) /\ c \in Seq(Items) /\ SourceOK
  BY <1>1 DEF IInv, CodeOK
<1>3. /\ DOMAIN Written(fn) = {1} /\ Written(fn)[1].op = "call" /\ Written(fn)[1].f = f
      /\ Written(fn)[1].use = "callee"
  <2>1. Written(fn) = <<[op |-> "call", f |-> f, use |-> "callee", id |-> 1]>>
    BY <1>2, WrapperIs
  <2> QED
    BY <2>1
<1>4. PICK k \in Kept(c) : c[k].id = 1
  BY <1>2, <1>3 DEF BodyOK, InOrder
<1>5. DOMAIN c = 1 .. Len(c) /\ Len(c) \in Nat
  BY <1>2
<1>6. 1 \in DOMAIN c
  BY <1>4, <1>5 DEF Kept
<1>7. c[1].op # "check"
  <2> SUFFICES ASSUME c[1].op = "check" PROVE FALSE
    OBVIOUS
  <2>1. 1 + 1 \in DOMAIN c /\ IsAccess(c[1 + 1])
    BY <1>2, <1>6 DEF BodyOK, ChecksOK
  <2>2. 1 + 1 \in Kept(c)
    BY <2>1 DEF Kept, IsAccess
  <2>3. c[1 + 1].op = "call"
    BY <1>2, <1>3, <2>2 DEF BodyOK, InOrder
  <2> QED
    BY <2>1, <2>3 DEF IsAccess
<1>8. 1 \in Kept(c) /\ c[1].id = 1
  BY <1>2, <1>3, <1>6, <1>7 DEF Kept, BodyOK, InOrder
<1>9. Pending(fn) = {} /\ NameOK(fn, c[1])
  BY <1>2, <1>8 DEF Pending, Waiting, BodyOK, NamesOK
<1> QED
  BY <1>3, <1>8, <1>9 DEF NameOK

\* Of any program: every malloc, calloc, realloc and free ends in the runtime, however the
\* program came by the function, and so does a memalign by name; all else, valloc and the
\* other memalign among it, stays the C library's (ReplaceAddressTakenMalloc, HMDHashPass).
THEOREM CallsReachRuntime == Spec => []CallsTakenOver
<1>1. IInv => CallsTakenOver
  <2> SUFFICES ASSUME IInv, pass = "done", NEW k \in DOMAIN code[main], code[main][k].op # "check"
               PROVE  LET i == code[main][k]
                          f == Original(i.id).f
                      IN Ends(i.f) = IF TakenOver(f, i.use) THEN Dlib(f) ELSE f
    BY DEF CallsTakenOver
  <2> DEFINE i == code[main][k]
             f == Original(i.id).f
  <2>1. main \in Users /\ main \in DOMAIN source
    BY Prefixes DEF IInv, CodeOK, SourceOK, Users
  <2>2. BodyOK(main) /\ Written(main) = source[main] /\ k \in Kept(code[main])
    BY <2>1 DEF IInv, Written, Kept
  <2>3. i.id \in DOMAIN source[main] /\ f = Written(main)[i.id].f
    BY <2>2 DEF BodyOK, InOrder, Original
  <2>4. f.prefix = ""
    <3>1. WrittenOK(source[main])
      BY Prefixes DEF IInv, SourceOK
    <3>2. \A n \in DOMAIN source[main] : source[main][n].f.prefix = ""
      BY <3>1 DEF WrittenOK
    <3> QED
      BY <2>3, <3>2 DEF Original
  <2>5. NameOK(main, i) /\ Pending(main) = {} /\ \A g : ~Open(g)
    BY <2>2 DEF BodyOK, NamesOK, Pending, Waiting, Open
  <2>6. i.use = Written(main)[i.id].use
    BY <2>5 DEF NameOK
  <2>7. Ends(f) = f /\ Ends(Dlib(f)) = Dlib(f) /\ (f \in Allocators => Ends(Wrapper(f)) = code[Wrapper(f)][1].f)
    BY <2>4, NameParts DEF Ends
  <2> DEFINE Wrapped == {Plain("malloc"), Plain("calloc"), Plain("realloc"), Plain("free")}
  <2>0. /\ Replaced = Wrapped \cup {Plain("memalign")} /\ Wrapped \subseteq Allocators
        /\ \A g, use : TakenOver(g, use) <=> g \in Wrapped \/ (g = Plain("memalign") /\ use = "callee")
    BY DEF Replaced, Allocators, TakenOver
  <2> HIDE DEF Wrapped
  <2>8. CASE i.use = "callee"
    <3>1. i.f = IF f \in Replaced THEN Dlib(f) ELSE f
      BY <2>3, <2>5, <2>6, <2>8 DEF NameOK
    <3> QED
      BY <2>0, <2>7, <2>8, <3>1
  <2>9. CASE i.use # "callee" /\ f \in Allocators
    <3>1. i.f = Wrapper(f) /\ Wrapper(f) \in DOMAIN code
      BY <2>3, <2>5, <2>6, <2>9 DEF NameOK
    <3>2. Ends(i.f) = IF f \in Replaced THEN Dlib(f) ELSE f
      BY <2>7, <2>9, <3>1, WrapperEnds
    <3>3. f # Plain("memalign")
      <4>1. \A g \in Allocators : g.name # "memalign"
        BY NameParts, ZenonT(30) DEF Allocators
      <4> QED
        BY <2>9, <4>1, NameParts
    <3> QED
      BY <2>0, <2>9, <3>2, <3>3
  <2>10. CASE i.use # "callee" /\ f \notin Allocators
    <3>1. i.f = f
      BY <2>3, <2>5, <2>6, <2>10 DEF NameOK
    <3> QED
      BY <2>0, <2>7, <2>10, <3>1
  <2> QED
    BY <2>8, <2>9, <2>10
<1> QED
  BY <1>1, PassesInvariant, PTL
=============================================================================
