---------------------------- MODULE MCInstrument ----------------------------
(***************************************************************************)
(* All bodies of up to three instructions.                                 *)
(***************************************************************************)
EXTENDS Instrument

Uses == {Load, Store, Instr("other", Plain("free"), "operand")}
  \cup {Libc(f) : f \in {"malloc", "calloc", "free", "memalign", "valloc", "malloc_usable_size"}}
  \cup {Instr("call", Plain(f), "cast") : f \in {"malloc", "free", "memalign"}}
  \cup {Instr("store", Plain(f), "operand") : f \in {"realloc", "free", "valloc"}}
  \cup {Instr("call", Plain(f), "operand") : f \in {"malloc", "memalign"}}

NameDef == {"", "main", "malloc", "valloc", "calloc", "realloc", "reallocf", "free", "memalign",
            "posix_memalign", "malloc_usable_size", "checkMemoryAccess", "registerAddr", "removeAddr"}

ProgramsDef == UNION {[1 .. n -> Uses] : n \in 1 .. 3}
=============================================================================
