---------------------------- MODULE ShadowMemory ----------------------------
(***************************************************************************)
(* The shadow memory of runtime/hmboundscheck.c: one shadow byte for every *)
(* word of 8 bytes.  The operators take the shadow memory and the build    *)
(* (the library's compile-time switches) and return the new shadow memory  *)
(* or the answer of a check.                                               *)
(***************************************************************************)
EXTENDS Integers, FiniteSets

CONSTANTS
  RZ,        \* rz_sz: bytes of a red zone
  Arena      \* bound: bytes of memory the model covers

ASSUME ZoneAssumption == RZ \in Nat \ {0} /\ RZ % 8 = 0

ASSUME ArenaAssumption == Arena \in Nat \ {0} /\ Arena % 8 = 0

\* The switches: fastCheckInit, ASANCheckInit and useRegistration, TRUE for
\* the code's 0 ("SET TO 0 TO ENABLE").
Build == [fastCheck : BOOLEAN, ASANCheck : BOOLEAN, useRegistration : BOOLEAN]

Words == 0 .. (Arena \div 8 - 1)

POISONED == 255
FREED == 64

Untouched == [w \in Words |-> 0]

\* getShadowMemoryAddress: the word of an address.
getShadowMemoryAddress(mem) == mem \div 8

\* (mem & 7): the place of an address in its word.
ByteOf(mem) == mem % 8

\* memset on the shadow memory: n shadow bytes from word w.
memset(shadow, w, value, n) ==
  [v \in Words |-> IF v \in w .. (w + n - 1) THEN value ELSE shadow[v]]

\* 0xFF >> n: the bits of the word's bytes n .. 7.
BitsFrom(n) == 2 ^ (8 - n) - 1

\* BIT_TST of the bit that stands for byte i of a word.
BIT_TST(value, i) == (value \div 2 ^ (7 - i)) % 2 = 1

\* registerAddr: left zone, right zone, accessible words, last partial word,
\* in this order.  An unaligned right zone shares its first word with the
\* partial word, and its last bytes are in a word that is not written.
registerAddr(shadow, build, memL, memR) ==
  LET sz == memR - memL - RZ
      toWriteRZ == RZ \div 8
      toWriteAM == sz \div 8
      shadowAddrRegion == getShadowMemoryAddress(memL + RZ)
      zoneL == memset(shadow, getShadowMemoryAddress(memL), POISONED, toWriteRZ)
      zoneR == memset(zoneL, getShadowMemoryAddress(memR), POISONED, toWriteRZ)
      region == memset(zoneR, shadowAddrRegion, 0, toWriteAM)
      partial == IF build.ASANCheck THEN sz % 8 ELSE BitsFrom(sz % 8)
  IN  IF sz % 8 = 0 THEN region
      ELSE memset(region, shadowAddrRegion + toWriteAM, partial, 1)

\* Slip: only the red zones reset, not the memory between them.
SlipRemoveZones(shadow, memL, sz) ==
  LET w == getShadowMemoryAddress(memL)
      n == RZ \div 8
  IN  memset(memset(shadow, w, FREED, n), w + n + (sz - 2 * RZ) \div 8, FREED, n)

\* removeAddr: all words of a region of sz bytes, a last partial one included.
removeAddr(shadow, memL, sz) ==
  memset(shadow, getShadowMemoryAddress(memL), FREED,
         2 * (RZ \div 8) + (sz - 2 * RZ + 7) \div 8)

\* Slip: the last byte of an access not looked at.
SlipFirstByteOnly(shadow, build, mem, accessSize) ==
  LET var == shadow[getShadowMemoryAddress(mem)]
  IN  IF build.ASANCheck THEN IF var # 0 /\ ByteOf(mem) + 1 > var THEN 1 ELSE 0
      ELSE IF BIT_TST(var, ByteOf(mem)) THEN 1 ELSE 0

\* checkRegistration: 1 for a reported access, 0 for an accepted one; the
\* first byte is looked up, then the last.
checkRegistration(shadow, build, mem, accessSize) ==
  LET last == mem + accessSize - 1
      var == shadow[getShadowMemoryAddress(mem)]
      varLast == shadow[getShadowMemoryAddress(last)]
      reported ==
        IF ~build.ASANCheck
        THEN BIT_TST(var, ByteOf(mem)) \/ BIT_TST(varLast, ByteOf(last))
        ELSE IF var # 0
        THEN ByteOf(mem) + accessSize > var \/ var \in {FREED, POISONED}
        ELSE /\ accessSize > 1 /\ varLast # 0
             /\ varLast \in {FREED, POISONED} \/ ByteOf(last) + 1 > varLast
  IN  IF reported THEN 1 ELSE 0

\* checkMemoryAccess, with the set of addresses that hold the byte redzone:
\* the fast check looks at the first and the last byte of the access.
checkMemoryAccess(shadow, build, pattern, mem, accessSize) ==
  LET matches == {mem, mem + accessSize - 1} \cap pattern # {}
  IN  IF build.useRegistration
      THEN IF build.fastCheck /\ ~matches THEN 0
           ELSE checkRegistration(shadow, build, mem, accessSize)
      ELSE IF matches THEN 1 ELSE 0

=============================================================================
