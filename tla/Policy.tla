------------------------------- MODULE Policy -------------------------------
(***************************************************************************)
(* sandbox-policy: what SandboxPolicy::validate and preflight accept, and  *)
(* the arithmetic under them.  u64 is scaled down to 0 .. Word - 1 and the *)
(* step between the units of a size from 1024 to Kilo; nothing else about  *)
(* the numbers changes, so what wraps, saturates or overflows there does   *)
(* so here.                                                                *)
(***************************************************************************)
EXTENDS Integers

CONSTANTS
    Word,            \* u64::MAX + 1
    Kilo,            \* a K in a size
    HostMemory,      \* HostCapacity::memory_bytes
    HostMillicores   \* HostCapacity::millicores

ASSUME PolicyAssumption ==
    /\ Word \in Nat \ {0} /\ Kilo \in Nat \ {0}
    /\ HostMemory \in 0 .. Word - 1
    /\ HostMillicores \in 0 .. Word - 2   \* u64::MAX is also what infinity becomes

\* An f64 number of cpus: NaN, an infinity, or a finite one given in tenths of
\* a millicore, so that rounding shows.
NaN == [is |-> "nan"]
Infinity == [is |-> "inf"]
MinusInfinity == [is |-> "-inf"]
Cpus(tenths) == [is |-> "number", tenths |-> tenths]
CpuValues == {NaN, Infinity, MinusInfinity} \cup [is : {"number"}, tenths : Int]

\* A memory size as written: digits (or junk, which does not parse as a u64)
\* and the suffix, nothing, K, M, G or T as 0 .. 4.
Size(num, unit) == [num |-> num, unit |-> unit]
Junk == -1
Sizes == [num : Nat \cup {Junk}, unit : 0 .. 4]

Invalid == -1

-----------------------------------------------------------------------------
(* The code's arithmetic *)

\* `cpus <= 0.0`, which is false of NaN.
NotPositive(c) ==
    \/ c.is = "-inf"
    \/ c.is = "number" /\ c.tenths <= 0

\* Mutant: wrapping_mul, what `*` is in a release build.
WrappingMul(n, m) == (n * m) % Word

\* u64::checked_mul
CheckedMul(n, m) == IF n * m < Word THEN n * m ELSE Invalid

\* What the suffix stands for: 1, 1024, 1024 * 1024 and so on.
Multiplier(unit) ==
    CASE unit = 0 -> 1
      [] unit = 1 -> Kilo
      [] unit = 2 -> Kilo * Kilo
      [] unit = 3 -> Kilo * Kilo * Kilo
      [] unit = 4 -> Kilo * Kilo * Kilo * Kilo

\* parse_size: Invalid for what does not parse or does not fit.
ParseSize(s) ==
    IF s.num \in 0 .. Word - 1 THEN CheckedMul(s.num, Multiplier(s.unit)) ELSE Invalid

\* Mutant: rounded up.
MillicoresUp(c) ==
    IF c.is = "inf" THEN Word - 1
    ELSE IF c.is # "number" \/ c.tenths < 0 THEN 0
    ELSE (c.tenths + 9) \div 10

\* `(cpus * 1000.0).round() as u64`: the cast saturates, and makes NaN 0.
Millicores(c) ==
    IF c.is = "inf" THEN Word - 1
    ELSE IF c.is # "number" \/ c.tenths < 0 THEN 0
    ELSE LET r == (c.tenths + 5) \div 10 IN IF r < Word THEN r ELSE Word - 1

\* SandboxPolicy::validate
Validates(q) ==
    /\ q.version = 1
    /\ ~NotPositive(q.cpus)
    /\ ParseSize(q.memory) # Invalid
    /\ q.mode = "allowlist" => q.listed
    /\ q.secrets # "blank"

\* limited-core's allocate: a pool gives what it still has.  External.
Fits(pool, need) == need <= pool

\* preflight: pools of the whole host, made for this one policy.
Preflight(q) ==
    /\ Validates(q)
    /\ Fits(HostMemory, ParseSize(q.memory))
    /\ Fits(HostMillicores, Millicores(q.cpus))
=============================================================================
