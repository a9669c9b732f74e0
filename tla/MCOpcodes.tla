------------------------------ MODULE MCOpcodes ------------------------------
(***************************************************************************)
(* Requests for Opcodes.  x86-64: int32_t is scaled to Half, and every      *)
(* distance up to more than 2 * Half is asked for, so that each limit is    *)
(* crossed both ways.  Thumb-2 and AArch64: the distances where a field or  *)
(* a byte of the branch changes, up to the limits of the branch and of the  *)
(* checks in the code.  Pointers have each immediate field at its limits.   *)
(* The addresses of functions tell the architectures' requests apart.       *)
(***************************************************************************)
EXTENDS Opcodes

CONSTANTS Middle, Span

\* All but the distance of exactly +Half.
X64Requests ==
  {r \in [fnStart : {Middle}, pError : {<<1, 2, 3, 4>>, <<65535, 0, 43690, 0>>},
          throwFn : ((Middle - Span) .. (Middle + Span)) \ (Middle .. (Middle + PatchSize - 1))] :
     Distance(r) # Half}

-----------------------------------------------------------------------------
\* Around the powers of two that begin a field, and in between.
Around(powers, unit) == UNION {{2^i - unit, 2^i, 2^i + unit, 3 * 2^(i - 1)} : i \in powers}

ThumbPatchSize == 12

ThumbRequest(distance, pointer) ==
  [fnStart |-> 2^25, throwFn |-> 2^25 + ThumbPatchSize + distance + 1, pError |-> pointer]

\* imm11, imm10, I2, I1 and S.
ThumbSteps == Around({4, 8, 11, 12, 13, 19, 21, 22, 23}, 2)

ThumbPointers ==
  {<<l, 65535 - l>> : l \in {0, 255, 256, 1792, 2047, 2048, 4095, 4096, 43690, 65535}}

ThumbNear ==
  {ThumbRequest(d, p) : p \in ThumbPointers,
     d \in ThumbSteps \cup {-d - ThumbPatchSize : d \in ThumbSteps} \cup {2^24 - 2, -2^24}}

\* The first targets that a B.W cannot reach.
ThumbFar == {ThumbRequest(d, p) : d \in {2^24, -2^24 - 2}, p \in ThumbPointers}

-----------------------------------------------------------------------------
Aarch64Request(rel, pointer) ==
  [fnStart |-> 2^28 + 2^27, throwFn |-> 2^28 + 2^27 + 16 + rel, pError |-> pointer]

Aarch64Steps == Around({6, 9, 10, 11, 17, 18, 19, 25, 26}, 4) \cup {2^27 - 4}

Quarters == {0, 7, 8, 255, 2047, 2048, 4660, 43690, 65535}

Aarch64Pointers ==
  {<<q, 65535 - q, 0, 1>> : q \in Quarters} \cup {<<1, 2, q, 65535 - q>> : q \in Quarters}

\* Throw is behind the function, in reach of a branch, or beyond the check.
Aarch64Forward ==
  {Aarch64Request(rel, p) : rel \in Aarch64Steps \cup {2^28, 2^28 + 4}, p \in Aarch64Pointers}

\* Addresses do not matter to the fallback.
FallbackCalls == {[fnStart |-> 0, throwFn |-> t, pError |-> Null] : t \in {16, 2^30}}

NoRequests == {}
=============================================================================
