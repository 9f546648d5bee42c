-------------------------- MODULE WindowedScaffold --------------------------
(***************************************************************************)
(* The windowed double-scalar addition [a]G + [b]H around the leaf: one    *)
(* direct seed from the lowest word of a, one leaf call for every further  *)
(* word of a and b, and, in the published scaffold, a classical tail for   *)
(* the highest words of b.  Three replays walk it:                         *)
(*   "scaffold_schedule"  extended_verifier.run_scaffold_schedule          *)
(*   "raw32"              project.run_full_raw32_semantic_check            *)
(*   "flat_folded"        the flat program of derived_resources, whose     *)
(*                        leaf calls look up through the signed folded     *)
(*                        contract of lookup_research.py (the repository   *)
(*                        builds it and never runs it: here it is run and  *)
(*                        compared as the scaffold audit compares)         *)
(*                                                                         *)
(* A point is written as its multiple of G, so add_affine is addition      *)
(* modulo the order of the group and None is 0: PointAddLeaf shows that a  *)
(* leaf call is add_affine.                                                *)
(***************************************************************************)
EXTENDS Integers, Sequences

CONSTANTS Order,      \* the order of G: SECP_N
          WordBits,   \* bits of a window: 16
          Windows,    \* windows of a scalar: 16
          TailLength, \* windows of b left to the classical tail: 3
          Scalars,    \* scalars a and b explored
          PublicKeys, \* H, as multiples of G
          Replays

(* The code shifts: 1 << n. *)
Pow2(n) == LET p[i \in 0 .. n] == IF i = 0 THEN 1 ELSE 2 * p[i - 1] IN p[n]

ASSUME ScaffoldAssumption ==
  /\ Order \in Nat \ {0}
  /\ WordBits \in Nat /\ WordBits > 0 /\ WordBits % 2 = 0
  /\ Windows \in Nat /\ TailLength \in 0 .. Windows
  /\ Order <= Pow2(WordBits * Windows)
  /\ Scalars \subseteq 0 .. Order - 1
  /\ PublicKeys \subseteq 1 .. Order - 1
  /\ Replays \subseteq {"scaffold_schedule", "raw32", "flat_folded"}

Point == 0 .. Order - 1
None == 0
Word == 0 .. Pow2(WordBits) - 1
Half == Pow2(WordBits - 1)

(* Fault: the sum of a point and its inverse is not infinity. *)
add_affine_no_inverse(p, q) == IF p + q > Order THEN p + q - Order ELSE p + q
add_affine(p, q) == (p + q) % Order
neg_affine(p) == (-p) % Order
-----------------------------------------------------------------------------
(***************************************************************************)
(* Multiplication, as the code does it: by additions only.                 *)
(***************************************************************************)
(* Doubling a point n times. *)
Doubled(point, n) ==
  LET q[i \in 0 .. n] == IF i = 0 THEN point ELSE add_affine(q[i - 1], q[i - 1])
  IN  q[n]

(* Fault: one doubling too few between two windows. *)
window_bases_short(base, width) ==
  LET arr[i \in 0 .. Windows - 1] == IF i = 0 THEN base ELSE Doubled(arr[i - 1], width - 1)
  IN  arr
window_bases(base, width) ==
  LET arr[i \in 0 .. Windows - 1] == IF i = 0 THEN base ELSE Doubled(arr[i - 1], width)
  IN  arr

(* The state of a loop over the bits of a scalar: what is left of it, the   *)
(* multiple of the point that its lowest bit stands for, the sum so far.   *)
Loop == (0 .. Pow2(WordBits * Windows)) \X Point \X Point

mul_affine(k, point) ==
  LET loop[s \in Loop] ==
        IF s[1] = 0 THEN s[3]
        ELSE loop[<<s[1] \div 2, add_affine(s[2], s[2]),
                    IF s[1] % 2 = 1 THEN add_affine(s[3], s[2]) ELSE s[3]>>]
  IN  loop[<<k, point, None>>]

(* One row of precompute_window_tables: the multiples of a base, by        *)
(* repeated addition.                                                      *)
Multiples(base, max) ==
  LET arr[d \in 0 .. max] == IF d = 0 THEN None
                             ELSE IF d = 1 THEN base ELSE add_affine(arr[d - 1], base)
  IN  arr

(* mul_fixed_window over the tables of one base, width bits at a time.     *)
mul_fixed_window(k, point, width) ==
  LET loop[s \in Loop] ==
        IF s[1] = 0 THEN s[3]
        ELSE LET digit == s[1] % Pow2(width)
             IN  loop[<<s[1] \div Pow2(width), Doubled(s[2], width),
                        IF digit = 0 THEN s[3]
                        ELSE add_affine(s[3], Multiples(s[2], Pow2(width) - 1)[digit])>>]
  IN  loop[<<k % Order, point, None>>]
-----------------------------------------------------------------------------
(***************************************************************************)
(* Lookups.                                                                *)
(***************************************************************************)
window_digit_u16(value, idx) == (value \div Pow2(WordBits * idx)) % Pow2(WordBits)

compute_window_lookup(bases, idx, digit) ==
  IF digit = 0 THEN None ELSE mul_affine(digit, bases[idx])

_lookup_from_precomputed(bases, idx, digit) ==
  IF digit = 0 THEN None ELSE mul_fixed_window(digit, bases[idx], WordBits \div 2)

signed_i16(w) == IF w >= Half THEN w - Pow2(WordBits) ELSE w

(* fold_signed_i16: the index of a word other than Half in the folded table. *)
magnitude(w) == IF signed_i16(w) < 0 THEN -signed_i16(w) ELSE signed_i16(w)

(* The magnitudes 0 .. Half - 1 of a base, and the point beyond them.      *)
build_positive_table(base) ==
  LET arr == Multiples(base, Half - 1)
  IN  [cache |-> arr, special_pos |-> add_affine(arr[Half - 1], base)]

(* The folded contract: the entry of the word's magnitude, negated for a   *)
(* negative word, and a point of its own for the word that has none.       *)
(* Fault: the dedicated point is not the negated one. *)
contract_lookup_point_special(bases, idx, w) ==
  LET table == build_positive_table(bases[idx])
  IN  CASE w = Half -> table.special_pos
        [] w < Half -> table.cache[w]
        [] OTHER    -> neg_affine(table.cache[magnitude(w)])
contract_lookup_point(bases, idx, w) ==
  LET table == build_positive_table(bases[idx])
  IN  CASE w = Half -> neg_affine(table.special_pos)
        [] w < Half -> table.cache[magnitude(w)]
        [] OTHER    -> neg_affine(table.cache[magnitude(w)])

Lookup(r, bases, idx, digit) ==
  CASE r = "scaffold_schedule" -> compute_window_lookup(bases, idx, digit)
    [] r = "raw32"             -> _lookup_from_precomputed(bases, idx, digit)
    [] OTHER                   -> contract_lookup_point(bases, idx, digit)
-----------------------------------------------------------------------------
(***************************************************************************)
(* The schedules: windows 1 .. of a, then windows 0 .. of b.               *)
(***************************************************************************)
Call(phase, idx) == [phase |-> phase, idx |-> idx]

Calls(last_b) ==
  [i \in 1 .. Windows - 1 |-> Call("phase_a", i)]
    \o [i \in 1 .. last_b |-> Call("phase_b", i - 1)]

raw32_schedule == Calls(Windows)
retained_window_additions == Calls(Windows - TailLength)

(* Fault: the raw-32 schedule forgets the last window of b. *)
LeafCallsShort(r) == IF r = "raw32" THEN Calls(Windows - 1) ELSE retained_window_additions
LeafCalls(r) == IF r = "raw32" THEN raw32_schedule ELSE retained_window_additions
TailWindows(r) ==
  IF r = "raw32" THEN << >> ELSE [i \in 1 .. TailLength |-> Windows - TailLength + i - 1]
-----------------------------------------------------------------------------
VARIABLES replay, a, b, h,   \* one case of an audit, fixed at the start
          stage,             \* "seed", "leaf", "tail", "compare", "done"
          position,          \* calls done in this stage
          acc,               \* the accumulator, in affine form
          status             \* what the audit writes about the case

vars == <<replay, a, b, h, stage, position, acc, status>>
case == <<replay, a, b, h>>

Init ==
  /\ replay \in Replays
  /\ a \in Scalars /\ b \in Scalars /\ h \in PublicKeys
  /\ stage = "seed" /\ position = 0 /\ acc = None /\ status = "none"

g_window_bases == window_bases(1, WordBits)
h_window_bases == window_bases(h, WordBits)

(* The first lookup replaces a leaf call; it is never folded.              *)
Seed ==
  /\ stage = "seed"
  /\ LET digit == window_digit_u16(a, 0)
     IN  acc' = IF replay = "raw32"
                THEN _lookup_from_precomputed(g_window_bases, 0, digit)
                ELSE compute_window_lookup(g_window_bases, 0, digit)
  /\ stage' = "leaf"
  /\ UNCHANGED <<case, position, status>>

LeafCall ==
  /\ stage = "leaf" /\ position < Len(LeafCalls(replay))
  /\ LET call == LeafCalls(replay)[position + 1]
         bases == IF call.phase = "phase_a" THEN g_window_bases ELSE h_window_bases
         digit == window_digit_u16(IF call.phase = "phase_a" THEN a ELSE b, call.idx)
     IN  acc' = add_affine(acc, Lookup(replay, bases, call.idx, digit))
  /\ position' = position + 1
  /\ UNCHANGED <<case, stage, status>>

LeafCallsDone ==
  /\ stage = "leaf" /\ position = Len(LeafCalls(replay))
  /\ stage' = IF replay = "raw32" THEN "compare" ELSE "tail"
  /\ position' = 0
  /\ UNCHANGED <<case, acc, status>>

(* The classical tail adds the remaining words of b, unfolded.             *)
TailAddition ==
  /\ stage = "tail" /\ position < Len(TailWindows(replay))
  /\ LET idx == TailWindows(replay)[position + 1]
     IN  acc' = add_affine(acc, compute_window_lookup(h_window_bases, idx,
                                                      window_digit_u16(b, idx)))
  /\ position' = position + 1
  /\ UNCHANGED <<case, stage, status>>

TailDone ==
  /\ stage = "tail" /\ position = Len(TailWindows(replay))
  /\ stage' = "compare" /\ position' = 0
  /\ UNCHANGED <<case, acc, status>>

Expected ==
  IF replay = "raw32"
  THEN add_affine(mul_fixed_window(a, 1, WordBits \div 2), mul_fixed_window(b, h, WordBits \div 2))
  ELSE add_affine(mul_affine(a % Order, 1), mul_affine(b % Order, h))

Compare ==
  /\ stage = "compare"
  /\ status' = IF acc = Expected THEN "PASS" ELSE "FAIL"
  /\ stage' = "done"
  /\ UNCHANGED <<case, position, acc>>

Decided == stage = "done" /\ UNCHANGED vars

Next == \/ Seed \/ LeafCall \/ LeafCallsDone \/ TailAddition \/ TailDone
        \/ Compare \/ Decided

Spec == Init /\ [][Next]_vars
-----------------------------------------------------------------------------
TypeOK ==
  /\ replay \in Replays /\ a \in Scalars /\ b \in Scalars /\ h \in PublicKeys
  /\ stage \in {"seed", "leaf", "tail", "compare", "done"}
  /\ position \in 0 .. 2 * Windows
  /\ acc \in Point /\ status \in {"none", "PASS", "FAIL"}

(* The words of a and of b that acc has taken in.                          *)
Taken ==
  CASE stage = "seed" -> <<0, 0>>
    [] stage = "leaf" -> IF position < Windows THEN <<position + 1, 0>>
                         ELSE <<Windows, position - (Windows - 1)>>
    [] stage = "tail" -> <<Windows, Windows - TailLength + position>>
    [] OTHER          -> <<Windows, Windows>>

(* Words that a folded leaf call takes in as negative numbers: what the    *)
(* sum falls short by.                                                     *)
Borrow(value, idx) ==
  IF window_digit_u16(value, idx) >= Half THEN Pow2(WordBits * (idx + 1)) ELSE 0
Borrowed(value, first, n) ==  \* by the words first .. n - 1
  LET s[i \in 0 .. n] == IF i <= first THEN 0 ELSE s[i - 1] + Borrow(value, i - 1) IN s[n]
Least(m, n) == IF m < n THEN m ELSE n
Shortfall ==
  IF replay # "flat_folded" THEN 0
  ELSE Borrowed(a, 1, Taken[1]) + h * Borrowed(b, 0, Least(Taken[2], Windows - TailLength))

(* After every call the accumulator is the sum for the scalars cut off     *)
(* after the words taken in: each word counts once, at its own weight, for *)
(* its own base, in the seed, in a leaf call or in the tail.  A folded     *)
(* call counts a word from Half on as the negative number of that word.    *)
RunningSum ==
  acc = ((a % Pow2(WordBits * Taken[1])) + h * (b % Pow2(WordBits * Taken[2])) - Shortfall) % Order

(* The scaffold audit and the raw-32 check write PASS for every case,      *)
(* whatever the scalars and the public key.                                *)
AuditPasses == replay # "flat_folded" => status # "FAIL"

(* Under the folded contract the unchanged schedule yields [a]G + [b]H     *)
(* for the cases without a word from Half on in a leaf call, and only when *)
(* the shortfall is a multiple of the order for the others.                *)
FoldedAuditVerdict ==
  replay = "flat_folded" /\ stage = "done" =>
    (status = "PASS" <=> Shortfall % Order = 0)
=============================================================================
