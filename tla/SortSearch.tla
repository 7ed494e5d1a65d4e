----------------------------- MODULE SortSearch -----------------------------
(***************************************************************************)
(* The macros SORT and SEARCH of lib64/include: a bubble sort and a binary *)
(* search that probes both ends of its interval.  An array is a sequence;  *)
(* comp, like the macros' argument, is negative, zero or positive; SEARCH  *)
(* returns a position, or 0 for the null pointer.                          *)
(***************************************************************************)
EXTENDS Integers, Sequences

\* The body of the inner loop; after has the pairs that are in wrong order.
SwapIfAfter(array, i, after) ==
  IF <<array[i], array[i + 1]>> \in after
  THEN [array EXCEPT ![i] = array[i + 1], ![i + 1] = array[i]]
  ELSE array

\* The inner loop.
Pass(array, idx_out, after) ==
  LET turn[i \in 0 .. idx_out] ==
        IF i = 0 THEN array ELSE SwapIfAfter(turn[i - 1], i, after)
  IN  turn[idx_out]

\* The outer loop makes the unsorted prefix shorter by one each time; a pass
\* over one element does nothing.
BubbleSort(array, after) ==
  LET turn[k \in 0 .. Len(array)] ==
        IF k = 0 THEN array ELSE Pass(turn[k - 1], Len(array) - k, after)
  IN  turn[Len(array)]

SORT(array, comp(_, _)) ==
  LET elements == {array[i] : i \in DOMAIN array}
  IN  BubbleSort(array, {p \in elements \X elements : comp(p[1], p[2]) > 0})

\* Mutant: the half that holds the target is dropped.
Halve_wrong_half(interval, diff) ==
  LET low == interval.low
      high == interval.high
      mid == (low + high) \div 2
  IN  CASE diff[low] = 0 \/ diff[high] = 0 \/ mid \in {low, high} -> interval
        [] OTHER -> IF diff[mid] > 0 THEN [low |-> low, high |-> mid]
                    ELSE [low |-> mid, high |-> high]

\* A turn of the search loop: it breaks when an end is the target or when
\* there is no middle, and takes one half otherwise.
Halve(interval, diff) ==
  LET low == interval.low
      high == interval.high
      mid == (low + high) \div 2
  IN  CASE diff[low] = 0 \/ diff[high] = 0 \/ mid \in {low, high} -> interval
        [] OTHER -> IF diff[mid] < 0 THEN [low |-> low, high |-> mid]
                    ELSE [low |-> mid, high |-> high]

\* What is found when the loop ends with this interval.
elem_found(interval, diff) ==
  CASE diff[interval.low] = 0 -> interval.low
    [] diff[interval.low] # 0 /\ diff[interval.high] = 0 -> interval.high
    [] OTHER -> 0

\* The loop; diff has the comparison of the target with each element.  It
\* breaks before it has made as many turns as there are elements.
Bisect(diff) ==
  LET n == Len(diff)
      turn[k \in 0 .. n] ==
        IF k = 0 THEN [low |-> 1, high |-> n] ELSE Halve(turn[k - 1], diff)
  IN  IF n = 0 THEN 0 ELSE elem_found(turn[n], diff)

SEARCH(array, target, comp(_, _)) ==
  Bisect([i \in 1 .. Len(array) |-> comp(target, array[i])])
=============================================================================
