--------------------------- MODULE MC_FeishuAdapter ---------------------------
(* A small instance of FeishuAdapter for TLC: two deliveries, of one message  *)
(* or of two, and a run that asks for up to three approvals.                  *)
EXTENDS FeishuAdapter, FiniteSets, TLC

CONSTANTS m1, m2, d1, d2, q1, q2, q3, allow, reject, k1

MC_RunOf == [q \in Requests |-> m1]

\* Bound: two deliveries with one approval and a click, one delivery with three
\* approvals, or with two and a click.
MC_Begun == Cardinality({d \in Deliveries : work[d].at # "off"})
MC_Asked == Cardinality({q \in Requests : ask[q].at # "none"})
MC_Clicked == Cardinality({k \in Clicks : click[k].at # "idle"})
MC_Bound ==
  /\ MC_Begun + MC_Asked + MC_Clicked <= 4
  /\ MC_Begun = 2 => MC_Asked <= 1

MC_Symmetry == Permutations(Deliveries) \cup Permutations(Requests) \cup Permutations(Decisions)
===============================================================================
