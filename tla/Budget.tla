------------------------------- MODULE Budget -------------------------------
(***************************************************************************)
(* The split of a machine's memory between the owner's sessions, the brain *)
(* and CI (compute of pskit/budget.py), in whole numbers.                  *)
(*                                                                         *)
(* Memory is given in MiB.  The fractions of it the code takes are counted *)
(* in parts, Scale of which are a MiB, so that each of them is exact; the  *)
(* limits are multiples of 256 MiB again.  The code's floating point can   *)
(* differ from this only where a fraction falls on such a multiple.        *)
(*                                                                         *)
(* WithoutPeak is a fault a property must detect in the definition after   *)
(* it.                                                                     *)
(***************************************************************************)
EXTENDS Naturals

Scale == 30000
GiB   == 1024
Step  == 256

Lower(x, y)  == IF x <= y THEN x ELSE y
Higher(x, y) == IF x >= y THEN x ELSE y

RoundDown(parts) == Step * (parts \div (Step * Scale))

Margin(ram)    == Higher(GiB * Scale, 3180 * ram)                   \* 0.106
SystemLow(ram) == Lower(2 * GiB * Scale, 1920 * ram)                \* 0.064
CiMax(ram, ci) == IF ci THEN 3831 * ram ELSE 0                      \* 0.1277

(* The brain's peak and a quarter, at least a GiB, at most a third; a      *)
(* reference share without a manifest, or when it declares no peak.        *)
BrainMax(ram, peak) ==
  IF peak > 0 THEN Lower(Higher(37500 * peak, GiB * Scale), 10000 * ram)
  ELSE 9573 * ram                                                   \* 0.3191

Spent(ram, peak, ci) == Margin(ram) + BrainMax(ram, peak) + CiMax(ram, ci)

WithoutPeak(ram, peak, ci) == Scale * ram - Spent(ram, 0, ci)

UserMax(ram, peak, ci) == Scale * ram - Spent(ram, peak, ci)

(* Otherwise compute() raises ValueError.                                  *)
Fits(ram, peak, ci) ==
  ram >= 2 * GiB /\ Spent(ram, peak, ci) + GiB * Scale <= Scale * ram

Compute(ram, peak, ci) ==
  LET user  == UserMax(ram, peak, ci)
      brain == BrainMax(ram, peak)
      own   == CiMax(ram, ci)
  IN [user |-> RoundDown(user), brain |-> RoundDown(brain), ci |-> RoundDown(own),
      system_low |-> RoundDown(SystemLow(ram)),
      user_high  |-> RoundDown(user - ((user + 6) \div 7)),         \* 12/14
      brain_low  |-> RoundDown((2 * brain) \div 5),
      brain_high |-> RoundDown((4 * brain) \div 5),
      ci_high    |-> RoundDown((3 * own) \div 4),
      swap       |-> RoundDown(SystemLow(ram)),
      parent_max |-> RoundDown(brain) + RoundDown(own)]

Ceilings(b) == b.user + b.brain + b.ci
=============================================================================
