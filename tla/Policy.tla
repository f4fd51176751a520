------------------------------- MODULE Policy -------------------------------
(***************************************************************************)
(* The scheduling policy of main(queue).cpp: Model::solve sizes the three  *)
(* periods of a controlMethod from measured speeds, the monitor deals them *)
(* out in turn, and three stages spend what they are granted.              *)
(*                                                                         *)
(* monitor() ships a fixed method in place of model.solve(), which is      *)
(* commented out; both are methods here.  The stages are those of Pipeline *)
(* reduced to the bytes they have left: Pipeline models their threads, and *)
(* this module what a policy does to them.  Doubles are exact fractions,   *)
(* and a grant is cut to an integer as the assignment to long long does.   *)
(***************************************************************************)
EXTENDS Integers

CONSTANTS
  Settings,     \* the values Model::init may be given, see IsSetting
  Fixed,        \* the method written into monitor()
  Input,        \* bytes of the data set
  Block,        \* a stage |-> the bytes it takes at a time
  CreditCap     \* a bound on balances, above which they are all alike

Stages == 1..3

Periods == 0..2

Types == 0..3

Shipped == -1       \* stands for the method written into monitor()

(* A positive speed for every type and number of threads.  Where solveCT   *)
(* divides by C[cT][1] - 2 * C[cT][2], the table of Model::init does not   *)
(* let it be zero: two threads are not half as fast as one.                *)
IsSetting(m) ==
  /\ {m.D, m.V1, m.V3} \subseteq Nat \ {0}
  /\ \A cT \in Types : m.alpha[cT][1] \in Nat \ {0} /\ m.alpha[cT][2] \in Nat \ {0}
  /\ \A cT \in Types, n \in 1..3 : m.C[cT][n] \in Nat \ {0}
  /\ \A cT \in Types : m.C[cT][1] # 2 * m.C[cT][2]

ASSUME PolicyAssumption ==
  /\ \A m \in Settings : IsSetting(m)
  /\ Fixed \in [1..3 -> [Stages -> [pool : Int, credit : Int]]]
  /\ Input \in Nat
  /\ Block \in [Stages -> Nat \ {0}]
  /\ CreditCap \in Nat /\ CreditCap > Input

-----------------------------------------------------------------------------
(* Fractions, with a positive denominator and in lowest terms. *)

gcd[p \in Nat \X Nat] ==
  IF p[2] = 0 THEN p[1] ELSE gcd[<<p[2], p[1] % p[2]>>]

Abs(n) == IF n < 0 THEN -n ELSE n

Frac(n, d) ==
  LET g == gcd[<<Abs(n), Abs(d)>>]
  IN IF d < 0 THEN <<-n \div g, -d \div g>> ELSE <<n \div g, d \div g>>

a (+) b == Frac(a[1] * b[2] + b[1] * a[2], a[2] * b[2])

a (-) b == Frac(a[1] * b[2] - b[1] * a[2], a[2] * b[2])

a (.) b == Frac(a[1] * b[1], a[2] * b[2])

a (/) b == Frac(a[1] * b[2], a[2] * b[1])

a \prec b == a[1] * b[2] < b[1] * a[2]

(* The conversion of a double to long long. *)
Trunc(a) == IF a[1] < 0 THEN -((-a[1]) \div a[2]) ELSE a[1] \div a[2]

-----------------------------------------------------------------------------
(* Sizing the periods. *)

Longer_First(a, b) == a

(* std::max. *)
Longer(a, b) == IF a \prec b THEN b ELSE a

(* The time in which all three stages work side by side, so that stage 2   *)
(* compresses D in t1 and t, at the speed of two threads outside of it and *)
(* of one within.                                                          *)
Overlap_NotTwice(D, t1, t, C1, C2) == (D (-) ((t1 (+) t) (.) C2)) (/) (C1 (-) C2)

Overlap(D, t1, t, C1, C2) == (D (-) ((t1 (+) t) (.) C2)) (/) (C1 (-) (C2 (.) <<2, 1>>))

(* One controlMethod::period: the pools and the grants of the stages. *)
Period(pools, grants) ==
  [s \in Stages |-> [pool |-> pools[s], credit |-> Trunc(grants[s])]]

(* The three shapes of a method, with the time it expects to take.  Stage  *)
(* 2 compresses with one thread beside stages 1 and 3, with two beside one *)
(* of them, and with three alone.  Here all three work from the start, and *)
(* stages 2 and 3 go on when the input has been read;                      *)
Together(V1, V3, C1, C2, t1, t2, t) ==
  [T |-> Longer(t1 (+) t2, t),
   times |-> <<t1, t2, <<0, 1>>>>,
   period |-> <<Period(<<1, 1, 1>>, <<t1 (.) V1, t1 (.) C1, t1 (.) V3>>),
                Period(<<0, 2, 1>>, <<<<1, 1>>, t2 (.) C2, t2 (.) V3>>),
                Period(<<1, 1, 1>>, <<<<0, 1>>, <<0, 1>>, <<0, 1>>>>)>>]

(* here stages 1 and 3 never work at the same time;                        *)
Apart(V1, V3, C2, C3, t1, alone, t) ==
  [T |-> (t1 (+) alone) (+) t,
   times |-> <<t1, alone, t>>,
   period |-> <<Period(<<1, 2, 0>>, <<t1 (.) V1, t1 (.) C2, <<1, 1>>>>),
                Period(<<0, 3, 0>>, <<<<1, 1>>, alone (.) C3, <<1, 1>>>>),
                Period(<<0, 2, 1>>, <<<<1, 1>>, t (.) C2, t (.) V3>>)>>]

(* and here they do for a time x.                                          *)
Overlapping(V1, V3, C1, C2, before, x, after) ==
  [T |-> (before (+) x) (+) after,
   times |-> <<before, x, after>>,
   period |-> <<Period(<<1, 2, 0>>, <<before (.) V1, before (.) C2, <<1, 1>>>>),
                Period(<<1, 1, 1>>, <<x (.) V1, x (.) C1, x (.) V3>>),
                Period(<<0, 2, 1>>, <<<<1, 1>>, after (.) C2, after (.) V3>>)>>]

(* The method for one compression type.                                    *)
solveCT(m, cT) ==
  LET N(n) == <<n, 1>>
      D == N(m.D)
      V1 == N(m.V1)
      V3 == m.alpha[cT] (.) N(m.V3)
      C(n) == N(m.C[cT][n])
      t == D (/) V3
      t1 == D (/) V1
      t2 == (D (.) (V1 (-) C(1))) (/) (V1 (.) C(2))
  IN IF cT \in {0, 3} \/ (t1 (+) t2) \prec t
     THEN Together(V1, V3, C(1), C(2), t1, t2, t)
     ELSE IF ~(t2 \prec t)
     THEN LET x == (D (-) (D (.) (C(2) (/) V1))) (-) (t (.) C(2))
          IN Apart(V1, V3, C(2), C(3), t1, x (/) C(3), t)
     ELSE LET x == Overlap(D, t1, t, C(1), C(2))
          IN Overlapping(V1, V3, C(1), C(2), t1 (-) x, x, t (-) x)

(* Of the four plans, that of type 3, no compression, unless another one   *)
(* is expected to be faster.                                               *)
solve(plan) ==
  LET Faster(best, cT) == IF plan[cT].T \prec plan[best].T THEN cT ELSE best
  IN Faster(Faster(Faster(3, 0), 1), 2)

-----------------------------------------------------------------------------
(* Dealing the periods out. *)

VARIABLES
  setting,      \* what the method was computed from
  plans,        \* a compression type |-> what solveCT makes of it
  chosen,       \* the type solve() compresses with, or Shipped
  flag,         \* the period dealt out last, monitor's local
  control,      \* control1, control2, control3: pool and credit of a stage
  left,         \* left[s]: bytes that wait for stage s
  end           \* add1_end, add2_end, add3_end

vars == <<setting, plans, chosen, flag, control, left, end>>

Choices == Types \cup {Shipped}

method == IF chosen = Shipped THEN Fixed ELSE plans[chosen].period

(* setControl1/2/3: a grant with a negative number is refused whole.       *)
(* Grants go on as long as any stage is used up; those beyond CreditCap,   *)
(* which no input is left to spend, are not told apart.                    *)
SetControl(was, given) ==
  LET Sum(s) == was[s].credit + given[s].credit
  IN [s \in Stages |->
        IF given[s].pool >= 0 /\ given[s].credit >= 0
        THEN [pool |-> given[s].pool, credit |-> IF Sum(s) > CreditCap THEN CreditCap ELSE Sum(s)]
        ELSE was[s]]

Init ==
  /\ setting \in Settings
  /\ plans = [cT \in Types |-> solveCT(setting, cT)]
  /\ chosen \in {Shipped, solve(plans)}
  /\ flag = 0
  /\ control = SetControl([s \in Stages |-> [pool |-> 1, credit |-> 0]],
                          method[1])
  /\ left = [s \in Stages |-> IF s = 1 THEN Input ELSE 0]
  /\ end = [s \in Stages |-> FALSE]

MayAdd(s) == control[s].pool > 0 /\ control[s].credit > 0

(* What stage 2 makes of n bytes; the other stages keep them as they are. *)
Result(s, n) ==
  IF s = 2 /\ chosen # Shipped
  THEN LET ratio == setting.alpha[chosen] IN (n * ratio[2] + ratio[1] - 1) \div ratio[1]
  ELSE n

InputOver(s) == s > 1 => end[s - 1]

(* A stage takes one block, or the short last one. *)
Take(s) ==
  LET n == IF left[s] < Block[s] THEN left[s] ELSE Block[s]
  IN /\ MayAdd(s)
     /\ left[s] > 0
     /\ left[s] >= Block[s] \/ InputOver(s)
     /\ control' = [control EXCEPT ![s].credit = @ - n]
     /\ left' = [r \in Stages |->
                   IF r = s THEN left[r] - n
                   ELSE IF r = s + 1 THEN left[r] + Result(s, n) ELSE left[r]]
     /\ UNCHANGED <<setting, plans, chosen, flag, end>>

(* Its end job waits for credit as well. *)
AddEnd(s) ==
  /\ MayAdd(s)
  /\ ~end[s]
  /\ InputOver(s)
  /\ left[s] = 0
  /\ end' = [end EXCEPT ![s] = TRUE]
  /\ UNCHANGED <<setting, plans, chosen, flag, control, left>>

Stage(s) == Take(s) \/ AddEnd(s)

UsedUp_Overdrawn(s) ==
  \/ control[s].credit < 0
  \/ control[s].pool # 0 /\ end[s]

UsedUp(s) ==
  \/ control[s].credit <= 0
  \/ control[s].pool # 0 /\ end[s]

finish == \E s \in Stages : UsedUp(s)

Following_NoReturn == IF flag = 2 THEN 2 ELSE flag + 1

(* The period that follows; after the third comes the first. *)
Following == (flag + 1) % 3

monitor ==
  /\ ~end[3]
  /\ finish
  /\ flag' = Following
  /\ control' = SetControl(control, method[flag' + 1])
  /\ UNCHANGED <<setting, plans, chosen, left, end>>

(* No stage can go on, and no period is used up: the monitor waits too. *)
Stalled ==
  /\ ~end[3]
  /\ ~finish
  /\ \A s \in Stages :
       ~(/\ MayAdd(s)
         /\ \/ left[s] >= Block[s]
            \/ InputOver(s) /\ ~end[s])

Next == monitor \/ \E s \in Stages : Stage(s)

(* A feeder that waits for credit polls it without sleeping, while the     *)
(* monitor sleeps TIMESPAN between two grants: a feeder that may go on     *)
(* time and again does.                                                    *)
Fairness == WF_vars(monitor) /\ \A s \in Stages : SF_vars(Stage(s))

Spec == Init /\ [][Next]_vars /\ Fairness

-----------------------------------------------------------------------------
(* What stage s is granted in one turn of a method's three periods. *)
TurnGrant(periods, s) ==
  LET G(p) == IF periods[p][s].credit >= 0 THEN periods[p][s].credit ELSE 0
  IN G(1) + G(2) + G(3)

(* solveCT: whatever the speeds, and whichever grants setControl refuses   *)
(* because the plan computes a negative time, one turn of the periods      *)
(* lets stages 1 and 2 work through D, the data the plan is made for, but  *)
(* for what three roundings cut off.                                       *)
CoversData ==
  \A c \in Types, s \in 1..2 : TurnGrant(plans[c].period, s) > setting.D - 3

(* solveCT: a plan without a negative time in it expects, and prints as    *)
(* "expected", a time no shorter than the disk or the network alone needs  *)
(* for D; solve() compares these times.  Where the stages overlap by less  *)
(* than nothing, or stage 2 is left less than nothing to do, the plan has  *)
(* a negative time, and can expect too little.                             *)
BeatsNoStage ==
  \A c \in Types :
    (\A p \in 1..3 : ~(plans[c].times[p] \prec <<0, 1>>)) =>
      /\ ~(plans[c].T \prec Frac(setting.D, setting.V1))
      /\ ~(plans[c].T \prec (Frac(setting.D, setting.V3) (/) setting.alpha[c]))

(* finish: when no stage can go on and the monitor deals nothing out, it   *)
(* is because the policy pauses a stage that still has credit, and the     *)
(* others wait for its output.                                             *)
StalledOnlyByPause ==
  Stalled => \E s \in Stages : control[s].pool = 0 /\ control[s].credit > 0 /\ ~end[s]

(* monitor: the periods go round until everything is sent or the program   *)
(* stalls: they never go round for ever, granting nothing that helps.      *)
SentOrStalled == <>(end[3] \/ Stalled)
=============================================================================
