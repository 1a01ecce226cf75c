------------------------- MODULE FairSchedulerProofs -------------------------
(***************************************************************************)
(* The fair pass keeps projects at their shares, for any number of         *)
(* projects and jobs, any sizes, priorities and weights, whether or not    *)
(* the weights divide the stride.                                          *)
(*                                                                         *)
(* FairShare is not inductive: what a project won says nothing of what it  *)
(* may still win.  ShareInv adds that its winnings are backed by virtual   *)
(* runtime: it received at most the difference of the two runtimes, what   *)
(* it was behind and what the other was charged too much.  A round then    *)
(* keeps FairShare because the project that is chosen is not ahead.        *)
(***************************************************************************)
EXTENDS FairScheduler, TLAPS

(* What p won over q is backed by their virtual runtimes.                  *)
Backed ==
  \A p, q \in Projects :
    won[<<p, q>>] <= Scale * (vruntime[p] - vruntime[q]) + Allowance(p, q)

ShareInv == FairTypeOK /\ Backed /\ FairShare

(* A charge rounded up is less than one unit above what it stands for:     *)
(* with r whole parts of weight w in scale s, n / w comes to r * n.        *)
LEMMA Rounding ==
  ASSUME NEW r \in Nat \ {0}, NEW w \in Nat \ {0}, NEW n \in Nat
  PROVE  LET charge == (n + w - 1) \div w
         IN  /\ charge \in Nat
             /\ r * n <= (w * r) * charge
             /\ (w * r) * charge <= r * n + w * r
             /\ r * n <= (w * r) * n
<1> DEFINE charge == (n + w - 1) \div w
<1>1. /\ charge \in Nat
      /\ n <= w * charge
      /\ w * charge <= n + w
  <2>1. n + w - 1 \in Nat
    OBVIOUS
  <2>2. ASSUME NEW m \in Nat
        PROVE  /\ m \div w \in Nat
               /\ w * (m \div w) <= m
               /\ m <= w * (m \div w) + w - 1
    OBVIOUS
  <2>3. /\ charge \in Nat
        /\ w * charge <= n + w - 1
        /\ n + w - 1 <= w * charge + w - 1
    BY <2>1, <2>2
  <2> HIDE DEF charge
  <2>4. w * charge \in Nat
    BY <2>3
  <2> DEFINE y == w * charge
  <2> HIDE DEF y
  <2>5. y \in Nat /\ y <= n + w - 1 /\ n + w - 1 <= y + w - 1
    BY <2>3, <2>4 DEF y
  <2>6. y <= n + w /\ n <= y
    BY <2>5
  <2> QED
    BY <2>3, <2>6 DEF y
<1> HIDE DEF charge
<1>2. \A x, y \in Nat : x <= y => r * x <= r * y
  OBVIOUS
<1>3. w * charge \in Nat /\ n + w \in Nat /\ w * n \in Nat /\ n <= w * n
  BY <1>1
<1>4. /\ r * n <= r * (w * charge)
      /\ r * (w * charge) <= r * (n + w)
      /\ r * n <= r * (w * n)
  BY <1>1, <1>2, <1>3
<1>5. /\ r * (w * charge) = (w * r) * charge
      /\ r * (n + w) = r * n + w * r
      /\ r * (w * n) = (w * r) * n
  BY <1>1
<1> QED
  BY <1>1, <1>4, <1>5 DEF charge

LEMMA CostPositive ==
  ASSUME NEW j \in Jobs
  PROVE  Cost(j) \in Nat /\ Cost(j) >= 1
BY FairAssumption DEF Cost, Jobs

(* What a job is charged, and what its project receives with it.           *)
LEMMA ChargeOfJob ==
  ASSUME FairTypeOK, NEW j \in Jobs
  PROVE  /\ ProjectOf[j] \in Projects
         /\ StrideDelta(j) \in Nat
         /\ Received(j) \in Nat
         /\ Received(j) <= Scale * StrideDelta(j)
         /\ Scale * StrideDelta(j) <= Received(j) + Scale
         /\ Received(j) <= Scale * (Stride * Cost(j))
         /\ Scale * (Stride * Cost(j)) \in Nat
<1> DEFINE w == weight[ProjectOf[j]]
           r == Scale \div w
           n == Stride * Cost(j)
<1>1. ProjectOf[j] \in Projects
  BY FairAssumption
<1>2. w \in Nat \ {0} /\ Scale % w = 0
  <2>1. w \in Weights \/ w = 1
    BY <1>1 DEF FairTypeOK, DefaultWeight
  <2> HIDE DEF w
  <2>2. Scale \in Nat /\ Scale % 1 = 0
    BY FairAssumption
  <2>3. \A v \in Weights : v \in Nat \ {0} /\ Scale % v = 0
    BY FairAssumption
  <2>4. CASE w \in Weights
    BY <2>3, <2>4, Zenon
  <2>5. CASE w = 1
    BY <2>2, <2>5
  <2> QED
    BY <2>1, <2>4, <2>5
<1>3. n \in Nat
  BY CostPositive, FairAssumption
<1>4. StrideDelta(j) = (n + w - 1) \div w /\ Received(j) = r * n
  BY DEF StrideDelta, Received
<1> HIDE DEF w, n
<1>5. Scale = w * r /\ r \in Nat \ {0}
  <2>1. Scale \in Nat \ {0}
    BY FairAssumption
  <2>2. r \in Nat /\ Scale = w * r
    BY <1>2, <2>1
  <2> QED
    BY <1>2, <2>1, <2>2
<1> HIDE DEF r
<1>6. LET charge == (n + w - 1) \div w
      IN  /\ charge \in Nat
          /\ r * n <= (w * r) * charge
          /\ (w * r) * charge <= r * n + w * r
          /\ r * n <= (w * r) * n
  BY <1>2, <1>3, <1>5, Rounding
<1>7. r * n \in Nat /\ Scale * n \in Nat
  BY <1>3, <1>5, FairAssumption
<1> QED
  BY <1>1, <1>4, <1>5, <1>6, <1>7 DEF n

(* A difference that is made up for in units is made up for in parts.      *)
LEMMA Scaled ==
  ASSUME NEW d \in Int, NEW e \in Nat, 0 <= d + e
  PROVE  0 <= Scale * d + Scale * e /\ Scale * e \in Nat /\ Scale * d \in Int
<1>1. \A k \in Nat : Scale * k \in Nat
  BY FairAssumption
<1>2. Scale * (d + e) = Scale * d + Scale * e /\ Scale * d \in Int
  BY FairAssumption
<1> QED
  BY <1>1, <1>2

LEMMA AllowanceType ==
  ASSUME FairTypeOK, NEW a \in Projects, NEW b \in Projects
  PROVE  /\ due[<<a, b>>] \in Nat /\ rounded[<<a, b>>] \in Nat
         /\ Allowance(a, b) = Scale * (due[<<a, b>>] + rounded[<<a, b>>])
         /\ Allowance(a, b) \in Nat
<1>1. due[<<a, b>>] \in Nat /\ rounded[<<a, b>>] \in Nat
  BY DEF FairTypeOK, Pairs
<1> QED
  BY <1>1, FairAssumption DEF Allowance

(* A contest that has just begun: nothing is won, and what separates the   *)
(* two runtimes is owed.                                                   *)
LEMMA NewContest ==
  ASSUME NEW v \in Int, NEW u \in Int, NEW d \in Nat, v - u + d >= 0
  PROVE  /\ 0 <= Scale * (v - u) + Scale * (d + 0)
         /\ 0 <= Scale * (d + 0)
BY Scaled

LEMMA InitShare == Init => ShareInv
<1> SUFFICES ASSUME Init PROVE ShareInv
  OBVIOUS
<1>1. FairTypeOK
  BY FairAssumption DEF Init, FairTypeOK, DefaultWeight, Jobs, Pairs
<1>2. Backed
  <2> SUFFICES ASSUME NEW p \in Projects, NEW q \in Projects
               PROVE  won[<<p, q>>] <= Scale * (vruntime[p] - vruntime[q]) + Allowance(p, q)
    BY DEF Backed
  <2>1. /\ won[<<p, q>>] = 0 /\ due[<<p, q>>] = 0 /\ rounded[<<p, q>>] = 0
        /\ vruntime[p] = 0 /\ vruntime[q] = 0
    BY DEF Init, Pairs
  <2> QED
    BY <2>1, FairAssumption DEF Allowance
<1>3. FairShare
  BY FairAssumption DEF Init, FairShare, Pairs, Allowance
<1> QED
  BY <1>1, <1>2, <1>3 DEF ShareInv

(* A project that was idle enters no lower than the baseline and is        *)
(* entitled to what is above it.                                           *)
LEMMA CreateKeepsShare ==
  ASSUME ShareInv, NEW j \in Jobs, CreateJob(j)
  PROVE  ShareInv'
<1> DEFINE p == ProjectOf[j]
<1>0. p \in Projects /\ FairTypeOK
  BY FairAssumption DEF ShareInv
<1>1. status' \in [Jobs -> {"absent", "queued", "active", "ended"}]
  BY <1>0 DEF CreateJob, FairTypeOK
<1>2. weight' = weight
  BY DEF CreateJob
<1>3. CASE UNCHANGED <<vruntime, history>>
  BY <1>0, <1>1, <1>2, <1>3 DEF ShareInv, FairTypeOK, Backed, FairShare, Allowance, history
<1>4. CASE ~UNCHANGED <<vruntime, history>>
  <2> DEFINE EntersAt(b) ==
        LET entry == Lifted(p, b)
        IN  /\ vruntime' = [vruntime EXCEPT ![p] = entry]
            /\ won' = [x \in Pairs |-> IF p \in {x[1], x[2]} THEN 0 ELSE won[x]]
            /\ due' = [x \in Pairs |->
                 IF x[1] = p
                   THEN AtLeastZero(vruntime[x[2]] - b)
                   ELSE IF x[2] = p THEN AtLeastZero(entry - vruntime[x[1]]) ELSE due[x]]
            /\ rounded' = [x \in Pairs |->
                             IF p \in {x[1], x[2]} THEN 0 ELSE rounded[x]]
  <2>0. PICK Q \in CompetitorSets(p) : \E b \in Baselines(p, Q) : EntersAt(b)
    BY <1>4 DEF CreateJob, history
  <2>1. PICK baseline \in Baselines(p, Q) : EntersAt(baseline)
    BY <2>0
  <2> DEFINE entry == Lifted(p, baseline)
  <2>2. baseline \in Nat
    BY <1>0 DEF Baselines, CompetitorSets, FairTypeOK
  <2>3. entry \in Nat /\ entry >= baseline /\ entry >= vruntime[p]
    BY <1>0, <2>2 DEF Lifted, FairTypeOK
  <2> HIDE DEF entry, p
  <2>4. /\ vruntime' = [vruntime EXCEPT ![p] = entry]
        /\ won' = [x \in Pairs |-> IF p \in {x[1], x[2]} THEN 0 ELSE won[x]]
        /\ due' = [x \in Pairs |->
             IF x[1] = p
               THEN AtLeastZero(vruntime[x[2]] - baseline)
               ELSE IF x[2] = p THEN AtLeastZero(entry - vruntime[x[1]]) ELSE due[x]]
        /\ rounded' = [x \in Pairs |->
                         IF p \in {x[1], x[2]} THEN 0 ELSE rounded[x]]
    BY <2>1 DEF entry
  <2>5. vruntime' \in [Projects -> Nat]
    BY <1>0, <2>3, <2>4 DEF FairTypeOK
  <2>6. won' \in [Pairs -> Int] /\ rounded' \in [Pairs -> Nat]
    BY <1>0, <2>4 DEF FairTypeOK
  <2>7. ASSUME NEW x \in Pairs PROVE due'[x] \in Nat
    <3>1. x[1] \in Projects /\ x[2] \in Projects
      BY DEF Pairs
    <3>2. vruntime[x[1]] \in Nat /\ vruntime[x[2]] \in Nat /\ due[x] \in Nat
      BY <1>0, <3>1 DEF FairTypeOK
    <3> QED
      BY <2>2, <2>3, <2>4, <3>2 DEF AtLeastZero
  <2>8. FairTypeOK'
    <3>1. due' \in [Pairs -> Nat]
      BY <2>4, <2>7
    <3> QED
      BY <1>0, <1>1, <1>2, <2>5, <2>6, <3>1 DEF FairTypeOK
  <2>9. ASSUME NEW a \in Projects, NEW b \in Projects
        PROVE  /\ won'[<<a, b>>]
                    <= Scale * (vruntime'[a] - vruntime'[b]) + Allowance(a, b)'
               /\ \/ won'[<<a, b>>] <= Allowance(a, b)'
                  \/ \E i \in Jobs :
                       /\ ProjectOf[i] = a
                       /\ won'[<<a, b>>] <= Allowance(a, b)' + Scale * (Stride * Cost(i))
    <3>1. <<a, b>> \in Pairs /\ due'[<<a, b>>] \in Nat
      BY <2>7 DEF Pairs
    <3>2. vruntime[a] \in Nat /\ vruntime[b] \in Nat
      BY <1>0 DEF FairTypeOK
    <3> DEFINE fresh == /\ won'[<<a, b>>] = 0 /\ rounded'[<<a, b>>] = 0
                        /\ 0 <= vruntime'[a] - vruntime'[b] + due'[<<a, b>>]
                        /\ vruntime'[a] \in Int /\ vruntime'[b] \in Int
    <3>3. CASE a = p /\ b = p
      <4>1. fresh
        BY <1>0, <2>3, <2>4, <3>1, <3>2, <3>3 DEF AtLeastZero, FairTypeOK
      <4> QED
        BY <3>1, <4>1, NewContest DEF Allowance
    <3>4. CASE a = p /\ b # p
      <4>1. /\ won'[<<a, b>>] = 0 /\ rounded'[<<a, b>>] = 0
            /\ due'[<<a, b>>] = AtLeastZero(vruntime[b] - baseline)
        BY <2>4, <3>1, <3>4
      <4>2. vruntime'[a] = entry /\ vruntime'[b] = vruntime[b]
        BY <1>0, <2>4, <3>4 DEF FairTypeOK
      <4>3. fresh
        BY <2>2, <2>3, <3>1, <3>2, <4>1, <4>2 DEF AtLeastZero
      <4> QED
        BY <3>1, <4>3, NewContest DEF Allowance
    <3>5. CASE a # p /\ b = p
      <4>1. /\ won'[<<a, b>>] = 0 /\ rounded'[<<a, b>>] = 0
            /\ due'[<<a, b>>] = AtLeastZero(entry - vruntime[a])
        BY <2>4, <3>1, <3>5
      <4>2. vruntime'[b] = entry /\ vruntime'[a] = vruntime[a]
        BY <1>0, <2>4, <3>5 DEF FairTypeOK
      <4>3. fresh
        BY <2>2, <2>3, <3>1, <3>2, <4>1, <4>2 DEF AtLeastZero
      <4> QED
        BY <3>1, <4>3, NewContest DEF Allowance
    <3>6. CASE a # p /\ b # p
      <4>1. /\ won'[<<a, b>>] = won[<<a, b>>]
            /\ due'[<<a, b>>] = due[<<a, b>>]
            /\ rounded'[<<a, b>>] = rounded[<<a, b>>]
        BY <2>4, <3>1, <3>6
      <4>2. vruntime'[a] = vruntime[a] /\ vruntime'[b] = vruntime[b]
        BY <1>0, <2>4, <3>6 DEF FairTypeOK
      <4> QED
        BY <4>1, <4>2 DEF ShareInv, Backed, FairShare, Allowance
    <3> QED
      BY <3>3, <3>4, <3>5, <3>6
  <2> QED
    BY <2>8, <2>9 DEF ShareInv, Backed, FairShare
<1> QED
  BY <1>3, <1>4

(* Changing a weight, taking work back and ending it move no account.      *)
LEMMA AccountsKeepShare ==
  ASSUME ShareInv, FairTypeOK', UNCHANGED <<vruntime, history>>
  PROVE  ShareInv'
BY DEF ShareInv, Backed, FairShare, Allowance, history

(* The project that is chosen is not ahead of any other in the contest.    *)
LEMMA AssignKeepsShare ==
  ASSUME ShareInv, NEW placeable \in SUBSET Jobs, NEW j \in placeable,
         FairAssign(j, placeable)
  PROVE  ShareInv'
<1> DEFINE p        == ProjectOf[j]
           runnable == {ProjectOf[i] : i \in placeable}
           received == Received(j)
           charge   == StrideDelta(j)
           Gain(q)  == IF q = p THEN received ELSE 0
           Excess(q) == IF q = p /\ RoundedUp(j) THEN 1 ELSE 0
           Contest(x) == x[1] \in runnable /\ x[2] \in runnable
<1>0. FairTypeOK
  BY DEF ShareInv
<1>1. /\ p \in Projects
      /\ charge \in Nat
      /\ received \in Nat
      /\ received <= Scale * charge
      /\ Scale * charge <= received + Scale
      /\ RoundedUp(j) <=> received < Scale * charge
      /\ received <= Scale * (Stride * Cost(j))
      /\ Scale * (Stride * Cost(j)) \in Nat
  BY <1>0, ChargeOfJob DEF RoundedUp
<1>2. \A q \in runnable \ {p} : vruntime[p] <= vruntime[q]
  BY DEF FairAssign, Selected
<1>3. /\ vruntime' = [vruntime EXCEPT ![p] = vruntime[p] + charge]
      /\ won' = [x \in Pairs |->
           IF Contest(x) THEN won[x] + Gain(x[1]) - Gain(x[2]) ELSE 0]
      /\ due' = [x \in Pairs |->
           IF Contest(x)
             THEN due[x]
             ELSE AtLeastZero(vruntime'[x[2]] - vruntime'[x[1]])]
      /\ rounded' = [x \in Pairs |->
           IF Contest(x) THEN rounded[x] + Excess(x[2]) ELSE 0]
      /\ weight' = weight
      /\ status' = [status EXCEPT ![j] = "active"]
  BY <1>1 DEF FairAssign
<1> HIDE DEF p, runnable, received, charge
<1>4. vruntime' \in [Projects -> Nat]
  BY <1>0, <1>1, <1>3 DEF FairTypeOK
(* What a project receives, what it is charged and what rounding adds.     *)
<1> DEFINE Charge(q) == IF q = p THEN charge ELSE 0
<1>5. ASSUME NEW q \in Projects
      PROVE  /\ Gain(q) \in Nat /\ Excess(q) \in Nat /\ Charge(q) \in Nat
             /\ vruntime'[q] = vruntime[q] + Charge(q)
             /\ Gain(q) <= Scale * Charge(q)
             /\ Scale * Charge(q) <= Gain(q) + Scale * Excess(q)
  <2>1. /\ Scale * 0 = 0 /\ Scale * 1 = Scale /\ Scale \in Nat
    BY FairAssumption
  <2>2. vruntime[q] \in Nat
    BY <1>0 DEF FairTypeOK
  <2>3. CASE q = p /\ RoundedUp(j)
    BY <1>0, <1>1, <1>3, <2>1, <2>2, <2>3 DEF FairTypeOK
  <2>4. CASE q = p /\ ~RoundedUp(j)
    <3>1. received = Scale * charge
      BY <1>1, <2>4, FairAssumption
    <3> QED
      BY <1>0, <1>1, <1>3, <2>1, <2>2, <2>4, <3>1 DEF FairTypeOK
  <2>5. CASE q # p
    BY <1>0, <1>1, <1>3, <2>1, <2>2, <2>5 DEF FairTypeOK
  <2> QED
    BY <2>3, <2>4, <2>5
<1> HIDE DEF Gain, Excess, Charge
<1>6. ASSUME NEW a \in Projects, NEW b \in Projects
      PROVE  /\ won'[<<a, b>>] \in Int
             /\ due'[<<a, b>>] \in Nat
             /\ rounded'[<<a, b>>] \in Nat
             /\ won'[<<a, b>>]
                  <= Scale * (vruntime'[a] - vruntime'[b]) + Allowance(a, b)'
             /\ \/ won'[<<a, b>>] <= Allowance(a, b)'
                \/ \E i \in Jobs :
                     /\ ProjectOf[i] = a
                     /\ won'[<<a, b>>] <= Allowance(a, b)' + Scale * (Stride * Cost(i))
  <2>1. <<a, b>> \in Pairs
    BY DEF Pairs
  <2>2. /\ vruntime[a] \in Nat /\ vruntime[b] \in Nat
        /\ won[<<a, b>>] \in Int
        /\ due[<<a, b>>] \in Nat /\ rounded[<<a, b>>] \in Nat
        /\ Allowance(a, b) \in Nat
        /\ Allowance(a, b) = Scale * (due[<<a, b>>] + rounded[<<a, b>>])
    BY <1>0, <2>1, AllowanceType DEF FairTypeOK
  <2>3. /\ Gain(a) \in Nat /\ Charge(a) \in Nat /\ Gain(a) <= Scale * Charge(a)
        /\ vruntime'[a] = vruntime[a] + Charge(a)
        /\ Gain(b) \in Nat /\ Charge(b) \in Nat /\ Excess(b) \in Nat
        /\ Scale * Charge(b) <= Gain(b) + Scale * Excess(b)
        /\ vruntime'[b] = vruntime[b] + Charge(b)
    BY <1>5
  <2>4. CASE a \in runnable /\ b \in runnable
    <3>1. /\ won'[<<a, b>>] = won[<<a, b>>] + Gain(a) - Gain(b)
          /\ due'[<<a, b>>] = due[<<a, b>>]
          /\ rounded'[<<a, b>>] = rounded[<<a, b>>] + Excess(b)
      BY <1>3, <2>1, <2>4
    <3>2. /\ Scale * Charge(a) \in Nat /\ Scale * Charge(b) \in Nat
          /\ Scale * Excess(b) \in Nat
          /\ Scale * (vruntime[a] - vruntime[b]) \in Int
          /\ Scale * (vruntime'[a] - vruntime'[b])
               = Scale * (vruntime[a] - vruntime[b]) + Scale * Charge(a) - Scale * Charge(b)
          /\ Allowance(a, b)' = Allowance(a, b) + Scale * Excess(b)
      <4>1. \A k \in Nat : Scale * k \in Nat
        BY FairAssumption
      <4>2. Allowance(a, b)'
              = Scale * (due[<<a, b>>] + (rounded[<<a, b>>] + Excess(b)))
        BY <3>1 DEF Allowance
      <4>3. Scale * (vruntime[a] - vruntime[b]) \in Int
        BY <2>2, FairAssumption
      <4>4. Scale * (due[<<a, b>>] + (rounded[<<a, b>>] + Excess(b)))
              = Scale * (due[<<a, b>>] + rounded[<<a, b>>]) + Scale * Excess(b)
        BY <2>2, <2>3, FairAssumption
      <4>5. Scale * (vruntime'[a] - vruntime'[b])
              = Scale * (vruntime[a] - vruntime[b]) + Scale * Charge(a) - Scale * Charge(b)
        <5> DEFINE x == vruntime[a]
                   y == vruntime[b]
                   c == Charge(a)
                   d == Charge(b)
        <5>1. /\ x \in Int /\ y \in Int /\ c \in Int /\ d \in Int
              /\ vruntime'[a] = x + c /\ vruntime'[b] = y + d
          BY <2>2, <2>3
        <5> HIDE DEF x, y, c, d
        <5>2. Scale * ((x + c) - (y + d)) = Scale * (x - y) + Scale * c - Scale * d
          BY <5>1, FairAssumption
        <5> QED
          BY <5>1, <5>2 DEF x, y, c, d
      <4>6. /\ Scale * Charge(a) \in Nat /\ Scale * Charge(b) \in Nat
            /\ Scale * Excess(b) \in Nat
        BY <2>3, <4>1
      <4> QED
        BY <2>2, <4>2, <4>3, <4>4, <4>5, <4>6
    <3>3. won[<<a, b>>] <= Scale * (vruntime[a] - vruntime[b]) + Allowance(a, b)
      BY DEF ShareInv, Backed
    <3>4. won'[<<a, b>>] <= Scale * (vruntime'[a] - vruntime'[b]) + Allowance(a, b)'
      BY <2>2, <2>3, <3>1, <3>2, <3>3
    <3>5. won'[<<a, b>>] \in Int /\ due'[<<a, b>>] \in Nat /\ rounded'[<<a, b>>] \in Nat
      BY <2>2, <2>3, <3>1
    <3>6. CASE a = p /\ b # p
      <4>1. vruntime[a] <= vruntime[b] /\ Gain(a) = received /\ Gain(b) = 0
        BY <1>2, <2>4, <3>6 DEF Gain
      <4>2. Scale * (vruntime[a] - vruntime[b]) <= 0
        <5>1. \A d \in Int : d <= 0 => Scale * d <= 0
          BY FairAssumption
        <5> QED
          BY <2>2, <4>1, <5>1
      <4>3. won'[<<a, b>>] <= Allowance(a, b)' + Scale * (Stride * Cost(j))
        BY <1>1, <2>2, <3>1, <3>2, <3>3, <4>1, <4>2
      <4>4. j \in Jobs /\ ProjectOf[j] = a
        BY <3>6 DEF p
      <4> QED
        BY <3>4, <3>5, <4>3, <4>4
    <3>7. CASE ~(a = p /\ b # p)
      <4>1. Gain(a) <= Gain(b)
        BY <1>1, <3>7 DEF Gain
      <4>2. won'[<<a, b>>] <= won[<<a, b>>] /\ Allowance(a, b) <= Allowance(a, b)'
        BY <2>2, <2>3, <3>1, <3>2, <4>1
      <4>3. \/ won[<<a, b>>] <= Allowance(a, b)
            \/ \E i \in Jobs :
                 /\ ProjectOf[i] = a
                 /\ won[<<a, b>>] <= Allowance(a, b) + Scale * (Stride * Cost(i))
        BY DEF ShareInv, FairShare
      <4>4. \A i \in Jobs : Scale * (Stride * Cost(i)) \in Nat
        BY <1>0, ChargeOfJob
      <4>5. Allowance(a, b)' \in Nat
        BY <2>2, <3>2
      <4> QED
        BY <2>2, <3>4, <3>5, <4>2, <4>3, <4>4, <4>5
    <3> QED
      BY <3>6, <3>7
  <2>5. CASE ~(a \in runnable /\ b \in runnable)
    <3>1. /\ won'[<<a, b>>] = 0
          /\ due'[<<a, b>>] = AtLeastZero(vruntime'[b] - vruntime'[a])
          /\ rounded'[<<a, b>>] = 0
      BY <1>3, <2>1, <2>5
    <3>2. vruntime'[a] \in Int /\ vruntime'[b] \in Int
      BY <2>2, <2>3
    <3>3. /\ due'[<<a, b>>] \in Nat
          /\ 0 <= vruntime'[a] - vruntime'[b] + due'[<<a, b>>]
      BY <3>1, <3>2 DEF AtLeastZero
    <3> QED
      BY <3>1, <3>2, <3>3, NewContest DEF Allowance
  <2> QED
    BY <2>4, <2>5
<1>7. FairTypeOK'
  <2>1. ASSUME NEW x \in Pairs
        PROVE  won'[x] \in Int /\ due'[x] \in Nat /\ rounded'[x] \in Nat
    <3>1. PICK a \in Projects, b \in Projects : x = <<a, b>>
      BY DEF Pairs
    <3> QED
      BY <1>6, <3>1
  <2>2. /\ won' \in [Pairs -> Int] /\ due' \in [Pairs -> Nat]
        /\ rounded' \in [Pairs -> Nat]
    BY <1>3, <2>1
  <2>3. status' \in [Jobs -> {"absent", "queued", "active", "ended"}]
    BY <1>0, <1>3 DEF FairTypeOK
  <2> QED
    BY <1>0, <1>3, <1>4, <2>2, <2>3 DEF FairTypeOK
<1> QED
  BY <1>6, <1>7 DEF ShareInv, Backed, FairShare

LEMMA NextKeepsShare == ShareInv /\ [Next]_fairVars => ShareInv'
<1> SUFFICES ASSUME ShareInv, [Next]_fairVars PROVE ShareInv'
  OBVIOUS
<1>0. FairTypeOK
  BY DEF ShareInv
<1>1. ASSUME NEW j \in Jobs, CreateJob(j) PROVE ShareInv'
  BY <1>1, CreateKeepsShare
<1>2. ASSUME NEW p \in Projects, NEW w \in Weights, UpdateWeight(p, w)
      PROVE  ShareInv'
  <2>1. FairTypeOK'
    BY <1>0, <1>2 DEF UpdateWeight, FairTypeOK, history
  <2> QED
    BY <1>2, <2>1, AccountsKeepShare DEF UpdateWeight
<1>3. ASSUME NEW placeable \in SUBSET {j \in Jobs : status[j] = "queued"},
             NEW j \in placeable, FairAssign(j, placeable)
      PROVE  ShareInv'
  <2>1. placeable \in SUBSET Jobs
    OBVIOUS
  <2> QED
    BY <1>3, <2>1, AssignKeepsShare
<1>4. ASSUME NEW j \in Jobs, Requeue(j) \/ End(j) PROVE ShareInv'
  <2>1. FairTypeOK' /\ UNCHANGED <<vruntime, history>>
    BY <1>0, <1>4 DEF Requeue, End, FairTypeOK, history
  <2> QED
    BY <2>1, AccountsKeepShare
<1>5. CASE UNCHANGED fairVars
  <2>1. FairTypeOK' /\ UNCHANGED <<vruntime, history>>
    BY <1>0, <1>5 DEF fairVars, FairTypeOK, history
  <2> QED
    BY <2>1, AccountsKeepShare
<1> QED
  BY <1>1, <1>2, <1>3, <1>4, <1>5 DEF Next

(* Whatever can be placed in each round, whoever comes back from idleness  *)
(* and whatever is requeued, two projects that both have placeable work    *)
(* stay within one job of their weighted shares, up to less than a unit of *)
(* runtime for every charge that was rounded up (scheduleFairLocked).      *)
THEOREM FairShareHolds == FairSpec => []FairShare
<1>1. Init => ShareInv
  BY InitShare
<1>2. ShareInv /\ [Next]_fairVars => ShareInv'
  BY NextKeepsShare
<1>3. ShareInv => FairShare
  BY DEF ShareInv
<1> QED
  BY <1>1, <1>2, <1>3, PTL DEF FairSpec
=============================================================================
