---------------------------- MODULE RepairProofs ----------------------------
(***************************************************************************)
(* Proof that what repair() credits for each block it executes is the      *)
(* yellow paper's mining reward, for every start block, chain length,      *)
(* batch limit, write size and number of signals.                          *)
(***************************************************************************)
EXTENDS Repair, TLAPS

-----------------------------------------------------------------------------
(***************************************************************************)
(* The rewards.  RewardConfig is ethash's setting: at most two uncles a    *)
(* block (maxUncles), and block rewards that 32 divides, as 5 and 3 ether  *)
(* do.  With a reward 32 does not divide, the bonus R / 32 is rounded and  *)
(* the yellow paper's amount is not met.  The proof unfolds the loop of    *)
(* accumulateRewards, and the reference's sum, once per possible uncle.    *)
(***************************************************************************)
RewardConfig ==
    /\ MaxUncles <= 2
    /\ FrontierBlockReward % 32 = 0
    /\ ByzantiumBlockReward % 32 = 0

(* Adding to one entry of a balance map. *)
LEMMA ExceptAdd ==
    ASSUME NEW f \in [Coinbases -> Nat], NEW a \in Coinbases, NEW x \in Nat
    PROVE  /\ \A c \in Coinbases : [f EXCEPT ![a] = @ + x][c] = IF c = a THEN f[c] + x ELSE f[c]
           /\ [f EXCEPT ![a] = @ + x] \in [Coinbases -> Nat]
OBVIOUS

(***************************************************************************)
(* accumulateRewards with k <= 2 uncles, unrolled: each uncle's coinbase   *)
(* gets (U.number + 8 - H.number) * R / 8 and the block's coinbase gets R  *)
(* plus R / 32 per uncle.  F is the loop of the definition, written as it  *)
(* is there; w is its value, which satisfies its equation.                 *)
(***************************************************************************)
LEMMA AccumulateUnfold ==
    ASSUME RewardConfig, NEW n \in Nat, NEW h \in Headers(n), NEW us \in UnclesOf(h),
           NEW c \in Coinbases
    PROVE  LET R == IF IsByzantium(h.number) THEN ByzantiumBlockReward ELSE FrontierBlockReward
               r(i) == ((us[i].number + 8 - h.number) * R) \div 8
               U(i) == IF i <= Len(us) /\ us[i].coinbase = c THEN r(i) ELSE 0
           IN  AccumulateRewards(h, us)[c] =
                   U(1) + U(2) + (IF h.coinbase = c THEN R + Len(us) * (R \div 32) ELSE 0)
<1> DEFINE R == IF IsByzantium(h.number) THEN ByzantiumBlockReward ELSE FrontierBlockReward
           base == [credit |-> NoCredit, reward |-> R]
           step(prev, i) == [credit |-> [prev.credit EXCEPT ![us[i].coinbase] =
                                           @ + ((us[i].number + 8 - h.number) * R) \div 8],
                             reward |-> prev.reward + R \div 32]
           w == [i \in 0..Len(us) |-> IF i = 0 THEN base
                                      ELSE IF i = 1 THEN step(base, 1)
                                      ELSE step(step(base, 1), 2)]
           F == CHOOSE loop : loop = [i \in 0..Len(us) |->
                    IF i = 0 THEN [credit |-> NoCredit, reward |-> R]
                    ELSE LET prev == loop[i - 1]
                             r    == ((us[i].number + 8 - h.number) * R) \div 8
                         IN  [credit |-> [prev.credit EXCEPT ![us[i].coinbase] = @ + r],
                              reward |-> prev.reward + R \div 32]]
<1>1. PICK k \in 0..MaxUncles :
          us \in [1..k -> [number : {u \in 0..h.number : u < h.number /\ h.number <= u + 6},
                           coinbase : Coinbases]]
    BY DEF UnclesOf
<1>2a. k \in 0..2
    BY <1>1, RewardConstantsAssumption DEF RewardConfig
<1>2b. h.number = n /\ h.coinbase \in Coinbases
    BY DEF Headers
<1>2c. Len(us) = k
    BY <1>1, <1>2a
<1>2. Len(us) = k /\ k \in 0..2 /\ h.number = n /\ h.coinbase \in Coinbases
    BY <1>2a, <1>2b, <1>2c
<1> HIDE DEF base, step
<1>3. w = [i \in 0..Len(us) |-> IF i = 0 THEN base ELSE step(w[i - 1], i)]
    BY <1>2
<1> USE DEF base, step
<1>4. F = [i \in 0..Len(us) |-> IF i = 0 THEN base ELSE step(F[i - 1], i)]
    BY <1>3
<1>5. AccumulateRewards(h, us) = [F[Len(us)].credit EXCEPT ![h.coinbase] = @ + F[Len(us)].reward]
    BY DEF AccumulateRewards
<1> HIDE DEF F
<1>6. F[0] = base
    BY <1>2, <1>4
<1>7. k >= 1 => F[1] = step(base, 1)
    BY <1>2, <1>4, <1>6
<1>8. k >= 2 => F[2] = step(step(base, 1), 2)
    BY <1>2, <1>4, <1>7
<1>9. NoCredit \in [Coinbases -> Nat] /\ R \in Nat
    BY RewardConstantsAssumption DEF NoCredit
<1> DEFINE r(i) == ((us[i].number + 8 - h.number) * R) \div 8
<1>10. \A i \in 1..k : us[i].coinbase \in Coinbases /\ r(i) \in Nat
    <2> SUFFICES ASSUME NEW i \in 1..k PROVE us[i].coinbase \in Coinbases /\ r(i) \in Nat
        OBVIOUS
    <2>1. us[i].coinbase \in Coinbases /\ us[i].number \in 0..n /\ n <= us[i].number + 6
        BY <1>1, <1>2b
    <2>2. us[i].number + 8 - h.number \in Nat
        BY <2>1, <1>2b
    <2>3. QED
        BY <2>1, <2>2, <1>9
<1> DEFINE c1 == [NoCredit EXCEPT ![us[1].coinbase] = @ + r(1)]
           c2 == [c1 EXCEPT ![us[2].coinbase] = @ + r(2)]
           bonus == R \div 32
<1>11. k >= 1 => /\ F[1] = [credit |-> c1, reward |-> R + bonus]
                 /\ c1 \in [Coinbases -> Nat]
                 /\ c1[c] = IF c = us[1].coinbase THEN r(1) ELSE 0
    <2>1. k >= 1 => F[1] = [credit |-> c1, reward |-> R + bonus]
        BY <1>7
    <2>2. k >= 1 => /\ \A d \in Coinbases : c1[d] = IF d = us[1].coinbase THEN NoCredit[d] + r(1) ELSE NoCredit[d]
                    /\ c1 \in [Coinbases -> Nat]
        <3> SUFFICES ASSUME k >= 1 PROVE
                /\ \A d \in Coinbases : c1[d] = IF d = us[1].coinbase THEN NoCredit[d] + r(1) ELSE NoCredit[d]
                /\ c1 \in [Coinbases -> Nat]
            OBVIOUS
        <3>1. us[1].coinbase \in Coinbases /\ r(1) \in Nat
            BY <1>2a, <1>10
        <3> HIDE DEF r
        <3>2. QED
            BY <1>9, <3>1
    <2>3. NoCredit[c] = 0 /\ (k >= 1 => r(1) \in Nat)
        BY <1>2a, <1>10 DEF NoCredit
    <2> HIDE DEF c1, r, R, bonus, NoCredit
    <2>4. QED
        BY <2>1, <2>2, <2>3
<1>12. k >= 2 => /\ F[2] = [credit |-> c2, reward |-> R + bonus + bonus]
                 /\ c2 \in [Coinbases -> Nat]
                 /\ c2[c] = c1[c] + (IF c = us[2].coinbase THEN r(2) ELSE 0)
    <2>1. k >= 2 => F[2] = [credit |-> c2, reward |-> R + bonus + bonus]
        BY <1>8
    <2>2. k >= 2 => /\ \A d \in Coinbases : c2[d] = IF d = us[2].coinbase THEN c1[d] + r(2) ELSE c1[d]
                    /\ c2 \in [Coinbases -> Nat]
        <3> SUFFICES ASSUME k >= 2 PROVE
                /\ \A d \in Coinbases : c2[d] = IF d = us[2].coinbase THEN c1[d] + r(2) ELSE c1[d]
                /\ c2 \in [Coinbases -> Nat]
            OBVIOUS
        <3>1. us[2].coinbase \in Coinbases /\ r(2) \in Nat /\ c1 \in [Coinbases -> Nat]
            BY <1>2a, <1>10, <1>11
        <3> HIDE DEF r, c1
        <3>2. QED
            BY <3>1
    <2> HIDE DEF c1, c2, r, R, bonus, NoCredit
    <2>3. QED
        BY <2>1, <2>2
<1>13. F[k].credit \in [Coinbases -> Nat] /\ F[k].reward \in Nat
    BY <1>2a, <1>6, <1>9, <1>11, <1>12
<1>14. AccumulateRewards(h, us)[c] =
          IF c = h.coinbase THEN F[k].credit[c] + F[k].reward ELSE F[k].credit[c]
    <2>1. [F[k].credit EXCEPT ![h.coinbase] = @ + F[k].reward] =
              [F[Len(us)].credit EXCEPT ![h.coinbase] = @ + F[Len(us)].reward]
        BY <1>2
    <2>2. QED
        BY <1>2, <1>5, <1>13, <2>1, ExceptAdd
<1> DEFINE U(i) == IF i <= Len(us) /\ us[i].coinbase = c THEN r(i) ELSE 0
           Goal == U(1) + U(2) + (IF h.coinbase = c THEN R + Len(us) * bonus ELSE 0)
<1>15. bonus \in Nat /\ F[0] = [credit |-> NoCredit, reward |-> R] /\ NoCredit[c] = 0
    BY <1>6, <1>9 DEF NoCredit
<1>16. k >= 1 => r(1) \in Nat
    BY <1>2a, <1>10
<1>17. k >= 2 => r(2) \in Nat
    BY <1>2a, <1>10
<1> HIDE DEF c1, c2, r, R, bonus, NoCredit, U
<1>18. k = 0 => AccumulateRewards(h, us)[c] = Goal
    <2> SUFFICES ASSUME k = 0 PROVE AccumulateRewards(h, us)[c] = Goal
        OBVIOUS
    <2> QED
        BY <1>2, <1>9, <1>14, <1>15 DEF U
<1>19. k = 1 => AccumulateRewards(h, us)[c] = Goal
    <2> SUFFICES ASSUME k = 1 PROVE AccumulateRewards(h, us)[c] = Goal
        OBVIOUS
    <2> QED
        BY <1>2, <1>9, <1>11, <1>14, <1>15, <1>16 DEF U
<1>20. k = 2 => AccumulateRewards(h, us)[c] = Goal
    <2> SUFFICES ASSUME k = 2 PROVE AccumulateRewards(h, us)[c] = Goal
        OBVIOUS
    <2> QED
        BY <1>2, <1>9, <1>11, <1>12, <1>14, <1>15, <1>16, <1>17 DEF U
<1>21. QED
    BY <1>2, <1>18, <1>19, <1>20 DEF U, r, R, bonus

(***************************************************************************)
(* The yellow paper's rule, times 256, unrolled the same way.              *)
(***************************************************************************)
LEMMA ReferenceUnfold ==
    ASSUME RewardConfig, NEW n \in Nat, NEW h \in Headers(n), NEW us \in UnclesOf(h),
           NEW c \in Coinbases
    PROVE  LET R == IF IsByzantium(h.number) THEN ByzantiumBlockReward ELSE FrontierBlockReward
               V(i) == IF i <= Len(us) /\ us[i].coinbase = c
                       THEN 32 * (8 + us[i].number - h.number) * R ELSE 0
           IN  Reference256(h, us, c) =
                   V(1) + V(2) + (IF h.coinbase = c THEN 256 * R + 8 * Len(us) * R ELSE 0)
<1> DEFINE R == IF h.number >= ByzantiumBlock THEN ByzantiumBlockReward ELSE FrontierBlockReward
           V(i) == IF us[i].coinbase = c THEN 32 * (8 + us[i].number - h.number) * R ELSE 0
           w == [i \in 0..Len(us) |-> IF i = 0 THEN 0
                                      ELSE IF i = 1 THEN V(1)
                                      ELSE V(1) + V(2)]
           F == CHOOSE uncleShare : uncleShare = [i \in 0..Len(us) |->
                    IF i = 0 THEN 0
                    ELSE uncleShare[i - 1]
                         + (IF us[i].coinbase = c THEN 32 * (8 + us[i].number - h.number) * R ELSE 0)]
<1>1. PICK k \in 0..MaxUncles :
          us \in [1..k -> [number : {u \in 0..h.number : u < h.number /\ h.number <= u + 6},
                           coinbase : Coinbases]]
    BY DEF UnclesOf
<1>2. Len(us) = k /\ k \in 0..2 /\ h.number = n /\ h.coinbase \in Coinbases
    BY <1>1, RewardConstantsAssumption DEF RewardConfig, Headers
<1>3. R \in Nat /\ (R = IF IsByzantium(h.number) THEN ByzantiumBlockReward ELSE FrontierBlockReward)
    BY RewardConstantsAssumption DEF IsByzantium
<1>4. \A i \in 1..k : V(i) \in Nat
    <2> SUFFICES ASSUME NEW i \in 1..k PROVE V(i) \in Nat
        OBVIOUS
    <2>1. us[i].number \in 0..n /\ n <= us[i].number + 6
        BY <1>1, <1>2
    <2>2. 8 + us[i].number - h.number \in Nat
        BY <2>1, <1>2
    <2>3. QED
        BY <2>2, <1>3
<1> HIDE DEF V
<1>5. w = [i \in 0..Len(us) |-> IF i = 0 THEN 0 ELSE w[i - 1] + V(i)]
    BY <1>2, <1>4
<1> USE DEF V
<1>6. F = [i \in 0..Len(us) |-> IF i = 0 THEN 0 ELSE F[i - 1] + V(i)]
    BY <1>5
<1>7. Reference256(h, us, c) = F[Len(us)] + (IF h.coinbase = c THEN 256 * R + 8 * Len(us) * R ELSE 0)
    BY DEF Reference256
<1> HIDE DEF F, V, R
<1>8. F[0] = 0 /\ (k >= 1 => F[1] = V(1)) /\ (k >= 2 => F[2] = V(1) + V(2))
    BY <1>2, <1>4, <1>6
<1>9. QED
    BY <1>2, <1>3, <1>4, <1>7, <1>8 DEF V

(* When 32 divides R, the uncle's share is computed without rounding. *)
LEMMA ScaledUncleReward ==
    ASSUME NEW x \in Nat, NEW R \in Nat, R % 32 = 0
    PROVE  256 * ((x * R) \div 8) = 32 * x * R
<1>1. PICK q \in Nat : R = 32 * q
    OBVIOUS
<1>2. (x * R) \div 8 = 4 * x * q
    BY <1>1
<1>3. QED
    BY <1>1, <1>2

(***************************************************************************)
(* For one block of ethash's configuration: 256 times what                 *)
(* accumulateRewards credits an account is what the yellow paper gives it, *)
(* times 256.                                                              *)
(***************************************************************************)
LEMMA RewardsMatchOne ==
    ASSUME RewardConfig, NEW n \in Nat, NEW h \in Headers(n), NEW us \in UnclesOf(h),
           NEW c \in Coinbases
    PROVE  256 * AccumulateRewards(h, us)[c] = Reference256(h, us, c)
<1> DEFINE R == IF IsByzantium(h.number) THEN ByzantiumBlockReward ELSE FrontierBlockReward
           x(i) == us[i].number + 8 - h.number
           U(i) == IF i <= Len(us) /\ us[i].coinbase = c THEN (x(i) * R) \div 8 ELSE 0
           V(i) == IF i <= Len(us) /\ us[i].coinbase = c
                   THEN 32 * (8 + us[i].number - h.number) * R ELSE 0
<1>1. PICK k \in 0..MaxUncles :
          us \in [1..k -> [number : {u \in 0..h.number : u < h.number /\ h.number <= u + 6},
                           coinbase : Coinbases]]
    BY DEF UnclesOf
<1>2. Len(us) = k /\ k \in 0..2 /\ h.number = n
    BY <1>1, RewardConstantsAssumption DEF RewardConfig, Headers
<1>3. R \in Nat /\ R % 32 = 0
    BY RewardConstantsAssumption DEF RewardConfig
<1>4. AccumulateRewards(h, us)[c] =
          U(1) + U(2) + (IF h.coinbase = c THEN R + Len(us) * (R \div 32) ELSE 0)
    BY AccumulateUnfold
<1>5. Reference256(h, us, c) =
          V(1) + V(2) + (IF h.coinbase = c THEN 256 * R + 8 * Len(us) * R ELSE 0)
    BY ReferenceUnfold
<1>6. ASSUME NEW i \in 1..2 PROVE 256 * U(i) = V(i) /\ U(i) \in Nat
    <2>1. CASE i <= Len(us) /\ us[i].coinbase = c
        <3>1. x(i) \in Nat /\ x(i) = 8 + us[i].number - h.number
            BY <1>1, <1>2, <2>1
        <3> HIDE DEF x, R
        <3>2. 256 * ((x(i) * R) \div 8) = 32 * x(i) * R /\ (x(i) * R) \div 8 \in Nat
            BY <1>3, <3>1, ScaledUncleReward
        <3>3. U(i) = (x(i) * R) \div 8 /\ V(i) = 32 * x(i) * R
            BY <2>1, <3>1 DEF U, V
        <3>4. QED
            BY <3>2, <3>3
    <2>2. CASE ~(i <= Len(us) /\ us[i].coinbase = c)
        BY <2>2
    <2>3. QED
        BY <2>1, <2>2
<1>7. 256 * (R + Len(us) * (R \div 32)) = 256 * R + 8 * Len(us) * R
    BY <1>2, <1>3
<1> HIDE DEF U, V, R
<1>8. 256 * U(1) = V(1) /\ U(1) \in Nat /\ 256 * U(2) = V(2) /\ U(2) \in Nat
    BY <1>6
<1>9. 256 * (IF h.coinbase = c THEN R + Len(us) * (R \div 32) ELSE 0) =
          (IF h.coinbase = c THEN 256 * R + 8 * Len(us) * R ELSE 0)
    BY <1>7
<1>10. (IF h.coinbase = c THEN R + Len(us) * (R \div 32) ELSE 0) \in Nat
    BY <1>2, <1>3
<1>11. QED
    BY <1>4, <1>5, <1>8, <1>9, <1>10

(***************************************************************************)
(* The strengthening for the rewards: blockNum is a number, and what was   *)
(* credited last is accumulateRewards of a header of some block number and *)
(* uncles it may have.                                                     *)
(***************************************************************************)
RewardInv ==
    /\ blockNum \in Nat
    /\ rewarded # NoReward =>
           /\ rewarded.header.number \in Nat
           /\ rewarded.header \in Headers(rewarded.header.number)
           /\ rewarded.uncles \in UnclesOf(rewarded.header)
           /\ rewarded.credit = AccumulateRewards(rewarded.header, rewarded.uncles)


(* The initial state satisfies it. *)
LEMMA RewardInitInv == Init => RewardInv
BY RepairConstantsAssumption DEF Init, RewardInv

(***************************************************************************)
(* Every step keeps it: only ProcessBlock writes rewarded, with a header   *)
(* of block blockNum and uncles it may have, and it moves blockNum by one. *)
(***************************************************************************)
LEMMA RewardStepInv == RewardInv /\ [Next]_vars => RewardInv'
<1> SUFFICES ASSUME RewardInv, [Next]_vars PROVE RewardInv'
    OBVIOUS
<1>1. CASE \E size \in WriteSizes, h \in Headers(blockNum) :
               \E us \in UnclesOf(h) : ProcessBlock(size, h, us)
    <2>0. PICK size \in WriteSizes, h \in Headers(blockNum) :
              \E us \in UnclesOf(h) : ProcessBlock(size, h, us)
        BY <1>1
    <2>1. PICK us \in UnclesOf(h) : ProcessBlock(size, h, us)
        BY <2>0
    <2>2. rewarded' = [header |-> h, uncles |-> us, credit |-> AccumulateRewards(h, us)]
          /\ blockNum' = blockNum + 1
        BY <2>1 DEF ProcessBlock
    <2>3. h.number = blockNum /\ blockNum \in Nat /\ h \in Headers(h.number)
        BY DEF RewardInv, Headers
    <2>4. QED
        BY <2>2, <2>3 DEF RewardInv
<1>2. CASE UNCHANGED <<blockNum, rewarded>>
    BY <1>2 DEF RewardInv
<1>3. QED
    BY <1>1, <1>2 DEF Next, Main, Setup, BlockPanics, Finish, Forwarder, User, vars

(***************************************************************************)
(* For every run of repair() in ethash's configuration, and every value of *)
(* the other constants, what accumulateRewards credits each account for    *)
(* the block executed last is exactly the yellow paper's reward, on both   *)
(* sides of the Byzantium fork: the theorem behind the run repair_resume's *)
(* second property.                                                        *)
(***************************************************************************)
THEOREM RewardsMatchYellowPaperHolds == RewardConfig => (Spec => []RewardsMatchYellowPaper)
<1> SUFFICES ASSUME RewardConfig PROVE Spec => []RewardsMatchYellowPaper
    OBVIOUS
<1>1. Init => RewardInv
    BY RewardInitInv
<1>2. RewardInv /\ [Next]_vars => RewardInv'
    BY RewardStepInv
<1>3. RewardInv => RewardsMatchYellowPaper
    <2> SUFFICES ASSUME RewardInv, rewarded # NoReward, NEW c \in Coinbases
                 PROVE  256 * rewarded.credit[c] =
                            Reference256(rewarded.header, rewarded.uncles, c)
        BY DEF RewardsMatchYellowPaper
    <2>1. /\ rewarded.header.number \in Nat
          /\ rewarded.header \in Headers(rewarded.header.number)
          /\ rewarded.uncles \in UnclesOf(rewarded.header)
          /\ rewarded.credit = AccumulateRewards(rewarded.header, rewarded.uncles)
        BY DEF RewardInv
    <2>2. QED
        BY <2>1, RewardsMatchOne
<1>4. QED
    BY <1>1, <1>2, <1>3, PTL DEF Spec

=============================================================================
