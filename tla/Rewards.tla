------------------------------ MODULE Rewards ------------------------------
(***************************************************************************)
(* hack's accumulateRewards, the mining reward repair() credits after each *)
(* block, against the rule of the Ethereum yellow paper (section 11.3):   *)
(* the block's beneficiary gets R (1 + |U| / 32), each uncle's             *)
(* beneficiary gets R (1 + (U.number - H.number) / 8), with R the block    *)
(* reward of the fork the block is in.                                     *)
(*                                                                         *)
(* The code computes in integers with one big.Int r reused for both the    *)
(* uncle's reward and the nephew bonus; the reference is stated without   *)
(* division, scaled by 256.  Amounts are in units of 10^13 wei.            *)
(*                                                                         *)
(* Repair credits it for each block it executes, with the block's header   *)
(* (number, coinbase) and its uncles as the chain holds them (valid        *)
(* uncles, so 1 to 6 blocks below the header).                             *)
(***************************************************************************)
EXTENDS Naturals, Sequences

CONSTANTS
    Coinbases,              \* the beneficiaries
    MaxUncles,              \* uncles per block (2 in ethash)
    ByzantiumBlock,         \* params.ChainConfig.ByzantiumBlock
    FrontierBlockReward,    \* ethash.FrontierBlockReward
    ByzantiumBlockReward    \* ethash.ByzantiumBlockReward

ASSUME RewardConstantsAssumption ==
    /\ MaxUncles \in Nat /\ ByzantiumBlock \in Nat
    /\ FrontierBlockReward \in Nat /\ ByzantiumBlockReward \in Nat

(* The headers a block numbered n may have. *)
Headers(n) == [number : {n}, coinbase : Coinbases]

UnclesOf(h) ==
    UNION {[1..n -> [number : {u \in 0..h.number : u < h.number /\ h.number <= u + 6},
                     coinbase : Coinbases]] : n \in 0..MaxUncles}

-----------------------------------------------------------------------------
(* config.IsByzantium(num): the fork block is at or below num. *)
IsByzantium(num) == ByzantiumBlock <= num

NoCredit == [c \in Coinbases |-> 0]

(***************************************************************************)
(* accumulateRewards: after the loop over the uncles, credit[c] is what    *)
(* state.AddBalance gave c.  r := (uncle + 8 - header) * R / 8 is credited *)
(* to the uncle; then r := R / 32 is added to the block's reward.          *)
(***************************************************************************)
\* Mutant: the nephew bonus is taken from r (r.Div(r, big32)), not from R.
AccumulateRewardsBonusFromR(h, us) ==
    LET R == IF IsByzantium(h.number) THEN ByzantiumBlockReward ELSE FrontierBlockReward
        loop[i \in 0..Len(us)] ==
            IF i = 0 THEN [credit |-> NoCredit, reward |-> R]
            ELSE LET prev == loop[i - 1]
                     r    == ((us[i].number + 8 - h.number) * R) \div 8
                 IN  [credit |-> [prev.credit EXCEPT ![us[i].coinbase] = @ + r],
                      reward |-> prev.reward + r \div 32]
        done == loop[Len(us)]
    IN  [done.credit EXCEPT ![h.coinbase] = @ + done.reward]

AccumulateRewards(h, us) ==
    LET R == IF IsByzantium(h.number) THEN ByzantiumBlockReward ELSE FrontierBlockReward
        loop[i \in 0..Len(us)] ==
            IF i = 0 THEN [credit |-> NoCredit, reward |-> R]
            ELSE LET prev == loop[i - 1]
                     r    == ((us[i].number + 8 - h.number) * R) \div 8
                 IN  [credit |-> [prev.credit EXCEPT ![us[i].coinbase] = @ + r],
                      reward |-> prev.reward + R \div 32]
        done == loop[Len(us)]
    IN  [done.credit EXCEPT ![h.coinbase] = @ + done.reward]

(* The yellow paper's rule, times 256, for one beneficiary. *)
Reference256(h, us, c) ==
    LET R == IF h.number >= ByzantiumBlock THEN ByzantiumBlockReward ELSE FrontierBlockReward
        uncleShare[i \in 0..Len(us)] ==
            IF i = 0 THEN 0
            ELSE uncleShare[i - 1]
                 + (IF us[i].coinbase = c THEN 32 * (8 + us[i].number - h.number) * R ELSE 0)
    IN  uncleShare[Len(us)] + (IF h.coinbase = c THEN 256 * R + 8 * Len(us) * R ELSE 0)

=============================================================================
