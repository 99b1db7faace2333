----------------------------- MODULE MCSettleRun -----------------------------
(* Small windows for SettleRun: see the .cfg files for which set each uses. *)
EXTENDS SettleRunProps

CONSTANTS solar, wind, home, mill, grid   \* accounts; grid is the admin

Owner3 == <<solar, home, mill>>

Owner4 == <<solar, wind, home, mill>>

(* Every sign pattern and several sizes on up to four meters, one price    *)
(* that rounds watt-hours away and one that does not.                      *)
SwapWindows ==
  [ids : {<<1, 2, 3, 4>>, <<4, 1, 3, 2>>}, owner : {Owner4},
   net : [1 .. 4 -> {-3, -1, 0, 2, 3}], price : {700, 2000}, fee_bps : {0, 2500}]

(* Lists with repeated, unknown and missing ids; owners with both kinds of *)
(* meters, and the admin as an owner.                                      *)
OddWindows ==
  {x \in [ids : {<<1, 2, 3>>, <<2, 2, 1>>, <<1, 4, 2>>, <<3, 1>>, <<>>, <<2, 1, 3, 1>>},
          owner : {<<solar, home, home>>, <<home, home, solar>>, <<grid, home, grid>>},
          net : [1 .. 4 -> {-3, 0, 4}], price : {1000}, fee_bps : {0, 5000}] :
     x.net[4] = 0}

(* For integers up to 2500000: windows where one of the products wh *      *)
(* traded, matched * price, paid * fee_bps and pool * matched is too wide, *)
WideWindows ==
  {x \in [ids : {<<1, 2, 3>>}, owner : {Owner3},
          net : [1 .. 4 -> {-1200, -1000, 0, 1200, 2200}],
          price : {1000, 2000, 2300}, fee_bps : {0, 1000, 1300}] :
     x.net[4] = 0 /\ \A m \in 1 .. 3 : x.net[m] # 0}

(* and windows where a sum of positions just fits or is too wide, before   *)
(* or after an unknown id.                                                 *)
TallWindows ==
  {x \in [ids : {<<1, 2, 3>>, <<1, 2, 4, 3>>, <<1, 1, 2, 3>>}, owner : {Owner3},
          net : [1 .. 4 -> {-2, 0, 1250000}] \cup [1 .. 4 -> {-1250000, 0, 1}],
          price : {0, 10}, fee_bps : {0}] :
     x.net[4] = 0}

ManyWindows == SwapWindows \cup OddWindows \cup WideWindows \cup TallWindows

(* Ample wallets, and one where an account that buys in some window runs   *)
(* short of balance or of allowance half-way.                              *)
Full == [a \in {solar, wind, home, mill, grid} |-> 9000]

AmpleOrShort ==
  {[bal |-> Full, allow |-> Full]}
    \cup {[bal |-> [Full EXCEPT ![a] = 5], allow |-> Full] : a \in {home, grid}}
    \cup {[bal |-> Full, allow |-> [Full EXCEPT ![a] = 5]] : a \in {home, grid}}

Ample == {[bal |-> Full, allow |-> Full]}

(* Every producer's share of the traded energy is less than a watt-hour.   *)
ThinWindows ==
  [ids : {<<1, 2, 3, 4>>}, owner : {Owner4},
   net : [1 .. 4 -> {-1, 1}], price : {7000}, fee_bps : {1000}]

=============================================================================
