------------------------------ MODULE Ledgers ------------------------------
(***************************************************************************)
(* The subgraphs that know the contracts by their events alone: zkDX adds  *)
(* up what each account put into its pools, AGX what each user holds of    *)
(* its liquidity token; ZNS, Eddy and Interport store each event.          *)
(***************************************************************************)
EXTENDS Subgraph

------------------------------------------------------------------------------
(* The contracts.  zUSD is issued for a token exchanged, and can be sent   *)
(* to another user: got is what an account received less what it sent,     *)
(* lost what it redeemed before it ever exchanged.                         *)

Staking == {"eth", "usdc"}
LedgerChain ==
  [block |-> 1, staked |-> [p \in Staking |-> [u \in User |-> 0]],
   zusd |-> [u \in User |-> 0], got |-> [u \in User |-> 0], lost |-> [u \in User |-> 0],
   exchanged |-> {}, alp |-> [u \in User \cup {Pool} |-> 0], supply |-> 0]

ZkdxStaked(c, p, u) ==
  Becomes([c EXCEPT !.staked[p][u] = @ + 1], Emits("Stake", u, p, 1, 0))
ZkdxWithdrawn(c, p, u) ==
  Becomes([c EXCEPT !.staked[p][u] = @ - 1], Emits("Withdraw", u, p, 1, 0))
Exchanged(c, u) ==
  Becomes([c EXCEPT !.zusd[u] = @ + 1, !.exchanged = @ \cup {u}], Emits("Exchange", u, Pool, 1, 0))
RedeemedZusd(c, u) ==
  Becomes([c EXCEPT !.zusd[u] = @ - 1, !.lost[u] = IF u \in c.exchanged THEN @ ELSE @ + 1],
    Emits("Redeem", u, Pool, 1, 0))
ZusdSent(c, from, to) ==
  Becomes([c EXCEPT !.zusd = Transferred(@, from, to), !.got = Transferred(@, from, to)], <<>>)
(* One call that opens a position and buys the pool's token with the rest. *)
TradedTwice(c, u, first, second) ==
  Becomes(c, Emits(first, u, Pool, 1, 0) \o Emits(second, u, Pool, 2, 0))

Trades == {"BuyLP", "RedeemLP", "Increase", "Decrease"}
ZkdxTrades(c) ==
  {Becomes(c, Emits(kind, u, Pool, 1, 0)) : kind \in Trades, u \in User}
    \cup {TradedTwice(c, u, "Increase", "BuyLP") : u \in User}

ZkdxChanges(c) ==
  LET holders == {u \in User : c.zusd[u] > 0} IN
  {ZkdxStaked(c, p, u) : p \in Staking, u \in User}
    \cup (UNION {{ZkdxWithdrawn(c, p, u) : u \in {v \in User : c.staked[p][v] > 0}} : p \in Staking})
    \cup {Exchanged(c, u) : u \in User}
    \cup {RedeemedZusd(c, u) : u \in holders}
    \cup {ZusdSent(c, from, to) : from \in holders, to \in User}
    \cup ZkdxTrades(c)

AlpMinted(c, u) ==
  Becomes([c EXCEPT !.alp[u] = @ + 1, !.supply = @ + 1], Emits("Transfer", Zero, u, 1, 0))
AlpBurned(c, u) ==
  Becomes([c EXCEPT !.alp[u] = @ - 1, !.supply = @ - 1], Emits("Transfer", u, Zero, 1, 0))
AlpSent(c, from, to) ==
  Becomes([c EXCEPT !.alp = Transferred(@, from, to)], Emits("Transfer", from, to, 1, 0))
AgxSwapped(c, u, n) ==
  Becomes(c, IF n = 1 THEN Emits("Swap", u, Pool, 1, 0)
             ELSE Emits("Swap", u, Pool, 1, 0) \o Emits("Swap", u, Pool, 2, 0))

AgxChanges(c) ==
  LET holders == {u \in User : c.alp[u] > 0} IN
  {AlpMinted(c, u) : u \in User}
    \cup {AlpBurned(c, u) : u \in holders}
    \cup {AlpSent(c, from, to) : from \in holders, to \in User \cup {Pool}}
    \cup {AgxSwapped(c, u, n) : u \in User, n \in {1, 2}}

(* A registration emits a transfer and a mint of the domain; a call of     *)
(* Interport may pass several targets.                                     *)
LogChanges(c) ==
  LET one(kind, u) == Emits(kind, u, Pool, 1, 0) IN
  {Becomes(c, one("ZnsTransfer", u) \o one("MintedDomain", u)) : u \in User}
    \cup {Becomes(c, one("RenewedDomain", u)) : u \in User}
    \cup {Becomes(c, one("EddySwap", u) \o one("EddySwap", v)) : u, v \in User}
    \cup {Becomes(c, one("Staked", u)) : u \in User}
    \cup {Becomes(c, one("Target", u) \o one("Target", v)) : u, v \in User}

------------------------------------------------------------------------------
(* zkDX. *)

LedgerIndex == [balances |-> Nothing, supply |-> 0, events |-> Nothing]

Deposited(ix, id, amount) == [ix EXCEPT !.balances = Save(@, id, Load(@, id, 0) + amount)]
(* Nothing is taken from an account that is not known.                     *)
Withdrawn(ix, id, amount) ==
  IF id \in DOMAIN ix.balances THEN [ix EXCEPT !.balances[id] = @ - amount] ELSE ix

HandleStakeEth(ix, e) == Deposited(ix, <<"eth", e.from>>, e.amount)
HandleWithdrawEth(ix, e) == Withdrawn(ix, <<"eth", e.from>>, e.amount)
HandleStakeUsdc(ix, e) == Deposited(ix, <<"usdc", e.from>>, e.amount)
HandleWithdrawUsdc(ix, e) == Withdrawn(ix, <<"usdc", e.from>>, e.amount)

(* The entity of a trade has its transaction's hash for an id.             *)
TradeRecorded(ix, e) == [ix EXCEPT !.events = Save(@, ByTx(e), e)]

HandleBuyLP(ix, e) == TradeRecorded(ix, e)
HandleRedeemLP(ix, e) == TradeRecorded(ix, e)
HandleIncrease(ix, e) == TradeRecorded(ix, e)
HandleDecrease(ix, e) == TradeRecorded(ix, e)

HandleExchange(ix, e) == TradeRecorded(Deposited(ix, <<"zusd", e.from>>, e.amount), e)
HandleZusdRedeem(ix, e) ==
  LET id == <<"zusd", e.from>> IN
  IF id \in DOMAIN ix.balances THEN TradeRecorded(Withdrawn(ix, id, e.amount), e) ELSE ix

ZkdxHandled(ix, e) ==
  CASE e.kind = "Stake" /\ e.to = "eth"     -> HandleStakeEth(ix, e)
    [] e.kind = "Stake" /\ e.to = "usdc"    -> HandleStakeUsdc(ix, e)
    [] e.kind = "Withdraw" /\ e.to = "eth"  -> HandleWithdrawEth(ix, e)
    [] e.kind = "Withdraw" /\ e.to = "usdc" -> HandleWithdrawUsdc(ix, e)
    [] e.kind = "Exchange" -> HandleExchange(ix, e)
    [] e.kind = "Redeem"   -> HandleZusdRedeem(ix, e)
    [] e.kind = "BuyLP"    -> HandleBuyLP(ix, e)
    [] e.kind = "RedeemLP" -> HandleRedeemLP(ix, e)
    [] e.kind = "Increase" -> HandleIncrease(ix, e)
    [] e.kind = "Decrease" -> HandleDecrease(ix, e)

(* What is staked is what was put in; of zUSD an account keeps what it     *)
(* exchanged, whoever holds it now, less what was redeemed since.          *)
ZkdxMatches(ix, c) ==
  \A u \in User :
    /\ \A p \in Staking : Load(ix.balances, <<p, u>>, 0) = c.staked[p][u]
    /\ Load(ix.balances, <<"zusd", u>>, 0) = c.zusd[u] - c.got[u] + c.lost[u]

------------------------------------------------------------------------------
(* AGX. *)

UpdatePoolSupply(ix, e, c) ==
  IF Zero \in {e.from, e.to} THEN [ix EXCEPT !.supply = c.supply] ELSE ix

(* A sender that is not known starts with nothing; the token's own address *)
(* has no position.                                                        *)
AgxUserBalance(ix, e) ==
  LET sent == IF e.from \in {Zero, Pool} THEN ix
              ELSE IF e.from \in DOMAIN ix.balances THEN Withdrawn(ix, e.from, e.amount)
              ELSE Deposited(ix, e.from, 0)
  IN  IF e.to \in {Zero, Pool} THEN sent ELSE Deposited(sent, e.to, e.amount)

AgxTransfer(ix, e, c) == AgxUserBalance(UpdatePoolSupply(ix, e, c), e)
AgxSwap(ix, e) == [ix EXCEPT !.events = Save(@, ByTx(e), e)]

AgxHandled(ix, e, c) == IF e.kind = "Swap" THEN AgxSwap(ix, e) ELSE AgxTransfer(ix, e, c)

(* Only tokens sent to the token itself are in no position.                *)
AgxMatches(ix, c) ==
  /\ \A u \in User : Load(ix.balances, u, 0) = c.alp[u]
  /\ ix.supply = c.supply
  /\ SumOver(ix.balances, DOMAIN ix.balances) + c.alp[Pool] = ix.supply

------------------------------------------------------------------------------
(* ZNS, Eddy and Interport. *)

(* Mutant of HandleAction: the log index is left out of the id.            *)
HandleActionByTx(ix, e) == [ix EXCEPT !.events = Save(@, ByTx(e), e)]

(* Approvals, metadata and mints; then pauses, primary domains, renewals,  *)
(* roles and transfers.                                                    *)
HandleMintedDomain(ix, e) == [ix EXCEPT !.events = Save(@, ByLog(e), e)]
HandleRegistry(ix, e) == [ix EXCEPT !.events = Save(@, ByLog(e), e)]
HandleEddySwap(ix, e) == [ix EXCEPT !.events = Save(@, ByLog(e), e)]
HandleStaked(ix, e) == [ix EXCEPT !.events = Save(@, ByLog(e), e)]
HandleAction(ix, e) == [ix EXCEPT !.events = Save(@, ByLog(e), e)]

LogHandled(ix, e) ==
  CASE e.kind = "EddySwap" -> HandleEddySwap(ix, e)
    [] e.kind = "Staked"   -> HandleStaked(ix, e)
    [] e.kind = "Target"   -> HandleAction(ix, e)
    [] e.kind = "Role"     -> HandleRegistry(ix, e)
    [] OTHER               -> HandleMintedDomain(ix, e)
==============================================================================
