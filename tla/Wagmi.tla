------------------------------- MODULE Wagmi -------------------------------
(***************************************************************************)
(* The subgraph of Wagmi: one pool of concentrated liquidity, the NFTs     *)
(* that stand for positions in it, and one multipool whose shares (WLP)    *)
(* can be staked with a dispatcher.  Ticks are 0 and 1, a range is         *)
(* <<lower, upper>>; the reserve and the value locked are of one of the    *)
(* two tokens.                                                             *)
(***************************************************************************)
EXTENDS Subgraph

Ticks  == {0, 1}
Ranges == {<<0, 1>>, <<0, 2>>, <<1, 2>>}
NoTick == -1
InRange(range, tick) == tick # NoTick /\ range[1] <= tick /\ tick < range[2]

------------------------------------------------------------------------------
(* The contracts.  taken is what the protocol took as its fee, of which no *)
(* event is indexed; drift is what a user staked, less what was unstaked,  *)
(* since the last block that made the index read the user's WLP.           *)

WagmiChain ==
  [block |-> 1, tick |-> NoTick, reserve |-> 0, taken |-> 0, owed |-> 0, nfts |-> <<>>, direct |-> 0,
   wlp |-> [u \in User |-> 0], staked |-> [u \in User |-> 0],
   drift |-> [u \in User |-> 0], read |-> [u \in User |-> 0]]

Alive(c) == {id \in DOMAIN c.nfts : c.nfts[id].owner # Zero}
Active(c, tick) ==
  c.direct + SumOver([id \in DOMAIN c.nfts |-> c.nfts[id].liquidity],
                     {id \in DOMAIN c.nfts : InRange(c.nfts[id].range, tick)})

Event(kind, id, from, to) == <<[kind |-> kind, id |-> id, from |-> from, to |-> to]>>
OfPool(kind, range, amount) == <<[kind |-> kind, range |-> range, amount |-> amount]>>
SwapOf(c, tick, delta) ==
  <<[kind |-> "Swap", tick |-> tick, amount |-> delta, liquidity |-> Active(c, tick)]>>

Initialized(c, tick) ==
  Becomes([c EXCEPT !.tick = tick], <<[kind |-> "Initialize", tick |-> tick]>>)

NftMinted(c, u, range) ==
  Becomes([c EXCEPT !.nfts = Append(@, [owner |-> u, range |-> range, liquidity |-> 1]),
                    !.reserve = @ + 1],
    LET id == Len(c.nfts) + 1 IN
    OfPool("Mint", range, 1) \o Event("NftTransfer", id, Zero, u) \o Event("Increase", id, Zero, Zero))
Increased(c, id) ==
  Becomes([c EXCEPT !.nfts[id].liquidity = @ + 1, !.reserve = @ + 1],
    OfPool("Mint", c.nfts[id].range, 1) \o Event("Increase", id, Zero, Zero))
Decreased(c, id) ==
  Becomes([c EXCEPT !.nfts[id].liquidity = @ - 1, !.owed = @ + 1],
    OfPool("Burn", c.nfts[id].range, 1) \o Event("Decrease", id, Zero, Zero))
NftMoved(c, id, to) ==
  Becomes([c EXCEPT !.nfts[id].owner = to], Event("NftTransfer", id, c.nfts[id].owner, to))
(* A position that opens and closes within a transaction.                  *)
NftFlashed(c, u, range) ==
  LET opened == NftMinted(c, u, range)
      closed == Decreased(opened.chain, Len(c.nfts) + 1)
      gone   == NftMoved(closed.chain, Len(c.nfts) + 1, Zero)
  IN  Becomes(gone.chain, opened.events \o closed.events \o gone.events)
Collected(c) ==
  Becomes([c EXCEPT !.reserve = @ - 1, !.owed = @ - 1], OfPool("Collect", <<0, 2>>, 1))
MintedDirectly(c) ==
  Becomes([c EXCEPT !.direct = @ + 1, !.reserve = @ + 1], OfPool("Mint", <<0, 2>>, 1))
FeeTaken(c) == Becomes([c EXCEPT !.reserve = @ - 1, !.taken = @ + 1], <<>>)

Swapped(c, tick, delta) ==
  Becomes([c EXCEPT !.tick = tick, !.reserve = @ + delta], SwapOf(c, tick, delta))
SwappedTwice(c, tick) ==
  Becomes([c EXCEPT !.tick = tick, !.reserve = @ + 2],
    SwapOf(c, c.tick, 1) \o SwapOf(c, tick, 1))

(* A block in which the index reads the balance of u.                      *)
Read(c, u) == [c EXCEPT !.drift[u] = 0, !.read[u] = c.block]
Drifted(c, u, n) == IF c.read[u] = c.block THEN c ELSE [c EXCEPT !.drift[u] = @ + n]

MultiDeposited(c, u) ==
  Becomes([Read(c, u) EXCEPT !.wlp[u] = @ + 1],
    Event("WlpTransfer", 0, Zero, u) \o Event("MultiDeposit", 0, Zero, u))
MultiWithdrawn(c, u) ==
  Becomes([Read(c, u) EXCEPT !.wlp[u] = @ - 1],
    Event("WlpTransfer", 0, u, Zero) \o Event("MultiWithdraw", 0, Zero, u))
WlpMoved(c, from, to) ==
  Becomes([Read(Read(c, from), to) EXCEPT !.wlp = Transferred(@, from, to)],
    Event("WlpTransfer", 0, from, to))
WlpStaked(c, u) ==
  Becomes([Drifted(c, u, 1) EXCEPT !.wlp[u] = @ - 1, !.staked[u] = @ + 1],
    Event("WlpTransfer", 0, u, Pool) \o Event("Stake", 0, u, Pool))
WlpUnstaked(c, u) ==
  Becomes([Drifted(c, u, -1) EXCEPT !.wlp[u] = @ + 1, !.staked[u] = @ - 1],
    Event("WlpTransfer", 0, Pool, u) \o Event("Unstake", 0, Pool, u))

PoolMoves(c) ==
  {NftMinted(c, u, r) : u \in User, r \in Ranges}
    \cup {NftFlashed(c, u, r) : u \in User, r \in Ranges}
    \cup {Increased(c, id) : id \in Alive(c)}
    \cup {Decreased(c, id) : id \in {i \in Alive(c) : c.nfts[i].liquidity > 0}}
    \cup {NftMoved(c, id, Zero) : id \in {i \in Alive(c) : c.nfts[i].liquidity = 0}}
    \cup {NftMoved(c, id, u) : id \in Alive(c), u \in User}
    \cup {Collected(c) : x \in {y \in {1} : c.owed > 0}}
    \cup {MintedDirectly(c)}
    \cup {FeeTaken(c) : x \in {y \in {1} : c.reserve > c.owed}}
    \cup {Swapped(c, t, 1) : t \in Ticks}
    \cup {Swapped(c, t, -1) : t \in {s \in Ticks : c.reserve > c.owed}}
    \cup {SwappedTwice(c, t) : t \in Ticks}

MultiMoves(c) ==
  LET holders == {u \in User : c.wlp[u] > 0} IN
  {MultiDeposited(c, u) : u \in User}
    \cup {MultiWithdrawn(c, u) : u \in holders}
    \cup {WlpMoved(c, from, to) : from \in holders, to \in User}
    \cup {WlpStaked(c, u) : u \in holders}
    \cup {WlpUnstaked(c, u) : u \in {v \in User : c.staked[v] > 0}}

(* A run is of the pool or of the multipool: they share nothing.           *)
WagmiPoolTransactions(c) ==
  IF c.tick = NoTick THEN {Initialized(c, t) : t \in Ticks} ELSE PoolMoves(c)

------------------------------------------------------------------------------
(* The index. *)

(* createPool, and what a new multipool has: nothing.                      *)
WagmiIndex ==
  [pool |-> [tick |-> NoTick, liquidity |-> 0, locked |-> 0],
   positions |-> Nothing, multi |-> Nothing, events |-> Nothing]

HandleInitialize(ix, e) == [ix EXCEPT !.pool.tick = e.tick]

HandleSwap(ix, e) ==
  [ix EXCEPT !.pool = [tick |-> e.tick, liquidity |-> e.liquidity, locked |-> @.locked + e.amount],
             !.events = Save(@, ByTx(e), e)]

HandlePoolMint(ix, e) ==
  [ix EXCEPT !.pool =
     [tick |-> @.tick, locked |-> @.locked + e.amount,
      liquidity |-> IF InRange(e.range, @.tick) THEN @.liquidity + e.amount ELSE @.liquidity]]
HandlePoolBurn(ix, e) ==
  [ix EXCEPT !.pool.liquidity = IF InRange(e.range, ix.pool.tick) THEN @ - e.amount ELSE @]
HandlePoolCollect(ix, e) == [ix EXCEPT !.pool.locked = @ - e.amount]

(* getPosition: the stored one, or a new one of the contract, which has    *)
(* none of a burned NFT.                                                   *)
GetPosition(ix, id, c) ==
  IF id \in DOMAIN ix.positions THEN <<ix.positions[id]>>
  ELSE IF id \in Alive(c) THEN <<[owner |-> Zero, range |-> c.nfts[id].range, liquidity |-> 0]>>
  ELSE <<>>
PositionSaved(ix, id, found) == [ix EXCEPT !.positions = Save(@, id, found)]

HandleIncreaseLiquidity(ix, e, c) ==
  LET found == GetPosition(ix, e.id, c) IN
  IF found = <<>> THEN ix
  ELSE PositionSaved(ix, e.id, [found[1] EXCEPT !.liquidity = @ + 1])
HandleDecreaseLiquidity(ix, e, c) ==
  LET found == GetPosition(ix, e.id, c) IN
  IF found = <<>> THEN ix
  ELSE PositionSaved(ix, e.id, [found[1] EXCEPT !.liquidity = @ - 1])
HandleNftTransfer(ix, e, c) ==
  LET found == GetPosition(ix, e.id, c) IN
  IF found = <<>> THEN ix ELSE PositionSaved(ix, e.id, [found[1] EXCEPT !.owner = e.to])

(* getOrCreateMultipoolPosition, getWlpBalance.                            *)
MultiPosition(ix, u) == Load(ix.multi, u, [balance |-> 0, staked |-> 0])
WlpRead(ix, u, c) ==
  [ix EXCEPT !.multi = Save(@, u, [MultiPosition(ix, u) EXCEPT !.balance = c.wlp[u]])]
StakedBy(ix, u, n) ==
  [ix EXCEPT !.multi = Save(@, u, [MultiPosition(ix, u) EXCEPT !.staked = @ + n])]

HandleMultiDeposit(ix, e, c) == WlpRead(ix, e.to, c)
HandleMultiWithdraw(ix, e, c) == WlpRead(ix, e.to, c)
HandleStake(ix, e) == StakedBy(ix, e.from, 1)
HandleUnstake(ix, e) == StakedBy(ix, e.to, -1)

(* A transfer with the dispatcher or the zero address is left to the       *)
(* handlers of what caused it; the dispatcher's do not read the balance.   *)
HandleWlpTransfer(ix, e, c) ==
  IF {e.from, e.to} \cap {Pool, Zero} # {} THEN ix
  ELSE WlpRead(WlpRead(ix, e.from, c), e.to, c)

WagmiHandled(ix, e, c) ==
  CASE e.kind = "Initialize"    -> HandleInitialize(ix, e)
    [] e.kind = "Swap"          -> HandleSwap(ix, e)
    [] e.kind = "Mint"          -> HandlePoolMint(ix, e)
    [] e.kind = "Burn"          -> HandlePoolBurn(ix, e)
    [] e.kind = "Collect"       -> HandlePoolCollect(ix, e)
    [] e.kind = "Increase"      -> HandleIncreaseLiquidity(ix, e, c)
    [] e.kind = "Decrease"      -> HandleDecreaseLiquidity(ix, e, c)
    [] e.kind = "NftTransfer"   -> HandleNftTransfer(ix, e, c)
    [] e.kind = "MultiDeposit"  -> HandleMultiDeposit(ix, e, c)
    [] e.kind = "MultiWithdraw" -> HandleMultiWithdraw(ix, e, c)
    [] e.kind = "WlpTransfer"   -> HandleWlpTransfer(ix, e, c)
    [] e.kind = "Stake"         -> HandleStake(ix, e)
    [] e.kind = "Unstake"       -> HandleUnstake(ix, e)

------------------------------------------------------------------------------
(* After a block the pool's tick and active liquidity are the contract's   *)
(* and the value locked its reserve, but for the protocol's fees; an NFT   *)
(* has its owner and liquidity, and a burned one no owner a report names.  *)
(* What a user staked counts twice until the balance is read again.        *)
WagmiMatches(ix, c) ==
  /\ ix.pool = [tick |-> c.tick, liquidity |-> Active(c, c.tick), locked |-> c.reserve + c.taken]
  /\ Alive(c) \subseteq DOMAIN ix.positions
  /\ \A id \in DOMAIN ix.positions :
       ix.positions[id].owner = c.nfts[id].owner /\ ix.positions[id].liquidity = c.nfts[id].liquidity
  /\ \A u \in User :
       LET m == MultiPosition(ix, u) IN
       m.staked = c.staked[u] /\ m.balance = c.wlp[u] + c.drift[u]
==============================================================================
