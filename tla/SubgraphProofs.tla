-------------------------- MODULE SubgraphProofs --------------------------
(***************************************************************************)
(* That the index says what the contracts say: Wagmi, the lending pools    *)
(* and Sumer (zkDX, AGX and the multipool are in AdapterProofs), and all   *)
(* of them together, for every number of users, transactions and blocks.   *)
(***************************************************************************)
EXTENDS AdapterProofs

------------------------------------------------------------------------------
(* The liquidity that is active at a tick. *)

Nft == [owner : User \cup {Zero}, range : Ranges, liquidity : Nat]
Lq(n) == [id \in DOMAIN n |-> n[id].liquidity]
Around(n, tick) == {id \in DOMAIN n : InRange(n[id].range, tick)}
HeldAt(n, tick) == SumOver(Lq(n), Around(n, tick))

(* It is a number, and there is none without a position. *)
LEMMA HeldIsNumber ==
  ASSUME NEW n \in Seq(Nft), NEW tick
  PROVE  /\ HeldAt(n, tick) \in Nat /\ IsFiniteSet(Around(n, tick)) /\ \A id \in DOMAIN n : Lq(n)[id] = n[id].liquidity /\ n[id] \in Nft
<1>1. DOMAIN n = 1..Len(n) /\ Len(n) \in Nat
  BY LenProperties
<1>2. \A id \in DOMAIN n : n[id] \in Nft /\ Lq(n)[id] = n[id].liquidity
  BY <1>1, ElementOfSeq DEF Lq
<1>3. IsFiniteSet(1..Len(n))
  BY <1>1, FS_Interval
<1>4. IsFiniteSet(Around(n, tick))
  <2>1. Around(n, tick) \subseteq 1..Len(n)
    BY <1>1 DEF Around
  <2> QED
    BY <1>3, <2>1, FS_Subset
<1>5. \A id \in Around(n, tick) : Lq(n)[id] \in Nat
  BY <1>2 DEF Around, Nft
<1> QED
  BY <1>2, <1>4, <1>5, SumIsNumber DEF HeldAt

(* Where nothing is in range nothing is active. *)
LEMMA HeldNowhere ==
  /\ \A n : HeldAt(n, NoTick) = 0
  /\ \A tick : HeldAt(<<>>, tick) = 0
<1>1. \A n : Around(n, NoTick) = {}
  BY DEF Around, InRange
<1>2. \A tick : Around(<<>>, tick) = {}
  BY DEF Around
<1> QED
  BY <1>1, <1>2, SumEmpty DEF HeldAt

(* One position changes, within its range. *)
NftSet(n, id, m, k) ==
  /\ id \in DOMAIN n /\ DOMAIN m = DOMAIN n /\ m[id].range = n[id].range /\ m[id].liquidity = k
  /\ \A j \in DOMAIN n : j # id => m[j] = n[j]

(* What the NFTs hold at a tick changes by as much as the position did, if *)
(* it is there.                                                            *)
LEMMA HeldMore ==
  ASSUME NEW n \in Seq(Nft), NEW m \in Seq(Nft), NEW id, NEW k, NftSet(n, id, m, k), NEW tick
  PROVE  HeldAt(m, tick) = HeldAt(n, tick) + (IF InRange(n[id].range, tick) THEN k - n[id].liquidity ELSE 0)
<1>1. /\ HeldAt(n, tick) \in Nat /\ IsFiniteSet(Around(n, tick))
      /\ \A j \in DOMAIN n : Lq(n)[j] = n[j].liquidity /\ n[j] \in Nft
  BY HeldIsNumber
<1>2. /\ HeldAt(m, tick) \in Nat /\ IsFiniteSet(Around(m, tick))
      /\ \A j \in DOMAIN m : Lq(m)[j] = m[j].liquidity /\ m[j] \in Nft
  BY HeldIsNumber
<1>3. Around(m, tick) = Around(n, tick) /\ Around(n, tick) \subseteq DOMAIN n /\ DOMAIN m = DOMAIN n
  BY DEF Around, NftSet
<1>4. \A j \in DOMAIN n : Lq(n)[j] \in Nat /\ Lq(m)[j] \in Nat /\ (j # id => Lq(m)[j] = Lq(n)[j])
  BY <1>1, <1>2 DEF Nft, NftSet
<1>5. CASE id \in Around(n, tick)
  <2>1. OneChanged(Lq(n), Lq(m), Around(n, tick), id)
    BY <1>3, <1>4, <1>5 DEF OneChanged
  <2>2. SumOver(Lq(m), Around(n, tick)) + Lq(n)[id] = SumOver(Lq(n), Around(n, tick)) + Lq(m)[id]
    BY <1>1, <2>1, SumOneChanged
  <2>3. HeldAt(m, tick) + n[id].liquidity = HeldAt(n, tick) + k
    BY <1>1, <1>2, <1>3, <1>5, <2>2 DEF HeldAt, NftSet
  <2>4. InRange(n[id].range, tick) /\ n[id].liquidity \in Nat /\ k \in Nat
    BY <1>1, <1>2, <1>5 DEF Around, Nft, NftSet
  <2>5. PICK l \in Nat : l = n[id].liquidity
    BY <2>4
  <2>6. PICK g, h : g = HeldAt(n, tick) /\ h = HeldAt(m, tick)
    OBVIOUS
  <2>7. g \in Nat /\ h \in Nat /\ h + l = g + k
    BY <1>1, <1>2, <2>3, <2>5, <2>6
  <2>8. h = g + (k - l)
    BY <2>4, <2>7
  <2>9. (IF InRange(n[id].range, tick) THEN k - n[id].liquidity ELSE 0) = k - l
    BY <2>4, <2>5
  <2> QED
    BY <2>6, <2>8, <2>9
<1>6. CASE id \notin Around(n, tick)
  <2>1. \A j \in Around(n, tick) : Lq(n)[j] \in Nat /\ Lq(n)[j] = Lq(m)[j]
    BY <1>3, <1>4, <1>6
  <2>2. HeldAt(n, tick) = HeldAt(m, tick)
    BY <1>1, <1>3, <2>1, SumSame DEF HeldAt
  <2>3. ~InRange(n[id].range, tick)
    BY <1>6 DEF Around, NftSet
  <2>4. (IF InRange(n[id].range, tick) THEN k - n[id].liquidity ELSE 0) = 0
    BY <2>3
  <2> QED
    BY <1>1, <2>2, <2>4
<1> QED
  BY <1>5, <1>6

(* A position is added. *)
Appended(n, p, m) ==
  /\ m \in Seq(Nft) /\ Len(n) \in Nat /\ DOMAIN n = 1..Len(n) /\ DOMAIN m = DOMAIN n \cup {Len(n) + 1}
  /\ Len(n) + 1 \notin DOMAIN n
  /\ m[Len(n) + 1] = p /\ \A j \in DOMAIN n : m[j] = n[j]

(* A sequence with one NFT more. *)
LEMMA NftAppended ==
  ASSUME NEW n \in Seq(Nft), NEW p \in Nft, NEW m, m = Append(n, p)
  PROVE  Appended(n, p, m)
<1>1. /\ m \in Seq(Nft) /\ Len(n) \in Nat /\ DOMAIN n = 1..Len(n) /\ Len(m) = Len(n) + 1
      /\ m[Len(n) + 1] = p /\ \A j \in 1..Len(n) : m[j] = n[j]
  BY AppendProperties, LenProperties
<1>2. PICK l : l = Len(n) + 1
  OBVIOUS
<1>3. DOMAIN m = DOMAIN n \cup {l} /\ l \notin DOMAIN n
  BY <1>1, <1>2, LenProperties
<1> QED
  BY <1>1, <1>2, <1>3 DEF Appended

(* Of no liquidity, it changes nothing of what is held. *)
LEMMA HeldAppend ==
  ASSUME NEW n \in Seq(Nft), NEW p \in Nft, p.liquidity = 0, NEW m, Appended(n, p, m), NEW tick
  PROVE  HeldAt(m, tick) = HeldAt(n, tick)
<1>1. /\ m \in Seq(Nft) /\ m[Len(n) + 1] = p /\ \A j \in DOMAIN n : m[j] = n[j]
  BY DEF Appended
<1>2. PICK l : l = Len(n) + 1
  OBVIOUS
<1>3. DOMAIN m = DOMAIN n \cup {l} /\ l \notin DOMAIN n
  BY <1>2 DEF Appended
<1>4. /\ HeldAt(n, tick) \in Nat /\ IsFiniteSet(Around(n, tick))
      /\ \A j \in DOMAIN n : Lq(n)[j] = n[j].liquidity /\ n[j] \in Nft
  BY HeldIsNumber
<1>5. /\ HeldAt(m, tick) \in Nat /\ IsFiniteSet(Around(m, tick))
      /\ \A j \in DOMAIN m : Lq(m)[j] = m[j].liquidity /\ m[j] \in Nft
  BY <1>1, HeldIsNumber
<1>6. \A j \in DOMAIN n : Lq(n)[j] \in Nat /\ Lq(m)[j] = Lq(n)[j]
  BY <1>1, <1>3, <1>4, <1>5 DEF Nft
<1>7. Around(n, tick) \subseteq DOMAIN n
  BY DEF Around
<1>8. SumOver(Lq(m), Around(n, tick)) = HeldAt(n, tick)
  <2>1. \A j \in Around(n, tick) : Lq(n)[j] \in Nat /\ Lq(n)[j] = Lq(m)[j]
    BY <1>6, <1>7
  <2> QED
    BY <1>4, <2>1, SumSame DEF HeldAt
<1>9. CASE InRange(p.range, tick)
  <2>1. Around(m, tick) = Around(n, tick) \cup {l}
    BY <1>1, <1>2, <1>3, <1>9 DEF Around
  <2>2. l \notin Around(n, tick)
    BY <1>3, <1>7
  <2>3. \A y \in Around(n, tick) \cup {l} : Lq(m)[y] \in Nat
    BY <1>3, <1>5, <1>7 DEF Nft
  <2>4. SumOver(Lq(m), Around(n, tick) \cup {l}) = Lq(m)[l] + SumOver(Lq(m), Around(n, tick))
    BY <1>4, <2>2, <2>3, SumAdd
  <2>5. Lq(m)[l] = p.liquidity /\ p.liquidity \in Nat
    BY <1>1, <1>2, <1>3, <1>5 DEF Nft
  <2>6. HeldAt(m, tick) = p.liquidity + HeldAt(n, tick)
    BY <1>8, <2>1, <2>4, <2>5 DEF HeldAt
  <2> QED
    BY <1>1, <1>2, <1>3, <1>4, <1>9, <2>5, <2>6
<1>10. CASE ~InRange(p.range, tick)
  <2>1. Around(m, tick) = Around(n, tick)
    BY <1>1, <1>2, <1>3, <1>10 DEF Around
  <2>2. HeldAt(m, tick) = HeldAt(n, tick)
    BY <1>8, <2>1 DEF HeldAt
  <2> QED
    BY <1>1, <1>2, <1>3, <1>4, <1>10, <2>2
<1> QED
  BY <1>9, <1>10

------------------------------------------------------------------------------
(* What Wagmi's pool says of itself. *)

WagmiFacts == {Fact("pool", 0, 0)} \cup {Fact("nft", id, 0) : id \in Nat}
PoolOf(c) == [tick |-> c.tick, liquidity |-> Active(c, c.tick), locked |-> c.reserve + c.taken]
NftOf(c, id) ==
  IF id \in DOMAIN c.nfts THEN [owner |-> c.nfts[id].owner, liquidity |-> c.nfts[id].liquidity]
  ELSE [owner |-> Zero, liquidity |-> 0]

(* The pool's and the NFTs' facts on chain, and what is active in these    *)
(* words.                                                                  *)
LEMMA WagmiOnChain ==
  /\ \A c : OnChain(Fact("pool", 0, 0), c) = PoolOf(c)
  /\ \A c, id : OnChain(Fact("nft", id, 0), c) = NftOf(c, id)
  /\ \A c, tick : Active(c, tick) = c.direct + HeldAt(c.nfts, tick)
BY DEF OnChain, Fact, PoolOf, NftOf, Active, HeldAt, Lq, Around

(* A step of the pool, and a step of its NFTs. *)
PoolTold(c, d, s) == Tells(Fact("pool", 0, 0), s, PoolOf(c), PoolOf(d))
NftsTold(c, d, s) == \A id \in Nat : Tells(Fact("nft", id, 0), s, NftOf(c, id), NftOf(d, id))
IsNftEvent(e, d) ==
  "kind" \in DOMAIN e /\ (e.kind \in NftKinds => Has(e, {"id", "from", "to"}) /\ e.id \in DOMAIN d.nfts)
NothingStaked(c, d) ==
  d.block = c.block /\ d.wlp = c.wlp /\ d.staked = c.staked /\ d.drift = c.drift /\ d.read = c.read
NftsStay(c, d) ==
  /\ DOMAIN c.nfts \subseteq DOMAIN d.nfts
  /\ \A id \in DOMAIN c.nfts : c.nfts[id].owner = Zero => d.nfts[id] = c.nfts[id]
WagmiGood(c, d, s) ==
  /\ d \in WagmiChains /\ NothingStaked(c, d) /\ d.tick \in Ticks
  /\ s \in Seq(Range(s)) /\ PoolTold(c, d, s) /\ NftsTold(c, d, s)
  /\ \A e \in Range(s) : IsNftEvent(e, d)
  /\ NftsStay(c, d)

(* One step after another. *)
LEMMA GoodThenGood ==
  ASSUME NEW b, NEW c, NEW d, NEW s, NEW r, WagmiGood(b, c, s), WagmiGood(c, d, r)
  PROVE  WagmiGood(b, d, s \o r)
<1>1. PICK t : t = s \o r
  OBVIOUS
<1>2. t \in Seq(Range(t)) /\ Range(t) = Range(s) \cup Range(r)
  BY <1>1, RangeJoined DEF WagmiGood
<1>3. PoolTold(b, d, t)
  BY <1>1, TellsMore DEF WagmiGood, PoolTold
<1>4. NftsTold(b, d, t)
  BY <1>1, TellsMore DEF WagmiGood, NftsTold
<1>5. NothingStaked(b, d) /\ NftsStay(b, d)
  BY DEF WagmiGood, NothingStaked, NftsStay
<1>6. \A e \in Range(t) : IsNftEvent(e, d)
  BY <1>2 DEF WagmiGood, IsNftEvent, NftsStay
<1> QED
  BY <1>1, <1>2, <1>3, <1>4, <1>5, <1>6 DEF WagmiGood

------------------------------------------------------------------------------
(* The steps of the pool that one event tells. *)

In(r, t) == IF InRange(r, t) THEN 1 ELSE 0

(* A range counts one where it is in range, and the widest always is. *)
LEMMA InIsOne ==
  /\ \A r, t : In(r, t) \in Int /\ (InRange(r, t) => In(r, t) = 1) /\ (~InRange(r, t) => In(r, t) = 0)
  /\ \A t \in Ticks : In(<<0, 2>>, t) = 1
BY DEF In, InRange, Ticks, NoTick

(* What is active is what is held there, and what no NFT stands for.       *)
LEMMA ActiveIs ==
  ASSUME NEW c \in WagmiChains
  PROVE  /\ c.nfts \in Seq(Nft) /\ c.direct \in Int /\ c.tick \in Int /\ c.reserve \in Int /\ c.taken \in Int /\ c.owed \in Int
         /\ \A t : Active(c, t) \in Int /\ HeldAt(c.nfts, t) \in Int /\ Active(c, t) = c.direct + HeldAt(c.nfts, t)
         /\ \A id : NftOf(c, id).liquidity \in Int
         /\ \A id \in DOMAIN c.nfts : c.nfts[id] \in Nft
<1>1. c.nfts \in Seq(Nft) /\ c.direct \in Int /\ c.tick \in Int /\ c.reserve \in Int /\ c.taken \in Int /\ c.owed \in Int
  BY DEF WagmiChains, Nft
<1>2. ASSUME NEW t PROVE HeldAt(c.nfts, t) \in Nat
  BY <1>1, HeldIsNumber
<1>3. \A id \in DOMAIN c.nfts : c.nfts[id] \in Nft
  BY <1>1, ElementOfSeq, LenProperties
<1>4. \A t : Active(c, t) = c.direct + HeldAt(c.nfts, t)
  BY WagmiOnChain
<1>5. \A id : NftOf(c, id).liquidity \in Int
  BY <1>3 DEF NftOf, Nft
<1> QED
  BY <1>1, <1>2, <1>3, <1>4, <1>5

Like(c, d, k, z, x, o, n, m) ==
  /\ d \in WagmiChains /\ NothingStaked(c, d)
  /\ d.tick = k /\ d.reserve = z /\ d.taken = x /\ d.owed = o /\ d.direct = n /\ d.nfts = m
(* There is such a state of the contracts. *)
LEMMA LikeNew ==
  ASSUME NEW c \in WagmiChains, NEW k \in Int, NEW z \in Int, NEW x \in Int, NEW o \in Int, NEW n \in Int, NEW m \in Seq(Nft)
  PROVE  \E d : Like(c, d, k, z, x, o, n, m)
<1>1. PICK d : d = [block |-> c.block, tick |-> k, reserve |-> z, taken |-> x, owed |-> o, nfts |-> m, direct |-> n,
                    wlp |-> c.wlp, staked |-> c.staked, drift |-> c.drift, read |-> c.read]
  OBVIOUS
<1>2. d \in WagmiChains
  BY <1>1 DEF WagmiChains, Nft
<1> QED
  BY <1>1, <1>2 DEF Like, NothingStaked

(* An event of the pool alone. *)
LEMMA PoolSaid ==
  ASSUME NEW c \in WagmiChains, NEW d \in WagmiChains, NothingStaked(c, d), d.tick \in Ticks, d.nfts = c.nfts,
         NEW e, "kind" \in DOMAIN e, e.kind \notin NftKinds, SaysPool(PoolOf(c), e, PoolOf(d))
  PROVE  WagmiGood(c, d, <<e>>)
<1>1. PoolTold(c, d, <<e>>)
  BY SaysByName, TellsOne DEF PoolTold
<1>2. \A id : NftOf(d, id) = NftOf(c, id) /\ NftOf(c, id).liquidity \in Int
  BY ActiveIs DEF NftOf
<1>3. NftsTold(c, d, <<e>>)
  <2> SUFFICES ASSUME NEW id \in Nat PROVE Tells(Fact("nft", id, 0), <<e>>, NftOf(c, id), NftOf(d, id))
    BY DEF NftsTold
  <2>1. SaysNft(id, NftOf(c, id), e, NftOf(d, id))
    BY <1>2 DEF SaysNft, NftKinds
  <2>2. Makes(Fact("nft", id, 0), NftOf(c, id), e, NftOf(d, id))
    BY <2>1, SaysByName
  <2> QED
    BY <2>2, TellsOne
<1>4. NftsStay(c, d)
  BY DEF NftsStay
<1>5. <<e>> \in Seq(Range(<<e>>)) /\ Range(<<e>>) = {e}
  BY RangeOne
<1>6. IsNftEvent(e, d)
  BY DEF IsNftEvent
<1> QED
  BY <1>1, <1>3, <1>4, <1>5, <1>6 DEF WagmiGood

(* An event of one NFT. *)
NftSaid(c, d, id, e) ==
  /\ id \in Nat /\ id \in DOMAIN d.nfts /\ DOMAIN c.nfts \subseteq DOMAIN d.nfts
  /\ "kind" \in DOMAIN e /\ e.kind \in NftKinds /\ Has(e, {"id", "from", "to"}) /\ e.id = id
  /\ SaysNft(id, NftOf(c, id), e, NftOf(d, id))
  /\ \A j : j # id => NftOf(d, j) = NftOf(c, j)
  /\ \A j \in DOMAIN c.nfts : c.nfts[j].owner = Zero => d.nfts[j] = c.nfts[j]

(* A step that changes one NFT's owner or liquidity tells it, and nothing  *)
(* of the pool.                                                            *)
LEMMA NftOnly ==
  ASSUME NEW c \in WagmiChains, NEW d \in WagmiChains, NothingStaked(c, d), d.tick \in Ticks, PoolOf(d) = PoolOf(c),
         NEW id, NEW e, NftSaid(c, d, id, e)
  PROVE  WagmiGood(c, d, <<e>>)
<1>0. /\ "kind" \in DOMAIN e /\ e.kind \in NftKinds /\ Has(e, {"id", "from", "to"}) /\ e.id = id
  BY DEF NftSaid
<1>1. PoolTold(c, d, <<e>>)
  <2>1. PoolOf(c).liquidity \in Int /\ PoolOf(c).locked \in Int
    BY ActiveIs DEF PoolOf
  <2>2. SaysPool(PoolOf(c), e, PoolOf(d))
    BY <1>0, <2>1 DEF SaysPool, NftKinds
  <2> QED
    BY <2>2, SaysByName, TellsOne DEF PoolTold
<1>3. NftsTold(c, d, <<e>>)
  <2> SUFFICES ASSUME NEW j \in Nat PROVE Tells(Fact("nft", j, 0), <<e>>, NftOf(c, j), NftOf(d, j))
    BY DEF NftsTold
  <2>1. SaysNft(j, NftOf(c, j), e, NftOf(d, j))
    <3>1. CASE j = id
      BY <3>1 DEF NftSaid
    <3>2. CASE j # id
      <4>1. NftOf(d, j) = NftOf(c, j) /\ NftOf(c, j).liquidity \in Int
        BY <3>2, ActiveIs DEF NftSaid
      <4> QED
        BY <1>0, <3>2, <4>1 DEF SaysNft
    <3> QED
      BY <3>1, <3>2
  <2>2. Makes(Fact("nft", j, 0), NftOf(c, j), e, NftOf(d, j))
    BY <2>1, SaysByName
  <2> QED
    BY <2>2, TellsOne
<1>4. NftsStay(c, d)
  BY DEF NftsStay, NftSaid
<1>5. <<e>> \in Seq(Range(<<e>>)) /\ Range(<<e>>) = {e}
  BY RangeOne
<1>6. IsNftEvent(e, d)
  BY <1>0 DEF IsNftEvent, NftSaid
<1> QED
  BY <1>1, <1>3, <1>4, <1>5, <1>6 DEF WagmiGood

------------------------------------------------------------------------------
(* Liquidity is minted, burned, collected, with no NFT. *)
Pooled(kind, range, amount) == [kind |-> kind, range |-> range, amount |-> amount]

(* It has the fields a pool's event has, with these values. *)
LEMMA PooledFacts ==
  ASSUME NEW kind, NEW range, NEW amount, NEW e, e = Pooled(kind, range, amount)
  PROVE  /\ "kind" \in DOMAIN e /\ Has(e, {"range", "amount"}) /\ Has(e, {"amount"})
         /\ e.kind = kind /\ e.range = range /\ e.amount = amount /\ OfPool(kind, range, amount) = <<e>>
BY DEF Pooled, Has, OfPool

ByMint(c, d, r) == Like(c, d, c.tick, c.reserve + 1, c.taken, c.owed, c.direct + In(r, c.tick), c.nfts)

(* Minting liquidity tells what it changes. *)
LEMMA MintSaid ==
  ASSUME NEW c \in WagmiChains, c.tick \in Ticks, NEW d, NEW r, ByMint(c, d, r)
  PROVE  WagmiGood(c, d, OfPool("Mint", r, 1))
<1>1. /\ d \in WagmiChains /\ NothingStaked(c, d) /\ d.tick = c.tick /\ d.reserve = c.reserve + 1 /\ d.taken = c.taken
      /\ d.direct = c.direct + In(r, c.tick) /\ d.nfts = c.nfts
  BY DEF ByMint, Like
<1>2. PICK p, q : p = PoolOf(c) /\ q = PoolOf(d)
  OBVIOUS
<1>3. PICK a, h, b : a = Active(c, c.tick) /\ h = HeldAt(c.nfts, c.tick) /\ b = Active(d, c.tick)
  OBVIOUS
<1>4. a \in Int /\ b \in Int /\ a = c.direct + h /\ b = d.direct + h /\ c.direct \in Int /\ h \in Int
  BY <1>1, <1>3, ActiveIs
<1>5. b = a + In(r, c.tick)
  BY <1>1, <1>4, InIsOne
<1>6. /\ p.tick = c.tick /\ p.liquidity = a /\ p.locked = c.reserve + c.taken
      /\ DOMAIN p = {"tick", "liquidity", "locked"}
      /\ p = [tick |-> c.tick, liquidity |-> a, locked |-> c.reserve + c.taken]
      /\ q = [tick |-> c.tick, liquidity |-> b, locked |-> (c.reserve + 1) + c.taken]
  BY <1>1, <1>2, <1>3 DEF PoolOf
<1>7. PICK e : e = Pooled("Mint", r, 1)
  OBVIOUS
<1>8. /\ "kind" \in DOMAIN e /\ Has(e, {"range", "amount"}) /\ e.kind = "Mint" /\ e.range = r /\ e.amount = 1
      /\ OfPool("Mint", r, 1) = <<e>>
  BY <1>7, PooledFacts
<1>9. c.reserve \in Int /\ c.taken \in Int
  BY ActiveIs
<1>9a. PICK l, m, w : l = c.reserve + c.taken /\ m = l + 1 /\ w = IF InRange(r, c.tick) THEN a + 1 ELSE a
  OBVIOUS
<1>9b. l \in Int /\ m = (c.reserve + 1) + c.taken
  BY <1>9, <1>9a
<1>9c. b = w
  BY <1>4, <1>5, <1>9a, InIsOne
<1>10. q = [tick |-> p.tick, locked |-> p.locked + e.amount,
            liquidity |-> IF InRange(e.range, p.tick) THEN p.liquidity + e.amount ELSE p.liquidity]
  <2>1. q = [tick |-> c.tick, liquidity |-> w, locked |-> m]
    BY <1>6, <1>9b, <1>9c, Zenon
  <2>2. w = IF InRange(e.range, p.tick) THEN p.liquidity + e.amount ELSE p.liquidity
    BY <1>6, <1>8, <1>9a
  <2>3. m = p.locked + e.amount
    BY <1>6, <1>8, <1>9a
  <2> QED
    BY <1>6, <2>1, <2>2, <2>3
<1>11. SaysPool(p, e, q)
  <2>1. p.liquidity \in Int /\ p.locked \in Int
    BY <1>4, <1>6, <1>9
  <2> QED
    BY <1>8, <1>10, <2>1 DEF SaysPool
<1>12. e.kind \notin NftKinds
  BY <1>8 DEF NftKinds
<1> QED
  BY <1>1, <1>2, <1>8, <1>11, <1>12, PoolSaid

ByBurn(c, d, r) == Like(c, d, c.tick, c.reserve, c.taken, c.owed + 1, c.direct - In(r, c.tick), c.nfts)

(* Burning it tells what it changes. *)
LEMMA BurnSaid ==
  ASSUME NEW c \in WagmiChains, c.tick \in Ticks, NEW d, NEW r, ByBurn(c, d, r)
  PROVE  WagmiGood(c, d, OfPool("Burn", r, 1))
<1>1. /\ d \in WagmiChains /\ NothingStaked(c, d) /\ d.tick = c.tick /\ d.reserve = c.reserve /\ d.taken = c.taken
      /\ d.direct = c.direct - In(r, c.tick) /\ d.nfts = c.nfts
  BY DEF ByBurn, Like
<1>2. PICK p, q : p = PoolOf(c) /\ q = PoolOf(d)
  OBVIOUS
<1>3. PICK a, h, b : a = Active(c, c.tick) /\ h = HeldAt(c.nfts, c.tick) /\ b = Active(d, c.tick)
  OBVIOUS
<1>4. a \in Int /\ b \in Int /\ a = c.direct + h /\ b = d.direct + h /\ c.direct \in Int /\ h \in Int
  BY <1>1, <1>3, ActiveIs
<1>5. b = a - In(r, c.tick)
  BY <1>1, <1>4, InIsOne
<1>6. /\ p.tick = c.tick /\ p.liquidity = a /\ p.locked = c.reserve + c.taken
      /\ DOMAIN p = {"tick", "liquidity", "locked"}
      /\ q = [tick |-> c.tick, liquidity |-> b, locked |-> c.reserve + c.taken]
  BY <1>1, <1>2, <1>3 DEF PoolOf
<1>7. PICK e : e = Pooled("Burn", r, 1)
  OBVIOUS
<1>8. /\ "kind" \in DOMAIN e /\ Has(e, {"range", "amount"}) /\ e.kind = "Burn" /\ e.range = r /\ e.amount = 1
      /\ OfPool("Burn", r, 1) = <<e>>
  BY <1>7, PooledFacts
<1>9. c.reserve \in Int /\ c.taken \in Int
  BY ActiveIs
<1>10. q = [tick |-> p.tick, locked |-> p.locked,
            liquidity |-> IF InRange(e.range, p.tick) THEN p.liquidity - e.amount ELSE p.liquidity]
  <2>1. b = IF InRange(r, c.tick) THEN a - 1 ELSE a
    BY <1>4, <1>5, InIsOne
  <2> QED
    BY <1>2, <1>3, <1>6, <1>8, <2>1 DEF PoolOf
<1>11. SaysPool(p, e, q)
  BY <1>4, <1>6, <1>8, <1>9, <1>10 DEF SaysPool
<1>12. e.kind \notin NftKinds
  BY <1>8 DEF NftKinds
<1> QED
  BY <1>1, <1>2, <1>8, <1>11, <1>12, PoolSaid

ByCollect(c, d) == Like(c, d, c.tick, c.reserve - 1, c.taken, c.owed - 1, c.direct, c.nfts)

(* Collecting tells what it changes. *)
LEMMA CollectSaid ==
  ASSUME NEW c \in WagmiChains, c.tick \in Ticks, NEW d, NEW r, ByCollect(c, d)
  PROVE  WagmiGood(c, d, OfPool("Collect", r, 1))
<1>1. /\ d \in WagmiChains /\ NothingStaked(c, d) /\ d.tick = c.tick /\ d.reserve = c.reserve - 1 /\ d.taken = c.taken
      /\ d.direct = c.direct /\ d.nfts = c.nfts
  BY DEF ByCollect, Like
<1>2. PICK p, q : p = PoolOf(c) /\ q = PoolOf(d)
  OBVIOUS
<1>3. Active(d, c.tick) = Active(c, c.tick) /\ Active(c, c.tick) \in Int
  BY <1>1, ActiveIs
<1>4. PICK a : a = Active(c, c.tick)
  OBVIOUS
<1>6. /\ p.tick = c.tick /\ p.liquidity = a /\ p.locked = c.reserve + c.taken /\ a \in Int
      /\ p = [tick |-> c.tick, liquidity |-> a, locked |-> c.reserve + c.taken]
      /\ q = [tick |-> c.tick, liquidity |-> a, locked |-> (c.reserve - 1) + c.taken]
  BY <1>1, <1>2, <1>3, <1>4 DEF PoolOf
<1>7. PICK e : e = Pooled("Collect", r, 1)
  OBVIOUS
<1>8. /\ "kind" \in DOMAIN e /\ Has(e, {"amount"}) /\ e.kind = "Collect" /\ e.range = r /\ e.amount = 1
      /\ OfPool("Collect", r, 1) = <<e>>
  BY <1>7, PooledFacts
<1>9. c.reserve \in Int /\ c.taken \in Int
  BY ActiveIs
<1>10. q = [tick |-> p.tick, liquidity |-> p.liquidity, locked |-> p.locked - e.amount]
  BY <1>6, <1>8, <1>9
<1>11. SaysPool(p, e, q)
  BY <1>6, <1>8, <1>9, <1>10 DEF SaysPool
<1>12. e.kind \notin NftKinds
  BY <1>8 DEF NftKinds
<1> QED
  BY <1>1, <1>2, <1>8, <1>11, <1>12, PoolSaid

------------------------------------------------------------------------------
(* A price is set, moved; a fee is taken. *)
BySwap(c, d, k, delta) == Like(c, d, k, c.reserve + delta, c.taken, c.owed, c.direct, c.nfts)

(* A swap tells what it changes; what is active at a tick stays. *)
LEMMA SwapSaid ==
  ASSUME NEW c \in WagmiChains, c.tick \in Ticks, NEW d, NEW k \in Ticks, NEW delta \in Int, BySwap(c, d, k, delta)
  PROVE  WagmiGood(c, d, SwapOf(c, k, delta)) /\ \A t : Active(d, t) = Active(c, t)
<1>1. /\ d \in WagmiChains /\ NothingStaked(c, d) /\ d.tick = k /\ d.reserve = c.reserve + delta /\ d.taken = c.taken
      /\ d.direct = c.direct /\ d.nfts = c.nfts
  BY DEF BySwap, Like
<1>2. PICK p, q : p = PoolOf(c) /\ q = PoolOf(d)
  OBVIOUS
<1>3. \A t : Active(d, t) = Active(c, t) /\ Active(c, t) \in Int
  BY <1>1, ActiveIs
<1>4. PICK a, b : a = Active(c, c.tick) /\ b = Active(c, k)
  OBVIOUS
<1>6. /\ p = [tick |-> c.tick, liquidity |-> a, locked |-> c.reserve + c.taken] /\ a \in Int
      /\ q = [tick |-> k, liquidity |-> b, locked |-> (c.reserve + delta) + c.taken]
  BY <1>1, <1>2, <1>3, <1>4 DEF PoolOf
<1>7. PICK e : e = [kind |-> "Swap", tick |-> k, amount |-> delta, liquidity |-> b]
  OBVIOUS
<1>8. /\ "kind" \in DOMAIN e /\ Has(e, {"tick", "amount", "liquidity"}) /\ e.kind = "Swap" /\ e.tick = k
      /\ e.amount = delta /\ e.liquidity = b /\ SwapOf(c, k, delta) = <<e>>
  BY <1>4, <1>7 DEF Has, SwapOf
<1>9. c.reserve \in Int /\ c.taken \in Int
  BY ActiveIs
<1>10. q = [tick |-> e.tick, liquidity |-> e.liquidity, locked |-> p.locked + e.amount]
  BY <1>6, <1>8, <1>9
<1>11. SaysPool(p, e, q)
  <2>1. p.liquidity \in Int /\ p.locked \in Int
    BY <1>6, <1>9
  <2> QED
    BY <1>8, <1>10, <2>1 DEF SaysPool
<1>12. e.kind \notin NftKinds
  BY <1>8 DEF NftKinds
<1>13. WagmiGood(c, d, <<e>>)
  BY <1>1, <1>2, <1>8, <1>11, <1>12, PoolSaid
<1> QED
  BY <1>3, <1>8, <1>13

ByStart(c, d, k) == Like(c, d, k, c.reserve, c.taken, c.owed, c.direct, c.nfts)

(* Setting the first price tells what it changes. *)
LEMMA StartSaid ==
  ASSUME NEW c \in WagmiChains, c.tick = NoTick, c.nfts = <<>>, NEW k \in Ticks, NEW d, ByStart(c, d, k)
  PROVE  WagmiGood(c, d, <<[kind |-> "Initialize", tick |-> k]>>)
<1>1. /\ d \in WagmiChains /\ NothingStaked(c, d) /\ d.tick = k /\ d.reserve = c.reserve /\ d.taken = c.taken
      /\ d.direct = c.direct /\ d.nfts = c.nfts
  BY DEF ByStart, Like
<1>2. PICK p, q : p = PoolOf(c) /\ q = PoolOf(d)
  OBVIOUS
<1>3. \A t : Active(d, t) = c.direct /\ Active(c, t) = c.direct /\ c.direct \in Int
  <2>1. \A t : HeldAt(c.nfts, t) = 0
    BY HeldNowhere
  <2>2. \A t : Active(c, t) = c.direct + HeldAt(c.nfts, t) /\ Active(d, t) = d.direct + HeldAt(d.nfts, t)
    BY WagmiOnChain
  <2> QED
    BY <1>1, <2>1, <2>2, ActiveIs
<1>6. /\ p = [tick |-> c.tick, liquidity |-> c.direct, locked |-> c.reserve + c.taken]
      /\ q = [tick |-> k, liquidity |-> c.direct, locked |-> c.reserve + c.taken]
  BY <1>1, <1>2, <1>3 DEF PoolOf
<1>7. PICK e : e = [kind |-> "Initialize", tick |-> k]
  OBVIOUS
<1>8. "kind" \in DOMAIN e /\ Has(e, {"tick"}) /\ e.kind = "Initialize" /\ e.tick = k
  BY <1>7 DEF Has
<1>9. c.reserve \in Int /\ c.taken \in Int
  BY ActiveIs
<1>10. q = [tick |-> e.tick, liquidity |-> p.liquidity, locked |-> p.locked]
  BY <1>6, <1>8
<1>11. SaysPool(p, e, q)
  <2>1. p.liquidity \in Int /\ p.locked \in Int
    BY <1>3, <1>6, <1>9
  <2> QED
    BY <1>8, <1>10, <2>1 DEF SaysPool
<1>12. e.kind \notin NftKinds
  BY <1>8 DEF NftKinds
<1>13. WagmiGood(c, d, <<e>>)
  BY <1>1, <1>2, <1>8, <1>11, <1>12, PoolSaid
<1> QED
  BY <1>7, <1>13

ByFee(c, d) == Like(c, d, c.tick, c.reserve - 1, c.taken + 1, c.owed, c.direct, c.nfts)

(* The protocol's fee is taken without an event, and changes nothing that  *)
(* the index is taken to know.                                             *)
LEMMA FeeSaid ==
  ASSUME NEW c \in WagmiChains, c.tick \in Ticks, NEW d, ByFee(c, d)
  PROVE  WagmiGood(c, d, <<>>)
<1>1. /\ d \in WagmiChains /\ NothingStaked(c, d) /\ d.tick = c.tick /\ d.reserve = c.reserve - 1 /\ d.taken = c.taken + 1
      /\ d.direct = c.direct /\ d.nfts = c.nfts
  BY DEF ByFee, Like
<1>2. PoolOf(d) = PoolOf(c)
  <2>1. Active(d, c.tick) = Active(c, c.tick)
    BY <1>1, ActiveIs
  <2>2. c.reserve \in Int /\ c.taken \in Int
    BY ActiveIs
  <2>3. d.reserve + d.taken = c.reserve + c.taken
    BY <1>1, <2>2
  <2> QED
    BY <1>1, <2>1, <2>3 DEF PoolOf
<1>3. PoolTold(c, d, <<>>)
  BY <1>2, TellsNothing DEF PoolTold
<1>4. \A id : NftOf(d, id) = NftOf(c, id)
  BY <1>1 DEF NftOf
<1>5. NftsTold(c, d, <<>>)
  BY <1>4, TellsNothing DEF NftsTold
<1>6. NftsStay(c, d)
  BY <1>1 DEF NftsStay
<1>7. <<>> \in Seq(Range(<<>>)) /\ Range(<<>>) = {}
  BY EmptySeq DEF Range
<1> QED
  BY <1>1, <1>3, <1>5, <1>6, <1>7 DEF WagmiGood

------------------------------------------------------------------------------
(* NFTs. *)
NftPut(n, id, p, m) ==
  /\ id \in DOMAIN n /\ p \in Nft /\ m \in Seq(Nft) /\ DOMAIN m = DOMAIN n /\ m[id] = p
  /\ \A j \in DOMAIN n : j # id => m[j] = n[j]

(* One of a sequence is put. *)
LEMMA NftPutNew ==
  ASSUME NEW n \in Seq(Nft), NEW id \in DOMAIN n, NEW p \in Nft, NEW m, m = [n EXCEPT ![id] = p]
  PROVE  NftPut(n, id, p, m)
<1>1. DOMAIN n = 1..Len(n) /\ id \in 1..Len(n)
  BY LenProperties
<1>2. m \in Seq(Nft)
  BY <1>1, ExceptSeq
<1> QED
  BY <1>2 DEF NftPut

(* What is active where one position changes. *)
LEMMA HeldPut ==
  ASSUME NEW n \in Seq(Nft), NEW id, NEW p, NEW m, NftPut(n, id, p, m), p.range = n[id].range, NEW t
  PROVE  /\ HeldAt(n, t) \in Int /\ HeldAt(m, t) \in Int /\ n[id] \in Nft /\ id \in Nat
         /\ p.liquidity = n[id].liquidity + 1 => HeldAt(m, t) = HeldAt(n, t) + In(p.range, t)
         /\ p.liquidity = n[id].liquidity - 1 => HeldAt(m, t) = HeldAt(n, t) - In(p.range, t)
         /\ p.liquidity = n[id].liquidity => HeldAt(m, t) = HeldAt(n, t)
<1>1. /\ m \in Seq(Nft) /\ NftSet(n, id, m, p.liquidity) /\ id \in DOMAIN n /\ p \in Nft
  BY DEF NftPut, NftSet
<1>2. PICK g, h : g = HeldAt(n, t) /\ h = HeldAt(m, t)
  OBVIOUS
<1>3. g \in Nat /\ h \in Nat
  BY <1>1, <1>2, HeldIsNumber
<1>4. PICK x : x = IF InRange(n[id].range, t) THEN p.liquidity - n[id].liquidity ELSE 0
  OBVIOUS
<1>5. h = g + x
  BY <1>1, <1>2, <1>4, HeldMore
<1>6. n[id] \in Nft /\ id \in Nat
  BY <1>1, ElementOfSeq, LenProperties
<1>7. PICK k, l : k = p.liquidity /\ l = n[id].liquidity
  OBVIOUS
<1>8. k \in Nat /\ l \in Nat
  BY <1>1, <1>6, <1>7 DEF Nft
<1>9. CASE InRange(n[id].range, t)
  <2>1. x = k - l /\ In(p.range, t) = 1
    BY <1>4, <1>7, <1>9, InIsOne
  <2> QED
    BY <1>2, <1>3, <1>5, <1>6, <1>7, <1>8, <2>1
<1>10. CASE ~InRange(n[id].range, t)
  <2>1. x = 0 /\ In(p.range, t) = 0
    BY <1>4, <1>10, InIsOne
  <2> QED
    BY <1>2, <1>3, <1>5, <1>6, <1>7, <1>8, <2>1
<1> QED
  BY <1>9, <1>10

(* A position is one of the store's after another is put. *)
ByGrow(c, d, id, p) ==
  /\ id \in Alive(c) /\ NftPut(c.nfts, id, p, d.nfts)
  /\ p.owner = c.nfts[id].owner /\ p.range = c.nfts[id].range /\ p.liquidity = c.nfts[id].liquidity + 1
  /\ Like(c, d, c.tick, c.reserve, c.taken, c.owed, c.direct - In(p.range, c.tick), d.nfts)
ByShrink(c, d, id, p) ==
  /\ id \in Alive(c) /\ NftPut(c.nfts, id, p, d.nfts)
  /\ p.owner = c.nfts[id].owner /\ p.range = c.nfts[id].range /\ p.liquidity = c.nfts[id].liquidity - 1
  /\ Like(c, d, c.tick, c.reserve, c.taken, c.owed, c.direct + In(p.range, c.tick), d.nfts)
ByMove(c, d, id, p) ==
  /\ id \in Alive(c) /\ NftPut(c.nfts, id, p, d.nfts)
  /\ p.range = c.nfts[id].range /\ p.liquidity = c.nfts[id].liquidity
  /\ Like(c, d, c.tick, c.reserve, c.taken, c.owed, c.direct, d.nfts)

(* The pool is as it was, its NFT is put. *)
LEMMA PutSaid ==
  ASSUME NEW c \in WagmiChains, c.tick \in Ticks, NEW d, NEW id, NEW p,
         ByGrow(c, d, id, p) \/ ByShrink(c, d, id, p) \/ ByMove(c, d, id, p)
  PROVE  /\ d \in WagmiChains /\ NothingStaked(c, d) /\ d.tick \in Ticks /\ PoolOf(d) = PoolOf(c)
         /\ id \in Nat /\ id \in DOMAIN d.nfts /\ DOMAIN c.nfts = DOMAIN d.nfts /\ c.nfts[id].liquidity \in Nat
         /\ NftOf(c, id) = [owner |-> c.nfts[id].owner, liquidity |-> c.nfts[id].liquidity]
         /\ NftOf(d, id) = [owner |-> p.owner, liquidity |-> p.liquidity]
         /\ \A j : j # id => NftOf(d, j) = NftOf(c, j)
         /\ \A j \in DOMAIN c.nfts : c.nfts[j].owner = Zero => d.nfts[j] = c.nfts[j]
<1>1. /\ id \in Alive(c) /\ NftPut(c.nfts, id, p, d.nfts) /\ p.range = c.nfts[id].range
      /\ d \in WagmiChains /\ NothingStaked(c, d) /\ d.tick = c.tick /\ d.reserve = c.reserve /\ d.taken = c.taken
  BY DEF ByGrow, ByShrink, ByMove, Like
<1>2. id \in DOMAIN c.nfts /\ id \in DOMAIN d.nfts /\ DOMAIN c.nfts = DOMAIN d.nfts
  BY <1>1 DEF Alive, NftPut
<1>3. c.nfts \in Seq(Nft) /\ d.nfts \in Seq(Nft)
  BY <1>1, ActiveIs
<1>4. PICK t : t = c.tick
  OBVIOUS
<1>5. /\ HeldAt(c.nfts, t) \in Int /\ HeldAt(d.nfts, t) \in Int /\ c.nfts[id] \in Nft /\ id \in Nat
      /\ p.liquidity = c.nfts[id].liquidity + 1 => HeldAt(d.nfts, t) = HeldAt(c.nfts, t) + In(p.range, t)
      /\ p.liquidity = c.nfts[id].liquidity - 1 => HeldAt(d.nfts, t) = HeldAt(c.nfts, t) - In(p.range, t)
      /\ p.liquidity = c.nfts[id].liquidity => HeldAt(d.nfts, t) = HeldAt(c.nfts, t)
  BY <1>1, <1>3, HeldPut
<1>6. /\ Active(c, t) = c.direct + HeldAt(c.nfts, t) /\ c.direct \in Int
      /\ Active(d, t) = d.direct + HeldAt(d.nfts, t) /\ d.direct \in Int /\ In(p.range, t) \in Int
  BY <1>1, ActiveIs, InIsOne
<1>7. Active(d, t) = Active(c, t)
  <2>1. CASE ByGrow(c, d, id, p)
    <3>1. d.direct = c.direct - In(p.range, t) /\ p.liquidity = c.nfts[id].liquidity + 1
      BY <1>4, <2>1 DEF ByGrow, Like
    <3> QED
      BY <1>5, <1>6, <3>1
  <2>2. CASE ByShrink(c, d, id, p)
    <3>1. d.direct = c.direct + In(p.range, t) /\ p.liquidity = c.nfts[id].liquidity - 1
      BY <1>4, <2>2 DEF ByShrink, Like
    <3> QED
      BY <1>5, <1>6, <3>1
  <2>3. CASE ByMove(c, d, id, p)
    <3>1. d.direct = c.direct /\ p.liquidity = c.nfts[id].liquidity
      BY <2>3 DEF ByMove, Like
    <3> QED
      BY <1>5, <1>6, <3>1
  <2> QED
    BY <2>1, <2>2, <2>3
<1>8. PoolOf(d) = PoolOf(c)
  BY <1>1, <1>4, <1>7 DEF PoolOf
<1>9. c.nfts[id].liquidity \in Nat
  BY <1>5 DEF Nft
<1>10. d.nfts[id] = p /\ \A j \in DOMAIN c.nfts : j # id => d.nfts[j] = c.nfts[j]
  BY <1>1 DEF NftPut
<1>11. \A j : j # id => NftOf(d, j) = NftOf(c, j)
  BY <1>2, <1>10 DEF NftOf
<1>12. \A j \in DOMAIN c.nfts : c.nfts[j].owner = Zero => d.nfts[j] = c.nfts[j]
  BY <1>1, <1>10 DEF Alive
<1>13. /\ NftOf(c, id) = [owner |-> c.nfts[id].owner, liquidity |-> c.nfts[id].liquidity]
       /\ NftOf(d, id) = [owner |-> p.owner, liquidity |-> p.liquidity]
  BY <1>2, <1>10 DEF NftOf
<1> QED
  BY <1>1, <1>2, <1>5, <1>8, <1>9, <1>11, <1>12, <1>13

(* More liquidity, less, another owner. *)
LEMMA GrowSaid ==
  ASSUME NEW c \in WagmiChains, c.tick \in Ticks, NEW d, NEW id, NEW p, ByGrow(c, d, id, p)
  PROVE  WagmiGood(c, d, Event("Increase", id, Zero, Zero))
<1>1. PICK e : e = Noted("Increase", id, Zero, Zero)
  OBVIOUS
<1>2. /\ "kind" \in DOMAIN e /\ Has(e, {"id", "from", "to"}) /\ e.kind = "Increase" /\ e.id = id
      /\ Event("Increase", id, Zero, Zero) = <<e>> /\ e.kind \in NftKinds
  BY <1>1, NotedFacts DEF NftKinds
<1>3. /\ d \in WagmiChains /\ NothingStaked(c, d) /\ d.tick \in Ticks /\ PoolOf(d) = PoolOf(c)
      /\ id \in Nat /\ id \in DOMAIN d.nfts /\ DOMAIN c.nfts = DOMAIN d.nfts /\ c.nfts[id].liquidity \in Nat
      /\ NftOf(c, id) = [owner |-> c.nfts[id].owner, liquidity |-> c.nfts[id].liquidity]
      /\ NftOf(d, id) = [owner |-> p.owner, liquidity |-> p.liquidity]
      /\ \A j : j # id => NftOf(d, j) = NftOf(c, j)
      /\ \A j \in DOMAIN c.nfts : c.nfts[j].owner = Zero => d.nfts[j] = c.nfts[j]
  BY PutSaid
<1>4. p.owner = c.nfts[id].owner /\ p.liquidity = c.nfts[id].liquidity + 1
  BY DEF ByGrow
<1>5. SaysNft(id, NftOf(c, id), e, NftOf(d, id))
  BY <1>2, <1>3, <1>4 DEF SaysNft
<1>6. NftSaid(c, d, id, e)
  BY <1>2, <1>3, <1>5 DEF NftSaid
<1> QED
  BY <1>2, <1>3, <1>6, NftOnly

(* Shrinking an NFT tells what it changes. *)
LEMMA ShrinkSaid ==
  ASSUME NEW c \in WagmiChains, c.tick \in Ticks, NEW d, NEW id, NEW p, ByShrink(c, d, id, p)
  PROVE  WagmiGood(c, d, Event("Decrease", id, Zero, Zero))
<1>1. PICK e : e = Noted("Decrease", id, Zero, Zero)
  OBVIOUS
<1>2. /\ "kind" \in DOMAIN e /\ Has(e, {"id", "from", "to"}) /\ e.kind = "Decrease" /\ e.id = id
      /\ Event("Decrease", id, Zero, Zero) = <<e>> /\ e.kind \in NftKinds
  BY <1>1, NotedFacts DEF NftKinds
<1>3. /\ d \in WagmiChains /\ NothingStaked(c, d) /\ d.tick \in Ticks /\ PoolOf(d) = PoolOf(c)
      /\ id \in Nat /\ id \in DOMAIN d.nfts /\ DOMAIN c.nfts = DOMAIN d.nfts /\ c.nfts[id].liquidity \in Nat
      /\ NftOf(c, id) = [owner |-> c.nfts[id].owner, liquidity |-> c.nfts[id].liquidity]
      /\ NftOf(d, id) = [owner |-> p.owner, liquidity |-> p.liquidity]
      /\ \A j : j # id => NftOf(d, j) = NftOf(c, j)
      /\ \A j \in DOMAIN c.nfts : c.nfts[j].owner = Zero => d.nfts[j] = c.nfts[j]
  BY PutSaid
<1>4. p.owner = c.nfts[id].owner /\ p.liquidity = c.nfts[id].liquidity - 1
  BY DEF ByShrink
<1>5. SaysNft(id, NftOf(c, id), e, NftOf(d, id))
  BY <1>2, <1>3, <1>4 DEF SaysNft
<1>6. NftSaid(c, d, id, e)
  BY <1>2, <1>3, <1>5 DEF NftSaid
<1> QED
  BY <1>2, <1>3, <1>6, NftOnly

(* Moving an NFT tells its owner. *)
LEMMA MoveSaid ==
  ASSUME NEW c \in WagmiChains, c.tick \in Ticks, NEW d, NEW id, NEW p, ByMove(c, d, id, p), NEW from
  PROVE  WagmiGood(c, d, Event("NftTransfer", id, from, p.owner))
<1>1. PICK e : e = Noted("NftTransfer", id, from, p.owner)
  OBVIOUS
<1>2. /\ "kind" \in DOMAIN e /\ Has(e, {"id", "from", "to"}) /\ e.kind = "NftTransfer" /\ e.id = id /\ e.to = p.owner
      /\ Event("NftTransfer", id, from, p.owner) = <<e>> /\ e.kind \in NftKinds
  BY <1>1, NotedFacts DEF NftKinds
<1>3. /\ d \in WagmiChains /\ NothingStaked(c, d) /\ d.tick \in Ticks /\ PoolOf(d) = PoolOf(c)
      /\ id \in Nat /\ id \in DOMAIN d.nfts /\ DOMAIN c.nfts = DOMAIN d.nfts /\ c.nfts[id].liquidity \in Nat
      /\ NftOf(c, id) = [owner |-> c.nfts[id].owner, liquidity |-> c.nfts[id].liquidity]
      /\ NftOf(d, id) = [owner |-> p.owner, liquidity |-> p.liquidity]
      /\ \A j : j # id => NftOf(d, j) = NftOf(c, j)
      /\ \A j \in DOMAIN c.nfts : c.nfts[j].owner = Zero => d.nfts[j] = c.nfts[j]
  BY PutSaid
<1>4. p.liquidity = c.nfts[id].liquidity
  BY DEF ByMove
<1>5. SaysNft(id, NftOf(c, id), e, NftOf(d, id))
  BY <1>2, <1>3, <1>4 DEF SaysNft
<1>6. NftSaid(c, d, id, e)
  BY <1>2, <1>3, <1>5 DEF NftSaid
<1> QED
  BY <1>2, <1>3, <1>6, NftOnly

------------------------------------------------------------------------------
(* An NFT of no liquidity is added. *)
ByAdd(c, d, u, r) ==
  Like(c, d, c.tick, c.reserve, c.taken, c.owed, c.direct, Append(c.nfts, [owner |-> u, range |-> r, liquidity |-> 0]))

(* Adding an NFT tells its owner. *)
LEMMA AddSaid ==
  ASSUME NEW c \in WagmiChains, c.tick \in Ticks, NEW d, NEW u \in User, NEW r \in Ranges, ByAdd(c, d, u, r),
         NEW id, id = Len(c.nfts) + 1
  PROVE  WagmiGood(c, d, Event("NftTransfer", id, Zero, u))
<1>1. PICK p : p = [owner |-> u, range |-> r, liquidity |-> 0]
  OBVIOUS
<1>2. p \in Nft /\ p.owner = u /\ p.range = r /\ p.liquidity = 0
  BY <1>1 DEF Nft
<1>3. /\ d \in WagmiChains /\ NothingStaked(c, d) /\ d.tick = c.tick /\ d.reserve = c.reserve /\ d.taken = c.taken
      /\ d.direct = c.direct /\ d.nfts = Append(c.nfts, p)
  BY <1>1 DEF ByAdd, Like
<1>4. PICK n, m : n = c.nfts /\ m = d.nfts
  OBVIOUS
<1>5. n \in Seq(Nft) /\ m = Append(n, p)
  BY <1>3, <1>4, ActiveIs
<1>6. PICK t : t = c.tick
  OBVIOUS
<1>7a. Appended(n, p, m)
  BY <1>2, <1>5, NftAppended
<1>7. /\ Len(n) \in Nat /\ DOMAIN m = DOMAIN n \cup {Len(n) + 1} /\ Len(n) + 1 \notin DOMAIN n
      /\ m[Len(n) + 1] = p /\ \A j \in DOMAIN n : m[j] = n[j]
  BY <1>7a DEF Appended
<1>8. id = Len(n) + 1 /\ id \in Nat
  <2>1. Len(n) \in Nat
    BY <1>7
  <2>2. id = Len(n) + 1
    BY <1>4
  <2> QED
    BY <2>1, <2>2
<1>9. HeldAt(m, t) = HeldAt(n, t)
  BY <1>2, <1>5, <1>7a, HeldAppend
<1>10. PoolOf(d) = PoolOf(c)
  <2>1. Active(d, t) = Active(c, t)
    BY <1>3, <1>4, <1>9, WagmiOnChain
  <2> QED
    BY <1>3, <1>6, <2>1 DEF PoolOf
<1>11. PICK e : e = Noted("NftTransfer", id, Zero, u)
  OBVIOUS
<1>12. /\ "kind" \in DOMAIN e /\ Has(e, {"id", "from", "to"}) /\ e.kind = "NftTransfer" /\ e.id = id /\ e.to = u
       /\ Event("NftTransfer", id, Zero, u) = <<e>> /\ e.kind \in NftKinds
  BY <1>11, NotedFacts DEF NftKinds
<1>13. NftOf(c, id) = [owner |-> Zero, liquidity |-> 0] /\ NftOf(d, id) = [owner |-> u, liquidity |-> 0]
  BY <1>2, <1>4, <1>7, <1>8 DEF NftOf
<1>14. \A j : j # id => NftOf(d, j) = NftOf(c, j)
  BY <1>4, <1>7, <1>8 DEF NftOf
<1>15. SaysNft(id, NftOf(c, id), e, NftOf(d, id))
  BY <1>12, <1>13 DEF SaysNft
<1>16. NftSaid(c, d, id, e)
  BY <1>4, <1>7, <1>8, <1>12, <1>14, <1>15 DEF NftSaid
<1>17. d.tick \in Ticks
  BY <1>3
<1> QED
  BY <1>3, <1>10, <1>12, <1>16, <1>17, NftOnly

------------------------------------------------------------------------------
(* The transactions. *)

Opened(c, d, u, r) ==
  Like(c, d, c.tick, c.reserve + 1, c.taken, c.owed, c.direct, Append(c.nfts, [owner |-> u, range |-> r, liquidity |-> 1]))

(* A position is opened. *)
LEMMA OpenedGood ==
  ASSUME NEW c \in WagmiChains, c.tick \in Ticks, NEW d, NEW u \in User, NEW r \in Ranges, Opened(c, d, u, r),
         NEW id, id = Len(c.nfts) + 1
  PROVE  WagmiGood(c, d, OfPool("Mint", r, 1) \o Event("NftTransfer", id, Zero, u) \o Event("Increase", id, Zero, Zero))
<1>1. /\ c.reserve \in Int /\ c.taken \in Int /\ c.owed \in Int /\ c.direct \in Int /\ c.tick \in Int /\ c.nfts \in Seq(Nft)
      /\ In(r, c.tick) \in Int
  BY ActiveIs, InIsOne
<1>2. PICK z, n : z = c.reserve + 1 /\ n = c.direct + In(r, c.tick)
  OBVIOUS
<1>3. z \in Int /\ n \in Int
  BY <1>1, <1>2
<1>4. PICK c1 : Like(c, c1, c.tick, z, c.taken, c.owed, n, c.nfts)
  BY <1>1, <1>3, LikeNew
<1>5. ByMint(c, c1, r)
  BY <1>2, <1>4 DEF ByMint
<1>6. WagmiGood(c, c1, OfPool("Mint", r, 1))
  BY <1>5, MintSaid
<1>7. /\ c1 \in WagmiChains /\ NothingStaked(c, c1) /\ c1.tick = c.tick /\ c1.reserve = z /\ c1.taken = c.taken
      /\ c1.owed = c.owed /\ c1.direct = n /\ c1.nfts = c.nfts
  BY <1>4 DEF Like
<1>8. PICK p, q : p = [owner |-> u, range |-> r, liquidity |-> 0] /\ q = [owner |-> u, range |-> r, liquidity |-> 1]
  OBVIOUS
<1>9. p \in Nft /\ q \in Nft
  BY <1>8 DEF Nft
<1>10. PICK m : m = Append(c.nfts, p)
  OBVIOUS
<1>11. m \in Seq(Nft)
  BY <1>1, <1>9, <1>10, AppendProperties
<1>12. PICK c2 : Like(c1, c2, c1.tick, c1.reserve, c1.taken, c1.owed, c1.direct, m)
  BY <1>1, <1>3, <1>7, <1>11, LikeNew
<1>13. ByAdd(c1, c2, u, r)
  BY <1>7, <1>8, <1>10, <1>12 DEF ByAdd
<1>14. WagmiGood(c1, c2, Event("NftTransfer", id, Zero, u))
  BY <1>7, <1>13, AddSaid
<1>15. /\ c2 \in WagmiChains /\ NothingStaked(c1, c2) /\ c2.tick = c.tick /\ c2.reserve = z /\ c2.taken = c.taken
       /\ c2.owed = c.owed /\ c2.direct = n /\ c2.nfts = m
  BY <1>7, <1>12 DEF Like
<1>16. /\ d \in WagmiChains /\ NothingStaked(c, d) /\ d.tick = c.tick /\ d.reserve = z /\ d.taken = c.taken
       /\ d.owed = c.owed /\ d.direct = c.direct /\ d.nfts = Append(c.nfts, q)
  BY <1>2, <1>8 DEF Opened, Like
<1>17. /\ Len(c.nfts) \in Nat /\ DOMAIN m = DOMAIN c.nfts \cup {id} /\ id \notin DOMAIN c.nfts
       /\ m[id] = p /\ \A j \in DOMAIN c.nfts : m[j] = c.nfts[j]
  BY <1>1, <1>9, <1>10, NftAppended DEF Appended
<1>18. /\ DOMAIN d.nfts = DOMAIN c.nfts \cup {id} /\ d.nfts[id] = q /\ \A j \in DOMAIN c.nfts : d.nfts[j] = c.nfts[j]
       /\ d.nfts \in Seq(Nft)
  BY <1>1, <1>9, <1>16, NftAppended DEF Appended
<1>19. NftPut(c2.nfts, id, q, d.nfts)
  BY <1>9, <1>15, <1>17, <1>18 DEF NftPut
<1>20. NothingStaked(c2, d)
  BY <1>7, <1>15, <1>16 DEF NothingStaked
<1>21. ByGrow(c2, d, id, q)
  <2>1. id \in Alive(c2)
    BY <1>8, <1>15, <1>17, AddressAssumption DEF Alive
  <2>2. c2.nfts[id] = p
    BY <1>15, <1>17
  <2>3. q.owner = p.owner /\ q.range = r /\ q.range = p.range /\ q.liquidity = p.liquidity + 1
    BY <1>8
  <2>4. d.direct = c2.direct - In(q.range, c2.tick)
    BY <1>1, <1>2, <1>15, <1>16, <2>3
  <2>5. Like(c2, d, c2.tick, c2.reserve, c2.taken, c2.owed, c2.direct - In(q.range, c2.tick), d.nfts)
    BY <1>15, <1>16, <1>20, <2>4 DEF Like
  <2> QED
    BY <1>19, <2>1, <2>2, <2>3, <2>5 DEF ByGrow
<1>22. WagmiGood(c2, d, Event("Increase", id, Zero, Zero))
  BY <1>15, <1>21, GrowSaid
<1>23. PICK s1, s2, s3 : s1 = OfPool("Mint", r, 1) /\ s2 = Event("NftTransfer", id, Zero, u) /\ s3 = Event("Increase", id, Zero, Zero)
  OBVIOUS
<1>24. WagmiGood(c, c2, s1 \o s2)
  BY <1>6, <1>14, <1>23, GoodThenGood
<1>25. WagmiGood(c, d, (s1 \o s2) \o s3)
  BY <1>22, <1>23, <1>24, GoodThenGood
<1> QED
  BY <1>23, <1>25

Enlarged(c, d, id, p) ==
  /\ id \in Alive(c) /\ NftPut(c.nfts, id, p, d.nfts)
  /\ p.owner = c.nfts[id].owner /\ p.range = c.nfts[id].range /\ p.liquidity = c.nfts[id].liquidity + 1
  /\ Like(c, d, c.tick, c.reserve + 1, c.taken, c.owed, c.direct, d.nfts)

(* A position is enlarged. *)
LEMMA EnlargedGood ==
  ASSUME NEW c \in WagmiChains, c.tick \in Ticks, NEW d, NEW id, NEW p, Enlarged(c, d, id, p)
  PROVE  WagmiGood(c, d, OfPool("Mint", p.range, 1) \o Event("Increase", id, Zero, Zero))
<1>1. /\ c.reserve \in Int /\ c.taken \in Int /\ c.owed \in Int /\ c.direct \in Int /\ c.tick \in Int /\ c.nfts \in Seq(Nft)
      /\ In(p.range, c.tick) \in Int
  BY ActiveIs, InIsOne
<1>2. PICK z, n : z = c.reserve + 1 /\ n = c.direct + In(p.range, c.tick)
  OBVIOUS
<1>3. z \in Int /\ n \in Int
  BY <1>1, <1>2
<1>4. PICK c1 : Like(c, c1, c.tick, z, c.taken, c.owed, n, c.nfts)
  BY <1>1, <1>3, LikeNew
<1>5. ByMint(c, c1, p.range)
  BY <1>2, <1>4 DEF ByMint
<1>6. WagmiGood(c, c1, OfPool("Mint", p.range, 1))
  BY <1>5, MintSaid
<1>7. /\ c1 \in WagmiChains /\ NothingStaked(c, c1) /\ c1.tick = c.tick /\ c1.reserve = z /\ c1.taken = c.taken
      /\ c1.owed = c.owed /\ c1.direct = n /\ c1.nfts = c.nfts
  BY <1>4 DEF Like
<1>8. /\ d \in WagmiChains /\ NothingStaked(c, d) /\ d.tick = c.tick /\ d.reserve = z /\ d.taken = c.taken
      /\ d.owed = c.owed /\ d.direct = c.direct
      /\ id \in Alive(c) /\ NftPut(c.nfts, id, p, d.nfts)
      /\ p.owner = c.nfts[id].owner /\ p.range = c.nfts[id].range /\ p.liquidity = c.nfts[id].liquidity + 1
  BY <1>2 DEF Enlarged, Like
<1>9. ByGrow(c1, d, id, p)
  <2>1. id \in Alive(c1)
    BY <1>7, <1>8 DEF Alive
  <2>2. NothingStaked(c1, d)
    BY <1>7, <1>8 DEF NothingStaked
  <2>3. d.direct = c1.direct - In(p.range, c1.tick)
    BY <1>1, <1>2, <1>7, <1>8
  <2>4. Like(c1, d, c1.tick, c1.reserve, c1.taken, c1.owed, c1.direct - In(p.range, c1.tick), d.nfts)
    BY <1>7, <1>8, <2>2, <2>3 DEF Like
  <2> QED
    BY <1>7, <1>8, <2>1, <2>4 DEF ByGrow
<1>10. WagmiGood(c1, d, Event("Increase", id, Zero, Zero))
  BY <1>7, <1>9, GrowSaid
<1> QED
  BY <1>6, <1>10, GoodThenGood

Lessened(c, d, id, p) ==
  /\ id \in Alive(c) /\ NftPut(c.nfts, id, p, d.nfts)
  /\ p.owner = c.nfts[id].owner /\ p.range = c.nfts[id].range /\ p.liquidity = c.nfts[id].liquidity - 1
  /\ Like(c, d, c.tick, c.reserve, c.taken, c.owed + 1, c.direct, d.nfts)

(* A position is lessened. *)
LEMMA LessenedGood ==
  ASSUME NEW c \in WagmiChains, c.tick \in Ticks, NEW d, NEW id, NEW p, Lessened(c, d, id, p)
  PROVE  WagmiGood(c, d, OfPool("Burn", p.range, 1) \o Event("Decrease", id, Zero, Zero))
<1>1. /\ c.reserve \in Int /\ c.taken \in Int /\ c.owed \in Int /\ c.direct \in Int /\ c.tick \in Int /\ c.nfts \in Seq(Nft)
      /\ In(p.range, c.tick) \in Int
  BY ActiveIs, InIsOne
<1>2. PICK z, n : z = c.owed + 1 /\ n = c.direct - In(p.range, c.tick)
  OBVIOUS
<1>3. z \in Int /\ n \in Int
  BY <1>1, <1>2
<1>4. PICK c1 : Like(c, c1, c.tick, c.reserve, c.taken, z, n, c.nfts)
  BY <1>1, <1>3, LikeNew
<1>5. ByBurn(c, c1, p.range)
  BY <1>2, <1>4 DEF ByBurn
<1>6. WagmiGood(c, c1, OfPool("Burn", p.range, 1))
  BY <1>5, BurnSaid
<1>7. /\ c1 \in WagmiChains /\ NothingStaked(c, c1) /\ c1.tick = c.tick /\ c1.reserve = c.reserve /\ c1.taken = c.taken
      /\ c1.owed = z /\ c1.direct = n /\ c1.nfts = c.nfts
  BY <1>4 DEF Like
<1>8. /\ d \in WagmiChains /\ NothingStaked(c, d) /\ d.tick = c.tick /\ d.reserve = c.reserve /\ d.taken = c.taken
      /\ d.owed = z /\ d.direct = c.direct
      /\ id \in Alive(c) /\ NftPut(c.nfts, id, p, d.nfts)
      /\ p.owner = c.nfts[id].owner /\ p.range = c.nfts[id].range /\ p.liquidity = c.nfts[id].liquidity - 1
  BY <1>2 DEF Lessened, Like
<1>9. ByShrink(c1, d, id, p)
  <2>1. id \in Alive(c1)
    BY <1>7, <1>8 DEF Alive
  <2>2. NothingStaked(c1, d)
    BY <1>7, <1>8 DEF NothingStaked
  <2>3. d.direct = c1.direct + In(p.range, c1.tick)
    BY <1>1, <1>2, <1>7, <1>8
  <2>4. Like(c1, d, c1.tick, c1.reserve, c1.taken, c1.owed, c1.direct + In(p.range, c1.tick), d.nfts)
    BY <1>7, <1>8, <2>2, <2>3 DEF Like
  <2> QED
    BY <1>7, <1>8, <2>1, <2>4 DEF ByShrink
<1>10. WagmiGood(c1, d, Event("Decrease", id, Zero, Zero))
  BY <1>7, <1>9, ShrinkSaid
<1> QED
  BY <1>6, <1>10, GoodThenGood

------------------------------------------------------------------------------
(* An NFT is minted. *)
LEMMA NftMintedGood ==
  ASSUME NEW c \in WagmiChains, c.tick \in Ticks, NEW u \in User, NEW r \in Ranges, NEW t, t = NftMinted(c, u, r)
  PROVE  WagmiGood(c, t.chain, t.events) /\ Opened(c, t.chain, u, r)
<1>1. PICK id : id = Len(c.nfts) + 1
  OBVIOUS
<1>2. PICK p : p = [owner |-> u, range |-> r, liquidity |-> 1]
  OBVIOUS
<1>3. p \in Nft
  BY <1>2 DEF Nft
<1>4. PICK m, z : m = Append(c.nfts, p) /\ z = c.reserve + 1
  OBVIOUS
<1>5. m \in Seq(Nft) /\ z \in Int
  BY <1>3, <1>4, ActiveIs, AppendProperties
<1>6. /\ t.chain = [c EXCEPT !.nfts = m, !.reserve = z]
      /\ t.events = OfPool("Mint", r, 1) \o Event("NftTransfer", id, Zero, u) \o Event("Increase", id, Zero, Zero)
  BY <1>1, <1>2, <1>4 DEF NftMinted, Becomes
<1>7. Like(c, t.chain, c.tick, z, c.taken, c.owed, c.direct, m)
  BY <1>5, <1>6 DEF Like, NothingStaked, WagmiChains, Nft
<1>8. Opened(c, t.chain, u, r)
  BY <1>2, <1>4, <1>7 DEF Opened
<1> QED
  BY <1>1, <1>6, <1>8, OpenedGood

(* One has more. *)
LEMMA IncreasedGood ==
  ASSUME NEW c \in WagmiChains, c.tick \in Ticks, NEW id \in Alive(c), NEW t, t = Increased(c, id)
  PROVE  WagmiGood(c, t.chain, t.events)
<1>1. id \in DOMAIN c.nfts /\ c.nfts \in Seq(Nft) /\ c.nfts[id] \in Nft
  BY ActiveIs DEF Alive
<1>2. PICK o : o = c.nfts[id]
  OBVIOUS
<1>3. PICK l, z : l = o.liquidity + 1 /\ z = c.reserve + 1
  OBVIOUS
<1>4. PICK p : p = [o EXCEPT !.liquidity = l]
  OBVIOUS
<1>5a. l \in Nat /\ o \in Nft
  <2>1. o \in Nft /\ o.liquidity \in Nat
    BY <1>1, <1>2 DEF Nft
  <2> QED
    BY <1>3, <2>1
<1>5b. z \in Int
  BY <1>3, ActiveIs
<1>5. /\ p \in Nft /\ p.owner = o.owner /\ p.range = o.range /\ p.liquidity = o.liquidity + 1
      /\ z \in Int
  BY <1>3, <1>4, <1>5a, <1>5b DEF Nft
<1>6. PICK m : m = [c.nfts EXCEPT ![id] = p]
  OBVIOUS
<1>7. NftPut(c.nfts, id, p, m) /\ m \in Seq(Nft)
  BY <1>1, <1>5, <1>6, NftPutNew DEF NftPut
<1>8. /\ t.chain = [c EXCEPT !.nfts = m, !.reserve = z]
      /\ t.events = OfPool("Mint", p.range, 1) \o Event("Increase", id, Zero, Zero)
  BY <1>2, <1>3, <1>4, <1>5, <1>6 DEF Increased, Becomes
<1>9. Like(c, t.chain, c.tick, z, c.taken, c.owed, c.direct, m) /\ t.chain.nfts = m
  BY <1>5, <1>7, <1>8 DEF Like, NothingStaked, WagmiChains, Nft
<1>10. Enlarged(c, t.chain, id, p)
  BY <1>2, <1>3, <1>5, <1>7, <1>9 DEF Enlarged
<1> QED
  BY <1>8, <1>10, EnlargedGood

(* One has less. *)
LEMMA DecreasedGood ==
  ASSUME NEW c \in WagmiChains, c.tick \in Ticks, NEW id \in Alive(c), c.nfts[id].liquidity > 0, NEW t, t = Decreased(c, id)
  PROVE  /\ WagmiGood(c, t.chain, t.events) /\ id \in Alive(t.chain)
         /\ t.chain.nfts[id].liquidity = c.nfts[id].liquidity - 1 /\ t.chain.tick = c.tick
<1>1. id \in DOMAIN c.nfts /\ c.nfts \in Seq(Nft) /\ c.nfts[id] \in Nft
  BY ActiveIs DEF Alive
<1>2. PICK o : o = c.nfts[id]
  OBVIOUS
<1>3. PICK l, z : l = o.liquidity - 1 /\ z = c.owed + 1
  OBVIOUS
<1>4. PICK p : p = [o EXCEPT !.liquidity = l]
  OBVIOUS
<1>5a. l \in Nat /\ o \in Nft
  <2>1. o \in Nft /\ o.liquidity \in Nat /\ o.liquidity > 0
    BY <1>1, <1>2 DEF Nft
  <2> QED
    BY <1>3, <2>1
<1>5b. z \in Int
  BY <1>3, ActiveIs
<1>5. /\ p \in Nft /\ p.owner = o.owner /\ p.range = o.range /\ p.liquidity = o.liquidity - 1
      /\ z \in Int
  BY <1>3, <1>4, <1>5a, <1>5b DEF Nft
<1>6. PICK m : m = [c.nfts EXCEPT ![id] = p]
  OBVIOUS
<1>7. NftPut(c.nfts, id, p, m) /\ m \in Seq(Nft)
  BY <1>1, <1>5, <1>6, NftPutNew DEF NftPut
<1>8. /\ t.chain = [c EXCEPT !.nfts = m, !.owed = z]
      /\ t.events = OfPool("Burn", p.range, 1) \o Event("Decrease", id, Zero, Zero)
  BY <1>2, <1>3, <1>4, <1>5, <1>6 DEF Decreased, Becomes
<1>9. Like(c, t.chain, c.tick, c.reserve, c.taken, z, c.direct, m) /\ t.chain.nfts = m
  BY <1>5, <1>7, <1>8 DEF Like, NothingStaked, WagmiChains, Nft
<1>10. Lessened(c, t.chain, id, p)
  BY <1>2, <1>3, <1>5, <1>7, <1>9 DEF Lessened
<1>11. WagmiGood(c, t.chain, t.events)
  BY <1>8, <1>10, LessenedGood
<1>12. id \in Alive(t.chain) /\ t.chain.nfts[id] = p /\ t.chain.tick = c.tick
  BY <1>2, <1>5, <1>7, <1>9 DEF Alive, NftPut, Like
<1> QED
  BY <1>2, <1>5, <1>11, <1>12

(* One has another owner. *)
LEMMA NftMovedGood ==
  ASSUME NEW c \in WagmiChains, c.tick \in Ticks, NEW id \in Alive(c), NEW to \in User \cup {Zero}, NEW t, t = NftMoved(c, id, to)
  PROVE  WagmiGood(c, t.chain, t.events)
<1>1. id \in DOMAIN c.nfts /\ c.nfts \in Seq(Nft) /\ c.nfts[id] \in Nft
  BY ActiveIs DEF Alive
<1>2. PICK o : o = c.nfts[id]
  OBVIOUS
<1>4. PICK p : p = [o EXCEPT !.owner = to]
  OBVIOUS
<1>5. p \in Nft /\ p.owner = to /\ p.range = o.range /\ p.liquidity = o.liquidity
  BY <1>1, <1>2, <1>4 DEF Nft
<1>6. PICK m : m = [c.nfts EXCEPT ![id] = p]
  OBVIOUS
<1>7. NftPut(c.nfts, id, p, m) /\ m \in Seq(Nft)
  BY <1>1, <1>5, <1>6, NftPutNew DEF NftPut
<1>8. t.chain = [c EXCEPT !.nfts = m] /\ t.events = Event("NftTransfer", id, o.owner, to)
  BY <1>2, <1>4, <1>6 DEF NftMoved, Becomes
<1>9. Like(c, t.chain, c.tick, c.reserve, c.taken, c.owed, c.direct, m) /\ t.chain.nfts = m
  BY <1>7, <1>8 DEF Like, NothingStaked, WagmiChains, Nft
<1>10. ByMove(c, t.chain, id, p)
  BY <1>2, <1>5, <1>7, <1>9 DEF ByMove
<1>11. t.events = Event("NftTransfer", id, o.owner, p.owner)
  BY <1>5, <1>8
<1> QED
  BY <1>10, <1>11, MoveSaid

(* One is minted, emptied and burned in a transaction. *)
LEMMA NftFlashedGood ==
  ASSUME NEW c \in WagmiChains, c.tick \in Ticks, NEW u \in User, NEW r \in Ranges, NEW t, t = NftFlashed(c, u, r)
  PROVE  WagmiGood(c, t.chain, t.events)
<1>1. PICK id : id = Len(c.nfts) + 1
  OBVIOUS
<1>2. PICK x : x = NftMinted(c, u, r)
  OBVIOUS
<1>3. PICK y : y = Decreased(x.chain, id)
  OBVIOUS
<1>4. PICK z : z = NftMoved(y.chain, id, Zero)
  OBVIOUS
<1>5. t.chain = z.chain /\ t.events = (x.events \o y.events) \o z.events
  BY <1>1, <1>2, <1>3, <1>4 DEF NftFlashed, Becomes
<1>6. WagmiGood(c, x.chain, x.events) /\ Opened(c, x.chain, u, r)
  BY <1>2, NftMintedGood
<1>7. PICK p : p = [owner |-> u, range |-> r, liquidity |-> 1]
  OBVIOUS
<1>8. x.chain \in WagmiChains /\ x.chain.tick \in Ticks /\ x.chain.nfts = Append(c.nfts, p) /\ p \in Nft /\ c.nfts \in Seq(Nft)
  BY <1>6, <1>7, ActiveIs DEF Opened, Like, Nft
<1>9. id \in DOMAIN x.chain.nfts /\ x.chain.nfts[id] = p
  <2>1. Appended(c.nfts, p, x.chain.nfts)
    BY <1>8, NftAppended
  <2> QED
    BY <1>1, <2>1 DEF Appended
<1>10. id \in Alive(x.chain) /\ x.chain.nfts[id].liquidity > 0
  <2>1. p.owner = u /\ p.liquidity = 1
    BY <1>7
  <2>2. p.owner # Zero
    BY <2>1, AddressAssumption
  <2> QED
    BY <1>9, <2>1, <2>2 DEF Alive
<1>11. WagmiGood(x.chain, y.chain, y.events) /\ id \in Alive(y.chain) /\ y.chain.tick = x.chain.tick
  BY <1>3, <1>8, <1>10, DecreasedGood
<1>12. y.chain \in WagmiChains /\ y.chain.tick \in Ticks
  BY <1>11 DEF WagmiGood
<1>13. WagmiGood(y.chain, z.chain, z.events)
  BY <1>4, <1>11, <1>12, NftMovedGood
<1>14. WagmiGood(c, y.chain, x.events \o y.events)
  BY <1>6, <1>11, GoodThenGood
<1>15. WagmiGood(c, z.chain, (x.events \o y.events) \o z.events)
  BY <1>13, <1>14, GoodThenGood
<1> QED
  BY <1>5, <1>15

(* The transactions of the pool alone. *)
LEMMA PoolGood ==
  ASSUME NEW c \in WagmiChains, c.tick \in Ticks
  PROVE  /\ \A t : t = Collected(c) \/ t = MintedDirectly(c) \/ t = FeeTaken(c) => WagmiGood(c, t.chain, t.events)
         /\ \A k \in Ticks, delta \in Int : \A t : t = Swapped(c, k, delta) => WagmiGood(c, t.chain, t.events)
         /\ \A k \in Ticks : \A t : t = SwappedTwice(c, k) => WagmiGood(c, t.chain, t.events)
<1>0. /\ c.reserve \in Int /\ c.taken \in Int /\ c.owed \in Int /\ c.direct \in Int /\ c.tick \in Int /\ c.nfts \in Seq(Nft)
  BY ActiveIs
<1>1. ASSUME NEW t, t = Collected(c) PROVE WagmiGood(c, t.chain, t.events)
  <2>1. PICK z, o : z = c.reserve - 1 /\ o = c.owed - 1
    OBVIOUS
  <2>2. z \in Int /\ o \in Int
    BY <1>0, <2>1
  <2>3. t.chain = [c EXCEPT !.reserve = z, !.owed = o] /\ t.events = OfPool("Collect", <<0, 2>>, 1)
    BY <1>1, <2>1 DEF Collected, Becomes
  <2>4. Like(c, t.chain, c.tick, z, c.taken, o, c.direct, c.nfts)
    BY <2>2, <2>3 DEF Like, NothingStaked, WagmiChains
  <2>5. ByCollect(c, t.chain)
    BY <2>1, <2>4 DEF ByCollect
  <2> QED
    BY <2>3, <2>5, CollectSaid
<1>2. ASSUME NEW t, t = MintedDirectly(c) PROVE WagmiGood(c, t.chain, t.events)
  <2>1. PICK z, n : z = c.reserve + 1 /\ n = c.direct + 1
    OBVIOUS
  <2>2. z \in Int /\ n \in Int
    BY <1>0, <2>1
  <2>3. t.chain = [c EXCEPT !.direct = n, !.reserve = z] /\ t.events = OfPool("Mint", <<0, 2>>, 1)
    BY <1>2, <2>1 DEF MintedDirectly, Becomes
  <2>4. Like(c, t.chain, c.tick, z, c.taken, c.owed, n, c.nfts)
    BY <2>2, <2>3 DEF Like, NothingStaked, WagmiChains
  <2>5. In(<<0, 2>>, c.tick) = 1
    BY InIsOne
  <2>6. ByMint(c, t.chain, <<0, 2>>)
    BY <2>1, <2>4, <2>5 DEF ByMint
  <2> QED
    BY <2>3, <2>6, MintSaid
<1>3. ASSUME NEW t, t = FeeTaken(c) PROVE WagmiGood(c, t.chain, t.events)
  <2>1. PICK z, x : z = c.reserve - 1 /\ x = c.taken + 1
    OBVIOUS
  <2>2. z \in Int /\ x \in Int
    BY <1>0, <2>1
  <2>3. t.chain = [c EXCEPT !.reserve = z, !.taken = x] /\ t.events = <<>>
    BY <1>3, <2>1 DEF FeeTaken, Becomes
  <2>4. Like(c, t.chain, c.tick, z, x, c.owed, c.direct, c.nfts)
    BY <2>2, <2>3 DEF Like, NothingStaked, WagmiChains
  <2>5. ByFee(c, t.chain)
    BY <2>1, <2>4 DEF ByFee
  <2> QED
    BY <2>3, <2>5, FeeSaid
<1>4. ASSUME NEW k \in Ticks, NEW delta \in Int, NEW t, t = Swapped(c, k, delta) PROVE WagmiGood(c, t.chain, t.events)
  <2>1. PICK z : z = c.reserve + delta
    OBVIOUS
  <2>2. z \in Int /\ k \in Int /\ delta \in Int
    BY <1>0, <2>1 DEF Ticks
  <2>3. t.chain = [c EXCEPT !.tick = k, !.reserve = z] /\ t.events = SwapOf(c, k, delta)
    BY <1>4, <2>1 DEF Swapped, Becomes
  <2>4. Like(c, t.chain, k, z, c.taken, c.owed, c.direct, c.nfts)
    BY <2>2, <2>3 DEF Like, NothingStaked, WagmiChains
  <2>5. BySwap(c, t.chain, k, delta)
    BY <2>1, <2>4 DEF BySwap
  <2> QED
    BY <2>2, <2>3, <2>5, SwapSaid
<1>5. ASSUME NEW k \in Ticks, NEW t, t = SwappedTwice(c, k) PROVE WagmiGood(c, t.chain, t.events)
  <2>1. PICK y, z : y = c.reserve + 1 /\ z = c.reserve + 2
    OBVIOUS
  <2>2. y \in Int /\ z \in Int /\ k \in Int /\ 1 \in Int
    BY <1>0, <2>1 DEF Ticks
  <2>3. PICK c1 : Like(c, c1, c.tick, y, c.taken, c.owed, c.direct, c.nfts)
    BY <1>0, <2>2, LikeNew
  <2>4. /\ c1 \in WagmiChains /\ NothingStaked(c, c1) /\ c1.tick = c.tick /\ c1.reserve = y /\ c1.taken = c.taken
        /\ c1.owed = c.owed /\ c1.direct = c.direct /\ c1.nfts = c.nfts
    BY <2>3 DEF Like
  <2>5. BySwap(c, c1, c.tick, 1)
    BY <2>1, <2>3 DEF BySwap
  <2>6. WagmiGood(c, c1, SwapOf(c, c.tick, 1)) /\ \A s : Active(c1, s) = Active(c, s)
    BY <2>2, <2>5, SwapSaid
  <2>7. t.chain = [c EXCEPT !.tick = k, !.reserve = z] /\ t.events = SwapOf(c, c.tick, 1) \o SwapOf(c, k, 1)
    BY <1>5, <2>1 DEF SwappedTwice, Becomes
  <2>8. Like(c, t.chain, k, z, c.taken, c.owed, c.direct, c.nfts)
    BY <2>2, <2>7 DEF Like, NothingStaked, WagmiChains
  <2>9. Like(c1, t.chain, k, z, c1.taken, c1.owed, c1.direct, c1.nfts)
    BY <2>4, <2>8 DEF Like, NothingStaked
  <2>10. z = c1.reserve + 1
    BY <1>0, <2>1, <2>4
  <2>11. BySwap(c1, t.chain, k, 1)
    BY <2>9, <2>10 DEF BySwap
  <2>12. WagmiGood(c1, t.chain, SwapOf(c1, k, 1))
    BY <2>2, <2>4, <2>11, SwapSaid
  <2>13. SwapOf(c1, k, 1) = SwapOf(c, k, 1)
    BY <2>6 DEF SwapOf
  <2> QED
    BY <2>6, <2>7, <2>12, <2>13, GoodThenGood
<1> QED
  BY <1>1, <1>2, <1>3, <1>4, <1>5

(* The price is set first. *)
LEMMA InitializedGood ==
  ASSUME NEW c \in WagmiChains, c.tick = NoTick, c.nfts = <<>>, NEW k \in Ticks, NEW t, t = Initialized(c, k)
  PROVE  WagmiGood(c, t.chain, t.events)
<1>1. t.chain = [c EXCEPT !.tick = k] /\ t.events = <<[kind |-> "Initialize", tick |-> k]>> /\ k \in Int
  BY DEF Initialized, Becomes, Ticks
<1>2. Like(c, t.chain, k, c.reserve, c.taken, c.owed, c.direct, c.nfts)
  BY <1>1 DEF Like, NothingStaked, WagmiChains
<1>3. ByStart(c, t.chain, k)
  BY <1>2 DEF ByStart
<1> QED
  BY <1>1, <1>3, StartSaid

(* Each transaction of Wagmi's pool tells what it does. *)
LEMMA WagmiTells ==
  ASSUME NEW c \in WagmiChains, (c.tick = NoTick /\ c.nfts = <<>>) \/ c.tick \in Ticks, NEW t \in WagmiPoolTransactions(c)
  PROVE  WagmiGood(c, t.chain, t.events)
<1>1. CASE c.tick = NoTick
  <2>1. c.nfts = <<>>
    BY <1>1 DEF NoTick, Ticks
  <2>2. PICK k \in Ticks : t = Initialized(c, k)
    BY <1>1 DEF WagmiPoolTransactions
  <2> QED
    BY <1>1, <2>1, <2>2, InitializedGood
<1>2. CASE c.tick # NoTick
  <2>0. c.tick \in Ticks /\ t \in PoolMoves(c)
    BY <1>2 DEF WagmiPoolTransactions
  <2>1. CASE \E u \in User, r \in Ranges : t = NftMinted(c, u, r)
    BY <2>0, <2>1, NftMintedGood
  <2>2. CASE \E u \in User, r \in Ranges : t = NftFlashed(c, u, r)
    BY <2>0, <2>2, NftFlashedGood
  <2>3. CASE \E id \in Alive(c) : t = Increased(c, id)
    BY <2>0, <2>3, IncreasedGood
  <2>4. CASE \E id \in Alive(c) : c.nfts[id].liquidity > 0 /\ t = Decreased(c, id)
    BY <2>0, <2>4, DecreasedGood
  <2>5. CASE \E id \in Alive(c), to \in User \cup {Zero} : t = NftMoved(c, id, to)
    BY <2>0, <2>5, NftMovedGood
  <2>6. CASE t = Collected(c) \/ t = MintedDirectly(c) \/ t = FeeTaken(c)
    BY <2>0, <2>6, PoolGood
  <2>7. CASE \E k \in Ticks, delta \in Int : t = Swapped(c, k, delta)
    BY <2>0, <2>7, PoolGood
  <2>8. CASE \E k \in Ticks : t = SwappedTwice(c, k)
    BY <2>0, <2>8, PoolGood
  <2> QED
    BY <2>0, <2>1, <2>2, <2>3, <2>4, <2>5, <2>6, <2>7, <2>8 DEF PoolMoves
<1> QED
  BY <1>1, <1>2

------------------------------------------------------------------------------
(* The pool and its positions in the index. *)
WagmiTyped(ix) ==
  /\ {"pool", "positions", "multi", "events"} \subseteq DOMAIN ix
  /\ ix.pool = [tick |-> ix.pool.tick, liquidity |-> ix.pool.liquidity, locked |-> ix.pool.locked]
  /\ \A id \in DOMAIN ix.positions : {"owner", "liquidity"} \subseteq DOMAIN ix.positions[id]
PosOf(ix, id) ==
  IF id \in DOMAIN ix.positions THEN [owner |-> ix.positions[id].owner, liquidity |-> ix.positions[id].liquidity]
  ELSE [owner |-> Zero, liquidity |-> 0]

PosSaved(ix, jx, id, o, l) ==
  /\ WagmiTyped(jx) /\ jx.multi = ix.multi /\ jx.pool = ix.pool
  /\ DOMAIN jx.positions = DOMAIN ix.positions \cup {id}
  /\ PosOf(jx, id) = [owner |-> o, liquidity |-> l]
  /\ \A j : j # id => PosOf(jx, j) = PosOf(ix, j)
(* A position is saved. *)
LEMMA PositionSaves ==
  ASSUME NEW ix, WagmiTyped(ix), NEW id, NEW p, {"owner", "liquidity"} \subseteq DOMAIN p, NEW jx, jx = PositionSaved(ix, id, p)
  PROVE  PosSaved(ix, jx, id, p.owner, p.liquidity)
<1>1. PICK st : st = Save(ix.positions, id, p)
  OBVIOUS
<1>2. jx.positions = st /\ DOMAIN jx = DOMAIN ix /\ jx.pool = ix.pool /\ jx.multi = ix.multi
  BY <1>1 DEF WagmiTyped, PositionSaved
<1>3. DOMAIN st = DOMAIN ix.positions \cup {id} /\ st[id] = p /\ \A j \in DOMAIN ix.positions : j # id => st[j] = ix.positions[j]
  BY <1>1 DEF Save
<1>4. WagmiTyped(jx)
  BY <1>2, <1>3 DEF WagmiTyped
<1>5. PosOf(jx, id) = [owner |-> p.owner, liquidity |-> p.liquidity] /\ \A j : j # id => PosOf(jx, j) = PosOf(ix, j)
  BY <1>2, <1>3 DEF PosOf
<1> QED
  BY <1>2, <1>3, <1>4, <1>5 DEF PosSaved

(* What getPosition finds. *)
FoundOf(ix, id, c) == IF id \in DOMAIN ix.positions THEN ix.positions[id] ELSE [owner |-> Zero, range |-> c.nfts[id].range, liquidity |-> 0]

(* It finds the indexed position, or one read from a contract where the    *)
(* NFT is alive, or none.                                                  *)
LEMMA PositionFound ==
  ASSUME NEW ix, WagmiTyped(ix), NEW id, NEW c
  PROVE  /\ id \notin DOMAIN ix.positions /\ id \notin Alive(c) => GetPosition(ix, id, c) = <<>>
         /\ id \in DOMAIN ix.positions \/ id \in Alive(c) =>
              GetPosition(ix, id, c) # <<>> /\ GetPosition(ix, id, c)[1] = FoundOf(ix, id, c)
         /\ {"owner", "liquidity"} \subseteq DOMAIN FoundOf(ix, id, c)
         /\ PosOf(ix, id) = [owner |-> FoundOf(ix, id, c).owner, liquidity |-> FoundOf(ix, id, c).liquidity]
<1>1. \A p : <<p>> # <<>> /\ <<p>>[1] = p
  OBVIOUS
<1>2. PICK p : p = FoundOf(ix, id, c)
  OBVIOUS
<1>3. {"owner", "liquidity"} \subseteq DOMAIN p /\ PosOf(ix, id) = [owner |-> p.owner, liquidity |-> p.liquidity]
  BY <1>2 DEF PosOf, FoundOf, WagmiTyped
<1>4. id \in DOMAIN ix.positions \/ id \in Alive(c) => GetPosition(ix, id, c) = <<p>>
  BY <1>2 DEF GetPosition, FoundOf
<1>5. id \notin DOMAIN ix.positions /\ id \notin Alive(c) => GetPosition(ix, id, c) = <<>>
  BY DEF GetPosition
<1> QED
  BY <1>1, <1>2, <1>3, <1>4, <1>5

WagmiHeard(ix, e, c, jx) ==
  /\ WagmiTyped(jx) /\ jx.multi = ix.multi
  /\ \A w : SaysPool(ix.pool, e, w) => jx.pool = w
  /\ \/ e.kind \notin NftKinds /\ jx.positions = ix.positions
     \/ e.kind \in NftKinds /\ e.id \notin DOMAIN ix.positions /\ e.id \notin Alive(c) /\ jx.positions = ix.positions
     \/ /\ e.kind \in NftKinds /\ (e.id \in DOMAIN ix.positions \/ e.id \in Alive(c))
        /\ DOMAIN jx.positions = DOMAIN ix.positions \cup {e.id}
        /\ \A w : SaysNft(e.id, PosOf(ix, e.id), e, w) => PosOf(jx, e.id) = w
        /\ \A j : j # e.id => PosOf(jx, j) = PosOf(ix, j)

(* The handlers of an NFT's events. *)
LEMMA NftHears ==
  ASSUME NEW ix, WagmiTyped(ix), NEW e, "kind" \in DOMAIN e, e.kind \in NftKinds, Has(e, {"id", "from", "to"}),
         NEW c, NEW jx, jx = WagmiHandled(ix, e, c)
  PROVE  WagmiHeard(ix, e, c, jx)
<1>0. \A v, w : SaysPool(v, e, w) => w = v
  BY DEF SaysPool, NftKinds
<1>1. PICK p : p = FoundOf(ix, e.id, c)
  OBVIOUS
<1>2. /\ e.id \notin DOMAIN ix.positions /\ e.id \notin Alive(c) => GetPosition(ix, e.id, c) = <<>>
      /\ e.id \in DOMAIN ix.positions \/ e.id \in Alive(c) =>
           GetPosition(ix, e.id, c) # <<>> /\ GetPosition(ix, e.id, c)[1] = p
      /\ {"owner", "liquidity"} \subseteq DOMAIN p
      /\ PosOf(ix, e.id) = [owner |-> p.owner, liquidity |-> p.liquidity]
  BY <1>1, PositionFound
<1>3. CASE e.id \notin DOMAIN ix.positions /\ e.id \notin Alive(c)
  <2>1. jx = ix
    BY <1>2, <1>3 DEF WagmiHandled, NftKinds, HandleIncreaseLiquidity, HandleDecreaseLiquidity, HandleNftTransfer
  <2> QED
    BY <1>0, <1>3, <2>1 DEF WagmiHeard
<1>4. CASE e.id \in DOMAIN ix.positions \/ e.id \in Alive(c)
  <2>0. GetPosition(ix, e.id, c) # <<>> /\ GetPosition(ix, e.id, c)[1] = p
    BY <1>2, <1>4
  <2>1. PICK q : q = CASE e.kind = "Increase" -> [p EXCEPT !.liquidity = @ + 1]
                       [] e.kind = "Decrease" -> [p EXCEPT !.liquidity = @ - 1]
                       [] e.kind = "NftTransfer" -> [p EXCEPT !.owner = e.to]
    OBVIOUS
  <2>2. jx = PositionSaved(ix, e.id, q)
    <3>1. CASE e.kind = "Increase"
      BY <2>0, <2>1, <3>1 DEF WagmiHandled, HandleIncreaseLiquidity
    <3>2. CASE e.kind = "Decrease"
      BY <2>0, <2>1, <3>2 DEF WagmiHandled, HandleDecreaseLiquidity
    <3>3. CASE e.kind = "NftTransfer"
      BY <2>0, <2>1, <3>3 DEF WagmiHandled, HandleNftTransfer
    <3> QED
      BY <3>1, <3>2, <3>3 DEF NftKinds
  <2>3. DOMAIN q = DOMAIN p
    BY <1>2, <2>1 DEF NftKinds
  <2>4. PosSaved(ix, jx, e.id, q.owner, q.liquidity)
    BY <1>2, <2>2, <2>3, PositionSaves
  <2>5. ASSUME NEW w, SaysNft(e.id, PosOf(ix, e.id), e, w) PROVE w = [owner |-> q.owner, liquidity |-> q.liquidity]
    <3>0. PosOf(ix, e.id).owner = p.owner /\ PosOf(ix, e.id).liquidity = p.liquidity
      BY <1>2
    <3>1. CASE e.kind = "Increase"
      <4>1. q.owner = p.owner /\ q.liquidity = p.liquidity + 1
        BY <1>2, <2>1, <3>1
      <4> QED
        BY <2>5, <3>0, <3>1, <4>1 DEF SaysNft, NftKinds
    <3>2. CASE e.kind = "Decrease"
      <4>1. q.owner = p.owner /\ q.liquidity = p.liquidity - 1
        BY <1>2, <2>1, <3>2
      <4> QED
        BY <2>5, <3>0, <3>2, <4>1 DEF SaysNft, NftKinds
    <3>3. CASE e.kind = "NftTransfer"
      <4>1. q.owner = e.to /\ q.liquidity = p.liquidity
        BY <1>2, <2>1, <3>3
      <4> QED
        BY <2>5, <3>0, <3>3, <4>1 DEF SaysNft, NftKinds
    <3> QED
      BY <3>1, <3>2, <3>3 DEF NftKinds
  <2> QED
    BY <1>0, <1>4, <2>4, <2>5 DEF WagmiHeard, PosSaved
<1> QED
  BY <1>3, <1>4

(* The handlers of the pool's events. *)
LEMMA PoolHears ==
  ASSUME NEW ix, WagmiTyped(ix), NEW e, "kind" \in DOMAIN e, e.kind \in {"Initialize", "Swap", "Mint", "Burn", "Collect"},
         NEW c, NEW jx, jx = WagmiHandled(ix, e, c)
  PROVE  WagmiHeard(ix, e, c, jx)
<1>0. e.kind \notin NftKinds
  BY DEF NftKinds
<1>1. ASSUME NEW p, NEW ev, p = [tick |-> p.tick, liquidity |-> p.liquidity, locked |-> p.locked],
             jx = [ix EXCEPT !.pool = p, !.events = ev]
      PROVE  WagmiTyped(jx) /\ jx.multi = ix.multi /\ jx.positions = ix.positions /\ jx.pool = p
  BY <1>1 DEF WagmiTyped
<1>2. PICK v : v = ix.pool
  OBVIOUS
<1>3. v = [tick |-> v.tick, liquidity |-> v.liquidity, locked |-> v.locked]
  BY <1>2 DEF WagmiTyped
<1>4. CASE e.kind = "Swap"
  <2>1. PICK p : p = [tick |-> e.tick, liquidity |-> e.liquidity, locked |-> v.locked + e.amount]
    OBVIOUS
  <2>2. PICK ev : ev = Save(ix.events, ByTx(e), e)
    OBVIOUS
  <2>3. jx = [ix EXCEPT !.pool = p, !.events = ev]
    BY <1>2, <1>4, <2>1, <2>2 DEF WagmiHandled, HandleSwap
  <2>4. p = [tick |-> p.tick, liquidity |-> p.liquidity, locked |-> p.locked]
    BY <2>1
  <2>5. \A w : SaysPool(v, e, w) => w = p
    BY <1>4, <2>1 DEF SaysPool
  <2> QED
    BY <1>0, <1>1, <1>2, <2>3, <2>4, <2>5 DEF WagmiHeard
<1>5. CASE e.kind = "Mint"
  <2>1. PICK p : p = [tick |-> v.tick, locked |-> v.locked + e.amount,
                      liquidity |-> IF InRange(e.range, v.tick) THEN v.liquidity + e.amount ELSE v.liquidity]
    OBVIOUS
  <2>3. jx = [ix EXCEPT !.pool = p]
    BY <1>2, <1>5, <2>1 DEF WagmiHandled, HandlePoolMint
  <2>3a. jx = [ix EXCEPT !.pool = p, !.events = ix.events]
    BY <2>3 DEF WagmiTyped
  <2>4. p = [tick |-> p.tick, liquidity |-> p.liquidity, locked |-> p.locked]
    BY <2>1
  <2>5. \A w : SaysPool(v, e, w) => w = p
    BY <1>5, <2>1 DEF SaysPool
  <2> QED
    BY <1>0, <1>1, <1>2, <2>3a, <2>4, <2>5 DEF WagmiHeard
<1>6. CASE e.kind = "Burn"
  <2>0. PICK l : l = IF InRange(e.range, v.tick) THEN v.liquidity - e.amount ELSE v.liquidity
    OBVIOUS
  <2>1. PICK p : p = [v EXCEPT !.liquidity = l]
    OBVIOUS
  <2>3. jx = [ix EXCEPT !.pool = p]
    BY <1>2, <1>6, <2>0, <2>1 DEF WagmiHandled, HandlePoolBurn
  <2>3a. jx = [ix EXCEPT !.pool = p, !.events = ix.events]
    BY <2>3 DEF WagmiTyped
  <2>4a. p = [tick |-> v.tick, liquidity |-> l, locked |-> v.locked]
    BY <1>3, <2>1
  <2>4. p = [tick |-> p.tick, liquidity |-> p.liquidity, locked |-> p.locked]
    BY <2>4a
  <2>5. \A w : SaysPool(v, e, w) => w = p
    BY <1>6, <2>0, <2>4a DEF SaysPool
  <2> QED
    BY <1>0, <1>1, <1>2, <2>3a, <2>4, <2>5 DEF WagmiHeard
<1>7. CASE e.kind = "Collect"
  <2>0. PICK l : l = v.locked - e.amount
    OBVIOUS
  <2>1. PICK p : p = [v EXCEPT !.locked = l]
    OBVIOUS
  <2>3. jx = [ix EXCEPT !.pool = p]
    BY <1>2, <1>7, <2>0, <2>1 DEF WagmiHandled, HandlePoolCollect
  <2>3a. jx = [ix EXCEPT !.pool = p, !.events = ix.events]
    BY <2>3 DEF WagmiTyped
  <2>4a. p = [tick |-> v.tick, liquidity |-> v.liquidity, locked |-> l]
    BY <1>3, <2>1
  <2>4. p = [tick |-> p.tick, liquidity |-> p.liquidity, locked |-> p.locked]
    BY <2>4a
  <2>5. \A w : SaysPool(v, e, w) => w = p
    BY <1>7, <2>0, <2>4a DEF SaysPool
  <2> QED
    BY <1>0, <1>1, <1>2, <2>3a, <2>4, <2>5 DEF WagmiHeard
<1>8. CASE e.kind = "Initialize"
  <2>1. PICK p : p = [v EXCEPT !.tick = e.tick]
    OBVIOUS
  <2>3. jx = [ix EXCEPT !.pool = p]
    BY <1>2, <1>8, <2>1 DEF WagmiHandled, HandleInitialize
  <2>3a. jx = [ix EXCEPT !.pool = p, !.events = ix.events]
    BY <2>3 DEF WagmiTyped
  <2>4a. p = [tick |-> e.tick, liquidity |-> v.liquidity, locked |-> v.locked]
    BY <1>3, <2>1
  <2>4. p = [tick |-> p.tick, liquidity |-> p.liquidity, locked |-> p.locked]
    BY <2>4a
  <2>5. \A w : SaysPool(v, e, w) => w = p
    BY <1>8, <2>4a DEF SaysPool
  <2> QED
    BY <1>0, <1>1, <1>2, <2>3a, <2>4, <2>5 DEF WagmiHeard
<1> QED
  BY <1>4, <1>5, <1>6, <1>7, <1>8

------------------------------------------------------------------------------
(* The pool's invariant.  What the queue says, one event after the other,  *)
(* makes of the pool and of each NFT in the index those of the contracts,  *)
(* but of an NFT that was burned before the index heard of it.             *)

Unindexed(id) == id \in DOMAIN chain.nfts /\ id \notin Alive(chain) /\ id \notin DOMAIN index.positions
WagmiInv ==
  /\ chain \in WagmiChains
  /\ (chain.tick = NoTick /\ chain.nfts = <<>>) \/ chain.tick \in Ticks
  /\ \A u \in User : chain.wlp[u] = 0 /\ chain.staked[u] = 0 /\ chain.drift[u] = 0
  /\ WagmiTyped(index) /\ index.multi = Nothing
  /\ Faithful(Fact("pool", 0, 0))
  /\ \A id \in Nat : Faithful(Fact("nft", id, 0)) \/ Unindexed(id)
  /\ DOMAIN index.positions \subseteq DOMAIN chain.nfts
  /\ \A e \in Range(queue) : IsNftEvent(e, chain)

(* Wagmi's invariant holds at the start. *)
LEMMA WagmiPoolStarts ==
  ASSUME IndexInit, protocol = "wagmi"
  PROVE  WagmiInv
<1>1. chain = WagmiChain /\ index = WagmiIndex /\ queue = <<>>
  BY DEF IndexInit, FirstChain, FirstIndex
<1>2. /\ WagmiTyped(index) /\ index.pool = [tick |-> NoTick, liquidity |-> 0, locked |-> 0]
      /\ index.positions = Nothing /\ index.multi = Nothing
  BY <1>1 DEF WagmiIndex, WagmiTyped, Nothing
<1>3. DOMAIN index.positions = {} /\ Range(queue) = {} /\ DOMAIN chain.nfts = {}
  BY <1>1, <1>2, WagmiStarts DEF Nothing, Range
<1>4. InIndex(Fact("pool", 0, 0), index) = OnChain(Fact("pool", 0, 0), chain)
  <2>1. InIndex(Fact("pool", 0, 0), index) = index.pool
    BY DEF InIndex, Fact
  <2>2. Active(chain, NoTick) = 0
    <3>1. Active(chain, NoTick) = chain.direct + HeldAt(chain.nfts, NoTick)
      BY WagmiOnChain
    <3> QED
      BY <1>1, <3>1, HeldNowhere, WagmiStarts
  <2>3. PoolOf(chain) = [tick |-> NoTick, liquidity |-> 0, locked |-> 0]
    BY <1>1, <2>2, WagmiStarts DEF PoolOf
  <2> QED
    BY <1>2, <2>1, <2>3, WagmiOnChain
<1>5. \A id : InIndex(Fact("nft", id, 0), index) = OnChain(Fact("nft", id, 0), chain)
  BY <1>3 DEF InIndex, OnChain, Fact
<1>6. Faithful(Fact("pool", 0, 0)) /\ \A id \in Nat : Faithful(Fact("nft", id, 0))
  BY <1>1, <1>4, <1>5, KnownAtStart
<1> QED
  BY <1>1, <1>2, <1>3, <1>6, WagmiStarts DEF WagmiInv

(* A stamped event is of the NFT it was of. *)
LEMMA StampNft ==
  ASSUME NEW e, NEW d, IsNftEvent(e, d), NEW b, NEW x, NEW l
  PROVE  IsNftEvent(Stamp(e, b, x, l), d)
<1>1. PICK st : st = Stamp(e, b, x, l)
  OBVIOUS
<1>2. \A f \in DOMAIN e : f \in DOMAIN st /\ (f \notin {"block", "tx", "log"} => st[f] = e[f])
  BY <1>1, StampSame
<1>3. "kind" \in DOMAIN st /\ st.kind = e.kind
  BY <1>2 DEF IsNftEvent
<1>4. ASSUME e.kind \in NftKinds PROVE Has(st, {"id", "from", "to"}) /\ st.id \in DOMAIN d.nfts
  <2>1. Has(e, {"id", "from", "to"}) /\ e.id \in DOMAIN d.nfts
    BY <1>4 DEF IsNftEvent
  <2>2. st.id = e.id /\ {"id", "from", "to"} \subseteq DOMAIN st
    BY <1>2, <2>1 DEF Has
  <2> QED
    BY <1>3, <2>1, <2>2 DEF Has
<1> QED
  BY <1>1, <1>3, <1>4 DEF IsNftEvent

(* A step keeps the pool's invariant. *)
LEMMA WagmiStep ==
  ASSUME IndexInv, Waits, protocol = "wagmi", WagmiInv, IndexNext
  PROVE  WagmiInv'
<1>0. WagmiChains' = WagmiChains
  OBVIOUS
<1>1. CASE Transact
  <2>1. Transactions = WagmiPoolTransactions(chain)
    BY DEF Transactions
  <2>2. \A t \in Transactions : t.events \in Seq(Range(t.events))
    BY AllEmit DEF Waits
  <2>3. PICK t \in Transactions : chain' = t.chain /\ Lengthened(queue, t.events, chain.block, txs + 1, queue')
    BY <1>1, <2>2, Transacts DEF Waits
  <2>4. index' = index
    BY <1>1 DEF Transact
  <2>5. WagmiGood(chain, t.chain, t.events)
    BY <2>1, WagmiTells DEF WagmiInv
  <2>6. /\ t.chain \in WagmiChains /\ NothingStaked(chain, t.chain) /\ t.chain.tick \in Ticks
        /\ PoolTold(chain, t.chain, t.events) /\ NftsTold(chain, t.chain, t.events)
        /\ \A e \in Range(t.events) : IsNftEvent(e, t.chain)
        /\ NftsStay(chain, t.chain)
    BY <2>5 DEF WagmiGood
  <2>7. Faithful(Fact("pool", 0, 0))'
    <3>1. Tells(Fact("pool", 0, 0), t.events, OnChain(Fact("pool", 0, 0), chain), OnChain(Fact("pool", 0, 0), t.chain))
      BY <2>6, WagmiOnChain DEF PoolTold
    <3> QED
      BY <2>3, <2>4, <3>1, KnownGrows DEF WagmiInv
  <2>8. ASSUME NEW id \in Nat PROVE Faithful(Fact("nft", id, 0))' \/ Unindexed(id)'
    <3>1. CASE Faithful(Fact("nft", id, 0))
      <4>1. Tells(Fact("nft", id, 0), t.events, NftOf(chain, id), NftOf(t.chain, id))
        BY <2>6 DEF NftsTold
      <4>2. Tells(Fact("nft", id, 0), t.events, OnChain(Fact("nft", id, 0), chain), OnChain(Fact("nft", id, 0), t.chain))
        BY <4>1, WagmiOnChain
      <4> QED
        BY <2>3, <2>4, <3>1, <4>2, KnownGrows
    <3>2. CASE Unindexed(id)
      BY <2>3, <2>4, <2>6, <3>2 DEF Unindexed, Alive, NftsStay
    <3> QED
      BY <3>1, <3>2 DEF WagmiInv
  <2>9. DOMAIN index'.positions \subseteq DOMAIN chain'.nfts
    BY <2>3, <2>4, <2>6 DEF WagmiInv, NftsStay
  <2>10. ASSUME NEW st \in Range(queue') PROVE IsNftEvent(st, chain')
    <3>1. CASE st \in Range(queue)
      BY <2>3, <2>6, <3>1 DEF WagmiInv, IsNftEvent, NftsStay
    <3>2. CASE \E e \in Range(t.events), l \in Nat : st = Stamp(e, chain.block, txs + 1, l)
      BY <2>3, <2>6, <3>2, StampNft
    <3> QED
      BY <2>3, <3>1, <3>2, WaitingGrows
  <2>11. \A u \in User : chain'.wlp[u] = 0 /\ chain'.staked[u] = 0 /\ chain'.drift[u] = 0
    BY <2>3, <2>6 DEF WagmiInv, NothingStaked
  <2>12. WagmiTyped(index') /\ index'.multi = Nothing
    BY <2>4 DEF WagmiInv
  <2> QED
    BY <1>0, <2>3, <2>6, <2>7, <2>8, <2>9, <2>10, <2>11, <2>12 DEF WagmiInv
<1>2. CASE Handle
  <2>1. queue # <<>> /\ queue' = Tail(queue) /\ chain' = chain /\ index' = HandledBy(Head(queue))
    BY <1>2 DEF Handle
  <2>2. PICK e : e = Head(queue)
    OBVIOUS
  <2>3. index' = WagmiHandled(index, e, chain)
    BY <2>1, <2>2 DEF HandledBy
  <2>4. "kind" \in DOMAIN e /\ e.kind \in WagmiKinds
    <3>1. Recording /\ EventsInOrder
      BY DEF IndexInv, Recording, Protocols
    <3>2. e \in Seen
      BY <2>1, <2>2, <3>1, WaitingShrinks DEF EventsInOrder, Seen
    <3> QED
      BY <3>1, <3>2 DEF EventsInOrder, Placed, Kinds
  <2>5. Range(queue) = {e} \cup Range(queue')
    BY <2>1, <2>2, WaitingShrinks DEF Waits
  <2>6. IsNftEvent(e, chain)
    BY <2>5 DEF WagmiInv
  <2>7. WagmiHeard(index, e, chain, index')
    <3>1. CASE e.kind \in NftKinds
      BY <2>3, <2>4, <2>6, <3>1, NftHears DEF IsNftEvent, WagmiInv
    <3>2. CASE e.kind \notin NftKinds
      <4>1. e.kind \in {"Initialize", "Swap", "Mint", "Burn", "Collect"}
        BY <2>4, <3>2 DEF WagmiKinds, NftKinds
      <4> QED
        BY <2>3, <2>4, <4>1, PoolHears DEF WagmiInv
    <3> QED
      BY <3>1, <3>2
  <2>8. Faithful(Fact("pool", 0, 0))'
    <3> DEFINE k == Fact("pool", 0, 0)
    <3>1. \A w : Makes(k, InIndex(k, index), Head(queue), w) => InIndex(k, index') = w
      <4>1. InIndex(k, index) = index.pool /\ InIndex(k, index') = index'.pool
        BY DEF InIndex, Fact
      <4>2. \A w : Makes(k, InIndex(k, index), e, w) => SaysPool(index.pool, e, w)
        BY <4>1, SaysByName
      <4>3. \A w : SaysPool(index.pool, e, w) => index'.pool = w
        BY <2>7 DEF WagmiHeard
      <4> HIDE DEF k
      <4> QED
        BY <2>2, <4>1, <4>2, <4>3
    <3>2. Faithful(k)
      BY DEF WagmiInv
    <3> HIDE DEF k
    <3>3. Faithful(k)'
      BY <2>1, <3>1, <3>2, KnownShrinks
    <3> QED
      BY <3>3 DEF k
  <2>9. ASSUME NEW id \in Nat PROVE Faithful(Fact("nft", id, 0))' \/ Unindexed(id)'
    <3>0. PICK k : k = Fact("nft", id, 0)
      OBVIOUS
    <3>1. InIndex(k, index) = PosOf(index, id) /\ InIndex(k, index') = PosOf(index', id)
      BY <3>0 DEF InIndex, Fact, PosOf
    <3>2. \A w : Makes(k, InIndex(k, index), e, w) => SaysNft(id, PosOf(index, id), e, w)
      BY <3>0, <3>1, SaysByName
    <3>3. CASE Unindexed(id)
      <4>1. id \notin Alive(chain) /\ id \notin DOMAIN index.positions
        BY <3>3 DEF Unindexed
      <4>2. CASE e.kind \in NftKinds /\ e.id = id
        <5>1. index'.positions = index.positions
          BY <2>7, <4>1, <4>2 DEF WagmiHeard
        <5> QED
          BY <2>1, <3>3, <5>1 DEF Unindexed
      <4>3. CASE ~(e.kind \in NftKinds /\ e.id = id)
        <5>1. id \notin DOMAIN index'.positions
          BY <2>7, <4>1, <4>3 DEF WagmiHeard
        <5> QED
          BY <2>1, <3>3, <5>1 DEF Unindexed
      <4> QED
        BY <4>2, <4>3
    <3>4. CASE Faithful(k)
      <4>1. CASE e.kind \in NftKinds /\ e.id = id /\ id \notin DOMAIN index.positions /\ id \notin Alive(chain)
                   /\ index'.positions = index.positions
        <5>1. id \in DOMAIN chain.nfts
          BY <2>6, <4>1 DEF IsNftEvent
        <5> QED
          BY <2>1, <4>1, <5>1 DEF Unindexed
      <4>2. CASE \A w : SaysNft(id, PosOf(index, id), e, w) => PosOf(index', id) = w
        <5>1. \A w : Makes(k, InIndex(k, index), Head(queue), w) => InIndex(k, index') = w
          BY <2>2, <3>1, <3>2, <4>2
        <5>2. Faithful(k)'
          BY <2>1, <3>4, <5>1, KnownShrinks
        <5> QED
          BY <3>0, <5>2
      <4>3. CASE ~(e.kind \in NftKinds /\ e.id = id)
        <5>1. PosOf(index', id) = PosOf(index, id)
          BY <2>7, <4>3 DEF WagmiHeard, PosOf
        <5>2. \A v, w : SaysNft(id, v, e, w) => w = v
          BY <4>3 DEF SaysNft, NftKinds
        <5> QED
          BY <4>2, <5>1, <5>2
      <4> QED
        BY <2>7, <4>1, <4>2, <4>3 DEF WagmiHeard
    <3> QED
      BY <3>0, <3>3, <3>4 DEF WagmiInv
  <2>10. DOMAIN index'.positions \subseteq DOMAIN chain'.nfts
    BY <2>1, <2>6, <2>7 DEF WagmiHeard, WagmiInv, IsNftEvent
  <2>11. WagmiTyped(index') /\ index'.multi = Nothing
    BY <2>7 DEF WagmiHeard, WagmiInv
  <2> QED
    BY <1>0, <2>1, <2>5, <2>8, <2>9, <2>10, <2>11 DEF WagmiInv
<1>3. CASE Seal
  <2>1. chain' = chain /\ queue' = queue /\ index' = index
    BY <1>3 DEF Seal
  <2>2. \A k : Faithful(k) => Faithful(k)'
    BY <2>1, KnownStays
  <2>3. \A id : Unindexed(id) => Unindexed(id)'
    BY <2>1 DEF Unindexed
  <2> QED
    BY <1>0, <2>1, <2>2, <2>3 DEF WagmiInv
<1>4. CASE NextBlock
  <2>1. chain' = [chain EXCEPT !.block = @ + 1] /\ queue' = queue /\ index' = index /\ queue = <<>>
    BY <1>4 DEF NextBlock
  <2>2. PICK b : b = chain.block + 1
    OBVIOUS
  <2>3. b \in Int /\ chain.block \in Int
    BY <2>2 DEF WagmiInv, WagmiChains
  <2>4. chain' = [chain EXCEPT !.block = b]
    BY <2>1, <2>2
  <2>5. /\ chain' \in WagmiChains /\ chain'.tick = chain.tick /\ chain'.reserve = chain.reserve
        /\ chain'.taken = chain.taken /\ chain'.nfts = chain.nfts /\ chain'.direct = chain.direct
        /\ chain'.wlp = chain.wlp /\ chain'.staked = chain.staked /\ chain'.drift = chain.drift
    BY <2>3, <2>4 DEF WagmiInv, WagmiChains
  <2>6. /\ OnChain(Fact("pool", 0, 0), chain') = OnChain(Fact("pool", 0, 0), chain)
        /\ \A id : OnChain(Fact("nft", id, 0), chain') = OnChain(Fact("nft", id, 0), chain)
    <3>1. Active(chain', chain'.tick) = Active(chain, chain.tick)
      BY <2>5, WagmiOnChain
    <3> QED
      BY <2>5, <3>1, WagmiOnChain DEF PoolOf, NftOf
  <2>7. Faithful(Fact("pool", 0, 0))' /\ \A id \in Nat : Faithful(Fact("nft", id, 0)) => Faithful(Fact("nft", id, 0))'
    BY <2>1, <2>6, KnownStays DEF WagmiInv
  <2>8. \A id : Unindexed(id) => Unindexed(id)'
    BY <2>1, <2>5 DEF Unindexed, Alive
  <2>9. Range(queue') = {}
    BY <2>1 DEF Range
  <2> QED
    BY <1>0, <2>1, <2>5, <2>7, <2>8, <2>9 DEF WagmiInv
<1> QED
  BY <1>1, <1>2, <1>3, <1>4 DEF IndexNext

(* A block that is handled: the pool's half of Wagmi matches.              *)
LEMMA WagmiMatched ==
  ASSUME WagmiInv, queue = <<>>
  PROVE  WagmiMatches(index, chain)
<1>1. index.pool = PoolOf(chain)
  <2>1. InIndex(Fact("pool", 0, 0), index) = OnChain(Fact("pool", 0, 0), chain)
    BY KnownAtEnd DEF WagmiInv
  <2> QED
    BY <2>1, WagmiOnChain DEF InIndex, Fact
<1>2. ASSUME NEW id \in DOMAIN chain.nfts
      PROVE  Unindexed(id) \/ PosOf(index, id) = NftOf(chain, id)
  <2>1. id \in Nat
    BY ActiveIs, LenProperties DEF WagmiInv
  <2>2. CASE Faithful(Fact("nft", id, 0))
    <3>1. InIndex(Fact("nft", id, 0), index) = OnChain(Fact("nft", id, 0), chain)
      BY <2>2, KnownAtEnd
    <3> QED
      BY <3>1, WagmiOnChain DEF InIndex, Fact, PosOf
  <2> QED
    BY <2>1, <2>2 DEF WagmiInv
<1>3. Alive(chain) \subseteq DOMAIN index.positions
  <2> SUFFICES ASSUME NEW id \in Alive(chain) PROVE id \in DOMAIN index.positions
    OBVIOUS
  <2>1. id \in DOMAIN chain.nfts /\ chain.nfts[id].owner # Zero /\ ~Unindexed(id)
    BY DEF Alive, Unindexed
  <2>2. PosOf(index, id) = [owner |-> chain.nfts[id].owner, liquidity |-> chain.nfts[id].liquidity]
    BY <1>2, <2>1 DEF NftOf
  <2> QED
    BY <2>1, <2>2 DEF PosOf
<1>4. ASSUME NEW id \in DOMAIN index.positions
      PROVE  index.positions[id].owner = chain.nfts[id].owner /\ index.positions[id].liquidity = chain.nfts[id].liquidity
  <2>1. id \in DOMAIN chain.nfts /\ ~Unindexed(id)
    BY DEF WagmiInv, Unindexed
  <2>2. [owner |-> index.positions[id].owner, liquidity |-> index.positions[id].liquidity]
          = [owner |-> chain.nfts[id].owner, liquidity |-> chain.nfts[id].liquidity]
    BY <1>2, <2>1 DEF NftOf, PosOf
  <2> QED
    BY <2>2
<1>5. ASSUME NEW u \in User PROVE MultiPosition(index, u).staked = chain.staked[u]
                                    /\ MultiPosition(index, u).balance = chain.wlp[u] + chain.drift[u]
  <2>1. MultiPosition(index, u) = [balance |-> 0, staked |-> 0]
    BY DEF MultiPosition, Load, Nothing, WagmiInv
  <2> QED
    BY <2>1 DEF WagmiInv
<1> QED
  BY <1>1, <1>3, <1>4, <1>5 DEF WagmiMatches, PoolOf

------------------------------------------------------------------------------
(* A pool is divided. *)

(* A quotient, rounded down. *)
LEMMA RoundedDown ==
  ASSUME NEW m \in Nat, NEW t \in Nat, t > 0
  PROVE  m \div t \in Nat /\ t * (m \div t) <= m /\ m < t * (m \div t) + t
OBVIOUS

(* The parts g of p, divided as the shares f of t, add up to no more than  *)
(* p, and what is left is less than a unit for each.                       *)
Divided(f, A, p, t, g) ==
  /\ IsFiniteSet(A) /\ A # {} /\ (\A x \in A : f[x] \in Nat) /\ p \in Nat /\ t \in Nat /\ t > 0
  /\ SumOver(f, A) = t
  /\ \A x \in A : g[x] = (p * f[x]) \div t

(* The floors add up to the whole, less than one short for each account. *)
LEMMA DividedAddsUp ==
  ASSUME NEW f, NEW A, NEW p, NEW t, NEW g, Divided(f, A, p, t, g)
  PROVE  /\ \A x \in A : g[x] \in Nat
         /\ SumOver(g, A) \in Nat /\ SumOver(g, A) <= p
         /\ p < SumOver(g, A) + Cardinality(A)
<1>1. /\ IsFiniteSet(A) /\ A # {} /\ (\A x \in A : f[x] \in Nat) /\ p \in Nat /\ t \in Nat /\ t > 0
      /\ SumOver(f, A) = t
      /\ \A x \in A : g[x] = (p * f[x]) \div t
  BY DEF Divided
<1>2. \A x \in A : /\ g[x] \in Nat /\ p * f[x] \in Nat /\ t * g[x] \in Nat
                   /\ t * g[x] <= p * f[x] /\ p * f[x] < t * g[x] + t
  <2> SUFFICES ASSUME NEW x \in A
               PROVE  /\ g[x] \in Nat /\ p * f[x] \in Nat /\ t * g[x] \in Nat
                      /\ t * g[x] <= p * f[x] /\ p * f[x] < t * g[x] + t
    OBVIOUS
  <2>1. p * f[x] \in Nat
    BY <1>1
  <2>2. PICK m \in Nat : m = p * f[x]
    BY <2>1
  <2>3. m \div t \in Nat /\ t * (m \div t) <= m /\ m < t * (m \div t) + t
    BY <1>1, RoundedDown
  <2>4. g[x] = m \div t
    BY <1>1, <2>2
  <2>5. t * g[x] \in Nat
    BY <1>1, <2>3, <2>4
  <2> QED
    BY <2>1, <2>2, <2>3, <2>4, <2>5
<1>3. \A x \in A : g[x] \in Nat
  BY <1>2
<1> DEFINE X == [x \in A |-> t * g[x]]
           Y == [x \in A |-> p * f[x]]
           W == [x \in A |-> Y[x] + 1]
           Z == [x \in A |-> X[x] + t]
<1>4. SumOver(X, A) = t * SumOver(g, A)
  BY <1>1, <1>3, SumScaled
<1>5. SumOver(Y, A) = p * SumOver(f, A)
  BY <1>1, SumScaled
<1>6. /\ \A x \in A : X[x] \in Nat /\ Y[x] \in Nat /\ X[x] <= Y[x] /\ Y[x] < X[x] + t
      /\ \A x \in A : W[x] = Y[x] + 1 /\ Z[x] = X[x] + t
  BY <1>2
<1> HIDE DEF X, Y, W, Z
<1>7. PICK n \in Nat : n = Cardinality(A) /\ n > 0
  <2>1. Cardinality(A) \in Nat /\ Cardinality(A) # 0
    BY <1>1, FS_CardinalityType, FS_EmptySet
  <2> QED
    BY <2>1
<1>8. PICK s \in Nat : s = SumOver(g, A)
  BY <1>1, <1>3, SumIsNumber
<1>9. A \in SUBSET A /\ A \ A = {}
  OBVIOUS
<1>10. SumOver(W, A) = SumOver(Y, A) + 1 * n
  BY <1>1, <1>6, <1>7, <1>9, SumRaised
<1>11. SumOver(Z, A) = SumOver(X, A) + t * n
  BY <1>1, <1>6, <1>7, <1>9, SumRaised
<1>12. SumOver(X, A) <= SumOver(Y, A)
  BY <1>1, <1>6, <1>9, SumLeq
<1>13. SumOver(W, A) <= SumOver(Z, A)
  <2>1. \A x \in A : W[x] \in Nat /\ W[x] <= Z[x] /\ Z[x] \in Nat
    BY <1>1, <1>6
  <2> QED
    BY <1>1, <1>9, <2>1, SumLeq
<1>14. t * s <= p * t /\ p * t + 1 * n <= t * s + t * n
  BY <1>1, <1>4, <1>5, <1>8, <1>10, <1>11, <1>12, <1>13
<1>15. s <= p
  BY <1>1, <1>14
<1>16. p < s + n
  <2>1. t * (s + n) = t * s + t * n /\ p * t = t * p
    BY <1>1
  <2>2. t * p < t * (s + n)
    BY <1>1, <1>7, <1>14, <2>1
  <2> QED
    BY <1>1, <2>2
<1> QED
  BY <1>3, <1>7, <1>8, <1>15, <1>16

(* Shares of s, none of which is of more than was held, get no more of a   *)
(* p that t was issued for than s of t.                                    *)
LEMMA SharesOfMore ==
  ASSUME NEW f, NEW A, IsFiniteSet(A), \A x \in A : f[x] \in Nat, NEW p \in Nat, NEW t \in Nat, NEW s \in Nat,
         SumOver(f, A) <= s, NEW g, \A x \in A : g[x] = IF t = 0 THEN 0 ELSE (f[x] * p) \div t
  PROVE  SumOver(g, A) * t <= s * p
<1>1. s * p \in Nat
  OBVIOUS
<1>2. ASSUME NEW x \in A PROVE g[x] \in Nat /\ p * f[x] \in Nat /\ t * g[x] \in Nat /\ t * g[x] <= p * f[x]
  <2>1. p * f[x] \in Nat /\ f[x] * p = p * f[x]
    OBVIOUS
  <2>2. PICK m \in Nat : m = p * f[x]
    BY <2>1
  <2>3. CASE t = 0
    <3>1. g[x] = 0
      BY <2>3
    <3> QED
      BY <2>1, <2>3, <3>1
  <2>4. CASE t # 0
    <3>1. m \div t \in Nat /\ t * (m \div t) <= m
      BY <2>4, RoundedDown
    <3>2. g[x] = m \div t
      BY <2>1, <2>2, <2>4
    <3>3. t * g[x] \in Nat
      BY <3>1, <3>2
    <3> QED
      BY <2>1, <2>2, <3>1, <3>2, <3>3
  <2> QED
    BY <2>3, <2>4
<1> DEFINE X == [x \in A |-> t * g[x]]
           Y == [x \in A |-> p * f[x]]
<1>3. SumOver(X, A) = t * SumOver(g, A)
  BY <1>2, SumScaled
<1>4. SumOver(Y, A) = p * SumOver(f, A)
  BY SumScaled
<1>5. \A x \in A : X[x] \in Nat /\ Y[x] \in Nat /\ X[x] <= Y[x]
  BY <1>2
<1> HIDE DEF X, Y
<1>6. A \in SUBSET A
  OBVIOUS
<1>7. SumOver(X, A) <= SumOver(Y, A)
  BY <1>5, <1>6, SumLeq
<1>8. PICK a, b \in Nat : a = SumOver(g, A) /\ b = SumOver(f, A)
  BY <1>2, SumIsNumber
<1>9. t * a <= p * b /\ b <= s
  BY <1>3, <1>4, <1>7, <1>8
<1>10. p * b <= p * s
  BY <1>9
<1>11. a * t = t * a /\ s * p = p * s /\ t * a \in Nat /\ p * b \in Nat /\ p * s \in Nat
  OBVIOUS
<1> QED
  BY <1>8, <1>9, <1>10, <1>11

------------------------------------------------------------------------------
(* The contract of a lending pool. *)

PoolChains ==
  [block : Int, supply : Int, cash : Nat, lent : Int, held : [Account -> Nat], lendAt : Int, moveAt : Int]
PoolSound(c) ==
  /\ c \in PoolChains /\ SumOver(c.held, Account) = c.supply /\ c.moveAt <= c.block

(* A transfer has a user at one of its ends. *)
IsPoolEvent(e) ==
  /\ Has(e, Plain) /\ e.kind \in {"Transfer", "Borrow", "RepayBorrow"}
  /\ e.kind = "Transfer" => {e.from, e.to} \subseteq Account \cup {Zero} /\ {e.from, e.to} \cap User # {}

(* What a transaction that emits e may change. *)
PoolChanged(c, d, e) ==
  /\ \A u \in User : d.held[u] = c.held[u] \/ (e.kind = "Transfer" /\ u \in {e.from, e.to})
  /\ e.kind # "Transfer" => d.supply = c.supply /\ d.moveAt = c.moveAt /\ d.lendAt = c.block
LendingTold(c, t) ==
  /\ PoolSound(t.chain) /\ t.chain.block = c.block
  /\ \E e : Range(t.events) = {e} /\ IsPoolEvent(e) /\ PoolChanged(c, t.chain, e)

(* A transaction that moves tokens. *)
LEMMA PoolMoved ==
  ASSUME NEW c, NEW d, NEW from, NEW to, NEW t, t = Becomes(d, Emits("Transfer", from, to, 1, 0)),
         PoolSound(d), d.block = c.block,
         {from, to} \subseteq Account \cup {Zero}, {from, to} \cap User # {},
         \A u \in User : d.held[u] = c.held[u] \/ u \in {from, to}
  PROVE  LendingTold(c, t)
<1>1. PICK e : e = Emitted("Transfer", from, to, 1, 0)
  OBVIOUS
<1>2. Has(e, Plain) /\ e.kind = "Transfer" /\ e.from = from /\ e.to = to
  BY <1>1, EmittedFacts
<1>3. Range(t.events) = {e} /\ t.chain = d
  BY <1>1, EmittedIn DEF Becomes
<1>4. IsPoolEvent(e)
  BY <1>2 DEF IsPoolEvent
<1>5. PoolChanged(c, d, e)
  BY <1>2 DEF PoolChanged
<1> QED
  BY <1>3, <1>4, <1>5 DEF LendingTold

(* One that moves money only. *)
LEMMA PoolPaid ==
  ASSUME NEW c, NEW d, NEW kind \in {"Borrow", "RepayBorrow"}, NEW from, NEW to, NEW t,
         t = Becomes(d, Emits(kind, from, to, 1, 0)),
         PoolSound(d), d.block = c.block, d.held = c.held, d.supply = c.supply, d.moveAt = c.moveAt, d.lendAt = c.block
  PROVE  LendingTold(c, t)
<1>1. PICK e : e = Emitted(kind, from, to, 1, 0)
  OBVIOUS
<1>2. Has(e, Plain) /\ e.kind = kind
  BY <1>1, EmittedFacts
<1>3. Range(t.events) = {e} /\ t.chain = d
  BY <1>1, EmittedIn DEF Becomes
<1>4. IsPoolEvent(e)
  BY <1>2 DEF IsPoolEvent
<1>5. PoolChanged(c, d, e)
  BY <1>2 DEF PoolChanged
<1> QED
  BY <1>3, <1>4, <1>5 DEF LendingTold

(* Tokens are issued, *)
LEMMA PoolIssued ==
  ASSUME NEW c, PoolSound(c), NEW issuer \in {Pool, Zero}, NEW u \in User
  PROVE  LendingTold(c, Issued(c, issuer, u))
<1>1. c.held \in [Account -> Nat] /\ c.supply \in Int /\ c.cash \in Nat /\ c.block \in Int
  BY DEF PoolSound, PoolChains
<1>2. PICK H, s, m : H = [c.held EXCEPT ![u] = @ + 1] /\ s = c.supply + 1 /\ m = c.cash + 1
  OBVIOUS
<1>3. H \in [Account -> Nat] /\ SumOver(H, Account) = c.supply + 1
  <2>1. OneMore(c.held, u, H) /\ u \in Account
    BY <1>2, AccountsFinite DEF OneMore
  <2> QED
    BY <1>1, <2>1, AccountsFinite, SumOneMore DEF PoolSound
<1>4. s \in Int /\ m \in Nat
  BY <1>1, <1>2
<1>5. PICK d : d = [c EXCEPT !.supply = s, !.cash = m, !.held = H, !.moveAt = c.block]
  OBVIOUS
<1>6. d \in PoolChains /\ d.block = c.block /\ d.held = H /\ d.supply = s /\ d.moveAt = c.block
  BY <1>1, <1>3, <1>4, <1>5 DEF PoolSound, PoolChains
<1>7. PoolSound(d)
  BY <1>1, <1>2, <1>3, <1>6 DEF PoolSound
<1>8. \A v \in User : d.held[v] = c.held[v] \/ v \in {issuer, u}
  BY <1>1, <1>2, <1>6, AccountsFinite
<1>9. Issued(c, issuer, u) = Becomes(d, Emits("Transfer", issuer, u, 1, 0))
  BY <1>2, <1>5 DEF Issued
<1>10. {issuer, u} \subseteq Account \cup {Zero} /\ {issuer, u} \cap User # {}
  BY AccountsFinite
<1> QED
  BY <1>6, <1>7, <1>8, <1>9, <1>10, PoolMoved

(* redeemed, *)
LEMMA PoolRedeemed ==
  ASSUME NEW c, PoolSound(c), NEW issuer \in {Pool, Zero}, NEW u \in User, c.held[u] > 0, c.cash > 0
  PROVE  LendingTold(c, Redeemed(c, u, issuer))
<1>1. c.held \in [Account -> Nat] /\ c.supply \in Int /\ c.cash \in Nat /\ c.block \in Int
  BY DEF PoolSound, PoolChains
<1>2. PICK H, s, m : H = [c.held EXCEPT ![u] = @ - 1] /\ s = c.supply - 1 /\ m = c.cash - 1
  OBVIOUS
<1>3. H \in [Account -> Nat] /\ SumOver(H, Account) = c.supply - 1
  <2>1. OneLess(c.held, u, H) /\ u \in Account
    BY <1>2, AccountsFinite DEF OneLess
  <2> QED
    BY <1>1, <2>1, AccountsFinite, SumOneLess DEF PoolSound
<1>4. s \in Int /\ m \in Nat
  BY <1>1, <1>2
<1>5. PICK d : d = [c EXCEPT !.supply = s, !.cash = m, !.held = H, !.moveAt = c.block]
  OBVIOUS
<1>6. d \in PoolChains /\ d.block = c.block /\ d.held = H /\ d.supply = s /\ d.moveAt = c.block
  BY <1>1, <1>3, <1>4, <1>5 DEF PoolSound, PoolChains
<1>7. PoolSound(d)
  BY <1>1, <1>2, <1>3, <1>6 DEF PoolSound
<1>8. \A v \in User : d.held[v] = c.held[v] \/ v \in {u, issuer}
  BY <1>1, <1>2, <1>6, AccountsFinite
<1>9. Redeemed(c, u, issuer) = Becomes(d, Emits("Transfer", u, issuer, 1, 0))
  BY <1>2, <1>5 DEF Redeemed
<1>10. {u, issuer} \subseteq Account \cup {Zero} /\ {u, issuer} \cap User # {}
  BY AccountsFinite
<1> QED
  BY <1>6, <1>7, <1>8, <1>9, <1>10, PoolMoved

(* sent, *)
LEMMA PoolSent ==
  ASSUME NEW c, PoolSound(c), NEW u \in User, c.held[u] > 0, NEW x \in Account
  PROVE  LendingTold(c, Sent(c, u, x))
<1>1. c.held \in [Account -> Nat] /\ u \in Account /\ c.block \in Int
  BY AccountsFinite DEF PoolSound, PoolChains
<1>2. PICK H : H = Transferred(c.held, u, x)
  OBVIOUS
<1>3. /\ H \in [Account -> Nat] /\ SumOver(H, Account) = SumOver(c.held, Account)
      /\ \A z \in Account : H[z] = c.held[z] - (IF z = u THEN 1 ELSE 0) + (IF z = x THEN 1 ELSE 0)
  BY <1>1, <1>2, AccountsFinite, SumTransferred
<1>4. PICK d : d = [c EXCEPT !.held = H, !.moveAt = c.block]
  OBVIOUS
<1>5. d \in PoolChains /\ d.block = c.block /\ d.held = H /\ d.supply = c.supply /\ d.moveAt = c.block
  BY <1>1, <1>3, <1>4 DEF PoolSound, PoolChains
<1>6. PoolSound(d)
  BY <1>1, <1>3, <1>5 DEF PoolSound
<1>7. \A v \in User : d.held[v] = c.held[v] \/ v \in {u, x}
  <2> SUFFICES ASSUME NEW v \in User, v # u, v # x PROVE H[v] = c.held[v]
    BY <1>5
  <2>1. v \in Account /\ c.held[v] \in Nat
    BY <1>1, AccountsFinite
  <2> QED
    BY <1>3, <2>1
<1>8. Sent(c, u, x) = Becomes(d, Emits("Transfer", u, x, 1, 0))
  BY <1>2, <1>4 DEF Sent
<1>9. {u, x} \subseteq Account \cup {Zero} /\ {u, x} \cap User # {}
  BY <1>1
<1> QED
  BY <1>5, <1>6, <1>7, <1>8, <1>9, PoolMoved

(* and money is lent and paid back. *)
LEMMA PoolLends ==
  ASSUME NEW c, PoolSound(c), NEW u \in User, NEW t,
         (t = Lent(c, u) /\ c.cash > 0) \/ \E i \in {0, 1} : t = PaidBack(c, u, i)
  PROVE  LendingTold(c, t)
<1>1. c.held \in [Account -> Nat] /\ c.lent \in Int /\ c.cash \in Nat /\ c.block \in Int
  BY DEF PoolSound, PoolChains
<1>2. ASSUME NEW m \in Nat, NEW l \in Int, NEW d, d = [c EXCEPT !.cash = m, !.lent = l, !.lendAt = c.block]
      PROVE  PoolSound(d) /\ d.block = c.block /\ d.held = c.held /\ d.supply = c.supply /\ d.moveAt = c.moveAt
               /\ d.lendAt = c.block
  <2>1. d \in PoolChains /\ d.block = c.block /\ d.held = c.held /\ d.supply = c.supply /\ d.moveAt = c.moveAt
          /\ d.lendAt = c.block
    BY <1>1, <1>2 DEF PoolSound, PoolChains
  <2> QED
    BY <2>1 DEF PoolSound
<1>3. CASE t = Lent(c, u) /\ c.cash > 0
  <2>1. PICK m, l : m = c.cash - 1 /\ l = c.lent + 1
    OBVIOUS
  <2>2. m \in Nat /\ l \in Int
    BY <1>1, <1>3, <2>1
  <2>3. PICK d : d = [c EXCEPT !.cash = m, !.lent = l, !.lendAt = c.block]
    OBVIOUS
  <2>4. t = Becomes(d, Emits("Borrow", Pool, u, 1, 0))
    BY <1>3, <2>1, <2>3 DEF Lent
  <2> QED
    BY <1>2, <2>2, <2>3, <2>4, PoolPaid
<1>4. CASE \E i \in {0, 1} : t = PaidBack(c, u, i)
  <2>0. PICK i \in {0, 1} : t = PaidBack(c, u, i)
    BY <1>4
  <2>1. PICK m, l : m = c.cash + 1 + i /\ l = c.lent - 1
    OBVIOUS
  <2>2. m \in Nat /\ l \in Int
    BY <1>1, <2>1
  <2>3. PICK d : d = [c EXCEPT !.cash = m, !.lent = l, !.lendAt = c.block]
    OBVIOUS
  <2>4. t = Becomes(d, Emits("RepayBorrow", u, Pool, 1, 0))
    BY <2>0, <2>1, <2>3 DEF PaidBack
  <2> QED
    BY <1>2, <2>2, <2>3, <2>4, PoolPaid
<1> QED
  BY <1>3, <1>4

(* A transaction does what its event tells. *)
LEMMA PoolTells ==
  ASSUME NEW c, PoolSound(c), NEW issuer \in {Pool, Zero}, NEW t \in PoolTransactions(c, issuer)
  PROVE  LendingTold(c, t)
<1>1. CASE \E u \in User : t = Issued(c, issuer, u)
  BY <1>1, PoolIssued
<1>2. CASE \E u \in User : c.held[u] > 0 /\ c.cash > 0 /\ t = Redeemed(c, u, issuer)
  BY <1>2, PoolRedeemed
<1>3. CASE \E u \in User : (t = Lent(c, u) /\ c.cash > 0) \/ \E i \in {0, 1} : t = PaidBack(c, u, i)
  BY <1>3, PoolLends
<1>4. CASE \E u \in User, x \in Account : c.held[u] > 0 /\ t = Sent(c, u, x)
  BY <1>4, PoolSent
<1> QED
  BY <1>1, <1>2, <1>3, <1>4 DEF PoolTransactions, Account

------------------------------------------------------------------------------
(* The index of a lending pool. *)

PoolRead == [balance : Nat, supplied : Nat]

(* The one pool; and every account with a position is valid or not, the    *)
(* contract itself alone not.                                              *)
PoolIndexed(ix) ==
  /\ {"pool", "positions", "invalid", "versions"} \subseteq DOMAIN ix
  /\ ix.pool \in Seq(PoolRead) /\ Len(ix.pool) = 1
  /\ DOMAIN ix.positions \subseteq Account /\ DOMAIN ix.positions \subseteq DOMAIN ix.invalid
  /\ \A u \in DOMAIN ix.invalid : ix.invalid[u] = IF u = Pool THEN TRUE ELSE FALSE

(* jx has read u, and the pool, from the contract. *)
PairRead(ix, u, c, jx) ==
  /\ PoolIndexed(jx)
  /\ DOMAIN ix.invalid \subseteq DOMAIN jx.invalid /\ jx.versions = ix.versions
  /\ DOMAIN jx.positions = DOMAIN ix.positions \cup {u}
  /\ jx.pool[1] = [balance |-> c.cash, supplied |-> c.supply]
  /\ Load(jx.positions, u, 0) = c.held[u]
  /\ \A v : v # u => Load(jx.positions, v, 0) = Load(ix.positions, v, 0)

(* A pool of one, read anew. *)
LEMMA PoolOfOne ==
  ASSUME NEW p \in Seq(PoolRead), Len(p) = 1, NEW r \in PoolRead, NEW q, q = <<r>> \/ q = [p EXCEPT ![1] = r]
  PROVE  q \in Seq(PoolRead) /\ Len(q) = 1 /\ q[1] = r
<1>1. CASE q = <<r>>
  BY <1>1
<1>2. CASE q = [p EXCEPT ![1] = r]
  <2>1. 1 \in 1..Len(p)
    OBVIOUS
  <2>2. /\ [p EXCEPT ![1] = r] \in Seq(PoolRead) /\ Len([p EXCEPT ![1] = r]) = Len(p)
        /\ \A j \in 1..Len(p) : [p EXCEPT ![1] = r][j] = IF j = 1 THEN r ELSE p[j]
    BY <2>1, ExceptSeq
  <2> QED
    BY <1>2, <2>1, <2>2
<1> QED
  BY <1>1, <1>2

(* A position is read from the contract, and nothing else changes. *)
LEMMA PositionRead ==
  ASSUME NEW ix, PoolIndexed(ix), NEW c, PoolSound(c), NEW u \in Account, u = Pool => Pool \in DOMAIN ix.invalid,
         NEW jx, jx = ShoebillTokenPosition(ix, u, c) \/ jx = ExampleTokenPosition(ix, u, c)
  PROVE  PairRead(ix, u, c, jx)
<1>1. /\ {"pool", "positions", "invalid", "versions"} \subseteq DOMAIN ix
      /\ ix.pool \in Seq(PoolRead) /\ Len(ix.pool) = 1
      /\ DOMAIN ix.positions \subseteq Account /\ DOMAIN ix.positions \subseteq DOMAIN ix.invalid
      /\ \A v \in DOMAIN ix.invalid : ix.invalid[v] = IF v = Pool THEN TRUE ELSE FALSE
  BY DEF PoolIndexed
<1>2. PICK r : r = [balance |-> c.cash, supplied |-> c.supply]
  OBVIOUS
<1>3. c.held \in [Account -> Nat] /\ c.supply \in Nat /\ c.cash \in Nat
  <2>1. c.held \in [Account -> Nat] /\ SumOver(c.held, Account) = c.supply /\ c.cash \in Nat
    BY DEF PoolSound, PoolChains
  <2>2. \A x \in Account : c.held[x] \in Nat
    BY <2>1
  <2> QED
    BY <2>1, <2>2, AccountsFinite, SumIsNumber
<1>4. r \in PoolRead
  BY <1>2, <1>3 DEF PoolRead
<1>5. PICK iv : iv = Save(ix.invalid, u, Load(ix.invalid, u, FALSE))
  OBVIOUS
<1>6. PICK ps : ps = Save(ix.positions, u, c.held[u])
  OBVIOUS
<1>7. /\ {"pool", "positions", "invalid", "versions"} \subseteq DOMAIN jx /\ jx.invalid = iv /\ jx.positions = ps
      /\ jx.versions = ix.versions
      /\ jx.pool = <<r>> \/ jx.pool = [ix.pool EXCEPT ![1] = r]
  <2>1. CASE jx = ShoebillTokenPosition(ix, u, c)
    BY <1>1, <1>2, <1>5, <1>6, <2>1 DEF ShoebillTokenPosition, UpdateUserBalance
  <2>2. CASE jx = ExampleTokenPosition(ix, u, c)
    BY <1>1, <1>2, <1>5, <1>6, <2>2 DEF ExampleTokenPosition, UpdateUserBalance
  <2> QED
    BY <2>1, <2>2
<1>8. jx.pool \in Seq(PoolRead) /\ Len(jx.pool) = 1 /\ jx.pool[1] = r
  BY <1>1, <1>4, <1>7, PoolOfOne
<1>9. DOMAIN iv = DOMAIN ix.invalid \cup {u} /\ \A v \in DOMAIN iv : iv[v] = IF v = Pool THEN TRUE ELSE FALSE
  <2>1. DOMAIN iv = DOMAIN ix.invalid \cup {u}
    BY <1>5 DEF Save
  <2>2. \A v \in DOMAIN iv : v # u => iv[v] = ix.invalid[v]
    BY <1>5 DEF Save
  <2>3. iv[u] = Load(ix.invalid, u, FALSE)
    BY <1>5, <2>1 DEF Save
  <2>4. iv[u] = IF u = Pool THEN TRUE ELSE FALSE
    BY <1>1, <2>3 DEF Load
  <2>5. ASSUME NEW v \in DOMAIN iv PROVE iv[v] = IF v = Pool THEN TRUE ELSE FALSE
    <3>1. CASE v = u
      BY <2>4, <3>1
    <3>2. CASE v # u
      BY <1>1, <2>1, <2>2, <3>2
    <3> QED
      BY <3>1, <3>2
  <2> QED
    BY <2>1, <2>5
<1>10. /\ DOMAIN ps = DOMAIN ix.positions \cup {u} /\ Load(ps, u, 0) = c.held[u]
       /\ \A v : v # u => Load(ps, v, 0) = Load(ix.positions, v, 0)
  BY <1>6 DEF Save, Load
<1>11. PoolIndexed(jx)
  BY <1>1, <1>7, <1>8, <1>9, <1>10 DEF PoolIndexed
<1> QED
  BY <1>2, <1>7, <1>8, <1>9, <1>10, <1>11 DEF PairRead

(* The pool is known to the index, and not valid itself. *)
LEMMA PoolKnownKeeps ==
  ASSUME NEW ix, PoolIndexed(ix), NEW jx, jx = PoolKnown(ix)
  PROVE  /\ PoolIndexed(jx) /\ Pool \in DOMAIN jx.invalid /\ jx.positions = ix.positions /\ jx.pool = ix.pool
         /\ jx.versions = ix.versions
<1>1. /\ {"pool", "positions", "invalid", "versions"} \subseteq DOMAIN ix
      /\ ix.pool \in Seq(PoolRead) /\ Len(ix.pool) = 1
      /\ DOMAIN ix.positions \subseteq Account /\ DOMAIN ix.positions \subseteq DOMAIN ix.invalid
      /\ \A v \in DOMAIN ix.invalid : ix.invalid[v] = IF v = Pool THEN TRUE ELSE FALSE
  BY DEF PoolIndexed
<1>2. PICK iv : iv = Save(ix.invalid, Pool, TRUE)
  OBVIOUS
<1>3. ix.pool # <<>>
  <2>1. Len(<<>>) = 0 /\ Len(ix.pool) = 1
    BY <1>1, EmptySeq
  <2> QED
    BY <2>1
<1>4. /\ {"pool", "positions", "invalid", "versions"} \subseteq DOMAIN jx /\ jx.invalid = iv
      /\ jx.positions = ix.positions /\ jx.pool = ix.pool /\ jx.versions = ix.versions
  BY <1>1, <1>2, <1>3 DEF PoolKnown, SetUserInvalid
<1>5. /\ DOMAIN iv = DOMAIN ix.invalid \cup {Pool}
      /\ \A v \in DOMAIN iv : iv[v] = IF v = Pool THEN TRUE ELSE FALSE
  BY <1>1, <1>2 DEF Save
<1> QED
  BY <1>1, <1>4, <1>5 DEF PoolIndexed

(* A transfer is read: both ends, if they are users, and the pool. *)
TransferRead(ix, e, c, jx) ==
  /\ PoolIndexed(jx) /\ jx.versions = ix.versions
  /\ jx.pool[1] = [balance |-> c.cash, supplied |-> c.supply]
  /\ \A u \in User : \/ u \in {e.from, e.to} /\ Load(jx.positions, u, 0) = c.held[u]
                     \/ u \notin {e.from, e.to} /\ Load(jx.positions, u, 0) = Load(ix.positions, u, 0)
(* One end. *)
EndRead(ix, u, c, jx) == jx = ix \/ PairRead(ix, u, c, jx)

(* A transfer has both its ends read, and in Shoebill's not the contract's *)
(* own.                                                                    *)
LEMMA EndsRead ==
  ASSUME NEW ix, PoolIndexed(ix), NEW c, PoolSound(c), NEW e, IsPoolEvent(e), e.kind = "Transfer",
         NEW jx, jx = ShoebillTransfer(ix, e, c) \/ jx = ExampleTransfer(ix, e, c)
  PROVE  /\ TransferRead(ix, e, c, jx)
         /\ jx = ShoebillTransfer(ix, e, c) /\ Pool \notin DOMAIN ix.positions => Pool \notin DOMAIN jx.positions
<1>1. PICK kx : kx = PoolKnown(ix)
  OBVIOUS
<1>2. /\ PoolIndexed(kx) /\ Pool \in DOMAIN kx.invalid /\ kx.positions = ix.positions
      /\ kx.versions = ix.versions
  BY <1>1, PoolKnownKeeps
<1>3. {e.from, e.to} \subseteq Account \cup {Zero} /\ {e.from, e.to} \cap User # {}
  BY DEF IsPoolEvent
<1>4. Zero \notin User /\ Pool \notin User
  BY AddressAssumption
<1>5. PICK mx : /\ EndRead(kx, e.from, c, mx) /\ EndRead(mx, e.to, c, jx)
                /\ e.from \in User => PairRead(kx, e.from, c, mx)
                /\ e.to \in User => PairRead(mx, e.to, c, jx)
                /\ jx = ShoebillTransfer(ix, e, c) =>
                     (e.from = Pool => mx = kx) /\ (e.to = Pool => jx = mx)
  <2>1. CASE jx = ShoebillTransfer(ix, e, c)
    <3>1. PICK mx : mx = IF e.from \in {Zero, Pool} THEN kx ELSE ShoebillTokenPosition(kx, e.from, c)
      OBVIOUS
    <3>2. jx = IF e.to \in {Zero, Pool} THEN mx ELSE ShoebillTokenPosition(mx, e.to, c)
      BY <1>1, <2>1, <3>1 DEF ShoebillTransfer
    <3>3. EndRead(kx, e.from, c, mx) /\ (e.from \in User => PairRead(kx, e.from, c, mx))
      BY <1>2, <1>3, <1>4, <3>1, PositionRead DEF EndRead, Account
    <3>4. PoolIndexed(mx) /\ Pool \in DOMAIN mx.invalid
      BY <1>2, <3>3 DEF EndRead, PairRead
    <3>5. EndRead(mx, e.to, c, jx) /\ (e.to \in User => PairRead(mx, e.to, c, jx))
      BY <1>3, <1>4, <3>2, <3>4, PositionRead DEF EndRead, Account
    <3>6. (e.from = Pool => mx = kx) /\ (e.to = Pool => jx = mx)
      BY <3>1, <3>2
    <3> QED
      BY <3>3, <3>5, <3>6
  <2>2. CASE jx = ExampleTransfer(ix, e, c) /\ jx # ShoebillTransfer(ix, e, c)
    <3>1. PICK mx : mx = IF e.from = Zero THEN kx ELSE ExampleTokenPosition(kx, e.from, c)
      OBVIOUS
    <3>2. jx = IF e.to = Zero THEN mx ELSE ExampleTokenPosition(mx, e.to, c)
      BY <1>1, <2>2, <3>1 DEF ExampleTransfer
    <3>3. EndRead(kx, e.from, c, mx) /\ (e.from \in User => PairRead(kx, e.from, c, mx))
      BY <1>2, <1>3, <1>4, <3>1, PositionRead DEF EndRead, Account
    <3>4. PoolIndexed(mx) /\ Pool \in DOMAIN mx.invalid
      BY <1>2, <3>3 DEF EndRead, PairRead
    <3>5. EndRead(mx, e.to, c, jx) /\ (e.to \in User => PairRead(mx, e.to, c, jx))
      BY <1>3, <1>4, <3>2, <3>4, PositionRead DEF EndRead, Account
    <3> QED
      BY <2>2, <3>3, <3>5
  <2> QED
    BY <2>1, <2>2
<1>6. PoolIndexed(mx) /\ PoolIndexed(jx) /\ jx.versions = ix.versions
  BY <1>2, <1>5 DEF EndRead, PairRead
<1>7. jx.pool[1] = [balance |-> c.cash, supplied |-> c.supply]
  <2>1. CASE e.to \in User
    BY <1>5, <2>1 DEF PairRead
  <2>2. CASE e.to \notin User
    <3>1. e.from \in User
      BY <1>3, <2>2
    <3> QED
      BY <1>5, <3>1 DEF EndRead, PairRead
  <2> QED
    BY <2>1, <2>2
<1>8. ASSUME NEW u \in User
      PROVE  \/ u \in {e.from, e.to} /\ Load(jx.positions, u, 0) = c.held[u]
             \/ u \notin {e.from, e.to} /\ Load(jx.positions, u, 0) = Load(ix.positions, u, 0)
  <2>1. CASE u = e.to
    BY <1>5, <2>1 DEF PairRead
  <2>2. CASE u # e.to /\ u = e.from
    <3>1. Load(mx.positions, u, 0) = c.held[u]
      BY <1>5, <2>2 DEF PairRead
    <3>2. Load(jx.positions, u, 0) = Load(mx.positions, u, 0)
      BY <1>5, <2>2 DEF EndRead, PairRead
    <3> QED
      BY <2>2, <3>1, <3>2
  <2>3. CASE u # e.to /\ u # e.from
    <3>1. Load(mx.positions, u, 0) = Load(kx.positions, u, 0)
      BY <1>5, <2>3 DEF EndRead, PairRead
    <3>2. Load(jx.positions, u, 0) = Load(mx.positions, u, 0)
      BY <1>5, <2>3 DEF EndRead, PairRead
    <3> QED
      BY <1>2, <2>3, <3>1, <3>2
  <2> QED
    BY <2>1, <2>2, <2>3
<1>9. ASSUME jx = ShoebillTransfer(ix, e, c), Pool \notin DOMAIN ix.positions
      PROVE  Pool \notin DOMAIN jx.positions
  <2>1. Pool \notin DOMAIN mx.positions
    BY <1>2, <1>5, <1>9 DEF EndRead, PairRead
  <2> QED
    BY <1>5, <1>9, <2>1 DEF EndRead, PairRead
<1> QED
  BY <1>6, <1>7, <1>8, <1>9 DEF TransferRead

(* Shoebill hears of a loan or a repayment, and reads the cash. *)
LEMMA CashRead ==
  ASSUME NEW ix, PoolIndexed(ix), NEW c, PoolSound(c), NEW jx, jx = ShoebillBorrow(ix, c) \/ jx = ShoebillRepayBorrow(ix, c)
  PROVE  /\ PoolIndexed(jx) /\ jx.positions = ix.positions /\ jx.versions = ix.versions
         /\ jx.pool[1].balance = c.cash /\ jx.pool[1].supplied = ix.pool[1].supplied
<1>1. /\ {"pool", "positions", "invalid", "versions"} \subseteq DOMAIN ix
      /\ ix.pool \in Seq(PoolRead) /\ Len(ix.pool) = 1
  BY DEF PoolIndexed
<1>2. c.cash \in Nat
  BY DEF PoolSound, PoolChains
<1>3. ix.pool[1] \in PoolRead
  BY <1>1
<1>4. PICK r : r = [ix.pool[1] EXCEPT !.balance = c.cash]
  OBVIOUS
<1>5. r \in PoolRead /\ r.balance = c.cash /\ r.supplied = ix.pool[1].supplied
  BY <1>2, <1>3, <1>4 DEF PoolRead
<1>6. PICK q : q = [ix.pool EXCEPT ![1] = r]
  OBVIOUS
<1>7. q \in Seq(PoolRead) /\ Len(q) = 1 /\ q[1] = r
  BY <1>1, <1>5, <1>6, PoolOfOne
<1>8. jx = [ix EXCEPT !.pool = q]
  BY <1>4, <1>6 DEF ShoebillBorrow, ShoebillRepayBorrow
<1>9. /\ DOMAIN jx = DOMAIN ix /\ jx.pool = q /\ jx.positions = ix.positions /\ jx.invalid = ix.invalid
      /\ jx.versions = ix.versions
  BY <1>1, <1>8
<1> QED
  BY <1>5, <1>7, <1>9 DEF PoolIndexed

------------------------------------------------------------------------------
(* The lending pools. *)

Moving(q) == \E e \in Range(q) : e.kind = "Transfer"
Touches(q, u) == \E e \in Range(q) : e.kind = "Transfer" /\ u \in {e.from, e.to}

(* What a version has of the users is no more than was issued.             *)
Shown(v) == {u \in DOMAIN v.positions : ~v.invalid[u]}
VersionRight(v) ==
  /\ IsFiniteSet(Shown(v)) /\ \A u \in Shown(v) : v.positions[u] \in Nat
  /\ v.supplied \in Nat /\ SumOver(v.positions, Shown(v)) <= v.supplied

(* What the index has is the contract's, but for what waits in the queue,  *)
(* and so is what it had, but in the version of a block whose transfers    *)
(* wait still;                                                             *)
(* the sample's cash waits for a transfer, and a transfer of this block    *)
(* for the block's end.                                                    *)
PoolInv ==
  /\ PoolSound(chain) /\ PoolIndexed(index)
  /\ \A e \in Range(queue) : IsPoolEvent(e) /\ e.block = chain.block
  /\ \A b \in DOMAIN index.versions : VersionRight(index.versions[b]) \/ (b = chain.block /\ Moving(queue))
  /\ protocol = "shoebill" => Pool \notin DOMAIN index.positions /\ DOMAIN index.versions = {}
  /\ \A u \in User : Load(index.positions, u, 0) = chain.held[u] \/ Touches(queue, u)
  /\ index.pool[1].supplied = chain.supply \/ Moving(queue)
  /\ protocol = "shoebill" => index.pool[1].balance = chain.cash \/ Range(queue) # {}
  /\ protocol = "example" => index.pool[1].balance = chain.cash \/ chain.lendAt > chain.moveAt \/ Moving(queue)
  /\ ~sealed /\ chain.moveAt = chain.block => Moving(queue)

(* The lending pools' invariant holds at the start. *)
LEMMA PoolsStart ==
  ASSUME IndexInit, protocol \in {"shoebill", "example"}
  PROVE  PoolInv
<1>1. chain = PoolChain /\ queue = <<>> /\ (index = ShoebillIndex \/ index = ExampleIndex)
  BY DEF IndexInit, FirstChain, FirstIndex
<1>2. PICK r : r = [balance |-> PoolChain.cash, supplied |-> PoolChain.supply]
  OBVIOUS
<1>3. r.balance = 0 /\ r.supplied = 0 /\ r \in PoolRead
  BY <1>2 DEF PoolChain, PoolRead
<1>4. index = [pool |-> <<r>>, positions |-> Nothing, invalid |-> Nothing, versions |-> Nothing]
  <2>1. NoIndex.pool = <<>>
    BY DEF NoIndex
  <2>2. index = [NoIndex EXCEPT !.pool = <<r>>]
    <3>1. CASE index = ShoebillIndex
      BY <1>2, <2>1, <3>1 DEF ShoebillIndex, ShoebillMarketListed
    <3>2. CASE index = ExampleIndex
      BY <1>2, <2>1, <3>2 DEF ExampleIndex, ExampleMarketListed
    <3> QED
      BY <1>1, <3>1, <3>2
  <2> QED
    BY <2>2 DEF NoIndex
<1>5. <<r>> \in Seq(PoolRead) /\ Len(<<r>>) = 1 /\ <<r>>[1] = r
  BY <1>3
<1>6. /\ {"pool", "positions", "invalid", "versions"} \subseteq DOMAIN index /\ index.pool = <<r>>
      /\ index.positions = Nothing /\ index.invalid = Nothing /\ index.versions = Nothing
  BY <1>4
<1>7. PoolIndexed(index)
  BY <1>5, <1>6 DEF PoolIndexed, Nothing
<1>8. \A u : Load(index.positions, u, 0) = 0
  BY <1>6 DEF Load, Nothing
<1>9. /\ chain \in PoolChains /\ chain.supply = 0 /\ chain.cash = 0 /\ chain.moveAt = 0 /\ chain.block = 1
      /\ \A u \in Account : chain.held[u] = 0
  BY <1>1 DEF PoolChain, PoolChains, Account
<1>10. SumOver(chain.held, Account) = 0
  <2>1. SumOver(chain.held, Account) = 0 * Cardinality(Account)
    BY <1>9, AccountsFinite, SumOfEqual
  <2>2. Cardinality(Account) \in Nat
    BY AccountsFinite, FS_CardinalityType
  <2> QED
    BY <2>1, <2>2
<1>11. PoolSound(chain)
  BY <1>9, <1>10 DEF PoolSound
<1>12. Range(queue) = {}
  BY <1>1 DEF Range
<1>13. index.pool[1].balance = chain.cash /\ index.pool[1].supplied = chain.supply
  BY <1>3, <1>5, <1>6, <1>9
<1>14. \A u \in User : Load(index.positions, u, 0) = chain.held[u]
  BY <1>8, <1>9, AccountsFinite
<1>15. DOMAIN index.versions = {} /\ DOMAIN index.positions = {}
  BY <1>6 DEF Nothing
<1> QED
  BY <1>15, <1>7, <1>9, <1>11, <1>12, <1>13, <1>14 DEF PoolInv

(* A transaction. *)
LEMMA PoolTransacts ==
  ASSUME Waits, protocol \in {"shoebill", "example"}, PoolInv, Transact
  PROVE  PoolInv'
<1>1. PICK issuer \in {Pool, Zero} : Transactions = PoolTransactions(chain, issuer)
  BY DEF Transactions
<1>2. \A t \in Transactions : t.events \in Seq(Range(t.events))
  BY AllEmit DEF Waits
<1>3. PICK t \in Transactions : chain' = t.chain /\ Lengthened(queue, t.events, chain.block, txs + 1, queue')
  BY <1>2, Transacts DEF Waits
<1>4. index' = index /\ protocol' = protocol /\ ~sealed /\ sealed' = sealed
  BY DEF Transact
<1>5. LendingTold(chain, t)
  BY <1>1, PoolTells DEF PoolInv
<1>6. PoolSound(chain') /\ chain'.block = chain.block
  BY <1>3, <1>5 DEF LendingTold
<1>7. PICK e : Range(t.events) = {e} /\ IsPoolEvent(e) /\ PoolChanged(chain, chain', e)
  BY <1>3, <1>5 DEF LendingTold
<1>8. /\ Range(queue) \subseteq Range(queue')
      /\ \A f \in Range(t.events) : \E st \in Range(queue'), l \in Nat : st = Stamp(f, chain.block, txs + 1, l)
      /\ \A st \in Range(queue') : st \in Range(queue) \/ \E f \in Range(t.events), l \in Nat : st = Stamp(f, chain.block, txs + 1, l)
  BY <1>3, WaitingGrows
<1>9. ASSUME NEW st, NEW l \in Nat, st = Stamp(e, chain.block, txs + 1, l)
      PROVE  IsPoolEvent(st) /\ st.block = chain.block /\ st.kind = e.kind /\ st.from = e.from /\ st.to = e.to
  <2>0. st.block = chain.block
    BY <1>9 DEF Stamp
  <2>1. \A f \in DOMAIN e : f \in DOMAIN st /\ (f \notin {"block", "tx", "log"} => st[f] = e[f])
    BY <1>9, StampSame
  <2>2. Has(e, Plain)
    BY <1>7 DEF IsPoolEvent
  <2>3. Has(st, Plain) /\ st.kind = e.kind /\ st.from = e.from /\ st.to = e.to
    BY <2>1, <2>2 DEF Has, Plain
  <2> QED
    BY <1>7, <2>0, <2>3 DEF IsPoolEvent
<1>10. PICK st \in Range(queue') : IsPoolEvent(st) /\ st.kind = e.kind /\ st.from = e.from /\ st.to = e.to
  BY <1>7, <1>8, <1>9
<1>11. \A f \in Range(queue') : IsPoolEvent(f) /\ f.block = chain'.block
  BY <1>6, <1>7, <1>8, <1>9 DEF PoolInv
<1>15. /\ \A b \in DOMAIN index'.versions : VersionRight(index'.versions[b]) \/ (b = chain'.block /\ Moving(queue'))
       /\ protocol' = "shoebill" => Pool \notin DOMAIN index'.positions /\ DOMAIN index'.versions = {}
  <2>1. Moving(queue) => Moving(queue')
    BY <1>8 DEF Moving
  <2> QED
    BY <1>4, <1>6, <2>1 DEF PoolInv
<1>12. ASSUME NEW u \in User PROVE Load(index'.positions, u, 0) = chain'.held[u] \/ Touches(queue', u)
  <2>1. CASE e.kind = "Transfer" /\ u \in {e.from, e.to}
    BY <1>10, <2>1 DEF Touches
  <2>2. CASE ~(e.kind = "Transfer" /\ u \in {e.from, e.to})
    <3>1. chain'.held[u] = chain.held[u]
      BY <1>7, <2>2 DEF PoolChanged
    <3>2. Load(index.positions, u, 0) = chain.held[u] \/ Touches(queue, u)
      BY DEF PoolInv
    <3> QED
      BY <1>4, <1>8, <3>1, <3>2 DEF Touches
  <2> QED
    BY <2>1, <2>2
<1>13. CASE e.kind = "Transfer"
  <2>1. Moving(queue') /\ Range(queue') # {}
    BY <1>10, <1>13 DEF Moving
  <2> QED
    BY <1>4, <1>6, <1>11, <1>12, <1>15, <2>1 DEF PoolInv
<1>14. CASE e.kind # "Transfer"
  <2>1. chain'.supply = chain.supply /\ chain'.moveAt = chain.moveAt /\ chain'.lendAt = chain.block
    BY <1>7, <1>14 DEF PoolChanged
  <2>2. Moving(queue) => Moving(queue')
    BY <1>8 DEF Moving
  <2>3. Range(queue') # {}
    BY <1>10
  <2>4. chain.moveAt = chain.block \/ chain.block > chain.moveAt
    BY DEF PoolInv, PoolSound, PoolChains
  <2>5. chain'.lendAt > chain'.moveAt \/ Moving(queue')
    BY <1>4, <2>1, <2>2, <2>4 DEF PoolInv
  <2>6. index'.pool[1].supplied = chain'.supply \/ Moving(queue')
    BY <1>4, <2>1, <2>2 DEF PoolInv
  <2>7. ~sealed' /\ chain'.moveAt = chain'.block => Moving(queue')
    BY <1>4, <1>6, <2>1, <2>2 DEF PoolInv
  <2> QED
    BY <1>4, <1>6, <1>11, <1>12, <1>15, <2>3, <2>5, <2>6, <2>7 DEF PoolInv
<1> QED
  BY <1>13, <1>14

(* A version of the index that has of every user what the contract has.    *)
LEMMA VersionOfIndex ==
  ASSUME NEW ix, PoolIndexed(ix), NEW c, PoolSound(c), ix.pool[1].supplied = c.supply,
         \A u \in User : Load(ix.positions, u, 0) = c.held[u]
  PROVE  VersionRight(Version(ix))
<1>1. /\ ix.pool \in Seq(PoolRead) /\ Len(ix.pool) = 1
      /\ DOMAIN ix.positions \subseteq Account /\ DOMAIN ix.positions \subseteq DOMAIN ix.invalid
      /\ \A u \in DOMAIN ix.invalid : ix.invalid[u] = IF u = Pool THEN TRUE ELSE FALSE
  BY DEF PoolIndexed
<1>2. PICK v : v = Version(ix)
  OBVIOUS
<1>3. v.positions = ix.positions /\ v.invalid = ix.invalid /\ v.supplied = c.supply
  BY <1>2 DEF Version
<1>4. PICK D : D = Shown(v)
  OBVIOUS
<1>5. D = DOMAIN ix.positions \ {Pool} /\ D \subseteq User /\ D \in SUBSET Account /\ IsFiniteSet(D)
  <2>1. \A u \in DOMAIN ix.positions : ~ix.invalid[u] <=> u # Pool
    BY <1>1
  <2>2. D = DOMAIN ix.positions \ {Pool}
    BY <1>3, <1>4, <2>1 DEF Shown
  <2>3. D \subseteq User /\ D \in SUBSET Account
    BY <1>1, <2>2 DEF Account
  <2> QED
    BY <2>2, <2>3, AddressAssumption, FS_Subset
<1>6. c.held \in [Account -> Nat] /\ SumOver(c.held, Account) = c.supply
  BY DEF PoolSound, PoolChains
<1>7. \A u \in D : ix.positions[u] \in Nat /\ ix.positions[u] = c.held[u]
  BY <1>5, <1>6, AccountsFinite DEF Load
<1>8. SumOver(ix.positions, D) <= SumOver(c.held, Account)
  <2>1. \A x \in D : ix.positions[x] \in Nat /\ ix.positions[x] <= c.held[x]
    BY <1>7
  <2>2. \A x \in Account : c.held[x] \in Nat
    BY <1>6
  <2> QED
    BY <1>5, <2>1, <2>2, AccountsFinite, SumLeq
<1>9. c.supply \in Nat
  <2>1. \A x \in Account : c.held[x] \in Nat
    BY <1>6
  <2> QED
    BY <1>6, <2>1, AccountsFinite, SumIsNumber
<1> QED
  BY <1>2, <1>3, <1>4, <1>5, <1>6, <1>7, <1>8, <1>9 DEF VersionRight

(* An event is handled. *)
LEMMA PoolHandles ==
  ASSUME Waits, protocol \in {"shoebill", "example"}, PoolInv, Handle
  PROVE  PoolInv'
<1>1. /\ queue # <<>> /\ queue' = Tail(queue) /\ chain' = chain /\ index' = HandledBy(Head(queue))
      /\ sealed /\ sealed' = sealed /\ protocol' = protocol
  BY DEF Handle
<1>2. PICK e : e = Head(queue)
  OBVIOUS
<1>3. Range(queue) = {e} \cup Range(queue')
  BY <1>1, <1>2, WaitingShrinks DEF Waits
<1>4. /\ IsPoolEvent(e) /\ e.block = chain.block
      /\ \A f \in Range(queue') : IsPoolEvent(f) /\ f.block = chain.block
  BY <1>3 DEF PoolInv
<1>5. /\ protocol = "shoebill" => index' = ShoebillHandled(index, e, chain)
      /\ protocol = "example" => index' = ExampleHandled(index, e, chain)
  BY <1>1, <1>2 DEF HandledBy
<1>6. PoolIndexed(index) /\ PoolSound(chain)
  BY DEF PoolInv
<1>7. CASE e.kind = "Transfer"
  <2>0. PICK kx : kx = IF protocol = "shoebill" THEN ShoebillTransfer(index, e, chain) ELSE ExampleTransfer(index, e, chain)
    OBVIOUS
  <2>1. index' = IF protocol = "shoebill" THEN kx ELSE Versioned(kx, e.block)
    BY <1>5, <1>7, <2>0 DEF ShoebillHandled, ExampleHandled
  <2>5. /\ TransferRead(index, e, chain, kx)
        /\ protocol = "shoebill" /\ Pool \notin DOMAIN index.positions => Pool \notin DOMAIN kx.positions
    BY <1>4, <1>6, <1>7, <2>0, EndsRead
  <2>6. PoolIndexed(kx) /\ kx.versions = index.versions
    BY <2>5 DEF TransferRead
  <2>7. /\ DOMAIN index' = DOMAIN kx
        /\ index'.pool = kx.pool /\ index'.positions = kx.positions /\ index'.invalid = kx.invalid
        /\ index'.versions = IF protocol = "shoebill" THEN index.versions ELSE Save(index.versions, e.block, Version(kx))
    <3>1. {"pool", "positions", "invalid", "versions"} \subseteq DOMAIN kx
      BY <2>6 DEF PoolIndexed
    <3> QED
      BY <2>1, <2>6, <3>1 DEF Versioned
  <2>2. PoolIndexed(index')
    BY <2>6, <2>7 DEF PoolIndexed
  <2>3. PoolIndexed(index') /\ index'.pool[1].balance = chain.cash /\ index'.pool[1].supplied = chain.supply
    <3>1. kx.pool[1] = [balance |-> chain.cash, supplied |-> chain.supply]
      BY <2>5 DEF TransferRead
    <3> QED
      BY <2>2, <2>7, <3>1
  <2>4. ASSUME NEW u \in User PROVE Load(index'.positions, u, 0) = chain.held[u] \/ Touches(queue', u)
    <3>1. \/ u \in {e.from, e.to} /\ Load(index'.positions, u, 0) = chain.held[u]
          \/ u \notin {e.from, e.to} /\ Load(index'.positions, u, 0) = Load(index.positions, u, 0)
      BY <2>5, <2>7 DEF TransferRead
    <3>2. Load(index.positions, u, 0) = chain.held[u] \/ Touches(queue, u)
      BY DEF PoolInv
    <3>3. u \notin {e.from, e.to} /\ Touches(queue, u) => Touches(queue', u)
      BY <1>3 DEF Touches
    <3> QED
      BY <3>1, <3>2, <3>3
  <2>8. ASSUME NEW b \in DOMAIN index'.versions
        PROVE  VersionRight(index'.versions[b]) \/ (b = chain.block /\ Moving(queue'))
    <3>1. CASE protocol # "shoebill" /\ b = e.block
      <4>1. index'.versions[b] = Version(kx)
        BY <2>7, <3>1 DEF Save
      <4>2. ASSUME ~Moving(queue') PROVE VersionRight(Version(kx))
        <5>1. \A u \in User : Load(kx.positions, u, 0) = chain.held[u]
          BY <2>4, <2>7, <4>2 DEF Touches, Moving
        <5>2. kx.pool[1].supplied = chain.supply
          BY <2>3, <2>7
        <5> QED
          BY <1>6, <2>6, <5>1, <5>2, VersionOfIndex
      <4> QED
        BY <1>4, <3>1, <4>1, <4>2
    <3>2. CASE ~(protocol # "shoebill" /\ b = e.block)
      <4>1. b \in DOMAIN index.versions /\ index'.versions[b] = index.versions[b]
        BY <2>7, <3>2 DEF Save
      <4>2. CASE protocol # "shoebill"
        BY <1>4, <3>2, <4>1, <4>2 DEF PoolInv
      <4>3. CASE protocol = "shoebill"
        BY <2>7, <4>3 DEF PoolInv
      <4> QED
        BY <4>2, <4>3
    <3> QED
      BY <3>1, <3>2
  <2>9. protocol = "shoebill" => Pool \notin DOMAIN index'.positions /\ DOMAIN index'.versions = {}
    BY <2>5, <2>7 DEF PoolInv
  <2> QED
    BY <1>1, <1>4, <1>6, <2>3, <2>4, <2>8, <2>9 DEF PoolInv
<1>8. CASE e.kind # "Transfer"
  <2>1. Moving(queue) => Moving(queue')
    BY <1>3, <1>8 DEF Moving
  <2>2. \A u : Touches(queue, u) => Touches(queue', u)
    BY <1>3, <1>8 DEF Touches
  <2>3. CASE protocol = "example"
    <3>1. index' = index
      BY <1>5, <1>8, <2>3 DEF ExampleHandled
    <3> QED
      BY <1>1, <1>4, <2>1, <2>2, <2>3, <3>1 DEF PoolInv
  <2>4. CASE protocol = "shoebill"
    <3>1. index' = ShoebillBorrow(index, chain) \/ index' = ShoebillRepayBorrow(index, chain)
      <4>1. index' = ShoebillHandled(index, e, chain)
        BY <1>5, <2>4
      <4>2. e.kind = "Borrow" \/ e.kind = "RepayBorrow"
        BY <1>4, <1>8 DEF IsPoolEvent
      <4> QED
        BY <4>1, <4>2 DEF ShoebillHandled
    <3>2. /\ PoolIndexed(index') /\ index'.positions = index.positions /\ index'.versions = index.versions
          /\ index'.pool[1].balance = chain.cash /\ index'.pool[1].supplied = index.pool[1].supplied
      BY <1>6, <3>1, CashRead
    <3> QED
      BY <1>1, <1>4, <1>6, <2>1, <2>2, <2>4, <3>2 DEF PoolInv
  <2> QED
    BY <2>3, <2>4
<1> QED
  BY <1>7, <1>8

(* Every step keeps the lending pools' invariant. *)
LEMMA PoolStep ==
  ASSUME Waits, protocol \in {"shoebill", "example"}, PoolInv, IndexNext
  PROVE  PoolInv'
<1>1. CASE Transact
  BY <1>1, PoolTransacts
<1>2. CASE Handle
  BY <1>2, PoolHandles
<1>3. CASE Seal
  <2>1. chain' = chain /\ queue' = queue /\ index' = index /\ protocol' = protocol /\ sealed' = TRUE
    BY <1>3 DEF Seal
  <2> QED
    BY <2>1 DEF PoolInv, Touches, Moving
<1>4. CASE NextBlock
  <2>1. chain' = [chain EXCEPT !.block = @ + 1] /\ queue' = queue /\ index' = index /\ protocol' = protocol
    BY <1>4 DEF NextBlock
  <2>2. PICK b : b = chain.block + 1
    OBVIOUS
  <2>3. chain \in PoolChains /\ chain.block \in Int /\ chain.moveAt \in Int /\ chain.moveAt <= chain.block
    BY DEF PoolInv, PoolSound, PoolChains
  <2>4. b \in Int /\ chain.moveAt <= b /\ chain.moveAt # b
    BY <2>2, <2>3
  <2>5. chain' = [chain EXCEPT !.block = b]
    BY <2>1, <2>2
  <2>6. /\ chain' \in PoolChains /\ chain'.block = b /\ chain'.held = chain.held /\ chain'.supply = chain.supply
        /\ chain'.cash = chain.cash /\ chain'.moveAt = chain.moveAt /\ chain'.lendAt = chain.lendAt
    BY <2>3, <2>4, <2>5 DEF PoolChains
  <2>7. PoolSound(chain')
    BY <2>4, <2>6 DEF PoolSound, PoolInv
  <2>8. Range(queue) = {}
    <3>1. queue = <<>>
      BY <1>4 DEF NextBlock
    <3> QED
      BY <3>1 DEF Range
  <2> QED
    BY <2>1, <2>4, <2>6, <2>7, <2>8 DEF PoolInv, Touches, Moving
<1> QED
  BY <1>1, <1>2, <1>3, <1>4 DEF IndexNext

(* What is said of a pool once the queue is empty. *)
LEMMA PoolsMatched ==
  ASSUME PoolInv, queue = <<>>, protocol \in {"shoebill", "example"},
         NEW report, \/ report = ExampleReport(index, index)
                     \/ report = ShoebillReport(index) /\ Pool \notin DOMAIN index.positions,
         NEW stale, stale \/ index.pool[1].balance = chain.cash
  PROVE  PoolMatches(index, chain, report, stale)
<1>1. Range(queue) = {}
  BY DEF Range
<1>2. /\ \A u \in User : Load(index.positions, u, 0) = chain.held[u]
      /\ index.pool[1].supplied = chain.supply
  BY <1>1 DEF PoolInv, Touches, Moving
<1>3. /\ index.pool \in Seq(PoolRead) /\ Len(index.pool) = 1
      /\ DOMAIN index.positions \subseteq Account /\ DOMAIN index.positions \subseteq DOMAIN index.invalid
      /\ \A u \in DOMAIN index.invalid : index.invalid[u] = IF u = Pool THEN TRUE ELSE FALSE
  BY DEF PoolInv, PoolIndexed
<1>4. chain.held \in [Account -> Nat] /\ SumOver(chain.held, Account) = chain.supply
  BY DEF PoolInv, PoolSound, PoolChains
<1>5. PICK p, t : p = index.pool[1].balance /\ t = index.pool[1].supplied
  OBVIOUS
<1>6. p \in Nat /\ t \in Nat /\ t = chain.supply
  <2>1. index.pool[1] \in PoolRead
    BY <1>3
  <2> QED
    BY <1>2, <1>5, <2>1 DEF PoolRead
<1>7. PICK D : D = DOMAIN index.positions \ {Pool}
  OBVIOUS
<1>8. D \subseteq User /\ DOMAIN report = D /\ \A u \in User \ D : chain.held[u] = 0
  <2>1. \A u \in DOMAIN index.positions : ~index.invalid[u] <=> u # Pool
    BY <1>3
  <2>2. DOMAIN report = D
    BY <1>7, <2>1 DEF ExampleReport, ShoebillReport
  <2>3. D \subseteq User
    BY <1>3, <1>7 DEF Account
  <2>4. \A u \in User \ D : chain.held[u] = 0
    BY <1>2, <1>7, AddressAssumption DEF Load
  <2> QED
    BY <2>2, <2>3, <2>4
<1>9. \A u \in D : report[u] = IF t = 0 THEN 0 ELSE (chain.held[u] * p) \div t
  <2> SUFFICES ASSUME NEW u \in D PROVE report[u] = IF t = 0 THEN 0 ELSE (chain.held[u] * p) \div t
    OBVIOUS
  <2>1. u \in DOMAIN index.positions /\ index.positions[u] = chain.held[u]
    BY <1>2, <1>7, <1>8 DEF Load
  <2>2. report[u] = ShareOf(index.pool[1], index.positions[u])
    BY <1>8 DEF ExampleReport, ShoebillReport
  <2> QED
    BY <1>5, <2>1, <2>2 DEF ShareOf
<1>10. PICK kept : kept = IF t = 0 THEN 0 ELSE (chain.held[Pool] * p) \div t
  OBVIOUS
<1>11. IsFiniteSet(D) /\ IsFiniteSet(User \ D) /\ IsFiniteSet(User) /\ Pool \notin User
  BY <1>8, AddressAssumption, FS_Subset
<1>12. CASE t = 0
  <2>1. SumOver(report, D) = 0
    <3>1. SumOver(report, D) = 0 * Cardinality(D)
      BY <1>9, <1>11, <1>12, SumOfEqual
    <3>2. Cardinality(D) \in Nat
      BY <1>11, FS_CardinalityType
    <3> QED
      BY <3>1, <3>2
  <2>2. SumOver(report, DOMAIN report) <= index.pool[1].balance
    BY <1>5, <1>6, <1>8, <2>1
  <2>3. Pool \notin DOMAIN report /\ ~(index.pool[1].supplied > 0)
    BY <1>5, <1>6, <1>8, <1>11, <1>12
  <2> QED
    BY <1>2, <2>2, <2>3 DEF PoolMatches
<1>13. CASE t # 0
  <2> DEFINE g == [x \in Account |-> (p * chain.held[x]) \div t]
  <2>1. \A x \in Account : g[x] = (p * chain.held[x]) \div t /\ chain.held[x] \in Nat
    BY <1>4
  <2>2. \A x \in Account : g[x] = (chain.held[x] * p) \div t
    <3>1. \A m \in Nat : m * p = p * m
      BY <1>6
    <3> QED
      BY <2>1, <3>1
  <2> HIDE DEF g
  <2>3. t > 0 /\ Account # {}
    BY <1>6, <1>13, AccountsFinite
  <2>4. Divided(chain.held, Account, p, t, g)
    BY <1>4, <1>6, <2>1, <2>3, AccountsFinite DEF Divided
  <2>5. /\ \A x \in Account : g[x] \in Nat
        /\ SumOver(g, Account) \in Nat /\ SumOver(g, Account) <= p
        /\ p < SumOver(g, Account) + Cardinality(Account)
    BY <2>4, DividedAddsUp
  <2>6. Cardinality(Account) = Cardinality(User) + 1 /\ Cardinality(User) \in Nat
    BY <1>11, FS_AddElement, FS_CardinalityType DEF Account
  <2>7. kept = g[Pool] /\ kept \in Nat
    BY <1>10, <1>13, <2>2, <2>5, AccountsFinite
  <2>8. SumOver(g, Account) = kept + SumOver(g, User)
    <3>1. \A x \in User \cup {Pool} : g[x] \in Nat
      BY <2>5 DEF Account
    <3> QED
      BY <1>11, <2>7, <3>1, SumAdd DEF Account
  <2>9. SumOver(g, User) = SumOver(g, D) + SumOver(g, User \ D)
    <3>1. D \cap (User \ D) = {} /\ D \cup (User \ D) = User /\ \A x \in D \cup (User \ D) : g[x] \in Nat
      BY <1>8, <2>5, AccountsFinite
    <3>2. SumOver(g, D \cup (User \ D)) = SumOver(g, D) + SumOver(g, User \ D)
      BY <1>11, <3>1, SumUnion
    <3> QED
      BY <3>1, <3>2
  <2>10. SumOver(g, User \ D) = 0
    <3>1. 0 * p = 0 /\ 0 \div t = 0
      BY <1>6, <2>3
    <3>2. \A x \in User \ D : g[x] = 0
      BY <1>8, <2>2, <3>1, AccountsFinite
    <3>3. SumOver(g, User \ D) = 0 * Cardinality(User \ D)
      BY <1>11, <3>2, SumOfEqual
    <3>4. Cardinality(User \ D) \in Nat
      BY <1>11, FS_CardinalityType
    <3> QED
      BY <3>3, <3>4
  <2>11. SumOver(report, D) = SumOver(g, D)
    <3>1. \A u \in D : report[u] \in Nat /\ report[u] = g[u]
      BY <1>8, <1>9, <1>13, <2>2, <2>5, AccountsFinite
    <3> QED
      BY <1>11, <3>1, SumSame
  <2>12. SumOver(g, D) \in Nat
    <3>1. \A x \in D : g[x] \in Nat
      BY <1>8, <2>5, AccountsFinite
    <3> QED
      BY <1>11, <3>1, SumIsNumber
  <2>13. PICK s : s = SumOver(report, DOMAIN report)
    OBVIOUS
  <2>14. s \in Nat /\ SumOver(g, Account) = kept + s
    BY <1>8, <2>8, <2>9, <2>10, <2>11, <2>12, <2>13
  <2>15. s <= p /\ p - s - kept <= Cardinality(User)
    BY <1>6, <2>5, <2>6, <2>7, <2>14
  <2>16. Pool \notin DOMAIN report
    BY <1>8, <1>11
  <2> QED
    BY <1>2, <1>5, <1>10, <2>13, <2>15, <2>16 DEF PoolMatches
<1> QED
  BY <1>12, <1>13

(* What is shared of a version by the pool of a later block. *)
LEMMA VersionsMatched ==
  ASSUME PoolInv, queue = <<>>, NEW b \in DOMAIN index.versions,
         NEW v, v = index.versions[b], NEW report, report = ExampleReport(index, v)
  PROVE  SumOver(report, DOMAIN report) * index.pool[1].supplied <= v.supplied * index.pool[1].balance
<1>1. VersionRight(v)
  BY DEF PoolInv, Moving, Range
<1>2. PICK p, t \in Nat : p = index.pool[1].balance /\ t = index.pool[1].supplied
  <2>1. index.pool[1] \in PoolRead
    BY DEF PoolInv, PoolIndexed
  <2> QED
    BY <2>1 DEF PoolRead
<1>3. DOMAIN report = Shown(v) /\ \A u \in Shown(v) : report[u] = ShareOf(index.pool[1], v.positions[u])
  BY DEF ExampleReport, Shown
<1>4. \A u \in Shown(v) : report[u] = IF t = 0 THEN 0 ELSE (v.positions[u] * p) \div t
  BY <1>2, <1>3 DEF ShareOf
<1>5. PICK D, f, s, g : D = Shown(v) /\ f = v.positions /\ s = v.supplied /\ g = report
  OBVIOUS
<1>6. IsFiniteSet(D) /\ (\A x \in D : f[x] \in Nat) /\ s \in Nat /\ SumOver(f, D) <= s
  BY <1>1, <1>5 DEF VersionRight
<1>7. \A x \in D : g[x] = IF t = 0 THEN 0 ELSE (f[x] * p) \div t
  BY <1>4, <1>5
<1>8. SumOver(g, D) * t <= s * p
  BY <1>2, <1>6, <1>7, SharesOfMore
<1> QED
  BY <1>2, <1>3, <1>5, <1>8

(* Both match. *)
LEMMA LendingMatched ==
  ASSUME PoolInv, queue = <<>>
  PROVE  /\ protocol = "shoebill" => ShoebillMatches(index, chain)
         /\ protocol = "example" => ExampleMatches(index, chain)
<1>1. Range(queue) = {}
  BY DEF Range
<1>2. CASE protocol = "shoebill"
  <2>1. FALSE \/ index.pool[1].balance = chain.cash
    BY <1>1, <1>2 DEF PoolInv
  <2>0. Pool \notin DOMAIN index.positions
    BY <1>2 DEF PoolInv
  <2>2. PoolMatches(index, chain, ShoebillReport(index), FALSE)
    BY <1>2, <2>0, <2>1, PoolsMatched
  <2> QED
    BY <1>2, <2>2 DEF ShoebillMatches
<1>3. CASE protocol = "example"
  <2>1. chain.lendAt > chain.moveAt \/ index.pool[1].balance = chain.cash
    BY <1>1, <1>3 DEF PoolInv, Moving
  <2>2. PoolMatches(index, chain, ExampleReport(index, index), chain.lendAt > chain.moveAt)
    BY <1>3, <2>1, PoolsMatched
  <2>3. ASSUME NEW b \in DOMAIN index.versions
        PROVE  LET report == ExampleReport(index, index.versions[b])
               IN  SumOver(report, DOMAIN report) * index.pool[1].supplied
                     <= index.versions[b].supplied * index.pool[1].balance
    BY <2>3, VersionsMatched
  <2> QED
    BY <1>3, <2>2, <2>3 DEF ExampleMatches
<1> QED
  BY <1>2, <1>3

------------------------------------------------------------------------------
(* Sumer: what its transactions tell. *)

SumerFacts ==
  {Fact("held", u, u) : u \in User} \cup {Fact("owed", u, u) : u \in User} \cup {Fact("entered", u, u) : u \in User}
    \cup {Fact("factor", 0, 0), Fact("proper", 0, 0)}

(* The close factor, as far as the index can know it. *)
FactorOf(c) == [known |-> c.oracle # 0, factor |-> IF c.oracle = 0 \/ c.missed THEN 0 ELSE c.factor]

SumerSaid(c, d, e) ==
  /\ Proper(e)
  /\ \A u \in User : /\ SaysMoved(u, c.held[u], e, d.held[u])
                     /\ SaysOwed(u, c.owed[u], e, d.owed[u])
                     /\ SaysEntered(u, u \in c.entered, e, u \in d.entered)
  /\ SaysFactor(FactorOf(c), e, FactorOf(d))

SumerTold(c, d, s) == \A k \in SumerFacts : Tells(k, s, OnChain(k, c), OnChain(k, d))

(* One event. *)
LEMMA SumerOne ==
  ASSUME NEW c, NEW d, NEW kind, NEW from, NEW to, NEW n, NEW total,
         NEW e, e = Emitted(kind, from, to, n, total), SumerSaid(c, d, e)
  PROVE  SumerTold(c, d, Emits(kind, from, to, n, total))
<1>1. ASSUME NEW u \in User
      PROVE  Makes(Fact("held", u, u), OnChain(Fact("held", u, u), c), e, OnChain(Fact("held", u, u), d))
  <2>1. OnChain(Fact("held", u, u), c) = c.held[u] /\ OnChain(Fact("held", u, u), d) = d.held[u]
    BY DEF OnChain, Fact
  <2>2. SaysMoved(u, c.held[u], e, d.held[u])
    BY DEF SumerSaid
  <2> QED
    BY <2>1, <2>2, SaysByName
<1>2. ASSUME NEW u \in User
      PROVE  Makes(Fact("owed", u, u), OnChain(Fact("owed", u, u), c), e, OnChain(Fact("owed", u, u), d))
  <2>1. OnChain(Fact("owed", u, u), c) = c.owed[u] /\ OnChain(Fact("owed", u, u), d) = d.owed[u]
    BY DEF OnChain, Fact
  <2>2. SaysOwed(u, c.owed[u], e, d.owed[u])
    BY DEF SumerSaid
  <2> QED
    BY <2>1, <2>2, SaysByName
<1>3. ASSUME NEW u \in User
      PROVE  Makes(Fact("entered", u, u), OnChain(Fact("entered", u, u), c), e, OnChain(Fact("entered", u, u), d))
  <2>1. OnChain(Fact("entered", u, u), c) = (u \in c.entered) /\ OnChain(Fact("entered", u, u), d) = (u \in d.entered)
    BY DEF OnChain, Fact
  <2>2. SaysEntered(u, u \in c.entered, e, u \in d.entered)
    BY DEF SumerSaid
  <2> QED
    BY <2>1, <2>2, SaysByName
<1>4. Makes(Fact("factor", 0, 0), OnChain(Fact("factor", 0, 0), c), e, OnChain(Fact("factor", 0, 0), d))
  <2>1. OnChain(Fact("factor", 0, 0), c) = FactorOf(c) /\ OnChain(Fact("factor", 0, 0), d) = FactorOf(d)
    BY DEF OnChain, Fact, FactorOf
  <2>2. SaysFactor(FactorOf(c), e, FactorOf(d))
    BY DEF SumerSaid
  <2> QED
    BY <2>1, <2>2, SaysByName
<1>5. Makes(Fact("proper", 0, 0), OnChain(Fact("proper", 0, 0), c), e, OnChain(Fact("proper", 0, 0), d))
  <2>1. OnChain(Fact("proper", 0, 0), c) = 0 /\ OnChain(Fact("proper", 0, 0), d) = 0
    BY DEF OnChain, Fact
  <2>2. SaysProper(0, e, 0)
    BY DEF SumerSaid, SaysProper
  <2> QED
    BY <2>1, <2>2, SaysByName
<1>6. \A k \in SumerFacts : Makes(k, OnChain(k, c), e, OnChain(k, d))
  BY <1>1, <1>2, <1>3, <1>4, <1>5 DEF SumerFacts
<1> QED
  BY <1>6, TellsEmits DEF SumerTold

(* One after the other. *)
LEMMA SumerMore ==
  ASSUME NEW b, NEW c, NEW d, NEW s, NEW t, SumerTold(b, c, s), SumerTold(c, d, t)
  PROVE  SumerTold(b, d, s \o t)
BY TellsMore DEF SumerTold

(* The parts of the contract the facts are about, and that are alike.      *)
Debts == [User -> Int]
Alike(c, d) ==
  /\ d.held = c.held /\ d.owed = c.owed /\ d.entered = c.entered
  /\ d.oracle = c.oracle /\ d.missed = c.missed /\ d.factor = c.factor
Holds(c) == c.held \in [Account -> Nat]

(* An event that tells nothing of them. *)
LEMMA SumerNothingSaid ==
  ASSUME NEW c, NEW d, Holds(c), Alike(c, d),
         NEW kind \in {"AccrueInterest", "Mint", "Redeem", "Liquidate", "RedeemFaceValue"},
         NEW from \in Account, NEW to \in Account, kind = "RedeemFaceValue" => from # to, NEW n, NEW total
  PROVE  SumerTold(c, d, Emits(kind, from, to, n, total))
<1>1. PICK e : e = Emitted(kind, from, to, n, total)
  OBVIOUS
<1>2. Has(e, Plain) /\ e.kind = kind /\ e.from = from /\ e.to = to
  BY <1>1, EmittedFacts
<1>3. Proper(e)
  BY <1>2 DEF Proper, Account
<1>4. FactorOf(d) = FactorOf(c)
  BY DEF FactorOf, Alike
<1>5. SaysFactor(FactorOf(c), e, FactorOf(d))
  BY <1>2, <1>4 DEF SaysFactor
<1>6. ASSUME NEW u \in User
      PROVE  /\ SaysMoved(u, c.held[u], e, d.held[u])
             /\ SaysOwed(u, c.owed[u], e, d.owed[u])
             /\ SaysEntered(u, u \in c.entered, e, u \in d.entered)
  <2>1. c.held[u] \in Int /\ d.held[u] = c.held[u]
    BY AccountsFinite DEF Alike, Holds
  <2>2. SaysMoved(u, c.held[u], e, d.held[u])
    BY <1>2, <2>1 DEF SaysMoved
  <2>3. SaysOwed(u, c.owed[u], e, d.owed[u])
    BY <1>2 DEF SaysOwed, Alike
  <2>4. SaysEntered(u, u \in c.entered, e, u \in d.entered)
    BY <1>2 DEF SaysEntered, Alike
  <2> QED
    BY <2>2, <2>3, <2>4
<1>7. SumerSaid(c, d, e)
  BY <1>3, <1>5, <1>6 DEF SumerSaid
<1> QED
  BY <1>1, <1>7, SumerOne

(* No event, nothing. *)
LEMMA SumerSilent ==
  ASSUME NEW c, NEW d, Alike(c, d)
  PROVE  SumerTold(c, d, <<>>)
<1>1. ASSUME NEW k \in SumerFacts PROVE OnChain(k, c) = OnChain(k, d)
  <2>1. k.of \in {"held", "owed", "entered", "factor", "proper"}
    BY DEF SumerFacts, Fact
  <2> QED
    BY <2>1 DEF OnChain, Alike
<1> QED
  BY <1>1, TellsNothing DEF SumerTold

(* Tokens move: a user's balance is less by what is sent and more by what  *)
(* is received.                                                            *)
MovesTokens(c, d, from, to) ==
  /\ Holds(c) /\ Holds(d)
  /\ from \in User => c.held[from] > 0
  /\ \A u \in User : d.held[u] = c.held[u] - (IF from = u THEN 1 ELSE 0) + (IF to = u THEN 1 ELSE 0)
  /\ d.owed = c.owed /\ d.entered = c.entered
  /\ d.oracle = c.oracle /\ d.missed = c.missed /\ d.factor = c.factor

(* Moving tokens tells what it changes. *)
LEMMA SumerMoveSaid ==
  ASSUME NEW c, NEW d, NEW from \in Account, NEW to \in Account, MovesTokens(c, d, from, to)
  PROVE  SumerTold(c, d, Emits("Transfer", from, to, 1, 0))
<1>1. PICK e : e = Emitted("Transfer", from, to, 1, 0)
  OBVIOUS
<1>2. Has(e, Plain) /\ e.kind = "Transfer" /\ e.from = from /\ e.to = to /\ e.amount = 1
  BY <1>1, EmittedFacts
<1>3. Proper(e)
  BY <1>2 DEF Proper, Account
<1>4. FactorOf(d) = FactorOf(c)
  BY DEF FactorOf, MovesTokens
<1>5. SaysFactor(FactorOf(c), e, FactorOf(d))
  BY <1>2, <1>4 DEF SaysFactor
<1>6. ASSUME NEW u \in User
      PROVE  /\ SaysMoved(u, c.held[u], e, d.held[u])
             /\ SaysOwed(u, c.owed[u], e, d.owed[u])
             /\ SaysEntered(u, u \in c.entered, e, u \in d.entered)
  <2>1. c.held[u] \in Int /\ d.held[u] \in Int
    BY AccountsFinite DEF MovesTokens, Holds
  <2>2. SaysMoved(u, c.held[u], e, d.held[u])
    BY <1>2, <2>1 DEF SaysMoved, MovesTokens
  <2>3. SaysOwed(u, c.owed[u], e, d.owed[u])
    BY <1>2 DEF SaysOwed, MovesTokens
  <2>4. SaysEntered(u, u \in c.entered, e, u \in d.entered)
    BY <1>2 DEF SaysEntered, MovesTokens
  <2> QED
    BY <2>2, <2>3, <2>4
<1>7. SumerSaid(c, d, e)
  BY <1>3, <1>5, <1>6 DEF SumerSaid
<1> QED
  BY <1>1, <1>7, SumerOne

(* A user owes what the event says. *)
Owes(c, d, u, total) ==
  /\ Holds(c) /\ d.held = c.held /\ d.owed = [c.owed EXCEPT ![u] = total] /\ c.owed \in Debts
  /\ d.entered = c.entered /\ d.oracle = c.oracle /\ d.missed = c.missed /\ d.factor = c.factor

(* Borrowing and repaying tell what they change. *)
LEMMA SumerDebtSaid ==
  ASSUME NEW c, NEW d, NEW kind \in {"Borrow", "Repay"}, NEW from \in Account, NEW u \in User, NEW total,
         Owes(c, d, u, total)
  PROVE  SumerTold(c, d, Emits(kind, from, u, 1, total))
<1>1. PICK e : e = Emitted(kind, from, u, 1, total)
  OBVIOUS
<1>2. Has(e, Plain) /\ e.kind = kind /\ e.from = from /\ e.to = u /\ e.total = total
  BY <1>1, EmittedFacts
<1>3. Proper(e)
  BY <1>2, AccountsFinite DEF Proper, Account
<1>4. FactorOf(d) = FactorOf(c)
  BY DEF FactorOf, Owes
<1>5. SaysFactor(FactorOf(c), e, FactorOf(d))
  BY <1>2, <1>4 DEF SaysFactor
<1>6. ASSUME NEW v \in User
      PROVE  /\ SaysMoved(v, c.held[v], e, d.held[v])
             /\ SaysOwed(v, c.owed[v], e, d.owed[v])
             /\ SaysEntered(v, v \in c.entered, e, v \in d.entered)
  <2>1. c.held[v] \in Int /\ d.held[v] = c.held[v]
    BY AccountsFinite DEF Owes, Holds
  <2>2. SaysMoved(v, c.held[v], e, d.held[v])
    BY <1>2, <2>1 DEF SaysMoved
  <2>3. SaysOwed(v, c.owed[v], e, d.owed[v])
    BY <1>2 DEF SaysOwed, Owes, Debts
  <2>4. SaysEntered(v, v \in c.entered, e, v \in d.entered)
    BY <1>2 DEF SaysEntered, Owes
  <2> QED
    BY <2>2, <2>3, <2>4
<1>7. SumerSaid(c, d, e)
  BY <1>3, <1>5, <1>6 DEF SumerSaid
<1> QED
  BY <1>1, <1>7, SumerOne

------------------------------------------------------------------------------
(* A user enters the market, or leaves it. *)
LEMMA SumerEnterSaid ==
  ASSUME NEW c, NEW d, Holds(c), d.held = c.held, d.owed = c.owed,
         d.oracle = c.oracle, d.missed = c.missed, d.factor = c.factor,
         NEW u \in User, NEW kind,
         \/ kind = "MarketEntered" /\ d.entered = c.entered \cup {u}
         \/ kind = "MarketExited" /\ d.entered = c.entered \ {u}
  PROVE  SumerTold(c, d, Emits(kind, Pool, u, 0, 0))
<1>1. PICK e : e = Emitted(kind, Pool, u, 0, 0)
  OBVIOUS
<1>2. Has(e, Plain) /\ e.kind = kind /\ e.from = Pool /\ e.to = u /\ kind \in {"MarketEntered", "MarketExited"}
  BY <1>1, EmittedFacts
<1>3. Proper(e)
  BY <1>2 DEF Proper
<1>4. FactorOf(d) = FactorOf(c)
  BY DEF FactorOf
<1>5. SaysFactor(FactorOf(c), e, FactorOf(d))
  BY <1>2, <1>4 DEF SaysFactor
<1>6. ASSUME NEW v \in User
      PROVE  /\ SaysMoved(v, c.held[v], e, d.held[v])
             /\ SaysOwed(v, c.owed[v], e, d.owed[v])
             /\ SaysEntered(v, v \in c.entered, e, v \in d.entered)
  <2>1. c.held[v] \in Int /\ d.held[v] = c.held[v]
    BY AccountsFinite DEF Holds
  <2>2. SaysMoved(v, c.held[v], e, d.held[v])
    BY <1>2, <2>1 DEF SaysMoved
  <2>3. SaysOwed(v, c.owed[v], e, d.owed[v])
    BY <1>2 DEF SaysOwed
  <2>4. SaysEntered(v, v \in c.entered, e, v \in d.entered)
    <3>1. CASE v = u
      <4>1. (v \in d.entered) = (e.kind = "MarketEntered")
        BY <1>2, <3>1
      <4> QED
        BY <1>2, <3>1, <4>1 DEF SaysEntered
    <3>2. CASE v # u
      <4>1. (v \in d.entered) = (v \in c.entered)
        BY <3>2
      <4> QED
        BY <1>2, <3>2, <4>1 DEF SaysEntered
    <3> QED
      BY <3>1, <3>2
  <2> QED
    BY <2>2, <2>3, <2>4
<1>7. SumerSaid(c, d, e)
  BY <1>3, <1>5, <1>6 DEF SumerSaid
<1> QED
  BY <1>1, <1>7, SumerOne

(* The comptroller is told of. *)
LEMMA SumerFactorSaid ==
  ASSUME NEW c, NEW d, Holds(c), d.held = c.held, d.owed = c.owed, d.entered = c.entered,
         NEW kind \in {"NewPriceOracle", "NewCloseFactor"}, NEW total,
         NEW e, e = Emitted(kind, Pool, Pool, 0, total), SaysFactor(FactorOf(c), e, FactorOf(d))
  PROVE  SumerTold(c, d, Emits(kind, Pool, Pool, 0, total))
<1>2. Has(e, Plain) /\ e.kind = kind /\ e.from = Pool /\ e.to = Pool
  BY EmittedFacts
<1>3. Proper(e)
  BY <1>2 DEF Proper
<1>6. ASSUME NEW u \in User
      PROVE  /\ SaysMoved(u, c.held[u], e, d.held[u])
             /\ SaysOwed(u, c.owed[u], e, d.owed[u])
             /\ SaysEntered(u, u \in c.entered, e, u \in d.entered)
  <2>1. c.held[u] \in Int /\ d.held[u] = c.held[u]
    BY AccountsFinite DEF Holds
  <2>2. SaysMoved(u, c.held[u], e, d.held[u])
    BY <1>2, <2>1 DEF SaysMoved
  <2>3. SaysOwed(u, c.owed[u], e, d.owed[u])
    BY <1>2 DEF SaysOwed
  <2>4. SaysEntered(u, u \in c.entered, e, u \in d.entered)
    BY <1>2 DEF SaysEntered
  <2> QED
    BY <2>2, <2>3, <2>4
<1>7. SumerSaid(c, d, e)
  BY <1>3, <1>6 DEF SumerSaid
<1> QED
  BY <1>7, SumerOne

------------------------------------------------------------------------------
(* The transactions of Sumer. *)

SumerChains ==
  [block : Int, accrued : Int, rate : Nat, supply : Int, cash : Int, held : [Account -> Nat], owed : Debts,
   entered : SUBSET User, oracle : Int, price : Int, factor : Int, missed : BOOLEAN]

(* A close factor that no oracle came before was missed. *)
SumerSound(c) ==
  /\ c \in SumerChains /\ SumOver(c.held, Account) = c.supply /\ c.accrued <= c.block
  /\ c.oracle = 0 /\ ~c.missed => c.factor = 0

(* The events begin with the accrual, unless this block had one. *)
Accrues(c, s) ==
  /\ s \in Seq(Range(s))
  /\ c.accrued = c.block \/ \E e \in Range(s) : Has(e, Plain) /\ e.kind = "AccrueInterest"

SumerGood(c, t) ==
  /\ SumerSound(t.chain) /\ t.chain.block = c.block /\ c.rate <= t.chain.rate
  /\ SumerTold(c, t.chain, t.events)
  /\ \/ t.chain.supply = c.supply /\ t.chain.cash = c.cash /\ t.chain.rate = c.rate /\ t.chain.accrued = c.accrued
     \/ t.chain.accrued = c.block /\ Accrues(c, t.events)

(* Events are a sequence. *)
LEMMA EmitsSeq ==
  ASSUME NEW kind, NEW from, NEW to, NEW n, NEW total
  PROVE  Emits(kind, from, to, n, total) \in Seq(Range(Emits(kind, from, to, n, total)))
<1>1. IsEvents(Emits(kind, from, to, n, total), {kind})
  BY EmitsOne
<1> QED
  BY <1>1 DEF IsEvents

(* The accrual comes first, *)
LEMMA AccrualFirst ==
  ASSUME NEW c, Holds(c)
  PROVE  Accrues(c, AccrueEvent(c)) /\ SumerTold(c, c, AccrueEvent(c))
<1>1. Alike(c, c)
  BY DEF Alike
<1>2. CASE c.accrued = c.block
  <2>1. <<>> \in Seq(Range(<<>>))
    BY NoEvents DEF IsEvents
  <2>2. AccrueEvent(c) = <<>>
    BY <1>2 DEF AccrueEvent
  <2> QED
    BY <1>1, <1>2, <2>1, <2>2, SumerSilent DEF Accrues
<1>3. CASE c.accrued # c.block
  <2>1. AccrueEvent(c) = Emits("AccrueInterest", Pool, Pool, 0, 0)
    BY <1>3 DEF AccrueEvent
  <2>2. PICK e : e = Emitted("AccrueInterest", Pool, Pool, 0, 0)
    OBVIOUS
  <2>3. Has(e, Plain) /\ e.kind = "AccrueInterest"
    BY <2>2, EmittedFacts
  <2>4. e \in Range(AccrueEvent(c))
    BY <2>1, <2>2, EmittedIn
  <2>5. Accrues(c, AccrueEvent(c))
    BY <2>1, <2>3, <2>4, EmitsSeq DEF Accrues
  <2>6. SumerTold(c, c, Emits("AccrueInterest", Pool, Pool, 0, 0))
    BY <1>1, AccountsFinite, SumerNothingSaid
  <2> QED
    BY <2>1, <2>5, <2>6
<1> QED
  BY <1>2, <1>3

(* and others after it. *)
LEMMA AccruesMore ==
  ASSUME NEW c, NEW s, NEW kind, NEW from, NEW to, NEW n, NEW total, Accrues(c, s)
  PROVE  Accrues(c, s \o Emits(kind, from, to, n, total))
<1>1. PICK t : t = Emits(kind, from, to, n, total)
  OBVIOUS
<1>2. t \in Seq(Range(t))
  BY <1>1, EmitsSeq
<1>3. s \o t \in Seq(Range(s \o t)) /\ Range(s \o t) = Range(s) \cup Range(t)
  BY <1>2, RangeJoined DEF Accrues
<1>4. Accrues(c, s \o t)
  BY <1>3 DEF Accrues
<1> QED
  BY <1>1, <1>4

(* What a sound contract is. *)
LEMMA SumerSoundFacts ==
  ASSUME NEW c, SumerSound(c)
  PROVE  /\ Holds(c) /\ c.owed \in Debts /\ c.entered \subseteq User
         /\ c.supply \in Int /\ c.cash \in Int /\ c.block \in Int /\ c.accrued \in Int /\ c.factor \in Int /\ c.rate \in Nat
         /\ SumOver(c.held, Account) = c.supply /\ c.missed \in BOOLEAN
BY DEF SumerSound, SumerChains, Holds

(* Accrual, with tokens and money changed, or with debts and money. *)
TokensSet(c, d, s, m, H) == d = [Accrued(c) EXCEPT !.supply = s, !.cash = m, !.held = H]
DebtsSet(c, d, m, O) == d = [Accrued(c) EXCEPT !.cash = m, !.owed = O]

(* Either leaves the contract sound, with the interest of this block. *)
LEMMA SumerAccrued ==
  ASSUME NEW c, SumerSound(c), NEW s \in Int, NEW m \in Int, NEW H \in [Account -> Nat], SumOver(H, Account) = s,
         NEW O \in Debts,
         NEW d, \/ TokensSet(c, d, s, m, H) /\ O = c.owed
                \/ DebtsSet(c, d, m, O) /\ H = c.held
  PROVE  /\ SumerSound(d) /\ d.block = c.block /\ d.accrued = c.block /\ d.supply = s /\ d.cash = m /\ d.held = H /\ d.owed = O
         /\ d.entered = c.entered /\ d.oracle = c.oracle /\ d.missed = c.missed /\ d.factor = c.factor /\ d.rate = c.rate
<1>1. c \in SumerChains /\ c.block \in Int
  BY DEF SumerSound, SumerChains
<1>2. PICK a : a = Accrued(c)
  OBVIOUS
<1>3. /\ a \in SumerChains /\ a.block = c.block /\ a.accrued = c.block
      /\ a.supply = c.supply /\ a.held = c.held /\ a.owed = c.owed
      /\ a.entered = c.entered /\ a.oracle = c.oracle /\ a.missed = c.missed /\ a.factor = c.factor /\ a.rate = c.rate
  BY <1>1, <1>2 DEF SumerChains, Accrued
<1>4. \/ d = [a EXCEPT !.supply = s, !.cash = m, !.held = H] /\ O = a.owed
      \/ d = [a EXCEPT !.cash = m, !.owed = O] /\ H = a.held /\ s = a.supply
  BY <1>2, <1>3 DEF SumerSound, TokensSet, DebtsSet
<1>5. /\ d \in SumerChains /\ d.block = c.block /\ d.accrued = c.block /\ d.supply = s /\ d.cash = m /\ d.held = H /\ d.owed = O
      /\ d.entered = c.entered /\ d.oracle = c.oracle /\ d.missed = c.missed /\ d.factor = c.factor /\ d.rate = c.rate
  <2>1. CASE d = [a EXCEPT !.supply = s, !.cash = m, !.held = H] /\ O = a.owed
    BY <1>3, <2>1 DEF SumerChains
  <2>2. CASE d = [a EXCEPT !.cash = m, !.owed = O] /\ H = a.held /\ s = a.supply
    BY <1>3, <2>2 DEF SumerChains
  <2> QED
    BY <1>4, <2>1, <2>2
<1>6. SumerSound(d)
  BY <1>1, <1>5 DEF SumerSound
<1> QED
  BY <1>5, <1>6

------------------------------------------------------------------------------
(* A transaction that accrues is good if its contract is sound and its     *)
(* events, after the accrual, tell what it does.                           *)
Goes(c, d, s) ==
  /\ SumerSound(d) /\ d.block = c.block /\ d.accrued = c.block /\ d.rate = c.rate
  /\ Accrues(c, s) /\ SumerTold(c, d, s)

(* Another event. *)
LEMMA GoesOn ==
  ASSUME NEW b, NEW c, NEW d, NEW s, NEW kind, NEW from, NEW to, NEW n, NEW total,
         Accrues(b, s), SumerTold(b, c, s), SumerTold(c, d, Emits(kind, from, to, n, total)),
         SumerSound(d), d.block = b.block, d.accrued = b.block, d.rate = b.rate
  PROVE  Goes(b, d, s \o Emits(kind, from, to, n, total))
BY AccruesMore, SumerMore DEF Goes

(* What goes is good. *)
LEMMA GoesGood ==
  ASSUME NEW c, NEW d, NEW s, Goes(c, d, s)
  PROVE  SumerGood(c, Becomes(d, s))
<1>1. PICK t : t = Becomes(d, s)
  OBVIOUS
<1>2. t.chain = d /\ t.events = s
  BY <1>1 DEF Becomes
<1>3. c.rate <= d.rate
  BY SumerSoundFacts DEF Goes
<1>4. SumerGood(c, t)
  BY <1>2, <1>3 DEF Goes, SumerGood
<1> QED
  BY <1>1, <1>4

(* The accrual alone, with its interest. *)
LEMMA SumerAccrues ==
  ASSUME NEW c, SumerSound(c)
  PROVE  SumerGood(c, SumerAccrue(c))
<1>1. c \in SumerChains /\ c.block \in Int /\ c.rate \in Nat
  BY SumerSoundFacts DEF SumerSound
<1>2. PICK a, n : a = Accrued(c) /\ n = c.rate + 1
  OBVIOUS
<1>3. a \in SumerChains /\ a.block = c.block /\ a.accrued = c.block /\ a.rate = c.rate /\ a.supply = c.supply /\ Alike(c, a)
  BY <1>1, <1>2 DEF SumerChains, Accrued, Alike
<1>4. PICK d : d = [a EXCEPT !.rate = n]
  OBVIOUS
<1>5. d \in SumerChains /\ d.block = c.block /\ d.accrued = c.block /\ d.rate = n /\ d.supply = c.supply /\ Alike(c, d)
  BY <1>1, <1>2, <1>3, <1>4 DEF SumerChains, Alike
<1>6. SumerSound(d)
  BY <1>1, <1>5 DEF SumerSound, Alike
<1>7. Accrues(c, AccrueEvent(c)) /\ SumerTold(c, c, AccrueEvent(c))
  BY SumerSoundFacts, AccrualFirst
<1>8. ASSUME NEW k \in SumerFacts PROVE OnChain(k, c) = OnChain(k, d)
  <2>1. k.of \in {"held", "owed", "entered", "factor", "proper"}
    BY DEF SumerFacts, Fact
  <2> QED
    BY <1>5, <2>1 DEF OnChain, Alike
<1>9. SumerTold(c, d, AccrueEvent(c))
  BY <1>7, <1>8 DEF SumerTold
<1>10. PICK t : t = SumerAccrue(c)
  OBVIOUS
<1>11. t.chain = d /\ t.events = AccrueEvent(c)
  BY <1>2, <1>3, <1>4, <1>10 DEF SumerAccrue, Becomes
<1>12. SumerGood(c, t)
  BY <1>1, <1>2, <1>5, <1>6, <1>7, <1>9, <1>11 DEF SumerGood
<1> QED
  BY <1>10, <1>12

(* What a cToken costs and brings is a number. *)
LEMMA PricesAreNumbers ==
  ASSUME NEW c, SumerSound(c)
  PROVE  Cost(c) \in Nat /\ Worth(c) \in Nat
<1>1. c.rate \in Nat
  BY SumerSoundFacts
<1> QED
  BY <1>1 DEF Cost, Worth, Underlying, RateUnit

(* The user u supplies, *)
LEMMA SumerMints ==
  ASSUME NEW c, SumerSound(c), NEW u \in User
  PROVE  SumerGood(c, SumerMint(c, u))
<1>1. /\ Holds(c) /\ c.owed \in Debts /\ c.supply \in Int /\ c.cash \in Int
      /\ SumOver(c.held, Account) = c.supply /\ u \in Account /\ Pool \in Account
  BY SumerSoundFacts, AccountsFinite
<1>2. PICK a : a = Accrued(c)
  OBVIOUS
<1>3. a.supply = c.supply /\ a.cash = c.cash /\ a.held = c.held
  <2>1. c \in SumerChains
    BY DEF SumerSound
  <2> QED
    BY <1>2, <2>1 DEF Accrued, SumerChains
<1>4. PICK H, s, m : H = [c.held EXCEPT ![u] = @ + 1] /\ s = c.supply + 1 /\ m = c.cash + Cost(c)
  OBVIOUS
<1>5. H \in [Account -> Nat] /\ SumOver(H, Account) = s
  <2>1. OneMore(c.held, u, H)
    BY <1>4 DEF OneMore
  <2> QED
    BY <1>1, <1>4, <2>1, AccountsFinite, SumOneMore DEF Holds
<1>6. s \in Int /\ m \in Int
  BY <1>1, <1>4, PricesAreNumbers
<1>7. PICK d : d = [a EXCEPT !.supply = s, !.cash = m, !.held = H]
  OBVIOUS
<1>71. TokensSet(c, d, s, m, H)
  BY <1>2, <1>7 DEF TokensSet
<1>8. /\ SumerSound(d) /\ d.block = c.block /\ d.accrued = c.block /\ d.held = H /\ d.owed = c.owed
      /\ d.entered = c.entered /\ d.oracle = c.oracle /\ d.missed = c.missed /\ d.factor = c.factor /\ d.rate = c.rate
  BY <1>1, <1>5, <1>6, <1>71, SumerAccrued
<1>9. MovesTokens(c, d, Pool, u)
  <2>1. \A v \in User : H[v] = c.held[v] - (IF Pool = v THEN 1 ELSE 0) + (IF u = v THEN 1 ELSE 0)
    <3> SUFFICES ASSUME NEW v \in User PROVE H[v] = c.held[v] - (IF Pool = v THEN 1 ELSE 0) + (IF u = v THEN 1 ELSE 0)
      OBVIOUS
    <3>1. c.held[v] \in Nat /\ H[v] = IF v = u THEN c.held[v] + 1 ELSE c.held[v]
      BY <1>1, <1>4, AccountsFinite DEF Holds
    <3> QED
      BY <3>1, AddressAssumption
  <2> QED
    BY <1>1, <1>5, <1>8, <2>1, AddressAssumption DEF MovesTokens, Holds
<1>10. Alike(c, c)
  BY DEF Alike
<1>11. Accrues(c, AccrueEvent(c)) /\ SumerTold(c, c, AccrueEvent(c))
  BY <1>1, AccrualFirst
<1>12. SumerTold(c, c, Emits("Mint", Pool, u, 1, 0))
  BY <1>1, <1>10, SumerNothingSaid
<1>13. SumerTold(c, d, Emits("Transfer", Pool, u, 1, 0))
  BY <1>1, <1>9, SumerMoveSaid
<1>14. PICK q : q = AccrueEvent(c) \o Emits("Mint", Pool, u, 1, 0)
  OBVIOUS
<1>15. Accrues(c, q) /\ SumerTold(c, c, q)
  BY <1>11, <1>12, <1>14, AccruesMore, SumerMore
<1>16. Goes(c, d, q \o Emits("Transfer", Pool, u, 1, 0))
  BY <1>8, <1>13, <1>15, GoesOn
<1>17. SumerMint(c, u) = Becomes(d, q \o Emits("Transfer", Pool, u, 1, 0))
  <2>1. d = [Accrued(c) EXCEPT !.supply = @ + 1, !.cash = @ + Cost(c), !.held[u] = @ + 1]
    BY <1>2, <1>3, <1>4, <1>7
  <2> QED
    BY <1>14, <2>1 DEF SumerMint
<1> QED
  BY <1>16, <1>17, GoesGood

(* redeems, *)
LEMMA SumerRedeems ==
  ASSUME NEW c, SumerSound(c), NEW u \in User, c.held[u] > 0
  PROVE  SumerGood(c, SumerRedeem(c, u))
<1>1. /\ Holds(c) /\ c.owed \in Debts /\ c.supply \in Int /\ c.cash \in Int
      /\ SumOver(c.held, Account) = c.supply /\ u \in Account /\ Pool \in Account
  BY SumerSoundFacts, AccountsFinite
<1>2. PICK a : a = Accrued(c)
  OBVIOUS
<1>3. a.supply = c.supply /\ a.cash = c.cash /\ a.held = c.held
  <2>1. c \in SumerChains
    BY DEF SumerSound
  <2> QED
    BY <1>2, <2>1 DEF Accrued, SumerChains
<1>4. PICK H, s, m : H = [c.held EXCEPT ![u] = @ - 1] /\ s = c.supply - 1 /\ m = c.cash - Worth(c)
  OBVIOUS
<1>5. H \in [Account -> Nat] /\ SumOver(H, Account) = s
  <2>1. OneLess(c.held, u, H)
    BY <1>4 DEF OneLess
  <2> QED
    BY <1>1, <1>4, <2>1, AccountsFinite, SumOneLess DEF Holds
<1>6. s \in Int /\ m \in Int
  BY <1>1, <1>4, PricesAreNumbers
<1>7. PICK d : d = [a EXCEPT !.supply = s, !.cash = m, !.held = H]
  OBVIOUS
<1>71. TokensSet(c, d, s, m, H)
  BY <1>2, <1>7 DEF TokensSet
<1>8. /\ SumerSound(d) /\ d.block = c.block /\ d.accrued = c.block /\ d.held = H /\ d.owed = c.owed
      /\ d.entered = c.entered /\ d.oracle = c.oracle /\ d.missed = c.missed /\ d.factor = c.factor /\ d.rate = c.rate
  BY <1>1, <1>5, <1>6, <1>71, SumerAccrued
<1>9. MovesTokens(c, d, u, Pool)
  <2>1. \A v \in User : H[v] = c.held[v] - (IF u = v THEN 1 ELSE 0) + (IF Pool = v THEN 1 ELSE 0)
    <3> SUFFICES ASSUME NEW v \in User PROVE H[v] = c.held[v] - (IF u = v THEN 1 ELSE 0) + (IF Pool = v THEN 1 ELSE 0)
      OBVIOUS
    <3>1. c.held[v] \in Nat /\ H[v] = IF v = u THEN c.held[v] - 1 ELSE c.held[v]
      BY <1>1, <1>4, AccountsFinite DEF Holds
    <3> QED
      BY <3>1, AddressAssumption
  <2> QED
    BY <1>1, <1>5, <1>8, <2>1 DEF MovesTokens, Holds
<1>10. Alike(d, d) /\ Holds(d)
  BY <1>5, <1>8 DEF Alike, Holds
<1>11. Accrues(c, AccrueEvent(c)) /\ SumerTold(c, c, AccrueEvent(c))
  BY <1>1, AccrualFirst
<1>12. SumerTold(c, d, Emits("Transfer", u, Pool, 1, 0))
  BY <1>1, <1>9, SumerMoveSaid
<1>13. SumerTold(d, d, Emits("Redeem", u, Pool, 1, 0))
  BY <1>1, <1>10, SumerNothingSaid
<1>14. PICK q : q = AccrueEvent(c) \o Emits("Transfer", u, Pool, 1, 0)
  OBVIOUS
<1>15. Accrues(c, q) /\ SumerTold(c, d, q)
  BY <1>11, <1>12, <1>14, AccruesMore, SumerMore
<1>16. Goes(c, d, q \o Emits("Redeem", u, Pool, 1, 0))
  BY <1>8, <1>13, <1>15, GoesOn
<1>17. SumerRedeem(c, u) = Becomes(d, q \o Emits("Redeem", u, Pool, 1, 0))
  <2>1. d = [Accrued(c) EXCEPT !.supply = @ - 1, !.cash = @ - Worth(c), !.held[u] = @ - 1]
    BY <1>2, <1>3, <1>4, <1>7
  <2> QED
    BY <1>14, <2>1 DEF SumerRedeem
<1> QED
  BY <1>16, <1>17, GoesGood

(* borrows, *)
LEMMA SumerBorrows ==
  ASSUME NEW c, SumerSound(c), NEW u \in User, NEW i \in {0, 1}
  PROVE  SumerGood(c, SumerBorrow(c, u, i))
<1>1. /\ Holds(c) /\ c.owed \in Debts /\ c.supply \in Int /\ c.cash \in Int
      /\ SumOver(c.held, Account) = c.supply /\ Pool \in Account
  BY SumerSoundFacts, AccountsFinite
<1>2. PICK a : a = Accrued(c)
  OBVIOUS
<1>3. a.cash = c.cash /\ a.owed = c.owed
  <2>1. c \in SumerChains
    BY DEF SumerSound
  <2> QED
    BY <1>2, <2>1 DEF Accrued, SumerChains
<1>4. PICK o, O, m : o = c.owed[u] + i + 1 /\ O = [c.owed EXCEPT ![u] = o] /\ m = c.cash - 1
  OBVIOUS
<1>5. O \in Debts /\ m \in Int
  BY <1>1, <1>4 DEF Debts
<1>6. PICK d : d = [a EXCEPT !.cash = m, !.owed = O]
  OBVIOUS
<1>61. DebtsSet(c, d, m, O)
  BY <1>2, <1>6 DEF DebtsSet
<1>7. /\ SumerSound(d) /\ d.block = c.block /\ d.accrued = c.block /\ d.held = c.held /\ d.owed = O
      /\ d.entered = c.entered /\ d.oracle = c.oracle /\ d.missed = c.missed /\ d.factor = c.factor /\ d.rate = c.rate
  BY <1>1, <1>5, <1>61, SumerAccrued DEF Holds
<1>8. Owes(c, d, u, o)
  BY <1>1, <1>4, <1>7 DEF Owes
<1>9. SumerTold(c, d, Emits("Borrow", Pool, u, 1, o))
  BY <1>1, <1>8, SumerDebtSaid
<1>10. Accrues(c, AccrueEvent(c)) /\ SumerTold(c, c, AccrueEvent(c))
  BY <1>1, AccrualFirst
<1>11. Goes(c, d, AccrueEvent(c) \o Emits("Borrow", Pool, u, 1, o))
  BY <1>7, <1>9, <1>10, GoesOn
<1>12. SumerBorrow(c, u, i) = Becomes(d, AccrueEvent(c) \o Emits("Borrow", Pool, u, 1, o))
  <2>1. d = [Accrued(c) EXCEPT !.cash = @ - 1, !.owed[u] = o]
    BY <1>2, <1>3, <1>4, <1>6
  <2> QED
    BY <1>4, <2>1 DEF SumerBorrow
<1> QED
  BY <1>11, <1>12, GoesGood

(* or has its debt repaid. *)
LEMMA SumerRepaid ==
  ASSUME NEW c, SumerSound(c), NEW u \in User, NEW payer \in User, NEW d, d = Repaid(c, u)
  PROVE  /\ SumerSound(d) /\ d.block = c.block /\ d.accrued = c.block /\ d.rate = c.rate /\ d.held = c.held
         /\ SumerTold(c, d, RepayEvent(c, payer, u))
<1>1. /\ Holds(c) /\ c.owed \in Debts /\ c.supply \in Int /\ c.cash \in Int
      /\ SumOver(c.held, Account) = c.supply /\ payer \in Account
  BY SumerSoundFacts, AccountsFinite
<1>2. PICK a : a = Accrued(c)
  OBVIOUS
<1>3. a.cash = c.cash /\ a.owed = c.owed
  <2>1. c \in SumerChains
    BY DEF SumerSound
  <2> QED
    BY <1>2, <2>1 DEF Accrued, SumerChains
<1>4. PICK o, O, m : o = c.owed[u] - 1 /\ O = [c.owed EXCEPT ![u] = o] /\ m = c.cash + 1
  OBVIOUS
<1>5. O \in Debts /\ m \in Int
  BY <1>1, <1>4 DEF Debts
<1>6. d = [a EXCEPT !.cash = m, !.owed = O]
  BY <1>2, <1>3, <1>4 DEF Repaid
<1>61. DebtsSet(c, d, m, O)
  BY <1>2, <1>6 DEF DebtsSet
<1>7. /\ SumerSound(d) /\ d.block = c.block /\ d.accrued = c.block /\ d.held = c.held /\ d.owed = O
      /\ d.entered = c.entered /\ d.oracle = c.oracle /\ d.missed = c.missed /\ d.factor = c.factor /\ d.rate = c.rate
  BY <1>1, <1>5, <1>61, SumerAccrued DEF Holds
<1>8. Owes(c, d, u, o)
  BY <1>1, <1>4, <1>7 DEF Owes
<1>9. SumerTold(c, d, Emits("Repay", payer, u, 1, o))
  BY <1>1, <1>8, SumerDebtSaid
<1> QED
  BY <1>4, <1>7, <1>9 DEF RepayEvent

------------------------------------------------------------------------------
(* A user's debt is repaid, *)
LEMMA SumerRepays ==
  ASSUME NEW c, SumerSound(c), NEW p \in User, NEW u \in User
  PROVE  SumerGood(c, SumerRepay(c, p, u))
<1>1. PICK d : d = Repaid(c, u)
  OBVIOUS
<1>2. /\ SumerSound(d) /\ d.block = c.block /\ d.accrued = c.block /\ d.rate = c.rate
      /\ SumerTold(c, d, RepayEvent(c, p, u))
  BY <1>1, SumerRepaid
<1>3. Accrues(c, AccrueEvent(c)) /\ SumerTold(c, c, AccrueEvent(c))
  BY SumerSoundFacts, AccrualFirst
<1>4. Goes(c, d, AccrueEvent(c) \o RepayEvent(c, p, u))
  BY <1>2, <1>3, GoesOn DEF RepayEvent
<1>5. SumerRepay(c, p, u) = Becomes(d, AccrueEvent(c) \o RepayEvent(c, p, u))
  BY <1>1 DEF SumerRepay
<1> QED
  BY <1>4, <1>5, GoesGood

(* or two of them. *)
LEMMA SumerRepaysTwo ==
  ASSUME NEW c, SumerSound(c), NEW p \in User, NEW u \in User, NEW v \in User
  PROVE  SumerGood(c, SumerRepayTwo(c, p, u, v))
<1>1. PICK d : d = Repaid(c, u)
  OBVIOUS
<1>2. /\ SumerSound(d) /\ d.block = c.block /\ d.accrued = c.block /\ d.rate = c.rate
      /\ SumerTold(c, d, RepayEvent(c, p, u))
  BY <1>1, SumerRepaid
<1>3. Accrues(c, AccrueEvent(c)) /\ SumerTold(c, c, AccrueEvent(c))
  BY SumerSoundFacts, AccrualFirst
<1>4. PICK q : q = AccrueEvent(c) \o RepayEvent(c, p, u)
  OBVIOUS
<1>5. Goes(c, d, q)
  BY <1>2, <1>3, <1>4, GoesOn DEF RepayEvent
<1>6. PICK g : g = Repaid(d, v)
  OBVIOUS
<1>7. /\ SumerSound(g) /\ g.block = d.block /\ g.accrued = d.block /\ g.rate = d.rate
      /\ SumerTold(d, g, RepayEvent(d, p, v))
  BY <1>2, <1>6, SumerRepaid
<1>8. Goes(c, g, q \o RepayEvent(d, p, v))
  <2>1. Accrues(c, q) /\ SumerTold(c, d, q) /\ g.block = c.block /\ g.accrued = c.block /\ g.rate = c.rate
    BY <1>2, <1>5, <1>7 DEF Goes
  <2> QED
    BY <1>7, <2>1, GoesOn DEF RepayEvent
<1>9. SumerRepayTwo(c, p, u, v) = Becomes(g, q \o RepayEvent(d, p, v))
  BY <1>1, <1>4, <1>6 DEF SumerRepayTwo
<1> QED
  BY <1>8, <1>9, GoesGood

(* Tokens move from one to another. *)
LEMMA SumerMovesOn ==
  ASSUME NEW c, SumerSound(c), NEW from \in User, c.held[from] > 0, NEW to \in Account,
         NEW d, d = Moves(c, from, to)
  PROVE  /\ SumerSound(d) /\ d.block = c.block /\ d.accrued = c.accrued /\ d.supply = c.supply /\ d.cash = c.cash /\ d.rate = c.rate
         /\ Alike(d, d) /\ Holds(d) /\ SumerTold(c, d, Emits("Transfer", from, to, 1, 0))
<1>1. /\ Holds(c) /\ SumOver(c.held, Account) = c.supply /\ from \in Account
  BY SumerSoundFacts, AccountsFinite
<1>2. PICK H : H = Transferred(c.held, from, to)
  OBVIOUS
<1>3. /\ H \in [Account -> Nat] /\ SumOver(H, Account) = c.supply
      /\ \A z \in Account : H[z] = c.held[z] - (IF z = from THEN 1 ELSE 0) + (IF z = to THEN 1 ELSE 0)
  <2>1. /\ H \in [Account -> Nat] /\ SumOver(H, Account) = SumOver(c.held, Account)
        /\ \A z \in Account : H[z] = c.held[z] - (IF z = from THEN 1 ELSE 0) + (IF z = to THEN 1 ELSE 0)
    BY <1>1, <1>2, AccountsFinite, SumTransferred DEF Holds
  <2> QED
    BY <1>1, <2>1
<1>4. d = [c EXCEPT !.held = H]
  BY <1>2 DEF Moves
<1>5. /\ d \in SumerChains /\ d.held = H /\ d.block = c.block /\ d.accrued = c.accrued /\ d.supply = c.supply
      /\ d.cash = c.cash /\ d.owed = c.owed /\ d.entered = c.entered
      /\ d.oracle = c.oracle /\ d.missed = c.missed /\ d.factor = c.factor /\ d.rate = c.rate
  BY <1>3, <1>4 DEF SumerSound, SumerChains
<1>6. SumerSound(d)
  BY <1>3, <1>5 DEF SumerSound
<1>7. MovesTokens(c, d, from, to)
  <2>1. ASSUME NEW v \in User PROVE H[v] = c.held[v] - (IF from = v THEN 1 ELSE 0) + (IF to = v THEN 1 ELSE 0)
    BY <1>3, AccountsFinite
  <2> QED
    BY <1>1, <1>3, <1>5, <2>1 DEF MovesTokens, Holds
<1> QED
  BY <1>1, <1>3, <1>5, <1>6, <1>7, SumerMoveSaid DEF Alike, Holds

(* A debt is repaid and tokens are taken for it. *)
LEMMA SumerSeizes ==
  ASSUME NEW c, SumerSound(c), NEW kind \in {"Liquidate", "RedeemFaceValue"}, NEW u \in User,
         NEW v \in User, u # v, c.held[v] > 0
  PROVE  SumerGood(c, SumerSeize(c, kind, u, v))
<1>1. PICK d : d = Repaid(c, v)
  OBVIOUS
<1>2. /\ SumerSound(d) /\ d.block = c.block /\ d.accrued = c.block /\ d.rate = c.rate /\ d.held = c.held
      /\ SumerTold(c, d, RepayEvent(c, u, v))
  BY <1>1, SumerRepaid
<1>3. Accrues(c, AccrueEvent(c)) /\ SumerTold(c, c, AccrueEvent(c))
  BY SumerSoundFacts, AccrualFirst
<1>4. PICK q : q = AccrueEvent(c) \o RepayEvent(c, u, v)
  OBVIOUS
<1>5. Accrues(c, q) /\ SumerTold(c, d, q)
  BY <1>2, <1>3, <1>4, GoesOn DEF RepayEvent, Goes
<1>6. PICK g : g = Moves(d, v, u)
  OBVIOUS
<1>7. /\ SumerSound(g) /\ g.block = d.block /\ g.accrued = d.accrued /\ g.rate = d.rate
      /\ Alike(g, g) /\ Holds(g) /\ SumerTold(d, g, Emits("Transfer", v, u, 1, 0))
  BY <1>2, <1>6, SumerMovesOn, AccountsFinite
<1>8. PICK r : r = q \o Emits("Transfer", v, u, 1, 0)
  OBVIOUS
<1>9. Accrues(c, r) /\ SumerTold(c, g, r)
  BY <1>5, <1>7, <1>8, AccruesMore, SumerMore
<1>10. SumerTold(g, g, Emits(kind, v, u, 1, 0))
  BY <1>7, SumerNothingSaid, AccountsFinite
<1>11. Goes(c, g, r \o Emits(kind, v, u, 1, 0))
  BY <1>2, <1>7, <1>9, <1>10, GoesOn
<1>12. SumerSeize(c, kind, u, v) = Becomes(g, r \o Emits(kind, v, u, 1, 0))
  BY <1>1, <1>4, <1>6, <1>8 DEF SumerSeize
<1> QED
  BY <1>11, <1>12, GoesGood

(* A transaction that does not accrue is good if it leaves the supply and  *)
(* the cash, and its event tells what it does.                             *)
LEMMA StaysGood ==
  ASSUME NEW c, NEW d, NEW s, SumerSound(d), d.block = c.block, d.accrued = c.accrued,
         d.supply = c.supply, d.cash = c.cash, d.rate = c.rate, SumerTold(c, d, s)
  PROVE  SumerGood(c, Becomes(d, s))
<1>1. PICK t : t = Becomes(d, s)
  OBVIOUS
<1>2. t.chain = d /\ t.events = s
  BY <1>1 DEF Becomes
<1>3. c.rate <= d.rate
  BY SumerSoundFacts
<1>4. SumerGood(c, t)
  BY <1>2, <1>3 DEF SumerGood
<1> QED
  BY <1>1, <1>4

(* So are transfers, *)
LEMMA SumerTransfers ==
  ASSUME NEW c, SumerSound(c), NEW from \in User, c.held[from] > 0, NEW to \in Account
  PROVE  SumerGood(c, SumerTransfer(c, from, to))
<1>1. PICK d : d = Moves(c, from, to)
  OBVIOUS
<1>2. /\ SumerSound(d) /\ d.block = c.block /\ d.accrued = c.accrued /\ d.supply = c.supply /\ d.cash = c.cash /\ d.rate = c.rate
      /\ SumerTold(c, d, Emits("Transfer", from, to, 1, 0))
  BY <1>1, SumerMovesOn
<1> QED
  BY <1>1, <1>2, StaysGood DEF SumerTransfer

(* entering and leaving the market, *)
LEMMA SumerEnters ==
  ASSUME NEW c, SumerSound(c), NEW u \in User
  PROVE  SumerGood(c, SumerEnter(c, u)) /\ SumerGood(c, SumerExit(c, u))
<1>1. Holds(c) /\ c.entered \subseteq User /\ c \in SumerChains
  BY SumerSoundFacts DEF SumerSound
<1>2. SumerGood(c, SumerEnter(c, u))
  <2>1. PICK S : S = c.entered \cup {u}
    OBVIOUS
  <2>2. PICK d : d = [c EXCEPT !.entered = S]
    OBVIOUS
  <2>3. /\ d \in SumerChains /\ d.held = c.held /\ d.block = c.block /\ d.accrued = c.accrued /\ d.supply = c.supply
        /\ d.cash = c.cash /\ d.owed = c.owed /\ d.entered = S
        /\ d.oracle = c.oracle /\ d.missed = c.missed /\ d.factor = c.factor /\ d.rate = c.rate
    BY <1>1, <2>1, <2>2 DEF SumerChains
  <2>4. SumerSound(d)
    BY <2>3 DEF SumerSound
  <2>5. SumerTold(c, d, Emits("MarketEntered", Pool, u, 0, 0))
    BY <1>1, <2>1, <2>3, SumerEnterSaid
  <2> QED
    BY <2>1, <2>2, <2>3, <2>4, <2>5, StaysGood DEF SumerEnter
<1>3. SumerGood(c, SumerExit(c, u))
  <2>1. PICK S : S = c.entered \ {u}
    OBVIOUS
  <2>2. PICK d : d = [c EXCEPT !.entered = S]
    OBVIOUS
  <2>3. /\ d \in SumerChains /\ d.held = c.held /\ d.block = c.block /\ d.accrued = c.accrued /\ d.supply = c.supply
        /\ d.cash = c.cash /\ d.owed = c.owed /\ d.entered = S
        /\ d.oracle = c.oracle /\ d.missed = c.missed /\ d.factor = c.factor /\ d.rate = c.rate
    BY <1>1, <2>1, <2>2 DEF SumerChains
  <2>4. SumerSound(d)
    BY <2>3 DEF SumerSound
  <2>5. SumerTold(c, d, Emits("MarketExited", Pool, u, 0, 0))
    BY <1>1, <2>1, <2>3, SumerEnterSaid
  <2> QED
    BY <2>1, <2>2, <2>3, <2>4, <2>5, StaysGood DEF SumerExit
<1> QED
  BY <1>2, <1>3

(* and the comptroller's settings. *)
LEMMA SumerSets ==
  ASSUME NEW c, SumerSound(c)
  PROVE  SumerGood(c, SumerOracle(c)) /\ SumerGood(c, SumerFactor(c))
<1>1. Holds(c) /\ c \in SumerChains /\ c.factor \in Int /\ c.missed \in BOOLEAN
  BY SumerSoundFacts DEF SumerSound
<1>2. SumerGood(c, SumerOracle(c))
  <2>2. PICK d : d = [c EXCEPT !.oracle = 1]
    OBVIOUS
  <2>3. /\ d \in SumerChains /\ d.held = c.held /\ d.block = c.block /\ d.accrued = c.accrued /\ d.supply = c.supply
        /\ d.cash = c.cash /\ d.owed = c.owed /\ d.entered = c.entered
        /\ d.oracle = 1 /\ d.missed = c.missed /\ d.factor = c.factor /\ d.rate = c.rate
    BY <1>1, <2>2 DEF SumerChains
  <2>4. SumerSound(d)
    BY <2>3 DEF SumerSound
  <2>5. PICK e : e = Emitted("NewPriceOracle", Pool, Pool, 0, 1)
    OBVIOUS
  <2>6. Has(e, Plain) /\ e.kind = "NewPriceOracle"
    BY <2>5, EmittedFacts
  <2>7. SaysFactor(FactorOf(c), e, FactorOf(d))
    <3>1. (d.oracle # 0) = TRUE
      BY <2>3
    <3>2. (IF d.oracle = 0 \/ d.missed THEN 0 ELSE d.factor) = IF c.oracle = 0 \/ c.missed THEN 0 ELSE c.factor
      BY <2>3 DEF SumerSound
    <3>3. PICK f : f = IF c.oracle = 0 \/ c.missed THEN 0 ELSE c.factor
      OBVIOUS
    <3>4. FactorOf(d) = [known |-> TRUE, factor |-> f]
      BY <3>1, <3>2, <3>3 DEF FactorOf
    <3>5. FactorOf(c).factor = f
      BY <3>3 DEF FactorOf
    <3> QED
      BY <2>6, <3>4, <3>5 DEF SaysFactor
  <2>8. SumerTold(c, d, Emits("NewPriceOracle", Pool, Pool, 0, 1))
    BY <1>1, <2>3, <2>5, <2>7, SumerFactorSaid
  <2> QED
    BY <2>2, <2>3, <2>4, <2>8, StaysGood DEF SumerOracle
<1>3. SumerGood(c, SumerFactor(c))
  <2>1. PICK n, b : n = c.factor + 1 /\ b = (c.oracle = 0)
    OBVIOUS
  <2>2. PICK d : d = [c EXCEPT !.factor = n, !.missed = b]
    OBVIOUS
  <2>3. /\ d \in SumerChains /\ d.held = c.held /\ d.block = c.block /\ d.accrued = c.accrued /\ d.supply = c.supply
        /\ d.cash = c.cash /\ d.owed = c.owed /\ d.entered = c.entered
        /\ d.oracle = c.oracle /\ d.missed = b /\ d.factor = n /\ d.rate = c.rate
    <3>1. n \in Int /\ b \in BOOLEAN
      BY <1>1, <2>1
    <3> QED
      BY <1>1, <2>2, <3>1 DEF SumerChains
  <2>4. SumerSound(d)
    BY <2>1, <2>3 DEF SumerSound
  <2>5. PICK e : e = Emitted("NewCloseFactor", Pool, Pool, 0, n)
    OBVIOUS
  <2>6. Has(e, Plain) /\ e.kind = "NewCloseFactor" /\ e.total = n
    BY <2>5, EmittedFacts
  <2>7. SaysFactor(FactorOf(c), e, FactorOf(d))
    <3>1. CASE c.oracle = 0
      <4>1. (c.oracle # 0) = FALSE /\ (IF c.oracle = 0 \/ c.missed THEN 0 ELSE c.factor) = 0
        BY <3>1
      <4>2. (IF d.oracle = 0 \/ d.missed THEN 0 ELSE d.factor) = 0 /\ d.oracle = c.oracle
        BY <2>3, <3>1
      <4>3. FactorOf(c) = [known |-> FALSE, factor |-> 0] /\ FactorOf(d) = [known |-> FALSE, factor |-> 0]
        BY <4>1, <4>2 DEF FactorOf
      <4> QED
        BY <2>6, <4>3 DEF SaysFactor
    <3>2. CASE c.oracle # 0
      <4>1. (d.oracle # 0) = TRUE /\ (c.oracle # 0) = TRUE
        BY <2>3, <3>2
      <4>2. (IF d.oracle = 0 \/ d.missed THEN 0 ELSE d.factor) = n
        BY <2>1, <2>3, <3>2
      <4>3. FactorOf(d) = [known |-> TRUE, factor |-> n] /\ FactorOf(c).known = TRUE
        BY <4>1, <4>2 DEF FactorOf
      <4> QED
        BY <2>6, <4>3 DEF SaysFactor
    <3> QED
      BY <3>1, <3>2
  <2>8. SumerTold(c, d, Emits("NewCloseFactor", Pool, Pool, 0, n))
    BY <1>1, <2>3, <2>5, <2>7, SumerFactorSaid
  <2>9. SumerFactor(c) = Becomes(d, Emits("NewCloseFactor", Pool, Pool, 0, n))
    BY <2>1, <2>2 DEF SumerFactor
  <2> QED
    BY <2>3, <2>4, <2>8, <2>9, StaysGood
<1> QED
  BY <1>2, <1>3

(* Every transaction of Sumer is good. *)
LEMMA SumerTells ==
  ASSUME NEW c, SumerSound(c), NEW t \in SumerTransactions(c)
  PROVE  SumerGood(c, t)
<1>1. CASE \E u \in User : t = SumerMint(c, u)
  BY <1>1, SumerMints
<1>2. CASE \E u \in User : c.held[u] > 0 /\ t = SumerRedeem(c, u)
  BY <1>2, SumerRedeems
<1>3. CASE \E u \in User, i \in {0, 1} : t = SumerBorrow(c, u, i)
  BY <1>3, SumerBorrows
<1>4. CASE \E p \in User, u \in User : t = SumerRepay(c, p, u)
  BY <1>4, SumerRepays
<1>5. CASE \E p \in User, u \in User, v \in User : t = SumerRepayTwo(c, p, u, v)
  BY <1>5, SumerRepaysTwo
<1>6. CASE \E u \in User, v \in User, kind \in {"Liquidate", "RedeemFaceValue"} :
             u # v /\ c.held[v] > 0 /\ t = SumerSeize(c, kind, u, v)
  BY <1>6, SumerSeizes
<1>7. CASE \E from \in User, to \in User \cup {Pool} : c.held[from] > 0 /\ t = SumerTransfer(c, from, to)
  BY <1>7, SumerTransfers DEF Account
<1>8. CASE \E u \in User : t = SumerEnter(c, u) \/ t = SumerExit(c, u)
  BY <1>8, SumerEnters
<1>9. CASE t = SumerOracle(c) \/ t = SumerFactor(c)
  BY <1>9, SumerSets
<1>11. CASE t = SumerAccrue(c)
  BY <1>11, SumerAccrues
<1>10. c.entered \subseteq User
  BY SumerSoundFacts
<1> QED
  BY <1>1, <1>2, <1>3, <1>4, <1>5, <1>6, <1>7, <1>8, <1>9, <1>10, <1>11 DEF SumerTransactions

------------------------------------------------------------------------------
(* Sumer's index. *)

SumerFields == {"market", "accounts", "stats", "events", "touched", "rates", "comptroller"}
StatFields == {"balance", "supplied", "redeemed", "borrowed", "repaid", "stored", "entered", "accrual"}
Counters == {"liquidator", "liquidated", "redeemer", "redeemed"}

AccountOf(ix, u) == Load(ix.accounts, u, NewAccount)

(* Of a user's statistics the balance is in cTokens, what was supplied and *)
(* redeemed in the underlying token.                                       *)
IsStats(s) ==
  /\ StatFields \subseteq DOMAIN s
  /\ s.balance \in Nat /\ s.supplied \in Int /\ s.redeemed \in Int

(* The interest at w of the underlying token to a cToken.                  *)
Interest(s, w) == w * s.balance - (s.supplied - s.redeemed)
Priced(s, t, w) == Interest(t, w) = Interest(s, w)
IsAccount(a) == Counters \cup {"hasBorrowed"} \subseteq DOMAIN a /\ \A f \in Counters : a[f] \in Int

(* At a higher rate a cToken is worth no less, *)
LEMMA WorthMore ==
  ASSUME NEW r \in Nat, NEW q \in Nat, r <= q
  PROVE  Underlying(r, 1) \in Nat /\ Underlying(q, 1) \in Nat /\ Underlying(r, 1) <= Underlying(q, 1)
<1>1. Underlying(r, 1) = r \div 2 /\ Underlying(q, 1) = q \div 2
  BY DEF Underlying, RateUnit
<1>2. r \div 2 \in Nat /\ q \div 2 \in Nat /\ r \div 2 <= q \div 2
  OBVIOUS
<1> QED
  BY <1>1, <1>2

(* and the interest is no less. *)
LEMMA InterestMore ==
  ASSUME NEW s, IsStats(s), NEW v \in Nat, NEW w \in Nat, v <= w, Interest(s, v) >= 0
  PROVE  Interest(s, w) >= 0
<1>1. PICK b, d : b = s.balance /\ d = s.supplied - s.redeemed
  OBVIOUS
<1>2. b \in Nat /\ d \in Int
  BY <1>1 DEF IsStats
<1>3. PICK n : n = w - v
  OBVIOUS
<1>4. n \in Nat /\ w = v + n
  BY <1>3
<1>5. w * b = v * b + n * b /\ n * b >= 0 /\ v * b \in Int /\ n * b \in Int
  BY <1>2, <1>4
<1>6. v * b - d >= 0
  BY <1>1 DEF Interest
<1>7. w * b - d >= 0
  BY <1>2, <1>5, <1>6
<1> QED
  BY <1>1, <1>7 DEF Interest

(* But for the parts fs, jx is ix. *)
But(ix, jx, fs) == DOMAIN jx = DOMAIN ix /\ \A f \in SumerFields \ fs : jx[f] = ix[f]

(* What is loaded after a save. *)
Loads(store, id, entity, st) ==
  /\ DOMAIN st = DOMAIN store \cup {id}
  /\ \A j, new : Load(st, j, new) = IF j = id THEN entity ELSE Load(store, j, new)

(* What was saved is what is loaded, and the rest stays. *)
LEMMA SaveLoads ==
  ASSUME NEW store, NEW id, NEW entity
  PROVE  Loads(store, id, entity, Save(store, id, entity))
<1>1. PICK st : st = Save(store, id, entity)
  OBVIOUS
<1>2. Loads(store, id, entity, st)
  BY <1>1 DEF Loads, Save, Load
<1> QED
  BY <1>1, <1>2

(* What the handlers' helpers change. *)
LEMMA TouchedFacts ==
  ASSUME NEW ix, SumerFields \subseteq DOMAIN ix, NEW e, NEW u, NEW new, NEW jx, jx = Touched(ix, e, u, new)
  PROVE  /\ But(ix, jx, {"stats", "touched"})
         /\ DOMAIN jx.stats = DOMAIN ix.stats \cup {u}
         /\ \A v : StatsOf(jx, v) = IF v = u THEN [new EXCEPT !.accrual = e.block] ELSE StatsOf(ix, v)
<1>1. PICK n : n = [new EXCEPT !.accrual = e.block]
  OBVIOUS
<1>2. PICK s, t : s = Save(ix.stats, u, n) /\ t = ix.touched \cup {<<u, e.tx, e.log>>}
  OBVIOUS
<1>3. jx = [ix EXCEPT !.stats = s, !.touched = t]
  BY <1>1, <1>2 DEF Touched
<1>4. "stats" \in DOMAIN ix /\ "touched" \in DOMAIN ix
  BY DEF SumerFields
<1>5. But(ix, jx, {"stats", "touched"}) /\ jx.stats = s
  BY <1>3, <1>4 DEF But
<1>6. Loads(ix.stats, u, n, s)
  BY <1>2, SaveLoads
<1> QED
  BY <1>1, <1>5, <1>6 DEF StatsOf, Loads

(* Making an account changes nobody's. *)
LEMMA MadeFacts ==
  ASSUME NEW ix, SumerFields \subseteq DOMAIN ix, NEW u, NEW jx, jx = AccountMade(ix, u)
  PROVE  /\ But(ix, jx, {"accounts"})
         /\ DOMAIN jx.accounts = DOMAIN ix.accounts \cup {u}
         /\ \A v : AccountOf(jx, v) = AccountOf(ix, v)
<1>1. PICK a : a = Save(ix.accounts, u, AccountOf(ix, u))
  OBVIOUS
<1>2. jx = [ix EXCEPT !.accounts = a]
  BY <1>1 DEF AccountMade, AccountOf
<1>3. "accounts" \in DOMAIN ix
  BY DEF SumerFields
<1>4. But(ix, jx, {"accounts"}) /\ jx.accounts = a
  BY <1>2, <1>3 DEF But
<1>5. Loads(ix.accounts, u, AccountOf(ix, u), a)
  BY <1>1, SaveLoads
<1> QED
  BY <1>4, <1>5 DEF AccountOf, Loads

(* An account is written. *)
Written(ix, u, a) == [ix EXCEPT !.accounts = Save(@, u, a)]

(* Writing an account changes that one. *)
LEMMA WrittenFacts ==
  ASSUME NEW ix, SumerFields \subseteq DOMAIN ix, NEW u, NEW a, NEW jx, jx = Written(ix, u, a)
  PROVE  /\ But(ix, jx, {"accounts"})
         /\ DOMAIN jx.accounts = DOMAIN ix.accounts \cup {u}
         /\ \A v : AccountOf(jx, v) = IF v = u THEN a ELSE AccountOf(ix, v)
<1>1. PICK b : b = Save(ix.accounts, u, a)
  OBVIOUS
<1>2. jx = [ix EXCEPT !.accounts = b]
  BY <1>1 DEF Written
<1>3. "accounts" \in DOMAIN ix
  BY DEF SumerFields
<1>4. But(ix, jx, {"accounts"}) /\ jx.accounts = b
  BY <1>2, <1>3 DEF But
<1>5. Loads(ix.accounts, u, a, b)
  BY <1>1, SaveLoads
<1> QED
  BY <1>4, <1>5 DEF AccountOf, Loads

(* One counter of an account goes up. *)
OneUp(a, f, b) == IsAccount(b) /\ b[f] = a[f] + 1 /\ \A g \in Counters \ {f} : b[g] = a[g]

(* Counting changes one counter of one account. *)
LEMMA CountedFacts ==
  ASSUME NEW ix, SumerFields \subseteq DOMAIN ix, NEW u, NEW f \in Counters, IsAccount(AccountOf(ix, u)),
         NEW jx, jx = CountedIn(ix, u, f)
  PROVE  /\ But(ix, jx, {"accounts"})
         /\ DOMAIN jx.accounts = DOMAIN ix.accounts \cup {u}
         /\ OneUp(AccountOf(ix, u), f, AccountOf(jx, u))
         /\ \A v : v # u => AccountOf(jx, v) = AccountOf(ix, v)
<1>1. PICK a : a = AccountOf(ix, u)
  OBVIOUS
<1>2. PICK b : b = [a EXCEPT ![f] = @ + 1]
  OBVIOUS
<1>3. OneUp(a, f, b)
  BY <1>1, <1>2 DEF OneUp, IsAccount
<1>4. jx = Written(ix, u, b)
  BY <1>1, <1>2 DEF Written, CountedIn, AccountOf
<1>5. /\ But(ix, jx, {"accounts"})
      /\ DOMAIN jx.accounts = DOMAIN ix.accounts \cup {u}
      /\ \A v : AccountOf(jx, v) = IF v = u THEN b ELSE AccountOf(ix, v)
  BY <1>4, WrittenFacts
<1> QED
  BY <1>1, <1>3, <1>5

(* Filing an event changes the events, and its rates those. *)
LEMMA RecordedFacts ==
  ASSUME NEW ix, SumerFields \subseteq DOMAIN ix, NEW e
  PROVE  But(ix, Recorded(ix, e), {"events"}) /\ But(ix, Rated(ix, e), {"rates"})
<1>1. But(ix, Recorded(ix, e), {"events"})
  <2>1. PICK s : s = Save(ix.events, ByLog(e), e)
    OBVIOUS
  <2>2. Recorded(ix, e) = [ix EXCEPT !.events = s]
    BY <2>1 DEF Recorded
  <2> QED
    BY <2>2 DEF But, SumerFields
<1>2. But(ix, Rated(ix, e), {"rates"})
  <2>1. PICK s : s = ix.rates \cup {e.block}
    OBVIOUS
  <2>2. Rated(ix, e) = [ix EXCEPT !.rates = s]
    BY <2>1 DEF Rated
  <2> QED
    BY <2>2 DEF But, SumerFields
<1> QED
  BY <1>1, <1>2

(* What two changes leave alone. *)
LEMMA ButMore ==
  ASSUME NEW ix, NEW jx, NEW kx, NEW fs, NEW gs, But(ix, jx, fs), But(jx, kx, gs)
  PROVE  But(ix, kx, fs \cup gs)
BY DEF But

------------------------------------------------------------------------------
(* What an event says of a user's statistics s, and statistics that say    *)
(* it.                                                                     *)
Told(e, u, s, b, o, n) ==
  /\ IsStats(s) /\ SaysMoved(u, s.balance, e, b) /\ SaysOwed(u, s.stored, e, o) /\ SaysEntered(u, s.entered, e, n)
StatsAre(s, b, o, n) == IsStats(s) /\ s.balance = b /\ s.stored = o /\ s.entered = n
StatTold(e, u, s, t, w) == \A b, o, n : Told(e, u, s, b, o, n) => StatsAre(t, b, o, n) /\ Priced(s, t, w)

(* Nothing is said of u. *)
LEMMA StatSame ==
  ASSUME NEW e, NEW u, NEW s, NEW w,
         \/ e.kind \notin {"Transfer", "Borrow", "Repay", "MarketEntered", "MarketExited"}
         \/ e.kind # "Transfer" /\ e.to # u
  PROVE  StatTold(e, u, s, s, w)
<1> SUFFICES ASSUME NEW b, NEW o, NEW n, Told(e, u, s, b, o, n) PROVE StatsAre(s, b, o, n)
  BY DEF StatTold, Priced
<1>1. b = s.balance
  BY DEF Told, SaysMoved
<1>2. o = s.stored
  BY DEF Told, SaysOwed
<1>3. n = s.entered
  BY DEF Told, SaysEntered
<1> QED
  BY <1>1, <1>2, <1>3 DEF Told, StatsAre

(* u owes, *)
Owing(e, s, t) ==
  \/ t = [[s EXCEPT !.stored = e.total, !.borrowed = @ + e.amount] EXCEPT !.accrual = e.block]
  \/ t = [[s EXCEPT !.stored = e.total, !.repaid = @ + e.amount] EXCEPT !.accrual = e.block]

(* The statistics say the debt that the event says, *)
LEMMA StatOwes ==
  ASSUME NEW e, NEW u, NEW s, NEW t, NEW w, e.kind \in {"Borrow", "Repay"}, e.to = u, Owing(e, s, t)
  PROVE  StatTold(e, u, s, t, w)
<1> SUFFICES ASSUME NEW b, NEW o, NEW n, Told(e, u, s, b, o, n) PROVE StatsAre(t, b, o, n) /\ Priced(s, t, w)
  BY DEF StatTold
<1>1. b = s.balance
  BY DEF Told, SaysMoved
<1>2. o = e.total
  BY DEF Told, SaysOwed
<1>3. n = s.entered
  BY DEF Told, SaysEntered
<1>4. IsStats(s)
  BY DEF Told
<1>5. PICK x, y, z : x = s.borrowed + e.amount /\ y = s.repaid + e.amount /\ z = e.block
  OBVIOUS
<1>6. \/ t = [[s EXCEPT !.stored = e.total, !.borrowed = x] EXCEPT !.accrual = z]
      \/ t = [[s EXCEPT !.stored = e.total, !.repaid = y] EXCEPT !.accrual = z]
  BY <1>5 DEF Owing
<1>7. DOMAIN t = DOMAIN s /\ t.stored = e.total /\ \A f \in {"balance", "supplied", "redeemed", "entered"} : t[f] = s[f]
  BY <1>4, <1>6 DEF IsStats, StatFields
<1>8. Priced(s, t, w)
  BY <1>7 DEF Priced, Interest
<1> QED
  BY <1>1, <1>2, <1>3, <1>4, <1>7, <1>8 DEF IsStats, StatsAre

(* enters or leaves, *)
Entering(e, s, t, b) == t = [[s EXCEPT !.entered = b] EXCEPT !.accrual = e.block]

(* that the account entered or left, *)
LEMMA StatEnters ==
  ASSUME NEW e, NEW u, NEW s, NEW t, NEW w, e.to = u,
         \/ e.kind = "MarketEntered" /\ Entering(e, s, t, TRUE)
         \/ e.kind = "MarketExited" /\ Entering(e, s, t, FALSE)
  PROVE  StatTold(e, u, s, t, w)
<1> SUFFICES ASSUME NEW b, NEW o, NEW n, Told(e, u, s, b, o, n) PROVE StatsAre(t, b, o, n) /\ Priced(s, t, w)
  BY DEF StatTold
<1>1. b = s.balance
  BY DEF Told, SaysMoved
<1>2. o = s.stored
  BY DEF Told, SaysOwed
<1>3. n = (e.kind = "MarketEntered")
  BY DEF Told, SaysEntered
<1>4. IsStats(s)
  BY DEF Told
<1>5. PICK x : x = (e.kind = "MarketEntered")
  OBVIOUS
<1>6. Entering(e, s, t, x)
  BY <1>5
<1>7. DOMAIN t = DOMAIN s /\ t.entered = x /\ \A f \in {"balance", "supplied", "redeemed", "stored"} : t[f] = s[f]
  BY <1>4, <1>6 DEF IsStats, StatFields, Entering
<1>8. IsStats(t) /\ t.balance = s.balance /\ t.stored = s.stored
  BY <1>4, <1>7 DEF IsStats
<1>9. t.entered = n
  BY <1>3, <1>5, <1>7
<1>10. Priced(s, t, w)
  BY <1>7 DEF Priced, Interest
<1> QED
  BY <1>1, <1>2, <1>8, <1>9, <1>10 DEF StatsAre

(* sends and is sent what is worth p. *)
Less(e, s, t, p) == t = [[s EXCEPT !.balance = @ - e.amount, !.redeemed = @ + p] EXCEPT !.accrual = e.block]
More(e, s, t, p) == t = [[s EXCEPT !.balance = @ + e.amount, !.supplied = @ + p] EXCEPT !.accrual = e.block]

(* One unit more, or less of what is held, at its worth. *)
LEMMA LessFacts ==
  ASSUME NEW e, e.amount = 1, NEW s, IsStats(s), NEW t, NEW p \in Int,
         (Less(e, s, t, p) /\ s.balance > 0) \/ More(e, s, t, p)
  PROVE  /\ IsStats(t) /\ t.stored = s.stored /\ t.entered = s.entered /\ Priced(s, t, p)
         /\ Less(e, s, t, p) /\ s.balance > 0 => t.balance = s.balance - 1
         /\ More(e, s, t, p) => t.balance = s.balance + 1
<1>1. PICK x, y, z, v, w : x = s.balance - 1 /\ y = s.redeemed + p /\ z = s.balance + 1 /\ v = s.supplied + p /\ w = e.block
  OBVIOUS
<1>2. Less(e, s, t, p) => t = [[s EXCEPT !.balance = x, !.redeemed = y] EXCEPT !.accrual = w]
  BY <1>1 DEF Less
<1>3. More(e, s, t, p) => t = [[s EXCEPT !.balance = z, !.supplied = v] EXCEPT !.accrual = w]
  BY <1>1 DEF More
<1>4. Less(e, s, t, p) => /\ DOMAIN t = DOMAIN s /\ t.balance = x /\ t.redeemed = y
                          /\ \A f \in {"supplied", "stored", "entered"} : t[f] = s[f]
  BY <1>2 DEF IsStats, StatFields
<1>5. More(e, s, t, p) => /\ DOMAIN t = DOMAIN s /\ t.balance = z /\ t.supplied = v
                          /\ \A f \in {"redeemed", "stored", "entered"} : t[f] = s[f]
  BY <1>3 DEF IsStats, StatFields
<1>6. /\ s.balance \in Nat /\ s.supplied \in Int /\ s.redeemed \in Int
      /\ y \in Int /\ z \in Nat /\ v \in Int /\ (s.balance > 0 => x \in Nat)
  BY <1>1 DEF IsStats
<1>7. p * s.balance \in Int /\ p * x = p * s.balance - p /\ p * z = p * s.balance + p
  <2>1. \A b \in Int : p * b \in Int /\ p * (b - 1) = p * b - p /\ p * (b + 1) = p * b + p
    OBVIOUS
  <2>2. s.balance \in Int
    BY <1>6
  <2> QED
    BY <1>1, <2>1, <2>2
<1>8. Less(e, s, t, p) /\ s.balance > 0 =>
        IsStats(t) /\ t.stored = s.stored /\ t.entered = s.entered /\ t.balance = s.balance - 1
  BY <1>1, <1>4, <1>6 DEF IsStats
<1>9. More(e, s, t, p) => IsStats(t) /\ t.stored = s.stored /\ t.entered = s.entered /\ t.balance = s.balance + 1
  BY <1>1, <1>5, <1>6 DEF IsStats
<1>10. p * x - (s.supplied - y) = p * s.balance - (s.supplied - s.redeemed)
  BY <1>1, <1>6, <1>7
<1>11. p * z - (v - s.redeemed) = p * s.balance - (s.supplied - s.redeemed)
  BY <1>1, <1>6, <1>7
<1>12. Less(e, s, t, p) => Priced(s, t, p)
  BY <1>4, <1>10 DEF Priced, Interest
<1>13. More(e, s, t, p) => Priced(s, t, p)
  BY <1>5, <1>11 DEF Priced, Interest
<1> QED
  BY <1>8, <1>9, <1>12, <1>13

(* and the balance that the event says. *)
LEMMA StatMoves ==
  ASSUME NEW e, e.kind = "Transfer", NEW u, NEW s, NEW m, NEW t, NEW r, Underlying(r, 1) \in Int,
         IF e.from = u THEN Less(e, s, m, Underlying(r, e.amount)) ELSE m = s,
         IF e.to = u THEN More(e, m, t, Underlying(r, e.amount)) ELSE t = m
  PROVE  StatTold(e, u, s, t, Underlying(r, 1))
<1>0. PICK p : p = Underlying(r, 1)
  OBVIOUS
<1> SUFFICES ASSUME NEW b, NEW o, NEW n, Told(e, u, s, b, o, n) PROVE StatsAre(t, b, o, n) /\ Priced(s, t, p)
  BY <1>0 DEF StatTold
<1>1. /\ e.amount = 1 /\ s.balance \in Int /\ (e.from = u => s.balance > 0)
      /\ b = s.balance - (IF e.from = u THEN 1 ELSE 0) + (IF e.to = u THEN 1 ELSE 0)
  BY DEF Told, SaysMoved
<1>10. /\ p \in Int /\ IF e.from = u THEN Less(e, s, m, p) ELSE m = s
       /\ IF e.to = u THEN More(e, m, t, p) ELSE t = m
  BY <1>0, <1>1
<1>2. o = s.stored
  BY DEF Told, SaysOwed
<1>3. n = s.entered
  BY DEF Told, SaysEntered
<1>4. IsStats(s)
  BY DEF Told
<1>5. /\ IsStats(m) /\ m.stored = s.stored /\ m.entered = s.entered /\ Priced(s, m, p)
      /\ m.balance = IF e.from = u THEN s.balance - 1 ELSE s.balance
  <2>1. CASE e.from = u
    BY <1>1, <1>4, <1>10, <2>1, LessFacts
  <2>2. CASE e.from # u
    BY <1>4, <1>10, <2>2 DEF Priced
  <2> QED
    BY <2>1, <2>2
<1>6. /\ IsStats(t) /\ t.stored = m.stored /\ t.entered = m.entered /\ Priced(m, t, p)
      /\ t.balance = IF e.to = u THEN m.balance + 1 ELSE m.balance
  <2>1. CASE e.to = u
    BY <1>1, <1>5, <1>10, <2>1, LessFacts
  <2>2. CASE e.to # u
    BY <1>5, <1>10, <2>2 DEF Priced
  <2> QED
    BY <2>1, <2>2
<1>7. t.balance = b
  BY <1>1, <1>5, <1>6
<1>8. Priced(s, t, p)
  BY <1>5, <1>6 DEF Priced
<1> QED
  BY <1>2, <1>3, <1>5, <1>6, <1>7, <1>8 DEF StatsAre

------------------------------------------------------------------------------
(* The market of the index, and what it is after a handler that reads it.  *)
IsMarket(m) == {"accrual", "rate", "supply", "cash", "price"} \subseteq DOMAIN m /\ m.rate \in Nat
MarketIs(ix, m) == ix.market = <<m>> /\ IsMarket(m)
MarketTold(m, e, c, jx) ==
  IF m.accrual = e.block THEN MarketIs(jx, m)
  ELSE \E r : MarketIs(jx, r) /\ r.accrual = c.accrued /\ r.rate = c.rate /\ r.supply = c.supply /\ r.cash = c.cash

(* The market is the first of one. *)
LEMMA MarketFirst == ASSUME NEW ix, NEW m, MarketIs(ix, m) PROVE ix.market # <<>> /\ ix.market[1] = m /\ m.rate \in Nat
<1>1. <<m>> \in Seq({m}) /\ Len(<<m>>) = 1 /\ <<m>>[1] = m
  OBVIOUS
<1>2. Len(<<>>) = 0
  BY EmptySeq
<1> QED
  BY <1>1, <1>2 DEF MarketIs, IsMarket

(* Updating the market reads it, at most once in a block. *)
LEMMA UpdatedFacts ==
  ASSUME NEW ix, SumerFields \subseteq DOMAIN ix, NEW m, MarketIs(ix, m), NEW e, NEW c, c.rate \in Nat,
         NEW jx, jx = Updated(ix, e, c)
  PROVE  But(ix, jx, {"market"}) /\ MarketTold(m, e, c, jx)
<1>1. ix.market = <<m>> /\ <<m>> # <<>> /\ <<m>>[1] = m
  BY MarketFirst DEF MarketIs
<1>2. PICK r : r = [accrual |-> c.accrued, rate |-> c.rate, supply |-> c.supply, cash |-> c.cash, price |-> TokenPrice(ix, c)]
  OBVIOUS
<1>3. /\ IsMarket(r) /\ r.accrual = c.accrued /\ r.rate = c.rate /\ r.supply = c.supply /\ r.cash = c.cash
  BY <1>2 DEF IsMarket
<1>4. CASE m.accrual = e.block
  <2>1. jx = ix
    BY <1>1, <1>4 DEF Updated
  <2> QED
    BY <1>4, <2>1 DEF But, MarketTold
<1>5. CASE m.accrual # e.block
  <2>1. PICK s : s = <<r>>
    OBVIOUS
  <2>2. jx = [ix EXCEPT !.market = s]
    BY <1>1, <1>2, <1>5, <2>1 DEF Updated
  <2>3. But(ix, jx, {"market"}) /\ jx.market = s
    BY <2>2 DEF But, SumerFields
  <2> QED
    BY <1>3, <1>5, <2>1, <2>3 DEF MarketIs, MarketTold
<1> QED
  BY <1>4, <1>5

(* Nothing is counted. *)
Uncounted(ix, jx) ==
  \A v : IsAccount(AccountOf(ix, v)) =>
           IsAccount(AccountOf(jx, v)) /\ \A f \in Counters : AccountOf(jx, v)[f] = AccountOf(ix, v)[f]

(* Whoever has statistics has an account. *)
Listed(ix, jx) == DOMAIN ix.accounts \subseteq DOMAIN jx.accounts /\ DOMAIN jx.stats \subseteq DOMAIN ix.stats \cup DOMAIN jx.accounts

(* What a handler does. *)
StatsHeard(ix, e, jx) ==
  \A u \in User : StatTold(e, u, StatsOf(ix, u), StatsOf(jx, u), Underlying(jx.market[1].rate, 1))
MarketHeard(ix, e, c, jx) ==
  IF e.kind \in {"Transfer", "AccrueInterest"} THEN \A m : MarketIs(ix, m) => MarketTold(m, e, c, jx)
  ELSE jx.market = ix.market
FactorHeard(ix, e, jx) == e.kind \notin {"NewPriceOracle", "NewCloseFactor"} => jx.comptroller = ix.comptroller
CountsHeard(ix, e, jx) == e.kind \notin {"Liquidate", "RedeemFaceValue"} => Uncounted(ix, jx)
Heard(ix, e, c, jx) ==
  /\ DOMAIN jx = DOMAIN ix /\ Listed(ix, jx) /\ StatsHeard(ix, e, jx)
  /\ MarketHeard(ix, e, c, jx) /\ FactorHeard(ix, e, jx) /\ CountsHeard(ix, e, jx)

(* Handlers that leave the accounts and the statistics alone. *)
LEMMA QuietHears ==
  ASSUME NEW ix, SumerFields \subseteq DOMAIN ix, NEW e, NEW c, NEW jx, But(ix, jx, {"market", "events", "touched", "rates", "comptroller"}),
         e.kind \notin {"Transfer", "Borrow", "Repay", "MarketEntered", "MarketExited"}
  PROVE  Listed(ix, jx) /\ StatsHeard(ix, e, jx) /\ CountsHeard(ix, e, jx)
<1>1. jx.accounts = ix.accounts /\ jx.stats = ix.stats
  BY DEF But, SumerFields
<1>2. \A v : AccountOf(jx, v) = AccountOf(ix, v)
  BY <1>1 DEF AccountOf
<1>3. \A v : StatsOf(jx, v) = StatsOf(ix, v)
  BY <1>1 DEF StatsOf
<1>4. StatsHeard(ix, e, jx)
  BY <1>3, StatSame DEF StatsHeard
<1> QED
  BY <1>1, <1>2, <1>4 DEF Listed, CountsHeard, Uncounted

(* A mint and a redemption are filed. *)
LEMMA FiledHears ==
  ASSUME NEW ix, SumerFields \subseteq DOMAIN ix, NEW e, e.kind \in {"Mint", "Redeem"}, NEW c, NEW jx, jx = SumerHandled(ix, e, c)
  PROVE  Heard(ix, e, c, jx)
<1>1. PICK hx : hx = Recorded(ix, e)
  OBVIOUS
<1>2. jx = Rated(hx, e)
  BY <1>1 DEF SumerHandled, HandleMint, HandleRedeem
<1>3. But(ix, hx, {"events"}) /\ DOMAIN hx = DOMAIN ix
  BY <1>1, RecordedFacts DEF But
<1>4. But(hx, jx, {"rates"})
  BY <1>2, <1>3, RecordedFacts
<1>5. But(ix, jx, {"events", "rates"})
  BY <1>3, <1>4 DEF But
<1>6. But(ix, jx, {"market", "events", "touched", "rates", "comptroller"}) /\ jx.market = ix.market /\ jx.comptroller = ix.comptroller
      /\ DOMAIN jx = DOMAIN ix
  BY <1>5 DEF But, SumerFields
<1> QED
  BY <1>6, QuietHears DEF Heard, MarketHeard, FactorHeard

(* An accrual reads the market. *)
LEMMA AccrueHears ==
  ASSUME NEW ix, SumerFields \subseteq DOMAIN ix, NEW m, MarketIs(ix, m), NEW e, e.kind = "AccrueInterest", NEW c, c.rate \in Nat,
         NEW jx, jx = SumerHandled(ix, e, c)
  PROVE  Heard(ix, e, c, jx)
<1>1. jx = Updated(ix, e, c)
  BY DEF SumerHandled, HandleAccrueInterest
<1>2. But(ix, jx, {"market"}) /\ \A n : MarketIs(ix, n) => MarketTold(n, e, c, jx)
  BY <1>1, UpdatedFacts
<1>3. But(ix, jx, {"market", "events", "touched", "rates", "comptroller"}) /\ jx.comptroller = ix.comptroller
      /\ DOMAIN jx = DOMAIN ix
  BY <1>2 DEF But, SumerFields
<1> QED
  BY <1>2, <1>3, QuietHears DEF Heard, MarketHeard, FactorHeard

(* A new oracle and a new close factor change the comptroller. *)
LEMMA OracleHears ==
  ASSUME NEW ix, SumerFields \subseteq DOMAIN ix, NEW e, e.kind \in {"NewPriceOracle", "NewCloseFactor"}, NEW c,
         NEW jx, jx = SumerHandled(ix, e, c)
  PROVE  Heard(ix, e, c, jx)
<1>1. But(ix, jx, {"comptroller"})
  <2>1. CASE e.kind = "NewPriceOracle"
    <3>1. PICK s : s = <<[oracle |-> e.total, factor |-> IF ix.comptroller = <<>> THEN 0 ELSE ix.comptroller[1].factor]>>
      OBVIOUS
    <3>2. jx = [ix EXCEPT !.comptroller = s]
      BY <2>1, <3>1 DEF SumerHandled, HandleNewPriceOracle
    <3> QED
      BY <3>2 DEF But, SumerFields
  <2>2. CASE e.kind = "NewCloseFactor"
    <3>1. PICK s : s = [ix.comptroller EXCEPT ![1] = [@ EXCEPT !.factor = e.total]]
      OBVIOUS
    <3>2. jx = ix \/ jx = [ix EXCEPT !.comptroller = s]
      BY <2>2, <3>1 DEF SumerHandled, HandleNewCloseFactor
    <3> QED
      BY <3>2 DEF But, SumerFields
  <2> QED
    BY <2>1, <2>2
<1>2. But(ix, jx, {"market", "events", "touched", "rates", "comptroller"}) /\ jx.market = ix.market
      /\ DOMAIN jx = DOMAIN ix
  BY <1>1 DEF But, SumerFields
<1> QED
  BY <1>2, QuietHears DEF Heard, MarketHeard, FactorHeard

(* Handlers that touch the statistics of e.to. *)
LEMMA TouchHears ==
  ASSUME NEW ix, SumerFields \subseteq DOMAIN ix, NEW e, e.kind \in {"Borrow", "Repay", "MarketEntered", "MarketExited"}, NEW c,
         NEW hx, But(ix, hx, {"accounts"}), DOMAIN hx.accounts = DOMAIN ix.accounts \cup {e.to}, Uncounted(ix, hx),
         NEW t, \A w : StatTold(e, e.to, StatsOf(ix, e.to), [t EXCEPT !.accrual = e.block], w),
         NEW jx, But(Touched(hx, e, e.to, t), jx, {"events", "rates"})
  PROVE  Heard(ix, e, c, jx)
<1>1. PICK kx : kx = Touched(hx, e, e.to, t)
  OBVIOUS
<1>2. SumerFields \subseteq DOMAIN hx /\ DOMAIN hx = DOMAIN ix /\ hx.stats = ix.stats /\ hx.market = ix.market /\ hx.comptroller = ix.comptroller
  BY DEF But, SumerFields
<1>3. PICK n : n = [t EXCEPT !.accrual = e.block]
  OBVIOUS
<1>4. /\ But(hx, kx, {"stats", "touched"}) /\ DOMAIN kx.stats = DOMAIN hx.stats \cup {e.to}
      /\ \A v : StatsOf(kx, v) = IF v = e.to THEN n ELSE StatsOf(hx, v)
  BY <1>1, <1>2, <1>3, TouchedFacts
<1>5. But(kx, jx, {"events", "rates"})
  BY <1>1
<1>6. /\ DOMAIN jx = DOMAIN ix /\ jx.accounts = hx.accounts /\ jx.stats = kx.stats
      /\ jx.market = ix.market /\ jx.comptroller = ix.comptroller
  BY <1>2, <1>4, <1>5 DEF But, SumerFields
<1>7. \A v : AccountOf(jx, v) = AccountOf(hx, v)
  BY <1>6 DEF AccountOf
<1>8. \A v : StatsOf(jx, v) = StatsOf(kx, v)
  BY <1>6 DEF StatsOf
<1>9. \A v : StatsOf(hx, v) = StatsOf(ix, v)
  BY <1>2 DEF StatsOf
<1>10. Uncounted(ix, jx)
  BY <1>7 DEF Uncounted
<1>11. ASSUME NEW u \in User, NEW w PROVE StatTold(e, u, StatsOf(ix, u), StatsOf(jx, u), w)
  <2>1. CASE u = e.to
    <3>1. StatsOf(jx, u) = n
      BY <1>4, <1>8, <2>1
    <3> QED
      BY <1>3, <2>1, <3>1
  <2>2. CASE u # e.to
    <3>1. StatsOf(jx, u) = StatsOf(ix, u)
      BY <1>4, <1>8, <1>9, <2>2
    <3> QED
      BY <2>2, <3>1, StatSame
  <2> QED
    BY <2>1, <2>2
<1>12. Listed(ix, jx)
  BY <1>2, <1>4, <1>6 DEF Listed
<1> QED
  BY <1>6, <1>10, <1>11, <1>12 DEF Heard, StatsHeard, MarketHeard, FactorHeard, CountsHeard

------------------------------------------------------------------------------
(* Nothing is counted of an account that is made, or said to have borrowed. *)
LEMMA MadeUncounted ==
  ASSUME NEW ix, SumerFields \subseteq DOMAIN ix, NEW u, NEW hx,
         \/ hx = AccountMade(ix, u)
         \/ hx = Written(ix, u, [AccountOf(ix, u) EXCEPT !.hasBorrowed = TRUE])
  PROVE  But(ix, hx, {"accounts"}) /\ DOMAIN hx.accounts = DOMAIN ix.accounts \cup {u} /\ Uncounted(ix, hx)
<1>1. CASE hx = AccountMade(ix, u)
  BY <1>1, MadeFacts DEF Uncounted
<1>2. CASE hx = Written(ix, u, [AccountOf(ix, u) EXCEPT !.hasBorrowed = TRUE])
  <2>1. PICK a, b : a = AccountOf(ix, u) /\ b = [a EXCEPT !.hasBorrowed = TRUE]
    OBVIOUS
  <2>2. /\ But(ix, hx, {"accounts"}) /\ DOMAIN hx.accounts = DOMAIN ix.accounts \cup {u}
        /\ \A v : AccountOf(hx, v) = IF v = u THEN b ELSE AccountOf(ix, v)
    BY <1>2, <2>1, WrittenFacts
  <2>3. IsAccount(a) => IsAccount(b) /\ \A f \in Counters : b[f] = a[f]
    BY <2>1 DEF IsAccount, Counters
  <2> QED
    BY <2>1, <2>2, <2>3 DEF Uncounted
<1> QED
  BY <1>1, <1>2

(* A debt is heard of, *)
LEMMA DebtHears ==
  ASSUME NEW ix, SumerFields \subseteq DOMAIN ix, NEW e, e.kind \in {"Borrow", "Repay"}, NEW c,
         NEW jx, jx = SumerHandled(ix, e, c)
  PROVE  Heard(ix, e, c, jx)
<1>1. PICK s : s = StatsOf(ix, e.to)
  OBVIOUS
<1>2. CASE e.kind = "Borrow"
  <2>1. PICK hx : hx = Written(ix, e.to, [AccountOf(ix, e.to) EXCEPT !.hasBorrowed = TRUE])
    OBVIOUS
  <2>2. PICK t : t = [s EXCEPT !.stored = e.total, !.borrowed = @ + e.amount]
    OBVIOUS
  <2>3. PICK kx : kx = Touched(hx, e, e.to, t)
    OBVIOUS
  <2>4. jx = Rated(Recorded(kx, e), e)
    BY <1>1, <1>2, <2>1, <2>2, <2>3 DEF SumerHandled, HandleBorrow, Written, AccountOf
  <2>5. But(ix, hx, {"accounts"}) /\ DOMAIN hx.accounts = DOMAIN ix.accounts \cup {e.to} /\ Uncounted(ix, hx)
    BY <2>1, MadeUncounted
  <2>6. SumerFields \subseteq DOMAIN kx
    <3>1. SumerFields \subseteq DOMAIN hx
      BY <2>5 DEF But
    <3> QED
      BY <2>3, <3>1, TouchedFacts DEF But
  <2>7. But(kx, jx, {"events", "rates"})
    <3>1. PICK lx : lx = Recorded(kx, e)
      OBVIOUS
    <3>2. But(kx, lx, {"events"}) /\ SumerFields \subseteq DOMAIN lx
      BY <2>6, <3>1, RecordedFacts DEF But
    <3>3. But(lx, jx, {"rates"})
      BY <2>4, <3>1, <3>2, RecordedFacts
    <3> QED
      BY <3>2, <3>3 DEF But
  <2>8. Owing(e, s, [t EXCEPT !.accrual = e.block])
    BY <2>2 DEF Owing
  <2>9. \A w : StatTold(e, e.to, s, [t EXCEPT !.accrual = e.block], w)
    BY <2>8, <1>2, StatOwes
  <2> QED
    BY <1>1, <2>3, <2>5, <2>7, <2>9, TouchHears
<1>3. CASE e.kind = "Repay"
  <2>1. PICK hx : hx = AccountMade(ix, e.to)
    OBVIOUS
  <2>2. PICK t : t = [s EXCEPT !.stored = e.total, !.repaid = @ + e.amount]
    OBVIOUS
  <2>3. PICK kx : kx = Touched(hx, e, e.to, t)
    OBVIOUS
  <2>31. PICK v : v = Save(kx.events, ByTx(e), e)
    OBVIOUS
  <2>32. PICK lx : lx = [kx EXCEPT !.events = v]
    OBVIOUS
  <2>4. jx = Rated(lx, e)
    BY <1>1, <1>3, <2>1, <2>2, <2>3, <2>31, <2>32 DEF SumerHandled, HandleRepayBorrow
  <2>5. But(ix, hx, {"accounts"}) /\ DOMAIN hx.accounts = DOMAIN ix.accounts \cup {e.to} /\ Uncounted(ix, hx)
    BY <2>1, MadeUncounted
  <2>6. SumerFields \subseteq DOMAIN kx
    <3>1. SumerFields \subseteq DOMAIN hx
      BY <2>5 DEF But
    <3> QED
      BY <2>3, <3>1, TouchedFacts DEF But
  <2>7. But(kx, jx, {"events", "rates"})
    <3>2. But(kx, lx, {"events"}) /\ SumerFields \subseteq DOMAIN lx
      BY <2>6, <2>32 DEF But, SumerFields
    <3>3. But(lx, jx, {"rates"})
      BY <2>4, <3>2, RecordedFacts
    <3> QED
      BY <3>2, <3>3 DEF But
  <2>8. Owing(e, s, [t EXCEPT !.accrual = e.block])
    BY <2>2 DEF Owing
  <2>9. \A w : StatTold(e, e.to, s, [t EXCEPT !.accrual = e.block], w)
    BY <2>8, <1>3, StatOwes
  <2> QED
    BY <1>1, <2>3, <2>5, <2>7, <2>9, TouchHears
<1> QED
  BY <1>2, <1>3

(* and who enters or leaves. *)
LEMMA EnterHears ==
  ASSUME NEW ix, SumerFields \subseteq DOMAIN ix, NEW e, e.kind \in {"MarketEntered", "MarketExited"}, NEW c,
         NEW jx, jx = SumerHandled(ix, e, c)
  PROVE  Heard(ix, e, c, jx)
<1>1. PICK s : s = StatsOf(ix, e.to)
  OBVIOUS
<1>2. PICK hx : hx = AccountMade(ix, e.to)
  OBVIOUS
<1>3. PICK t : /\ e.kind = "MarketEntered" => t = [s EXCEPT !.entered = TRUE]
               /\ e.kind = "MarketExited" => t = [s EXCEPT !.entered = FALSE]
  <2>1. "MarketEntered" # "MarketExited"
    OBVIOUS
  <2>2. CASE e.kind = "MarketEntered"
    <3>1. e.kind # "MarketExited"
      BY <2>2
    <3>2. \E t : t = [s EXCEPT !.entered = TRUE]
      OBVIOUS
    <3> QED
      BY <3>1, <3>2
  <2>3. CASE e.kind = "MarketExited"
    <3>1. e.kind # "MarketEntered"
      BY <2>3
    <3>2. \E t : t = [s EXCEPT !.entered = FALSE]
      OBVIOUS
    <3> QED
      BY <3>1, <3>2
  <2> QED
    BY <2>2, <2>3
<1>4. jx = Touched(hx, e, e.to, t)
  <2>1. CASE e.kind = "MarketEntered"
    BY <1>1, <1>2, <1>3, <2>1 DEF SumerHandled, HandleMarketEntered
  <2>2. CASE e.kind = "MarketExited"
    BY <1>1, <1>2, <1>3, <2>2 DEF SumerHandled, HandleMarketExited
  <2> QED
    BY <2>1, <2>2
<1>5. But(ix, hx, {"accounts"}) /\ DOMAIN hx.accounts = DOMAIN ix.accounts \cup {e.to} /\ Uncounted(ix, hx)
  BY <1>2, MadeUncounted
<1>6. But(Touched(hx, e, e.to, t), jx, {"events", "rates"})
  BY <1>4 DEF But
<1>7. \A w : StatTold(e, e.to, s, [t EXCEPT !.accrual = e.block], w)
  <2>1. CASE e.kind = "MarketEntered"
    <3>1. t = [s EXCEPT !.entered = TRUE]
      BY <1>3, <2>1
    <3>2. Entering(e, s, [t EXCEPT !.accrual = e.block], TRUE)
      BY <3>1 DEF Entering
    <3> QED
      BY <2>1, <3>2, StatEnters
  <2>2. CASE e.kind = "MarketExited"
    <3>1. t = [s EXCEPT !.entered = FALSE]
      BY <1>3, <2>2
    <3>2. Entering(e, s, [t EXCEPT !.accrual = e.block], FALSE)
      BY <3>1 DEF Entering
    <3> QED
      BY <2>2, <3>2, StatEnters
  <2> QED
    BY <2>1, <2>2
<1> QED
  BY <1>1, <1>5, <1>6, <1>7, TouchHears

------------------------------------------------------------------------------
(* One half of a transfer. *)
LEMMA HalfHears ==
  ASSUME NEW gx, SumerFields \subseteq DOMAIN gx, NEW e, NEW a, NEW t, NEW n, n = [t EXCEPT !.accrual = e.block],
         NEW hx, hx = Touched(AccountMade(gx, a), e, a, t)
  PROVE  /\ But(gx, hx, {"accounts", "stats", "touched"}) /\ Listed(gx, hx) /\ Uncounted(gx, hx)
         /\ \A v : StatsOf(hx, v) = IF v = a THEN n ELSE StatsOf(gx, v)
<1>1. PICK mx : mx = AccountMade(gx, a)
  OBVIOUS
<1>2. But(gx, mx, {"accounts"}) /\ DOMAIN mx.accounts = DOMAIN gx.accounts \cup {a} /\ Uncounted(gx, mx)
  BY <1>1, MadeUncounted
<1>3. SumerFields \subseteq DOMAIN mx /\ mx.stats = gx.stats
  BY <1>2 DEF But, SumerFields
<1>4. /\ But(mx, hx, {"stats", "touched"}) /\ DOMAIN hx.stats = DOMAIN mx.stats \cup {a}
      /\ \A v : StatsOf(hx, v) = IF v = a THEN n ELSE StatsOf(mx, v)
  BY <1>1, <1>3, TouchedFacts
<1>5. \A v : StatsOf(mx, v) = StatsOf(gx, v)
  BY <1>3 DEF StatsOf
<1>6. But(gx, hx, {"accounts", "stats", "touched"}) /\ hx.accounts = mx.accounts
  BY <1>2, <1>3, <1>4 DEF But, SumerFields
<1>7. \A v : AccountOf(hx, v) = AccountOf(mx, v)
  BY <1>6 DEF AccountOf
<1>8. Uncounted(gx, hx)
  BY <1>2, <1>7 DEF Uncounted
<1>9. Listed(gx, hx)
  BY <1>2, <1>3, <1>4, <1>6 DEF Listed
<1> QED
  BY <1>4, <1>5, <1>6, <1>8, <1>9

(* Nothing changes of the accounts, and of the statistics. *)
LEMMA SameHears == \A ix : But(ix, ix, {"accounts", "stats", "touched"}) /\ Listed(ix, ix) /\ Uncounted(ix, ix)
BY DEF But, Listed, Uncounted

(* Both. *)
LEMMA TransferHears ==
  ASSUME NEW ix, SumerFields \subseteq DOMAIN ix, NEW m, MarketIs(ix, m), NEW e, e.kind = "Transfer", NEW c, c.rate \in Nat,
         NEW jx, jx = SumerHandled(ix, e, c)
  PROVE  Heard(ix, e, c, jx)
<1>1. PICK gx : gx = Updated(ix, e, c)
  OBVIOUS
<1>2. But(ix, gx, {"market"}) /\ \A n : MarketIs(ix, n) => MarketTold(n, e, c, gx)
  BY <1>1, UpdatedFacts
<1>3. /\ SumerFields \subseteq DOMAIN gx /\ DOMAIN gx = DOMAIN ix
      /\ gx.accounts = ix.accounts /\ gx.stats = ix.stats /\ gx.comptroller = ix.comptroller
  BY <1>2 DEF But, SumerFields
<1>4. PICK hx : hx = MovedFrom(gx, e)
  OBVIOUS
<1>5. PICK kx : kx = MovedTo(hx, e)
  OBVIOUS
<1>6. jx = Recorded(kx, e)
  BY <1>1, <1>4, <1>5 DEF SumerHandled, HandleTransfer
<1>19. PICK q : q = gx.market[1].rate
  OBVIOUS
<1>20. PICK p : p = Underlying(q, e.amount)
  OBVIOUS
<1>21. Underlying(q, 1) \in Int
  <2>1. PICK n : MarketIs(gx, n)
    BY <1>2 DEF MarketTold
  <2>2. q \in Nat
    BY <1>19, <2>1, MarketFirst
  <2> QED
    BY <2>2, WorthMore
<1>7. /\ But(gx, hx, {"accounts", "stats", "touched"}) /\ Listed(gx, hx) /\ Uncounted(gx, hx)
      /\ \A u \in User : IF e.from = u THEN Less(e, StatsOf(gx, u), StatsOf(hx, u), p) ELSE StatsOf(hx, u) = StatsOf(gx, u)
  <2>1. CASE e.from = Pool
    <3>1. hx = gx /\ e.from \notin User
      BY <1>4, <2>1, AddressAssumption DEF MovedFrom
    <3> QED
      BY <3>1, SameHears
  <2>2. CASE e.from # Pool
    <3>1. PICK s, t : s = StatsOf(gx, e.from) /\ t = [s EXCEPT !.balance = @ - e.amount, !.redeemed = @ + p]
      OBVIOUS
    <3>2. PICK n : n = [t EXCEPT !.accrual = e.block]
      OBVIOUS
    <3>3. hx = Touched(AccountMade(gx, e.from), e, e.from, t)
      BY <1>4, <1>19, <1>20, <2>2, <3>1 DEF MovedFrom
    <3>4. /\ But(gx, hx, {"accounts", "stats", "touched"}) /\ Listed(gx, hx) /\ Uncounted(gx, hx)
          /\ \A v : StatsOf(hx, v) = IF v = e.from THEN n ELSE StatsOf(gx, v)
      BY <1>3, <3>2, <3>3, HalfHears
    <3>5. Less(e, s, n, p)
      BY <3>1, <3>2 DEF Less
    <3> QED
      BY <3>1, <3>4, <3>5
  <2> QED
    BY <2>1, <2>2
<1>8. SumerFields \subseteq DOMAIN hx /\ hx.market = gx.market
  BY <1>3, <1>7 DEF But, SumerFields
<1>9. /\ But(hx, kx, {"accounts", "stats", "touched"}) /\ Listed(hx, kx) /\ Uncounted(hx, kx)
      /\ \A u \in User : IF e.to = u THEN More(e, StatsOf(hx, u), StatsOf(kx, u), p) ELSE StatsOf(kx, u) = StatsOf(hx, u)
  <2>1. CASE e.to = Pool
    <3>1. kx = hx /\ e.to \notin User
      BY <1>5, <2>1, AddressAssumption DEF MovedTo
    <3> QED
      BY <3>1, SameHears
  <2>2. CASE e.to # Pool
    <3>1. PICK s, t : s = StatsOf(hx, e.to) /\ t = [s EXCEPT !.balance = @ + e.amount, !.supplied = @ + p]
      OBVIOUS
    <3>2. PICK n : n = [t EXCEPT !.accrual = e.block]
      OBVIOUS
    <3>3. kx = Touched(AccountMade(hx, e.to), e, e.to, t)
      BY <1>5, <1>8, <1>19, <1>20, <2>2, <3>1 DEF MovedTo
    <3>4. /\ But(hx, kx, {"accounts", "stats", "touched"}) /\ Listed(hx, kx) /\ Uncounted(hx, kx)
          /\ \A v : StatsOf(kx, v) = IF v = e.to THEN n ELSE StatsOf(hx, v)
      BY <1>8, <3>2, <3>3, HalfHears
    <3>5. More(e, s, n, p)
      BY <3>1, <3>2 DEF More
    <3> QED
      BY <3>1, <3>4, <3>5
  <2> QED
    BY <2>1, <2>2
<1>10. SumerFields \subseteq DOMAIN kx
  BY <1>8, <1>9 DEF But
<1>11. But(kx, jx, {"events"})
  BY <1>6, <1>10, RecordedFacts
<1>12. /\ DOMAIN jx = DOMAIN ix /\ jx.accounts = kx.accounts /\ jx.stats = kx.stats
       /\ jx.market = gx.market /\ jx.comptroller = ix.comptroller
  BY <1>3, <1>7, <1>8, <1>9, <1>10, <1>11 DEF But, SumerFields
<1>13. \A v : AccountOf(jx, v) = AccountOf(kx, v) /\ AccountOf(gx, v) = AccountOf(ix, v)
  BY <1>3, <1>12 DEF AccountOf
<1>14. \A v : StatsOf(jx, v) = StatsOf(kx, v) /\ StatsOf(gx, v) = StatsOf(ix, v)
  BY <1>3, <1>12 DEF StatsOf
<1>15. Uncounted(ix, jx)
  BY <1>7, <1>9, <1>13 DEF Uncounted
<1>16. Listed(ix, jx)
  BY <1>3, <1>7, <1>9, <1>12 DEF Listed
<1>17. ASSUME NEW u \in User PROVE StatTold(e, u, StatsOf(ix, u), StatsOf(jx, u), Underlying(jx.market[1].rate, 1))
  <2>1. IF e.from = u THEN Less(e, StatsOf(ix, u), StatsOf(hx, u), p) ELSE StatsOf(hx, u) = StatsOf(ix, u)
    BY <1>7, <1>14
  <2>2. IF e.to = u THEN More(e, StatsOf(hx, u), StatsOf(jx, u), p) ELSE StatsOf(jx, u) = StatsOf(hx, u)
    BY <1>9, <1>14
  <2>3. jx.market[1].rate = q
    BY <1>12, <1>19
  <2> QED
    BY <1>20, <1>21, <2>1, <2>2, <2>3, StatMoves
<1>18. MarketHeard(ix, e, c, jx)
  <2>1. \A n : MarketTold(n, e, c, gx) => MarketTold(n, e, c, jx)
    BY <1>12 DEF MarketTold, MarketIs
  <2> QED
    BY <1>2, <2>1 DEF MarketHeard
<1> QED
  BY <1>12, <1>15, <1>16, <1>17, <1>18 DEF Heard, StatsHeard, FactorHeard, CountsHeard

(* What is counted. *)
CountsTold(e, v, a, b) ==
  /\ IsAccount(b)
  /\ b.liquidator = IF e.kind = "Liquidate" /\ e.to = v THEN a.liquidator + 1 ELSE a.liquidator
  /\ b.liquidated = IF e.kind = "Liquidate" /\ e.from = v THEN a.liquidated + 1 ELSE a.liquidated
  /\ b.redeemer = IF e.kind = "RedeemFaceValue" /\ e.to = v THEN a.redeemer + 2 ELSE a.redeemer
  /\ b.redeemed = IF e.kind = "RedeemFaceValue" /\ e.from = v THEN a.redeemed + 1 ELSE a.redeemed

(* A liquidation, *)
LEMMA LiquidateHears ==
  ASSUME NEW ix, SumerFields \subseteq DOMAIN ix, \A v : IsAccount(AccountOf(ix, v)), NEW e, e.kind = "Liquidate", NEW c,
         NEW jx, jx = SumerHandled(ix, e, c)
  PROVE  Heard(ix, e, c, jx) /\ \A v : CountsTold(e, v, AccountOf(ix, v), AccountOf(jx, v))
<1>1. PICK hx : hx = CountedIn(ix, e.to, "liquidator")
  OBVIOUS
<1>2. PICK kx : kx = CountedIn(hx, e.from, "liquidated")
  OBVIOUS
<1>3. jx = Recorded(kx, e)
  BY <1>1, <1>2 DEF SumerHandled, HandleLiquidateBorrow
<1>4. /\ But(ix, hx, {"accounts"}) /\ DOMAIN hx.accounts = DOMAIN ix.accounts \cup {e.to}
      /\ OneUp(AccountOf(ix, e.to), "liquidator", AccountOf(hx, e.to))
      /\ \A v : v # e.to => AccountOf(hx, v) = AccountOf(ix, v)
  <2>1. "liquidator" \in Counters
    BY DEF Counters
  <2> QED
    BY <1>1, <2>1, CountedFacts
<1>5. SumerFields \subseteq DOMAIN hx /\ \A v : IsAccount(AccountOf(hx, v))
  BY <1>4 DEF But, OneUp
<1>6. /\ But(hx, kx, {"accounts"}) /\ DOMAIN kx.accounts = DOMAIN hx.accounts \cup {e.from}
      /\ OneUp(AccountOf(hx, e.from), "liquidated", AccountOf(kx, e.from))
      /\ \A v : v # e.from => AccountOf(kx, v) = AccountOf(hx, v)
  <2>1. "liquidated" \in Counters
    BY DEF Counters
  <2> QED
    BY <1>2, <1>5, <2>1, CountedFacts
<1>7. SumerFields \subseteq DOMAIN kx
  BY <1>5, <1>6 DEF But
<1>8. But(kx, jx, {"events"})
  BY <1>3, <1>7, RecordedFacts
<1>9. /\ DOMAIN jx = DOMAIN ix /\ jx.accounts = kx.accounts /\ jx.stats = ix.stats
      /\ jx.market = ix.market /\ jx.comptroller = ix.comptroller
  BY <1>4, <1>5, <1>6, <1>7, <1>8 DEF But, SumerFields
<1>10. \A v : AccountOf(jx, v) = AccountOf(kx, v)
  BY <1>9 DEF AccountOf
<1>11. \A v : StatsOf(jx, v) = StatsOf(ix, v)
  BY <1>9 DEF StatsOf
<1>12. Listed(ix, jx)
  BY <1>4, <1>6, <1>9 DEF Listed
<1>13. StatsHeard(ix, e, jx)
  BY <1>11, StatSame DEF StatsHeard
<1>14. Heard(ix, e, c, jx)
  BY <1>9, <1>12, <1>13 DEF Heard, MarketHeard, FactorHeard, CountsHeard
<1>15. ASSUME NEW v PROVE CountsTold(e, v, AccountOf(ix, v), AccountOf(jx, v))
  <2>1. PICK a, b, d : a = AccountOf(ix, v) /\ b = AccountOf(hx, v) /\ d = AccountOf(kx, v)
    OBVIOUS
  <2>2. IsAccount(a)
    BY <2>1
  <2>3. /\ IsAccount(b) /\ b.liquidator = (IF e.to = v THEN a.liquidator + 1 ELSE a.liquidator)
        /\ b.liquidated = a.liquidated /\ b.redeemer = a.redeemer /\ b.redeemed = a.redeemed
    BY <1>4, <1>5, <2>1, <2>2 DEF OneUp, Counters
  <2>4. /\ IsAccount(d) /\ d.liquidated = (IF e.from = v THEN b.liquidated + 1 ELSE b.liquidated)
        /\ d.liquidator = b.liquidator /\ d.redeemer = b.redeemer /\ d.redeemed = b.redeemed
    BY <1>6, <2>1, <2>3 DEF OneUp, Counters
  <2>5. CountsTold(e, v, a, d)
    BY <2>3, <2>4 DEF CountsTold
  <2> QED
    BY <1>10, <2>1, <2>5
<1> QED
  BY <1>14, <1>15

(* and a redemption at face value. *)
LEMMA FaceValueHears ==
  ASSUME NEW ix, SumerFields \subseteq DOMAIN ix, \A v : IsAccount(AccountOf(ix, v)),
         NEW e, e.kind = "RedeemFaceValue", e.from # e.to, NEW c, NEW jx, jx = SumerHandled(ix, e, c)
  PROVE  Heard(ix, e, c, jx) /\ \A v : CountsTold(e, v, AccountOf(ix, v), AccountOf(jx, v))
<1>1. PICK hx : hx = CountedIn(ix, e.to, "redeemer")
  OBVIOUS
<1>2. PICK kx : kx = CountedIn(hx, e.from, "redeemed")
  OBVIOUS
<1>3. PICK p, q : p = hx.accounts[e.to] /\ q = [p EXCEPT !.redeemer = @ + 1]
  OBVIOUS
<1>4. PICK lx : lx = Written(kx, e.to, q)
  OBVIOUS
<1>5. jx = Recorded(lx, e)
  BY <1>1, <1>2, <1>3, <1>4 DEF SumerHandled, HandleRedeemFaceValue, Written
<1>6. /\ But(ix, hx, {"accounts"}) /\ DOMAIN hx.accounts = DOMAIN ix.accounts \cup {e.to}
      /\ OneUp(AccountOf(ix, e.to), "redeemer", AccountOf(hx, e.to))
      /\ \A v : v # e.to => AccountOf(hx, v) = AccountOf(ix, v)
  <2>1. "redeemer" \in Counters
    BY DEF Counters
  <2> QED
    BY <1>1, <2>1, CountedFacts
<1>7. SumerFields \subseteq DOMAIN hx /\ \A v : IsAccount(AccountOf(hx, v))
  BY <1>6 DEF But, OneUp
<1>8. /\ But(hx, kx, {"accounts"}) /\ DOMAIN kx.accounts = DOMAIN hx.accounts \cup {e.from}
      /\ OneUp(AccountOf(hx, e.from), "redeemed", AccountOf(kx, e.from))
      /\ \A v : v # e.from => AccountOf(kx, v) = AccountOf(hx, v)
  <2>1. "redeemed" \in Counters
    BY DEF Counters
  <2> QED
    BY <1>2, <1>7, <2>1, CountedFacts
<1>9. SumerFields \subseteq DOMAIN kx
  BY <1>7, <1>8 DEF But
<1>10. /\ But(kx, lx, {"accounts"}) /\ DOMAIN lx.accounts = DOMAIN kx.accounts \cup {e.to}
       /\ \A v : AccountOf(lx, v) = IF v = e.to THEN q ELSE AccountOf(kx, v)
  BY <1>4, <1>9, WrittenFacts
<1>11. SumerFields \subseteq DOMAIN lx
  BY <1>9, <1>10 DEF But
<1>12. But(lx, jx, {"events"})
  BY <1>5, <1>11, RecordedFacts
<1>13. /\ DOMAIN jx = DOMAIN ix /\ jx.accounts = lx.accounts /\ jx.stats = ix.stats
       /\ jx.market = ix.market /\ jx.comptroller = ix.comptroller
  BY <1>6, <1>7, <1>8, <1>9, <1>10, <1>11, <1>12 DEF But, SumerFields
<1>14. \A v : AccountOf(jx, v) = AccountOf(lx, v)
  BY <1>13 DEF AccountOf
<1>15. \A v : StatsOf(jx, v) = StatsOf(ix, v)
  BY <1>13 DEF StatsOf
<1>16. Listed(ix, jx)
  BY <1>6, <1>8, <1>10, <1>13 DEF Listed
<1>17. StatsHeard(ix, e, jx)
  BY <1>15, StatSame DEF StatsHeard
<1>18. Heard(ix, e, c, jx)
  BY <1>13, <1>16, <1>17 DEF Heard, MarketHeard, FactorHeard, CountsHeard
<1>19. p = AccountOf(hx, e.to)
  BY <1>3, <1>6 DEF AccountOf, Load
<1>20. OneUp(p, "redeemer", q)
  <2>1. IsAccount(p) /\ p.redeemer \in Int
    BY <1>7, <1>19 DEF IsAccount, Counters
  <2>2. PICK n : n = p.redeemer + 1
    OBVIOUS
  <2>3. q = [p EXCEPT !.redeemer = n]
    BY <1>3, <2>2
  <2>4. DOMAIN q = DOMAIN p /\ q.redeemer = n /\ \A g \in Counters \ {"redeemer"} : q[g] = p[g]
    BY <2>1, <2>3 DEF IsAccount, Counters
  <2>5. IsAccount(q)
    BY <2>1, <2>2, <2>4 DEF IsAccount, Counters
  <2> QED
    BY <2>2, <2>4, <2>5 DEF OneUp
<1>21. ASSUME NEW v PROVE CountsTold(e, v, AccountOf(ix, v), AccountOf(jx, v))
  <2>1. PICK a, b, d : a = AccountOf(ix, v) /\ b = AccountOf(hx, v) /\ d = AccountOf(jx, v)
    OBVIOUS
  <2>2. IsAccount(a) /\ a.redeemer \in Int /\ a.redeemed \in Int
    BY <2>1 DEF IsAccount, Counters
  <2>3. CASE v = e.to
    <3>1. OneUp(a, "redeemer", p) /\ d = q
      BY <1>6, <1>10, <1>14, <1>19, <2>1, <2>3
    <3>2. /\ IsAccount(d) /\ d.liquidator = a.liquidator /\ d.liquidated = a.liquidated
          /\ d.redeemed = a.redeemed /\ d.redeemer = a.redeemer + 2
      BY <1>20, <2>2, <3>1 DEF OneUp, Counters
    <3> QED
      BY <2>1, <2>3, <3>2 DEF CountsTold
  <2>4. CASE v # e.to
    <3>1. b = a /\ d = AccountOf(kx, v)
      BY <1>6, <1>10, <1>14, <2>1, <2>4
    <3>2. /\ IsAccount(d) /\ d.liquidator = a.liquidator /\ d.liquidated = a.liquidated
          /\ d.redeemer = a.redeemer /\ d.redeemed = IF e.from = v THEN a.redeemed + 1 ELSE a.redeemed
      BY <1>8, <2>1, <2>2, <3>1 DEF OneUp, Counters
    <3> QED
      BY <2>1, <2>4, <3>2 DEF CountsTold
  <2> QED
    BY <2>3, <2>4
<1> QED
  BY <1>18, <1>21

(* Whatever the event. *)
LEMMA SumerHears ==
  ASSUME NEW ix, SumerFields \subseteq DOMAIN ix, NEW m, MarketIs(ix, m), \A v : IsAccount(AccountOf(ix, v)),
         NEW e, e.kind \in SumerKinds, Proper(e), NEW c, c.rate \in Nat, NEW jx, jx = SumerHandled(ix, e, c)
  PROVE  Heard(ix, e, c, jx) /\ \A v : CountsTold(e, v, AccountOf(ix, v), AccountOf(jx, v))
<1>1. Heard(ix, e, c, jx)
  BY FiledHears, AccrueHears, OracleHears, DebtHears, EnterHears, TransferHears, LiquidateHears, FaceValueHears DEF SumerKinds, Proper
<1>2. CASE e.kind = "Liquidate"
  BY <1>2, LiquidateHears
<1>3. CASE e.kind = "RedeemFaceValue"
  BY <1>3, FaceValueHears DEF Proper
<1>4. CASE e.kind \notin {"Liquidate", "RedeemFaceValue"}
  <2>1. Uncounted(ix, jx)
    BY <1>1, <1>4 DEF Heard, CountsHeard
  <2>2. ASSUME NEW v PROVE CountsTold(e, v, AccountOf(ix, v), AccountOf(jx, v))
    <3>1. PICK a, b : a = AccountOf(ix, v) /\ b = AccountOf(jx, v)
      OBVIOUS
    <3>2. IsAccount(b) /\ \A f \in Counters : b[f] = a[f]
      BY <2>1, <3>1 DEF Uncounted
    <3>3. CountsTold(e, v, a, b)
      BY <1>4, <3>2 DEF CountsTold, Counters
    <3> QED
      BY <3>1, <3>3
  <2> QED
    BY <1>1, <2>2
<1> QED
  BY <1>1, <1>2, <1>3, <1>4

------------------------------------------------------------------------------
(* The close factor the index knows. *)
HasComptroller(ix) == 1 \in DOMAIN ix.comptroller /\ "factor" \in DOMAIN ix.comptroller[1]
ComptrollerKept(ix) == ix.comptroller = <<>> \/ HasComptroller(ix)
FactorIn(ix) ==
  IF ix.comptroller = <<>> THEN [known |-> FALSE, factor |-> 0] ELSE [known |-> TRUE, factor |-> ix.comptroller[1].factor]

(* The comptroller's factor is what the event says. *)
LEMMA FactorHears ==
  ASSUME NEW ix, SumerFields \subseteq DOMAIN ix, ComptrollerKept(ix), NEW e, NEW c, NEW jx, jx = SumerHandled(ix, e, c),
         NEW w, SaysFactor(FactorIn(ix), e, w), FactorHeard(ix, e, jx)
  PROVE  ComptrollerKept(jx) /\ FactorIn(jx) = w
<1>0. \A s : 1 \in DOMAIN s => s # <<>>
  <2>1. Len(<<>>) = 0 /\ 1..0 = {} /\ DOMAIN <<>> = 1..Len(<<>>)
    BY EmptySeq, LenProperties
  <2>2. DOMAIN <<>> = {}
    BY <2>1
  <2> QED
    BY <2>2
<1>1. CASE e.kind \notin {"NewPriceOracle", "NewCloseFactor"}
  <2>1. jx.comptroller = ix.comptroller
    BY <1>1 DEF FactorHeard
  <2>2. w = FactorIn(ix)
    BY <1>1 DEF SaysFactor
  <2> QED
    BY <2>1, <2>2 DEF FactorIn, ComptrollerKept, HasComptroller
<1>2. CASE e.kind = "NewPriceOracle"
  <2>1. PICK n : n = IF ix.comptroller = <<>> THEN 0 ELSE ix.comptroller[1].factor
    OBVIOUS
  <2>2. PICK r : r = [oracle |-> e.total, factor |-> n]
    OBVIOUS
  <2>3. PICK s : s = <<r>>
    OBVIOUS
  <2>4. jx = [ix EXCEPT !.comptroller = s]
    BY <1>2, <2>1, <2>2, <2>3 DEF SumerHandled, HandleNewPriceOracle
  <2>5. jx.comptroller = s
    BY <2>4 DEF SumerFields
  <2>6. 1 \in DOMAIN s /\ s[1] = r
    BY <2>3
  <2>7. r.factor = n /\ "factor" \in DOMAIN r
    BY <2>2
  <2>8. FactorIn(ix).factor = n
    BY <2>1 DEF FactorIn
  <2>9. w = [known |-> TRUE, factor |-> n]
    BY <1>2, <2>8 DEF SaysFactor
  <2>10. jx.comptroller # <<>>
    BY <1>0, <2>5, <2>6
  <2> QED
    BY <2>5, <2>6, <2>7, <2>9, <2>10 DEF FactorIn, ComptrollerKept, HasComptroller
<1>3. CASE e.kind = "NewCloseFactor"
  <2>1. CASE ix.comptroller = <<>>
    <3>1. jx = ix
      BY <1>3, <2>1 DEF SumerHandled, HandleNewCloseFactor
    <3>2. FactorIn(ix) = [known |-> FALSE, factor |-> 0]
      BY <2>1 DEF FactorIn
    <3>3. w = FactorIn(ix)
      BY <1>3, <3>2 DEF SaysFactor
    <3> QED
      BY <3>1, <3>3
  <2>2. CASE ix.comptroller # <<>>
    <3>1. PICK p : p = ix.comptroller
      OBVIOUS
    <3>2. 1 \in DOMAIN p /\ "factor" \in DOMAIN p[1]
      BY <2>2, <3>1 DEF ComptrollerKept, HasComptroller
    <3>3. PICK r : r = [p[1] EXCEPT !.factor = e.total]
      OBVIOUS
    <3>4. r.factor = e.total /\ "factor" \in DOMAIN r
      BY <3>2, <3>3
    <3>5. PICK s : s = [p EXCEPT ![1] = r]
      OBVIOUS
    <3>6. 1 \in DOMAIN s /\ s[1] = r
      BY <3>2, <3>5
    <3>7. jx = [ix EXCEPT !.comptroller = s]
      BY <1>3, <2>2, <3>1, <3>3, <3>5 DEF SumerHandled, HandleNewCloseFactor
    <3>8. jx.comptroller = s
      BY <3>7 DEF SumerFields
    <3>9. FactorIn(ix).known = TRUE
      BY <2>2 DEF FactorIn
    <3>10. w = [known |-> TRUE, factor |-> e.total]
      BY <1>3, <3>9 DEF SaysFactor
    <3>11. jx.comptroller # <<>>
      BY <1>0, <3>6, <3>8
    <3> QED
      BY <3>4, <3>6, <3>8, <3>10, <3>11 DEF FactorIn, ComptrollerKept, HasComptroller
  <2> QED
    BY <2>1, <2>2
<1> QED
  BY <1>1, <1>2, <1>3

------------------------------------------------------------------------------
(* The entities of a kind whose event names u on a side. *)
FiledAs(es, kind, side, u) == {i \in DOMAIN es : es[i].kind = kind /\ es[i][side] = u}
CountedKinds == {"Liquidate", "RedeemFaceValue"}

(* An entity is filed, and replaces none of these kinds. *)
FiledWell(es, id, e, fs) ==
  /\ fs = Save(es, id, e)
  /\ id \notin DOMAIN es \/ (e.kind \notin CountedKinds /\ es[id].kind \notin CountedKinds)

(* One entity more of its kind and side. *)
LEMMA FiledCounts ==
  ASSUME NEW es, IsFiniteSet(DOMAIN es), NEW id, NEW e, NEW fs, FiledWell(es, id, e, fs),
         NEW kind \in CountedKinds, NEW side, NEW u
  PROVE  /\ IsFiniteSet(DOMAIN fs)
         /\ Cardinality(FiledAs(fs, kind, side, u)) =
              Cardinality(FiledAs(es, kind, side, u)) + (IF e.kind = kind /\ e[side] = u THEN 1 ELSE 0)
         /\ Cardinality(FiledAs(es, kind, side, u)) \in Nat
<1>1. DOMAIN fs = DOMAIN es \cup {id} /\ \A i \in DOMAIN fs : fs[i] = IF i = id THEN e ELSE es[i]
  BY DEF FiledWell, Save
<1>2. IsFiniteSet(DOMAIN fs)
  BY <1>1, FS_AddElement
<1>3. PICK A, B : A = FiledAs(es, kind, side, u) /\ B = FiledAs(fs, kind, side, u)
  OBVIOUS
<1>4. IsFiniteSet(A) /\ Cardinality(A) \in Nat
  <2>1. A \subseteq DOMAIN es
    BY <1>3 DEF FiledAs
  <2> QED
    BY <2>1, FS_Subset, FS_CardinalityType
<1>5. CASE e.kind = kind /\ e[side] = u
  <2>1. id \notin DOMAIN es
    BY <1>5 DEF FiledWell
  <2>2. B = A \cup {id} /\ id \notin A
    BY <1>1, <1>3, <1>5, <2>1 DEF FiledAs
  <2>3. Cardinality(B) = Cardinality(A) + 1
    BY <1>4, <2>2, FS_AddElement
  <2> QED
    BY <1>2, <1>3, <1>4, <1>5, <2>3
<1>6. CASE ~(e.kind = kind /\ e[side] = u)
  <2>1. id \notin DOMAIN es \/ es[id].kind # kind
    BY DEF FiledWell
  <2>2. id \notin A /\ id \notin B
    BY <1>1, <1>3, <1>6, <2>1 DEF FiledAs
  <2>3. B = A
    BY <1>1, <1>3, <2>2 DEF FiledAs
  <2> QED
    BY <1>2, <1>3, <1>4, <1>6, <2>3
<1> QED
  BY <1>5, <1>6

(* An event's entity replaces no entity but a repayment's, of another      *)
(* repayment.                                                              *)
LEMMA SumerFiling ==
  ASSUME IndexInv, protocol = "sumer", queue # <<>>, NEW e, e = Head(queue)
  PROVE  /\ e.kind \in SumerKinds
         /\ \/ FiledWell(index.events, Key(e), e, HandledBy(e).events)
            \/ HandledBy(e).events = index.events /\ e.kind \notin CountedKinds
<1>1. Recording /\ EventsInOrder /\ EntitiesAreFiled /\ EventsAreKept
  BY DEF IndexInv, Recording, Protocols
<1>2. e \in Range(queue)
  BY <1>1, WaitingShrinks DEF EventsInOrder
<1>3. Placed(e) /\ e.kind \in SumerKinds
  BY <1>1, <1>2 DEF EventsInOrder, Seen, Placed, Kinds
<1>4. OwnId = {"Mint", "Redeem", "Borrow", "Liquidate", "RedeemFaceValue", "Transfer"} /\ SharedId = {"Repay"} /\ ~Unheard(e)
  BY DEF OwnId, SharedId, Unheard
<1>5. CASE e.kind \notin OwnId \cup SharedId
  <2>1. Quiet(index, HandledBy(e))
    BY <1>1, <1>3, <1>5, HandlerFiles
  <2> QED
    BY <1>3, <1>4, <1>5, <2>1 DEF Quiet, CountedKinds
<1>6. CASE e.kind \in OwnId \cup SharedId
  <2>1. Files(index, HandledBy(e), Key(e), e)
    BY <1>1, <1>3, <1>4, <1>6, HandlerFiles
  <2>2. ASSUME Key(e) \in DOMAIN index.events
        PROVE  e.kind \notin CountedKinds /\ index.events[Key(e)].kind \notin CountedKinds
    <3>1. PICK f : f = index.events[Key(e)]
      OBVIOUS
    <3>2. Key(f) = Key(e)
      BY <1>1, <2>2, <3>1 DEF EntitiesAreFiled
    <3>3. f \in handled
      <4>1. f \in Range(index.events)
        BY <2>2, <3>1 DEF Range
      <4> QED
        BY <1>1, <4>1, KeptFacts DEF Kept
    <3>4. Placed(f) /\ Earlier(f, e)
      BY <1>1, <1>2, <3>3 DEF EventsInOrder, Seen
    <3>5. ~(f.tx = e.tx /\ f.log = e.log)
      BY <1>3, <3>4, EarlierFacts
    <3>6. f.kind \in SharedId /\ e.kind \in SharedId
      BY <3>2, <3>5, KeyFacts
    <3> QED
      BY <1>4, <3>1, <3>6 DEF CountedKinds
  <2> QED
    BY <1>3, <2>1, <2>2 DEF Files, FiledWell
<1> QED
  BY <1>5, <1>6

(* The counters count the entities; a redemption at face value counts      *)
(* twice for the redeemer.                                                 *)
CountsRight(a, es, u) ==
  /\ a.liquidator = Cardinality(FiledAs(es, "Liquidate", "to", u))
  /\ a.liquidated = Cardinality(FiledAs(es, "Liquidate", "from", u))
  /\ a.redeemer = 2 * Cardinality(FiledAs(es, "RedeemFaceValue", "to", u))
  /\ a.redeemed = Cardinality(FiledAs(es, "RedeemFaceValue", "from", u))

(* The counters stay the number of entities. *)
LEMMA CountsStayRight ==
  ASSUME NEW es, IsFiniteSet(DOMAIN es), NEW fs, NEW e,
         (\E id : FiledWell(es, id, e, fs)) \/ (fs = es /\ e.kind \notin CountedKinds),
         NEW u, NEW a, NEW b, CountsTold(e, u, a, b), CountsRight(a, es, u)
  PROVE  CountsRight(b, fs, u) /\ IsFiniteSet(DOMAIN fs)
<1>1. "Liquidate" \in CountedKinds /\ "RedeemFaceValue" \in CountedKinds
  BY DEF CountedKinds
<1>2. CASE \E id : FiledWell(es, id, e, fs)
  <2>1. PICK id : FiledWell(es, id, e, fs)
    BY <1>2
  <2>2. PICK n1, n2, n3, n4 : /\ n1 = Cardinality(FiledAs(es, "Liquidate", "to", u))
                              /\ n2 = Cardinality(FiledAs(es, "Liquidate", "from", u))
                              /\ n3 = Cardinality(FiledAs(es, "RedeemFaceValue", "to", u))
                              /\ n4 = Cardinality(FiledAs(es, "RedeemFaceValue", "from", u))
    OBVIOUS
  <2>3. /\ IsFiniteSet(DOMAIN fs) /\ n1 \in Nat
        /\ Cardinality(FiledAs(fs, "Liquidate", "to", u)) = n1 + (IF e.kind = "Liquidate" /\ e.to = u THEN 1 ELSE 0)
    BY <1>1, <2>1, <2>2, FiledCounts
  <2>4. n2 \in Nat /\ Cardinality(FiledAs(fs, "Liquidate", "from", u)) = n2 + (IF e.kind = "Liquidate" /\ e.from = u THEN 1 ELSE 0)
    BY <1>1, <2>1, <2>2, FiledCounts
  <2>5. n3 \in Nat /\ Cardinality(FiledAs(fs, "RedeemFaceValue", "to", u)) = n3 + (IF e.kind = "RedeemFaceValue" /\ e.to = u THEN 1 ELSE 0)
    BY <1>1, <2>1, <2>2, FiledCounts
  <2>6. n4 \in Nat /\ Cardinality(FiledAs(fs, "RedeemFaceValue", "from", u)) = n4 + (IF e.kind = "RedeemFaceValue" /\ e.from = u THEN 1 ELSE 0)
    BY <1>1, <2>1, <2>2, FiledCounts
  <2>7. a.liquidator = n1 /\ a.liquidated = n2 /\ a.redeemer = 2 * n3 /\ a.redeemed = n4
    BY <2>2 DEF CountsRight
  <2>8. b.liquidator = Cardinality(FiledAs(fs, "Liquidate", "to", u))
    BY <2>3, <2>7 DEF CountsTold
  <2>9. b.liquidated = Cardinality(FiledAs(fs, "Liquidate", "from", u))
    BY <2>4, <2>7 DEF CountsTold
  <2>10. b.redeemer = 2 * Cardinality(FiledAs(fs, "RedeemFaceValue", "to", u))
    <3>1. b.redeemer = IF e.kind = "RedeemFaceValue" /\ e.to = u THEN 2 * n3 + 2 ELSE 2 * n3
      BY <2>7 DEF CountsTold
    <3>2. CASE e.kind = "RedeemFaceValue" /\ e.to = u
      <4>1. b.redeemer = 2 * n3 + 2 /\ Cardinality(FiledAs(fs, "RedeemFaceValue", "to", u)) = n3 + 1
        BY <2>5, <3>1, <3>2
      <4> QED
        BY <2>5, <4>1
    <3>3. CASE ~(e.kind = "RedeemFaceValue" /\ e.to = u)
      <4>1. b.redeemer = 2 * n3 /\ Cardinality(FiledAs(fs, "RedeemFaceValue", "to", u)) = n3
        BY <2>5, <3>1, <3>3
      <4> QED
        BY <4>1
    <3> QED
      BY <3>2, <3>3
  <2>11. b.redeemed = Cardinality(FiledAs(fs, "RedeemFaceValue", "from", u))
    BY <2>6, <2>7 DEF CountsTold
  <2> QED
    BY <2>3, <2>8, <2>9, <2>10, <2>11 DEF CountsRight
<1>3. CASE fs = es /\ e.kind \notin CountedKinds
  BY <1>3 DEF CountsRight, CountsTold, CountedKinds
<1> QED
  BY <1>2, <1>3

------------------------------------------------------------------------------
(* What the index m has of the market c is the contract's, unless an       *)
(* accrual waits in the queue q; until the block is sealed none of it was  *)
(* read in this block.  The rate is none before the first accrual, and     *)
(* never above the contract's.                                             *)
Accruing(q) == \E e \in Range(q) : e.kind = "AccrueInterest"
MarketSays(m, c) == m.supply = c.supply /\ m.cash = c.cash /\ (c.accrued > 0 => m.rate = c.rate)
MarketRight(m, c, q, whole) ==
  /\ m.accrual \in Int /\ m.accrual <= c.accrued /\ m.rate \in Nat /\ m.rate <= c.rate
  /\ ~whole => m.accrual # c.block /\ (c.accrued = c.block => Accruing(q))
  /\ MarketSays(m, c) \/ (m.accrual # c.block /\ Accruing(q))

(* Nobody has less interest than none. *)
Interested(ix, m) == \A u \in User : Interest(StatsOf(ix, u), Underlying(m.rate, 1)) >= 0

SumerIndexed(ix) ==
  /\ SumerFields \subseteq DOMAIN ix /\ ComptrollerKept(ix)
  /\ (\A u \in User : IsStats(StatsOf(ix, u))) /\ (\A v : IsAccount(AccountOf(ix, v)))
  /\ DOMAIN ix.stats \subseteq DOMAIN ix.accounts
  /\ IsFiniteSet(DOMAIN ix.events) /\ \A u \in User : CountsRight(AccountOf(ix, u), ix.events, u)

SumerInv ==
  /\ SumerSound(chain) /\ SumerIndexed(index)
  /\ \A k \in SumerFacts : Faithful(k)
  /\ \A e \in Range(queue) : e.block = chain.block
  /\ \E m : MarketIs(index, m) /\ MarketRight(m, chain, queue, sealed) /\ Interested(index, m)

(* A transaction leaves the market right. *)
LEMMA MarketTransacts ==
  ASSUME NEW m, NEW c, NEW t, NEW q, NEW r, NEW b, NEW x, MarketRight(m, c, q, FALSE), SumerSound(c),
         SumerGood(c, t), Lengthened(q, t.events, b, x, r)
  PROVE  MarketRight(m, t.chain, r, FALSE)
<1>1. /\ m.accrual \in Int /\ m.accrual <= c.accrued /\ m.accrual # c.block
      /\ c.accrued = c.block => Accruing(q)
      /\ m.rate \in Nat /\ m.rate <= c.rate
  BY DEF MarketRight
<1>2. c.block \in Int /\ c.accrued \in Int /\ c.accrued <= c.block /\ c.rate \in Nat
  BY SumerSoundFacts DEF SumerSound
<1>8. m.rate <= t.chain.rate
  <2>1. t.chain.rate \in Nat /\ c.rate <= t.chain.rate
    BY SumerSoundFacts DEF SumerGood
  <2> QED
    BY <1>1, <1>2, <2>1
<1>3. Range(q) \subseteq Range(r) /\ \A e \in Range(t.events) : \E st \in Range(r), l \in Nat : st = Stamp(e, b, x, l)
  BY WaitingGrows
<1>4. Accruing(q) => Accruing(r)
  BY <1>3 DEF Accruing
<1>5. t.chain.block = c.block
  BY DEF SumerGood
<1>6. CASE t.chain.supply = c.supply /\ t.chain.cash = c.cash /\ t.chain.rate = c.rate /\ t.chain.accrued = c.accrued
  <2>1. MarketSays(m, c) => MarketSays(m, t.chain)
    BY <1>6 DEF MarketSays
  <2> QED
    BY <1>1, <1>4, <1>5, <1>6, <2>1 DEF MarketRight
<1>7. CASE t.chain.accrued = c.block /\ Accrues(c, t.events)
  <2>1. Accruing(r)
    <3>1. CASE c.accrued = c.block
      BY <1>1, <1>4, <3>1
    <3>2. CASE \E e \in Range(t.events) : Has(e, Plain) /\ e.kind = "AccrueInterest"
      <4>1. PICK e \in Range(t.events) : Has(e, Plain) /\ e.kind = "AccrueInterest"
        BY <3>2
      <4>2. PICK st \in Range(r), l \in Nat : st = Stamp(e, b, x, l)
        BY <1>3
      <4>3. st.kind = "AccrueInterest"
        BY <4>1, <4>2, StampSame DEF Has
      <4> QED
        BY <4>3 DEF Accruing
    <3> QED
      BY <1>7, <3>1, <3>2 DEF Accrues
  <2>2. m.accrual <= t.chain.accrued
    BY <1>1, <1>2, <1>7
  <2> QED
    BY <1>1, <1>5, <1>8, <2>1, <2>2 DEF MarketRight
<1> QED
  BY <1>6, <1>7 DEF SumerGood

(* So does a handler, *)
LEMMA MarketHandles ==
  ASSUME NEW ix, NEW m, MarketIs(ix, m), NEW c, SumerSound(c), NEW q, NEW r, NEW e, MarketRight(m, c, q, TRUE),
         Range(q) = {e} \cup Range(r), e.block = c.block, NEW jx, MarketHeard(ix, e, c, jx)
  PROVE  \E n : MarketIs(jx, n) /\ MarketRight(n, c, r, TRUE) /\ m.rate <= n.rate
<1>1. /\ m.accrual \in Int /\ m.accrual <= c.accrued /\ m.rate \in Nat /\ m.rate <= c.rate
      /\ MarketSays(m, c) \/ (m.accrual # c.block /\ Accruing(q))
  BY DEF MarketRight
<1>4. m.rate <= m.rate
  BY <1>1
<1>2. CASE e.kind \in {"Transfer", "AccrueInterest"}
  <2>1. MarketTold(m, e, c, jx)
    BY <1>2 DEF MarketHeard
  <2>2. CASE m.accrual = e.block
    <3>1. MarketIs(jx, m)
      BY <2>1, <2>2 DEF MarketTold
    <3>2. MarketRight(m, c, r, TRUE)
      BY <1>1, <2>2 DEF MarketRight
    <3> QED
      BY <1>4, <3>1, <3>2
  <2>3. CASE m.accrual # e.block
    <3>1. PICK n : /\ MarketIs(jx, n) /\ n.accrual = c.accrued /\ n.rate = c.rate
                   /\ n.supply = c.supply /\ n.cash = c.cash
      BY <2>1, <2>3 DEF MarketTold
    <3>2. c.accrued \in Int /\ c.accrued <= c.accrued /\ c.rate \in Nat /\ c.rate <= c.rate
      BY SumerSoundFacts
    <3>3. MarketRight(n, c, r, TRUE)
      BY <3>1, <3>2 DEF MarketRight, MarketSays
    <3> QED
      BY <1>1, <3>1, <3>3
  <2> QED
    BY <2>2, <2>3
<1>3. CASE e.kind \notin {"Transfer", "AccrueInterest"}
  <2>1. MarketIs(jx, m)
    BY <1>3 DEF MarketHeard, MarketIs
  <2>2. Accruing(q) => Accruing(r)
    BY <1>3 DEF Accruing
  <2>3. MarketRight(m, c, r, TRUE)
    BY <1>1, <2>2 DEF MarketRight
  <2> QED
    BY <1>4, <2>1, <2>3
<1> QED
  BY <1>2, <1>3

(* the seal, and the next block. *)
LEMMA MarketSeals ==
  ASSUME NEW m, NEW c, SumerSound(c), NEW q, NEW b, MarketRight(m, c, q, b)
  PROVE  /\ MarketRight(m, c, q, TRUE)
         /\ \A d : d = [c EXCEPT !.block = @ + 1] /\ ~Accruing(q) => MarketRight(m, d, q, FALSE)
<1>1. MarketRight(m, c, q, TRUE)
  BY DEF MarketRight
<1>2. ASSUME NEW d, d = [c EXCEPT !.block = @ + 1], ~Accruing(q) PROVE MarketRight(m, d, q, FALSE)
  <2>1. c \in SumerChains /\ c.block \in Int /\ c.accrued \in Int /\ c.accrued <= c.block
    BY SumerSoundFacts DEF SumerSound
  <2>2. /\ d.block = c.block + 1 /\ d.accrued = c.accrued /\ d.rate = c.rate
        /\ d.supply = c.supply /\ d.cash = c.cash
    BY <1>2, <2>1 DEF SumerChains
  <2>3. m.accrual \in Int /\ m.accrual <= c.accrued /\ m.rate \in Nat /\ m.rate <= c.rate /\ MarketSays(m, c)
    BY <1>2 DEF MarketRight
  <2>4. m.accrual # d.block /\ d.accrued # d.block
    BY <2>1, <2>2, <2>3
  <2>5. MarketSays(m, d)
    BY <2>2, <2>3 DEF MarketSays
  <2> QED
    BY <2>2, <2>3, <2>4, <2>5 DEF MarketRight
<1> QED
  BY <1>1, <1>2

------------------------------------------------------------------------------
(* At the start the index has nothing, as the contract. *)
LEMMA SumerStarts ==
  ASSUME IndexInit, protocol = "sumer"
  PROVE  SumerInv
<1>1. chain = SumerChain /\ index = SumerIndex /\ queue = <<>> /\ sealed = FALSE
  BY DEF IndexInit, FirstChain, FirstIndex
<1>2. /\ chain.block = 1 /\ chain.accrued = 0 /\ chain.rate = 3 /\ chain.supply = 0 /\ chain.cash = 0
      /\ chain.held = [u \in User \cup {Pool} |-> 0] /\ chain.owed = [u \in User |-> 0] /\ chain.entered = {}
      /\ chain.oracle = 0 /\ chain.factor = 0 /\ chain.missed = FALSE
  BY <1>1 DEF SumerChain
<1>3. chain \in SumerChains
  BY <1>1 DEF SumerChain, SumerChains, Account, Debts
<1>4. SumOver(chain.held, Account) = 0
  <2>1. \A u \in Account : chain.held[u] = 0
    BY <1>2 DEF Account
  <2>2. SumOver(chain.held, Account) = 0 * Cardinality(Account)
    BY <2>1, AccountsFinite, SumOfEqual
  <2>3. Cardinality(Account) \in Nat
    BY AccountsFinite, FS_CardinalityType
  <2> QED
    BY <2>2, <2>3
<1>5. SumerSound(chain)
  BY <1>2, <1>3, <1>4 DEF SumerSound
<1>6. PICK ix : ix = [market |-> <<>>, accounts |-> Nothing, stats |-> Nothing, events |-> Nothing,
                      touched |-> {}, rates |-> {}, comptroller |-> <<>>]
  OBVIOUS
<1>7. PICK m : m = [accrual |-> 0, rate |-> 0, supply |-> 0, cash |-> 0, price |-> TokenPrice(ix, SumerChain)]
  OBVIOUS
<1>8. IsMarket(m) /\ m.accrual = 0 /\ m.rate = 0 /\ m.supply = 0 /\ m.cash = 0
  BY <1>1, <1>2, <1>7 DEF IsMarket
<1>9. PICK s : s = <<m>>
  OBVIOUS
<1>10. index = [ix EXCEPT !.market = s]
  <2>1. index = HandleMarketListed(ix, SumerChain)
    BY <1>1, <1>6 DEF SumerIndex
  <2>2. NewMarket(ix, SumerChain) = m
    BY <1>7 DEF NewMarket
  <2>3. PICK c : c = SumerChain
    OBVIOUS
  <2>4. PICK n : n = NewMarket(ix, c)
    OBVIOUS
  <2>5. HandleMarketListed(ix, c) = [ix EXCEPT !.market = <<n>>]
    BY <2>4 DEF HandleMarketListed
  <2>6. <<n>> = s
    BY <1>9, <2>2, <2>3, <2>4
  <2> QED
    BY <2>1, <2>3, <2>5, <2>6
<1>11. /\ SumerFields \subseteq DOMAIN index /\ index.market = s /\ index.accounts = Nothing /\ index.stats = Nothing
       /\ index.events = Nothing /\ index.comptroller = <<>>
  BY <1>6, <1>10 DEF SumerFields
<1>12. \A v : AccountOf(index, v) = NewAccount /\ StatsOf(index, v) = NewStats
  BY <1>11 DEF AccountOf, StatsOf, Load, Nothing
<1>13. IsAccount(NewAccount) /\ IsStats(NewStats)
  <2>1. IsAccount(NewAccount)
    BY DEF IsAccount, NewAccount, Counters
  <2>2. /\ StatFields \subseteq DOMAIN NewStats
        /\ NewStats.balance = 0 /\ NewStats.supplied = 0 /\ NewStats.redeemed = 0
    BY DEF NewStats, StatFields
  <2> QED
    BY <2>1, <2>2 DEF IsStats
<1>14. \A v : CountsRight(AccountOf(index, v), index.events, v)
  <2>1. \A kind, side, v : FiledAs(index.events, kind, side, v) = {}
    BY <1>11 DEF FiledAs, Nothing
  <2>2. Cardinality({}) = 0 /\ 2 * 0 = 0
    BY FS_EmptySet
  <2>3. NewAccount.liquidator = 0 /\ NewAccount.liquidated = 0 /\ NewAccount.redeemer = 0 /\ NewAccount.redeemed = 0
    BY DEF NewAccount
  <2> QED
    BY <1>12, <2>1, <2>2, <2>3 DEF CountsRight
<1>15. SumerIndexed(index)
  <2>1. DOMAIN index.stats = {} /\ DOMAIN index.events = {}
    BY <1>11 DEF Nothing
  <2>2. IsFiniteSet({})
    BY FS_EmptySet
  <2> QED
    BY <1>11, <1>12, <1>13, <1>14, <2>1, <2>2 DEF SumerIndexed, ComptrollerKept
<1>16. Range(queue) = {}
  BY <1>1 DEF Range
<1>17. MarketIs(index, m) /\ MarketRight(m, chain, queue, sealed) /\ Interested(index, m)
  <2>1. MarketIs(index, m)
    BY <1>8, <1>9, <1>11 DEF MarketIs
  <2>2. MarketRight(m, chain, queue, sealed)
    BY <1>1, <1>2, <1>8, <2>1 DEF MarketRight, MarketSays
  <2>3. NewStats.balance = 0 /\ NewStats.supplied = 0 /\ NewStats.redeemed = 0
    BY DEF NewStats
  <2>4. Underlying(m.rate, 1) \in Nat
    BY <1>8, WorthMore
  <2>5. Interest(NewStats, Underlying(m.rate, 1)) >= 0
    BY <2>3, <2>4 DEF Interest
  <2>6. Interested(index, m)
    BY <1>12, <2>5 DEF Interested
  <2> QED
    BY <2>1, <2>2, <2>6
<1>18. ASSUME NEW k \in SumerFacts PROVE InIndex(k, index) = OnChain(k, chain)
  <2>1. NewStats.balance = 0 /\ NewStats.stored = 0 /\ NewStats.entered = FALSE
    BY DEF NewStats
  <2>2. ASSUME NEW u \in User, k = Fact("held", u, u) PROVE InIndex(k, index) = OnChain(k, chain)
    <3>1. chain.held[u] = 0
      BY <1>2
    <3> QED
      BY <1>12, <2>1, <2>2, <3>1 DEF InIndex, OnChain, Fact
  <2>3. ASSUME NEW u \in User, k = Fact("owed", u, u) PROVE InIndex(k, index) = OnChain(k, chain)
    <3>1. chain.owed[u] = 0
      BY <1>2
    <3> QED
      BY <1>12, <2>1, <2>3, <3>1 DEF InIndex, OnChain, Fact
  <2>4. ASSUME NEW u \in User, k = Fact("entered", u, u) PROVE InIndex(k, index) = OnChain(k, chain)
    <3>1. (u \in chain.entered) = FALSE
      BY <1>2
    <3>2. OnChain(k, chain) = (u \in chain.entered) /\ InIndex(k, index) = StatsOf(index, u).entered
      BY <2>4 DEF InIndex, OnChain, Fact
    <3> QED
      BY <1>12, <2>1, <3>1, <3>2
  <2>5. ASSUME k = Fact("factor", 0, 0) PROVE InIndex(k, index) = OnChain(k, chain)
    <3>1. (chain.oracle # 0) = FALSE /\ (IF chain.oracle = 0 \/ chain.missed THEN 0 ELSE chain.factor) = 0
      BY <1>2
    <3>2. OnChain(k, chain) = [known |-> FALSE, factor |-> 0]
      BY <2>5, <3>1 DEF OnChain, Fact
    <3>3. InIndex(k, index) = [known |-> FALSE, factor |-> 0]
      BY <1>11, <2>5 DEF InIndex, Fact
    <3> QED
      BY <3>2, <3>3
  <2>6. ASSUME k = Fact("proper", 0, 0) PROVE InIndex(k, index) = OnChain(k, chain)
    BY <2>6 DEF InIndex, OnChain, Fact
  <2> QED
    BY <2>2, <2>3, <2>4, <2>5, <2>6 DEF SumerFacts
<1>19. \A k \in SumerFacts : Faithful(k)
  BY <1>1, <1>18, KnownAtStart
<1> QED
  BY <1>5, <1>15, <1>16, <1>17, <1>19 DEF SumerInv

------------------------------------------------------------------------------
(* What an event says of a user's statistics, they are after it. *)
LEMMA StatsStep ==
  ASSUME SumerInv, queue # <<>>, queue' = Tail(queue), chain' = chain, NEW u \in User, NEW w,
         StatTold(Head(queue), u, StatsOf(index, u), StatsOf(index', u), w)
  PROVE  /\ IsStats(StatsOf(index', u)) /\ Priced(StatsOf(index, u), StatsOf(index', u), w)
         /\ Faithful(Fact("held", u, u))' /\ Faithful(Fact("owed", u, u))' /\ Faithful(Fact("entered", u, u))'
<1>1. PICK s, t, e : s = StatsOf(index, u) /\ t = StatsOf(index', u) /\ e = Head(queue)
  OBVIOUS
<1>2. /\ \A ix : InIndex(Fact("held", u, u), ix) = StatsOf(ix, u).balance
      /\ \A ix : InIndex(Fact("owed", u, u), ix) = StatsOf(ix, u).stored
      /\ \A ix : InIndex(Fact("entered", u, u), ix) = StatsOf(ix, u).entered
  BY DEF InIndex, Fact
<1>3. PICK kh, ko, kn : kh = Fact("held", u, u) /\ ko = Fact("owed", u, u) /\ kn = Fact("entered", u, u)
  OBVIOUS
<1>4. Faithful(kh) /\ Faithful(ko) /\ Faithful(kn)
  BY <1>3 DEF SumerInv, SumerFacts
<1>5. PICK b : Makes(kh, s.balance, e, b) /\ Tells(kh, Tail(queue), b, OnChain(kh, chain))
  <2>1. Tells(kh, queue, s.balance, OnChain(kh, chain))
    BY <1>1, <1>2, <1>3, <1>4 DEF Faithful
  <2> QED
    BY <1>1, <2>1, TellsHead
<1>6. PICK o : Makes(ko, s.stored, e, o) /\ Tells(ko, Tail(queue), o, OnChain(ko, chain))
  <2>1. Tells(ko, queue, s.stored, OnChain(ko, chain))
    BY <1>1, <1>2, <1>3, <1>4 DEF Faithful
  <2> QED
    BY <1>1, <2>1, TellsHead
<1>7. PICK n : Makes(kn, s.entered, e, n) /\ Tells(kn, Tail(queue), n, OnChain(kn, chain))
  <2>1. Tells(kn, queue, s.entered, OnChain(kn, chain))
    BY <1>1, <1>2, <1>3, <1>4 DEF Faithful
  <2> QED
    BY <1>1, <2>1, TellsHead
<1>8. SaysMoved(u, s.balance, e, b) /\ SaysOwed(u, s.stored, e, o) /\ SaysEntered(u, s.entered, e, n)
  BY <1>3, <1>5, <1>6, <1>7, SaysByName
<1>9. IsStats(s)
  BY <1>1 DEF SumerInv, SumerIndexed
<1>10. StatsAre(t, b, o, n) /\ Priced(s, t, w)
  BY <1>1, <1>8, <1>9 DEF StatTold, Told
<1>11. IsStats(t) /\ t.balance = b /\ t.stored = o /\ t.entered = n
  BY <1>10 DEF StatsAre
<1>12. /\ Tells(kh, queue', InIndex(kh, index'), OnChain(kh, chain'))
       /\ Tells(ko, queue', InIndex(ko, index'), OnChain(ko, chain'))
       /\ Tells(kn, queue', InIndex(kn, index'), OnChain(kn, chain'))
  BY <1>1, <1>2, <1>3, <1>5, <1>6, <1>7, <1>11
<1>13. Faithful(kh)' /\ Faithful(ko)' /\ Faithful(kn)'
  BY <1>12 DEF Faithful
<1> QED
  BY <1>1, <1>3, <1>10, <1>11, <1>13

(* A transaction of Sumer, *)
LEMMA SumerTransacts ==
  ASSUME Waits, protocol = "sumer", SumerInv, Transact
  PROVE  SumerInv'
<1>0. SumerFacts' = SumerFacts
  OBVIOUS
<1>1. Transactions = SumerTransactions(chain)
  BY DEF Transactions
<1>2. \A t \in Transactions : t.events \in Seq(Range(t.events))
  BY AllEmit DEF Waits
<1>3. PICK t \in Transactions : chain' = t.chain /\ Lengthened(queue, t.events, chain.block, txs + 1, queue')
  BY <1>2, Transacts DEF Waits
<1>4. index' = index /\ sealed = FALSE /\ sealed' = FALSE
  <2>1. sealed' = sealed /\ ~sealed /\ index' = index
    BY DEF Transact
  <2>2. PICK m : MarketRight(m, chain, queue, sealed)
    BY DEF SumerInv
  <2> QED
    BY <2>1
<1>5. SumerGood(chain, t)
  BY <1>1, SumerTells DEF SumerInv
<1>6. ASSUME NEW k \in SumerFacts PROVE Faithful(k)'
  BY <1>3, <1>4, <1>5, KnownGrows DEF SumerInv, SumerGood, SumerTold
<1>7. SumerSound(chain') /\ chain'.block = chain.block
  BY <1>3, <1>5 DEF SumerGood
<1>8. \A e \in Range(queue') : e.block = chain'.block
  <2> SUFFICES ASSUME NEW e \in Range(queue') PROVE e.block = chain.block
    BY <1>7
  <2>1. e \in Range(queue) \/ \E f \in Range(t.events), l \in Nat : e = Stamp(f, chain.block, txs + 1, l)
    BY <1>3, WaitingGrows
  <2> QED
    BY <2>1, StampSame DEF SumerInv
<1>9. \E m : MarketIs(index', m) /\ MarketRight(m, chain', queue', sealed') /\ Interested(index', m)
  <2>1. PICK m : MarketIs(index, m) /\ MarketRight(m, chain, queue, FALSE) /\ Interested(index, m)
    BY <1>4 DEF SumerInv
  <2>2. MarketRight(m, t.chain, queue', FALSE)
    BY <1>3, <1>5, <2>1, MarketTransacts DEF SumerInv
  <2> QED
    BY <1>3, <1>4, <2>1, <2>2
<1> QED
  BY <1>0, <1>4, <1>6, <1>7, <1>8, <1>9 DEF SumerInv

(* and an event handled. *)
LEMMA SumerHandles ==
  ASSUME IndexInv, Waits, protocol = "sumer", SumerInv, Handle
  PROVE  SumerInv'
<1>0. SumerFacts' = SumerFacts
  OBVIOUS
<1>1. queue # <<>> /\ queue' = Tail(queue) /\ chain' = chain /\ index' = HandledBy(Head(queue)) /\ sealed /\ sealed' = sealed
  BY DEF Handle
<1>2. PICK e : e = Head(queue)
  OBVIOUS
<1>3. index' = SumerHandled(index, e, chain)
  BY <1>1, <1>2 DEF HandledBy
<1>4. PICK m : MarketIs(index, m) /\ MarketRight(m, chain, queue, sealed) /\ Interested(index, m)
  BY DEF SumerInv
<1>5. Range(queue) = {e} \cup Range(queue') /\ e \in Range(queue)
  BY <1>1, <1>2, WaitingShrinks DEF Waits
<1>6. Proper(e)
  <2>1. Faithful(Fact("proper", 0, 0))
    BY DEF SumerInv, SumerFacts
  <2>2. PICK w : Makes(Fact("proper", 0, 0), InIndex(Fact("proper", 0, 0), index), Head(queue), w)
    BY <1>1, <2>1, FirstIsSaid
  <2> QED
    BY <1>2, <2>2, SaysByName DEF SaysProper
<1>7. /\ e.kind \in SumerKinds
      /\ \/ \E id : FiledWell(index.events, id, e, index'.events)
         \/ index'.events = index.events /\ e.kind \notin CountedKinds
  BY <1>1, <1>2, SumerFiling
<1>8. SumerIndexed(index)
  BY DEF SumerInv
<1>9. Heard(index, e, chain, index') /\ \A v : CountsTold(e, v, AccountOf(index, v), AccountOf(index', v))
  <2>1. chain.rate \in Nat
    BY SumerSoundFacts DEF SumerInv
  <2> QED
    BY <1>3, <1>4, <1>6, <1>7, <1>8, <2>1, SumerHears DEF SumerIndexed
<1>17. PICK p : p = Underlying(index'.market[1].rate, 1)
  OBVIOUS
<1>10. ASSUME NEW u \in User
       PROVE  /\ IsStats(StatsOf(index', u)) /\ Priced(StatsOf(index, u), StatsOf(index', u), p)
              /\ Faithful(Fact("held", u, u))' /\ Faithful(Fact("owed", u, u))' /\ Faithful(Fact("entered", u, u))'
  <2>1. StatTold(e, u, StatsOf(index, u), StatsOf(index', u), p)
    BY <1>9, <1>17 DEF Heard, StatsHeard
  <2> QED
    BY <1>1, <1>2, <2>1, StatsStep
<1>11. Faithful(Fact("proper", 0, 0))'
  <2> DEFINE k == Fact("proper", 0, 0)
  <2>1. \A x : Makes(k, InIndex(k, index), Head(queue), x) => InIndex(k, index') = x
    <3>1. InIndex(k, index) = 0 /\ InIndex(k, index') = 0
      BY DEF InIndex, Fact
    <3> QED
      BY <3>1, SaysByName DEF SaysProper
  <2>2. Faithful(k)
    BY DEF SumerInv, SumerFacts
  <2> HIDE DEF k
  <2>3. Faithful(k)'
    BY <1>1, <2>1, <2>2, KnownShrinks
  <2> QED
    BY <2>3 DEF k
<1>12. Faithful(Fact("factor", 0, 0))' /\ ComptrollerKept(index')
  <2>1. PICK k : k = Fact("factor", 0, 0)
    OBVIOUS
  <2>2. \A ix : InIndex(k, ix) = FactorIn(ix)
    BY <2>1 DEF InIndex, Fact, FactorIn
  <2>3. Tells(k, queue, FactorIn(index), OnChain(k, chain))
    BY <2>1, <2>2 DEF SumerInv, SumerFacts, Faithful
  <2>4. PICK w : Makes(k, FactorIn(index), e, w) /\ Tells(k, Tail(queue), w, OnChain(k, chain))
    BY <1>1, <1>2, <2>3, TellsHead
  <2>5. SaysFactor(FactorIn(index), e, w)
    BY <2>1, <2>4, SaysByName
  <2>6. FactorHeard(index, e, index')
    BY <1>9 DEF Heard
  <2>7. ComptrollerKept(index') /\ FactorIn(index') = w
    BY <1>3, <1>8, <2>5, <2>6, FactorHears DEF SumerIndexed
  <2>8. Tells(k, queue', InIndex(k, index'), OnChain(k, chain'))
    BY <1>1, <2>2, <2>4, <2>7
  <2>9. Faithful(k)'
    BY <2>8 DEF Faithful
  <2> QED
    BY <2>1, <2>7, <2>9
<1>13. \A k \in SumerFacts : Faithful(k)'
  BY <1>10, <1>11, <1>12 DEF SumerFacts
<1>14. SumerIndexed(index')
  <2>1. DOMAIN index' = DOMAIN index /\ Listed(index, index')
    BY <1>9 DEF Heard
  <2>2. DOMAIN index'.stats \subseteq DOMAIN index'.accounts
    BY <1>8, <2>1 DEF Listed, SumerIndexed
  <2>3. \A v : IsAccount(AccountOf(index', v))
    BY <1>9 DEF CountsTold
  <2>4. IsFiniteSet(DOMAIN index'.events)
    <3>1. CASE \E id : FiledWell(index.events, id, e, index'.events)
      <4>1. PICK id : DOMAIN index'.events = DOMAIN index.events \cup {id}
        BY <3>1 DEF FiledWell, Save
      <4> QED
        BY <1>8, <4>1, FS_AddElement DEF SumerIndexed
    <3>2. CASE index'.events = index.events
      BY <1>8, <3>2 DEF SumerIndexed
    <3> QED
      BY <1>7, <3>1, <3>2
  <2>5. ASSUME NEW u \in User PROVE CountsRight(AccountOf(index', u), index'.events, u)
    <3>1. CountsTold(e, u, AccountOf(index, u), AccountOf(index', u))
      BY <1>9
    <3>2. IsFiniteSet(DOMAIN index.events) /\ CountsRight(AccountOf(index, u), index.events, u)
      BY <1>8 DEF SumerIndexed
    <3> QED
      BY <1>7, <3>1, <3>2, CountsStayRight
  <2> QED
    BY <1>8, <1>10, <1>12, <2>1, <2>2, <2>3, <2>4, <2>5 DEF SumerIndexed
<1>15. \A f \in Range(queue') : f.block = chain'.block
  BY <1>1, <1>5 DEF SumerInv
<1>16. \E n : MarketIs(index', n) /\ MarketRight(n, chain', queue', sealed') /\ Interested(index', n)
  <2>1. MarketRight(m, chain, queue, TRUE)
    <3>1. SumerSound(chain)
      BY DEF SumerInv
    <3> QED
      BY <1>4, <3>1, MarketSeals
  <2>2. e.block = chain.block /\ SumerSound(chain)
    BY <1>5 DEF SumerInv
  <2>3. MarketHeard(index, e, chain, index')
    BY <1>9 DEF Heard
  <2>4. PICK n : MarketIs(index', n) /\ MarketRight(n, chain, queue', TRUE) /\ m.rate <= n.rate
    BY <1>4, <1>5, <2>1, <2>2, <2>3, MarketHandles
  <2>5. MarketRight(n, chain, queue', sealed')
    BY <1>1, <2>4 DEF MarketRight
  <2>6. n.rate \in Nat /\ m.rate \in Nat /\ p = Underlying(n.rate, 1)
    BY <1>4, <1>17, <2>4, MarketFirst
  <2>7. ASSUME NEW u \in User PROVE Interest(StatsOf(index', u), p) >= 0
    <3>1. IsStats(StatsOf(index, u)) /\ Interest(StatsOf(index, u), Underlying(m.rate, 1)) >= 0
      BY <1>4, <1>8 DEF SumerIndexed, Interested
    <3>2. /\ Underlying(m.rate, 1) \in Nat /\ Underlying(n.rate, 1) \in Nat
          /\ Underlying(m.rate, 1) <= Underlying(n.rate, 1)
      BY <2>4, <2>6, WorthMore
    <3>3. Interest(StatsOf(index, u), Underlying(n.rate, 1)) >= 0
      BY <3>1, <3>2, InterestMore
    <3>4. Interest(StatsOf(index', u), p) = Interest(StatsOf(index, u), p)
      BY <1>10 DEF Priced
    <3> QED
      BY <2>6, <3>3, <3>4
  <2>8. Interested(index', n)
    BY <2>6, <2>7 DEF Interested
  <2> QED
    BY <1>1, <2>4, <2>5, <2>8
<1> QED
  BY <1>0, <1>1, <1>13, <1>14, <1>15, <1>16 DEF SumerInv

(* Every step keeps it. *)
LEMMA SumerStep ==
  ASSUME IndexInv, Waits, protocol = "sumer", SumerInv, IndexNext
  PROVE  SumerInv'
<1>0. SumerFacts' = SumerFacts
  OBVIOUS
<1>1. CASE Transact
  BY <1>1, SumerTransacts
<1>2. CASE Handle
  BY <1>2, SumerHandles
<1>3. CASE Seal
  <2>1. queue' = queue /\ index' = index /\ chain' = chain /\ sealed' = TRUE
    BY <1>3 DEF Seal
  <2>2. ASSUME NEW k \in SumerFacts PROVE Faithful(k)'
    BY <2>1, KnownStays DEF SumerInv
  <2>3. PICK m : MarketIs(index, m) /\ MarketRight(m, chain, queue, sealed) /\ Interested(index, m)
    BY DEF SumerInv
  <2>4. MarketRight(m, chain, queue, TRUE)
    <3>1. SumerSound(chain)
      BY DEF SumerInv
    <3> QED
      BY <2>3, <3>1, MarketSeals
  <2> QED
    BY <1>0, <2>1, <2>2, <2>3, <2>4 DEF SumerInv
<1>4. CASE NextBlock
  <2>1. queue' = queue /\ index' = index /\ chain' = [chain EXCEPT !.block = @ + 1] /\ sealed' = FALSE /\ queue = <<>>
    BY <1>4 DEF NextBlock
  <2>2. SumerSound(chain) /\ chain \in SumerChains /\ chain.block \in Int /\ chain.accrued \in Int /\ chain.accrued <= chain.block
    BY SumerSoundFacts DEF SumerInv, SumerSound
  <2>3. /\ chain' \in SumerChains /\ chain'.block = chain.block + 1 /\ chain'.accrued = chain.accrued
        /\ chain'.supply = chain.supply /\ Alike(chain, chain')
    BY <2>1, <2>2 DEF SumerChains, Alike
  <2>4. SumerSound(chain')
    BY <2>2, <2>3 DEF SumerSound, Alike
  <2>5. ASSUME NEW k \in SumerFacts PROVE Faithful(k)'
    <3>1. k.of \in {"held", "owed", "entered", "factor", "proper"}
      BY DEF SumerFacts, Fact
    <3>2. OnChain(k, chain') = OnChain(k, chain)
      BY <2>3, <3>1 DEF OnChain, Alike
    <3> QED
      BY <2>1, <3>2, KnownStays DEF SumerInv
  <2>6. Range(queue) = {}
    BY <2>1 DEF Range
  <2>7. PICK m : MarketIs(index, m) /\ MarketRight(m, chain, queue, sealed) /\ Interested(index, m)
    BY DEF SumerInv
  <2>8. MarketRight(m, chain', queue, FALSE)
    <3>1. ~Accruing(queue)
      BY <2>6 DEF Accruing
    <3> QED
      BY <2>1, <2>2, <2>7, <3>1, MarketSeals
  <2> QED
    BY <1>0, <2>1, <2>4, <2>5, <2>6, <2>7, <2>8 DEF SumerInv
<1> QED
  BY <1>1, <1>2, <1>3, <1>4 DEF IndexNext

(* When nothing waits the index matches the contract. *)
LEMMA SumerMatched ==
  ASSUME SumerInv, queue = <<>>
  PROVE  SumerMatches(index, chain)
<1>1. \A k \in SumerFacts : InIndex(k, index) = OnChain(k, chain)
  BY KnownAtEnd DEF SumerInv
<1>2. ASSUME NEW u \in User
      PROVE  /\ StatsOf(index, u).balance = chain.held[u] /\ StatsOf(index, u).stored = chain.owed[u]
             /\ StatsOf(index, u).entered = (u \in chain.entered)
  <2>1. Fact("held", u, u) \in SumerFacts /\ Fact("owed", u, u) \in SumerFacts /\ Fact("entered", u, u) \in SumerFacts
    BY DEF SumerFacts
  <2>2. InIndex(Fact("held", u, u), index) = StatsOf(index, u).balance /\ OnChain(Fact("held", u, u), chain) = chain.held[u]
    BY DEF InIndex, OnChain, Fact
  <2>3. InIndex(Fact("owed", u, u), index) = StatsOf(index, u).stored /\ OnChain(Fact("owed", u, u), chain) = chain.owed[u]
    BY DEF InIndex, OnChain, Fact
  <2>4. InIndex(Fact("entered", u, u), index) = StatsOf(index, u).entered /\ OnChain(Fact("entered", u, u), chain) = (u \in chain.entered)
    BY DEF InIndex, OnChain, Fact
  <2> QED
    BY <1>1, <2>1, <2>2, <2>3, <2>4
<1>3. SumerIndexed(index) /\ SumerSound(chain)
  BY DEF SumerInv
<1>4. /\ MarketSays(index.market[1], chain)
      /\ \A u \in User : Interest(StatsOf(index, u), Underlying(index.market[1].rate, 1)) >= 0
      /\ index.market[1].rate \in Nat
  <2>1. PICK m : MarketIs(index, m) /\ MarketRight(m, chain, queue, sealed) /\ Interested(index, m)
    BY DEF SumerInv
  <2>2. ~Accruing(queue)
    BY DEF Accruing, Range
  <2>3. index.market[1] = m
    BY <2>1, MarketFirst
  <2> QED
    BY <2>1, <2>2, <2>3 DEF MarketRight, Interested
<1>5. SumOver([u \in User |-> [v \in User |-> StatsOf(index, v)][u].balance], User) + chain.held[Pool] = chain.supply
  <2>1. PICK b : b = [u \in User |-> [v \in User |-> StatsOf(index, v)][u].balance]
    OBVIOUS
  <2>2. \A u \in User : b[u] = chain.held[u]
    BY <1>2, <2>1
  <2>3. chain.held \in [Account -> Nat] /\ SumOver(chain.held, Account) = chain.supply
    BY <1>3, SumerSoundFacts DEF Holds
  <2>4. IsFiniteSet(User) /\ Pool \notin User /\ \A x \in User \cup {Pool} : chain.held[x] \in Nat
    BY <2>3, AddressAssumption DEF Account
  <2>5. SumOver(b, User) = SumOver(chain.held, User)
    <3>1. \A x \in User : b[x] \in Nat /\ b[x] = chain.held[x]
      BY <2>2, <2>4
    <3> QED
      BY <2>4, <3>1, SumSame
  <2>6. SumOver(chain.held, User \cup {Pool}) = chain.held[Pool] + SumOver(chain.held, User)
    BY <2>4, SumAdd
  <2>7. SumOver(chain.held, User) \in Nat /\ chain.held[Pool] \in Nat
    <3>1. \A x \in User : chain.held[x] \in Nat
      BY <2>4
    <3> QED
      BY <2>4, <3>1, SumIsNumber
  <2>8. SumOver(b, User) + chain.held[Pool] = chain.supply
    BY <2>3, <2>5, <2>6, <2>7 DEF Account
  <2> QED
    BY <2>1, <2>8
<1>6. chain.oracle # 0 /\ ~chain.missed => index.comptroller[1].factor = chain.factor
  <2> SUFFICES ASSUME chain.oracle # 0, ~chain.missed PROVE index.comptroller[1].factor = chain.factor
    OBVIOUS
  <2>1. Fact("factor", 0, 0) \in SumerFacts
    BY DEF SumerFacts
  <2>2. InIndex(Fact("factor", 0, 0), index) = FactorIn(index) /\ OnChain(Fact("factor", 0, 0), chain) = FactorOf(chain)
    BY DEF InIndex, OnChain, Fact, FactorIn, FactorOf
  <2>3. FactorIn(index) = FactorOf(chain)
    BY <1>1, <2>1, <2>2
  <2>4. FactorOf(chain).known = TRUE /\ FactorOf(chain).factor = chain.factor
    <3>1. (chain.oracle # 0) = TRUE /\ (IF chain.oracle = 0 \/ chain.missed THEN 0 ELSE chain.factor) = chain.factor
      OBVIOUS
    <3> QED
      BY <3>1 DEF FactorOf
  <2>5. index.comptroller # <<>>
    <3>1. index.comptroller = <<>> => FactorIn(index).known = FALSE
      BY DEF FactorIn
    <3> QED
      BY <2>3, <2>4, <3>1
  <2>6. FactorIn(index).factor = index.comptroller[1].factor
    BY <2>5 DEF FactorIn
  <2> QED
    BY <2>3, <2>4, <2>6
<1>7. ASSUME NEW u \in User
      PROVE  /\ StatsOf(index, u).supplied - StatsOf(index, u).redeemed
                  <= Underlying(index.market[1].rate, 1) * StatsOf(index, u).balance
             /\ u \in DOMAIN index.stats => u \in DOMAIN index.accounts
             /\ CountsRight(AccountOf(index, u), index.events, u)
  <2>1. PICK s, w : s = StatsOf(index, u) /\ w = Underlying(index.market[1].rate, 1)
    OBVIOUS
  <2>2. IsStats(s) /\ w \in Nat /\ Interest(s, w) >= 0
    BY <1>3, <1>4, <2>1, WorthMore DEF SumerIndexed
  <2>3. PICK x, d : x = w * s.balance /\ d = s.supplied - s.redeemed
    OBVIOUS
  <2>4. x \in Int /\ d \in Int /\ x - d >= 0
    BY <2>2, <2>3 DEF IsStats, Interest
  <2>5. s.supplied - s.redeemed <= w * s.balance
    BY <2>3, <2>4
  <2> QED
    BY <1>3, <2>1, <2>5 DEF SumerIndexed
<1>8. ASSUME NEW u \in User
      PROVE  /\ Load(index.accounts, u, NewAccount)["liquidator"] =
                  Cardinality({i \in DOMAIN index.events : index.events[i].kind = "Liquidate" /\ index.events[i]["to"] = u})
             /\ Load(index.accounts, u, NewAccount)["liquidated"] =
                  Cardinality({i \in DOMAIN index.events : index.events[i].kind = "Liquidate" /\ index.events[i]["from"] = u})
             /\ Load(index.accounts, u, NewAccount)["redeemer"] =
                  2 * Cardinality({i \in DOMAIN index.events : index.events[i].kind = "RedeemFaceValue" /\ index.events[i]["to"] = u})
             /\ Load(index.accounts, u, NewAccount)["redeemed"] =
                  Cardinality({i \in DOMAIN index.events : index.events[i].kind = "RedeemFaceValue" /\ index.events[i]["from"] = u})
  BY <1>7 DEF CountsRight, FiledAs, AccountOf
<1>9. \A u \in User : [v \in User |-> StatsOf(index, v)][u] = StatsOf(index, u)
  OBVIOUS
<1>10. \A u \in User :
         LET stats == [v \in User |-> StatsOf(index, v)] IN
         /\ stats[u].balance = chain.held[u] /\ stats[u].stored = chain.owed[u]
         /\ stats[u].supplied - stats[u].redeemed <= Underlying(index.market[1].rate, 1) * stats[u].balance
         /\ stats[u].entered <=> u \in chain.entered
  BY <1>2, <1>7, <1>9
<1>11. /\ index.market[1].supply = chain.supply /\ index.market[1].cash = chain.cash
       /\ chain.accrued > 0 => index.market[1].rate = chain.rate
  BY <1>4 DEF MarketSays
<1> QED
  BY <1>5, <1>6, <1>7, <1>8, <1>10, <1>11 DEF SumerMatches

------------------------------------------------------------------------------
(* What holds of the subgraph that runs. *)
ProtocolInv ==
  /\ protocol = "zkdx" => ZkdxInv
  /\ protocol = "agx" => AgxInv
  /\ protocol = "multipool" => MultiInv
  /\ protocol = "wagmi" => WagmiInv
  /\ protocol \in {"shoebill", "example"} => PoolInv
  /\ protocol = "sumer" => SumerInv

(* It holds at the start. *)
LEMMA ProtocolStarts == IndexInit => ProtocolInv
<1> SUFFICES ASSUME IndexInit PROVE ProtocolInv
  OBVIOUS
<1> QED
  BY ZkdxStarts, AgxStarts, MultiStarts, WagmiPoolStarts, PoolsStart, SumerStarts DEF ProtocolInv

(* No step of a subgraph makes another of it. *)
LEMMA ProtocolStays == IndexNext => protocol' = protocol
BY DEF IndexNext, Transact, Seal, Handle, NextBlock

(* And every step keeps it. *)
LEMMA ProtocolKeeps ==
  ASSUME IndexInv, Waits, ProtocolInv, IndexNext
  PROVE  ProtocolInv'
<1>0. protocol' = protocol
  BY ProtocolStays
<1>1. protocol = "zkdx" => ZkdxInv'
  BY ZkdxStep DEF ProtocolInv
<1>2. protocol = "agx" => AgxInv'
  BY AgxStep DEF ProtocolInv
<1>3. protocol = "multipool" => MultiInv'
  BY MultiStep DEF ProtocolInv
<1>4. protocol = "wagmi" => WagmiInv'
  BY WagmiStep DEF ProtocolInv
<1>5. protocol \in {"shoebill", "example"} => PoolInv'
  BY PoolStep DEF ProtocolInv
<1>6. protocol = "sumer" => SumerInv'
  BY SumerStep DEF ProtocolInv
<1> QED
  BY <1>0, <1>1, <1>2, <1>3, <1>4, <1>5, <1>6 DEF ProtocolInv

(* A step of the other half of an adapter leaves it alone. *)
LEMMA ProtocolIdles ==
  ASSUME ProtocolInv, indexVars' = indexVars
  PROVE  ProtocolInv'
<1>1. protocol' = protocol /\ chain' = chain /\ queue' = queue /\ sealed' = sealed /\ index' = index
  BY DEF indexVars
<1>2. \A k : Faithful(k)' = Faithful(k)
  BY <1>1 DEF Faithful
<1>3. ZkdxInv => ZkdxInv'
  BY <1>1, <1>2 DEF ZkdxInv
<1>4. AgxInv => AgxInv'
  BY <1>1, <1>2 DEF AgxInv
<1>r. ReadInBlock => ReadInBlock'
  BY <1>1 DEF ReadInBlock, PendingRead
<1>5. MultiInv => MultiInv'
  BY <1>1, <1>2, <1>r DEF MultiInv
<1>6. WagmiInv => WagmiInv'
  BY <1>1, <1>2 DEF WagmiInv, Unindexed
<1>7. PoolInv => PoolInv'
  BY <1>1 DEF PoolInv
<1>8. SumerInv => SumerInv'
  BY <1>1, <1>2 DEF SumerInv
<1> QED
  BY <1>1, <1>3, <1>4, <1>5, <1>6, <1>7, <1>8 DEF ProtocolInv

(* Once a block is handled the index says what the contract says. *)
LEMMA ProtocolMatches ==
  ASSUME Waits, ProtocolInv
  PROVE  IndexMatchesChain
<1> SUFFICES ASSUME queue = <<>> PROVE Matches
  BY DEF IndexMatchesChain
<1>1. CASE protocol = "zkdx"
  BY <1>1, ZkdxMatched DEF Matches, ProtocolInv
<1>2. CASE protocol = "agx"
  BY <1>2, AgxMatched DEF Matches, ProtocolInv
<1>3. CASE protocol = "multipool"
  BY <1>3, MultiMatched DEF Matches, ProtocolInv
<1>4. CASE protocol = "wagmi"
  BY <1>4, WagmiMatched DEF Matches, ProtocolInv
<1>5. CASE protocol = "shoebill"
  BY <1>5, LendingMatched DEF Matches, ProtocolInv
<1>6. CASE protocol = "example"
  BY <1>6, LendingMatched DEF Matches, ProtocolInv
<1>7. CASE protocol = "sumer"
  BY <1>7, SumerMatched DEF Matches, ProtocolInv
<1>8. CASE protocol = "logs"
  BY <1>8 DEF Matches
<1> QED
  BY <1>1, <1>2, <1>3, <1>4, <1>5, <1>6, <1>7, <1>8 DEF Waits, Protocols

(* In the other half of a behaviour no block is handled. *)
IndexHolds ==
  \/ part = "index" /\ IndexInv /\ Waits /\ ProtocolInv
  \/ part = "feed" /\ sealed = FALSE

(* It holds at every step of an adapter. *)
LEMMA IndexHoldsAlways == AdapterSpec => []IndexHolds
<1>1. AdapterInit => IndexHolds
  BY IndexInitKeeps, WaitsAtStart, ProtocolStarts DEF AdapterInit, IndexIdle, IndexHolds
<1>2. IndexHolds /\ [AdapterNext]_adapterVars => IndexHolds'
  <2> SUFFICES ASSUME IndexHolds, [AdapterNext]_adapterVars PROVE IndexHolds'
    OBVIOUS
  <2>1. CASE part = "index" /\ IndexNext /\ part' = part
    BY <2>1, IndexStepKeeps, WaitsOn, ProtocolKeeps DEF IndexHolds
  <2>2. CASE part' = part /\ indexVars' = indexVars
    <3>1. /\ protocol' = protocol /\ queue' = queue /\ index' = index /\ handled' = handled /\ txs' = txs
          /\ sealed' = sealed
      BY <2>2 DEF indexVars
    <3>2. IndexInv => IndexInv'
      BY <3>1, OthersKeep
    <3>3. Waits => Waits'
      BY <3>1 DEF Waits
    <3>4. ProtocolInv => ProtocolInv'
      BY <2>2, ProtocolIdles
    <3> QED
      BY <2>2, <3>1, <3>2, <3>3, <3>4 DEF IndexHolds
  <2> QED
    BY <2>1, <2>2 DEF AdapterNext, adapterVars
<1> QED
  BY <1>1, <1>2, PTL DEF AdapterSpec

(* Once a block is handled the entities of each of the eight subgraphs say *)
(* of the contracts what they are taken to say, for every number of users, *)
(* of transactions, of events in a block and of blocks.                    *)
THEOREM IndexAlwaysMatchesChain == AdapterSpec => []IndexMatchesChain
<1>1. IndexHolds => IndexMatchesChain
  BY ProtocolMatches DEF IndexHolds, IndexMatchesChain
<1> QED
  BY <1>1, IndexHoldsAlways, PTL
==============================================================================
