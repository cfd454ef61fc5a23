---------------------------- MODULE AdapterFeeds ----------------------------
(***************************************************************************)
(* The reading side of the adapters: a program asks its index, page after  *)
(* page, for the rows up to a block and prints what it got.  The index has *)
(* come to block indexed and goes on while the program reads; a request    *)
(* may fail in three ways.  What it prints is taken as all there was: the  *)
(* points of a missing row are never paid.                                 *)
(*                                                                         *)
(* The adapters have each a copy of the loop, with small differences.  A   *)
(* feed is the record of what one of them does:                            *)
(*   pinned   it asks for the index at the block, which an index that has  *)
(*            not reached the block refuses; else for a range of blocks    *)
(*   paging   "skip" (OFFSET), "cursor" (id_gt), "pages" (a number of      *)
(*            pages counted once), "none" (the server's default page)      *)
(*   fetch    what a failed request adds to the retries, by kind           *)
(*   gaveUp   what becomes of the page when the retries are used up        *)
(*   drops    a row may be left out after it was read                      *)
(***************************************************************************)
EXTENDS Naturals, Sequences, FiniteSets, FiniteSetsExt, Sums

CONSTANTS
  N,            \* number of rows, numbered in the order of their ids
  End,          \* the block asked for
  LastBlock,    \* bound: blocks of the chain
  PageSize, DefaultFirst, \* rows of a page, and of a query that does not say
  MaxRetries    \* maxRetries of the fetch functions

ASSUME FeedAssumption ==
  /\ N \in Nat /\ LastBlock \in Nat /\ End \in 1..LastBlock /\ MaxRetries \in Nat
  /\ PageSize \in Nat \ {0} /\ DefaultFirst \in Nat \ {0}

Row == 1..N

------------------------------------------------------------------------------
(* The fetch functions.  "network" is an exception of fetch or of json(),  *)
(* "http" a status that is not ok, "errors" an answer with GraphQL errors. *)

Doubling  == [network |-> 1, http |-> 2, errors |-> 2, sticky |-> FALSE]
Endless   == [network |-> 0, http |-> 0, errors |-> 0, sticky |-> FALSE]
OneChance == [network |-> MaxRetries, http |-> MaxRetries, errors |-> MaxRetries, sticky |-> FALSE]

(* The status is not looked at: an answer without data is taken as data.   *)
(* The errors of an earlier attempt are counted with a later exception.    *)
Unchecked == [network |-> 1, http |-> MaxRetries, errors |-> 1, sticky |-> TRUE]

AgxFetch        == Doubling
ExampleFetch    == Doubling
ZkdxFetch       == Doubling
InterportFetch  == Doubling
SkyrangersFetch == Doubling
EddyFetch       == [Doubling EXCEPT !.http = 1, !.errors = 1]
ShoebillFetch   == Unchecked
LayerbankFetch  == Unchecked
AquaFetch       == Unchecked
SteerFetch      == Unchecked
SumerFetch      == Endless
WagmiFetch      == Endless
ZnsFetch        == Endless
RubicFetch      == [OneChance EXCEPT !.http = 0]

(* The application's own, of RedistributePointService.                     *)
RedistributeFetch == Unchecked

------------------------------------------------------------------------------
(* The feeds. *)

Snapshot   == [pinned |-> TRUE, paging |-> "skip", fetch |-> Endless,
               gaveUp |-> {"throws"}, drops |-> FALSE]
BlockRange == [Snapshot EXCEPT !.pinned = FALSE]

ExamplePositions   == [Snapshot EXCEPT !.fetch = ExampleFetch]
ShoebillPositions  == [Snapshot EXCEPT !.fetch = ShoebillFetch, !.gaveUp = {"stops"}]
LayerbankPositions == [Snapshot EXCEPT !.fetch = LayerbankFetch, !.gaveUp = {"stops"}]
AquaPositions      == [Snapshot EXCEPT !.fetch = AquaFetch, !.gaveUp = {"stops"}]
AgxPositions       == [Snapshot EXCEPT !.fetch = AgxFetch]
AgxSwaps           == [BlockRange EXCEPT !.fetch = AgxFetch]
ZkdxBalances       == [Snapshot EXCEPT !.fetch = ZkdxFetch, !.paging = "cursor"]
ZkdxTransactions   == [BlockRange EXCEPT !.fetch = ZkdxFetch, !.paging = "cursor"]
SumerPositions     == [Snapshot EXCEPT !.fetch = SumerFetch]
WagmiPositions     == [Snapshot EXCEPT !.fetch = WagmiFetch, !.drops = TRUE]
WagmiMultipools    == [Snapshot EXCEPT !.fetch = WagmiFetch, !.drops = TRUE]
WagmiSwaps         == [BlockRange EXCEPT !.fetch = WagmiFetch]
ZnsDomains         == [BlockRange EXCEPT !.fetch = ZnsFetch, !.drops = TRUE]
InterportStakes    == [BlockRange EXCEPT !.fetch = InterportFetch, !.drops = TRUE]
InterportTransfers == [BlockRange EXCEPT !.fetch = InterportFetch]
SteerDepositors    == [Snapshot EXCEPT !.fetch = SteerFetch, !.paging = "none", !.drops = TRUE]
EddySwaps          == [BlockRange EXCEPT !.fetch = EddyFetch, !.paging = "none"]
RubicOnChain       == [BlockRange EXCEPT !.fetch = RubicFetch, !.paging = "none",
                                    !.gaveUp = {"throws", "stops"}]
RubicCrossChain    == [BlockRange EXCEPT !.fetch = OneChance, !.paging = "pages", !.gaveUp = {"skips"}]
SkyrangersTvl      == [BlockRange EXCEPT !.fetch = SkyrangersFetch, !.gaveUp = {"stops"}]
SkyrangersTxs      == [BlockRange EXCEPT !.fetch = SkyrangersFetch, !.gaveUp = {"stops"}]
NovaswapPositions  == [Snapshot EXCEPT !.fetch = OneChance]

(* RedistributePointService reads its indexer in the same way, as far as   *)
(* the index has come: End is then only the bound of the rows.             *)
RedistributeTotals    == [BlockRange EXCEPT !.fetch = RedistributeFetch, !.gaveUp = {"stops"}]
RedistributePoints    == [BlockRange EXCEPT !.fetch = RedistributeFetch, !.gaveUp = {"stops"}]
RedistributeWithdraws == [BlockRange EXCEPT !.fetch = RedistributeFetch, !.gaveUp = {"stops"}]
RedistributePools     == [BlockRange EXCEPT !.fetch = RedistributeFetch, !.paging = "none"]

Feeds == {ExamplePositions, ShoebillPositions, LayerbankPositions, AquaPositions, AgxPositions,
          AgxSwaps, ZkdxBalances, ZkdxTransactions, SumerPositions, WagmiPositions,
          WagmiMultipools, WagmiSwaps, ZnsDomains, InterportStakes, InterportTransfers,
          SteerDepositors, EddySwaps, RubicOnChain, RubicCrossChain, SkyrangersTvl,
          SkyrangersTxs, NovaswapPositions, RedistributeTotals, RedistributePoints,
          RedistributeWithdraws, RedistributePools}

------------------------------------------------------------------------------
VARIABLES
  feed,    \* which of the feeds runs
  blockOf, \* the block of each row
  indexed, \* the block the index has reached
  run      \* [status, got, skip, last, retries, soured], the locals of the program;
           \* got[r]: how often it got row r

(* History, of no use to the program: the rows there were at the first     *)
(* answer, and whether a page or a row was given up.                       *)
VARIABLES first, cut

feedVars == <<feed, blockOf, indexed, run, first, cut>>

------------------------------------------------------------------------------
(* Answers. *)

Wanted  == {r \in Row : blockOf[r] <= End}
Visible == {r \in Wanted : blockOf[r] <= indexed}
(* At most n rows of S in the order of their ids, after the first skipped. *)
Window(S, skipped, n) == {r \in S : skipped < Place(S, r) /\ Place(S, r) <= skipped + n}

(* Mutant of Answer: the cursor includes the row it stands on.             *)
AnswerFromLast ==
  CASE feed.paging = "cursor" -> Window({r \in Visible : r >= run.last}, 0, PageSize)
    [] feed.paging = "none"   -> Window(Visible, 0, DefaultFirst)
    [] OTHER -> Window(Visible, run.skip, PageSize)

Answer ==
  CASE feed.paging = "cursor" -> Window({r \in Visible : r > run.last}, 0, PageSize)
    [] feed.paging = "none"   -> Window(Visible, 0, DefaultFirst)
    [] OTHER -> Window(Visible, run.skip, PageSize)

(* The page was the last one.                                              *)
IsLast(page) ==
  CASE feed.paging = "none"  -> TRUE
    [] feed.paging = "pages" -> run.skip + PageSize >= Cardinality(first[1])
    [] OTHER -> Cardinality(page) < PageSize

------------------------------------------------------------------------------
FeedInit ==
  /\ feed \in Feeds
  /\ blockOf \in [Row -> 1..LastBlock]
  /\ indexed \in 0..LastBlock
  /\ run = [status |-> "reading", got |-> [r \in Row |-> 0], skip |-> 0, last |-> 0, retries |-> 0, soured |-> FALSE]
  /\ first = <<>>
  /\ cut = FALSE

(* The index goes on.                                                      *)
Advance ==
  /\ run.status = "reading"
  /\ indexed < LastBlock
  /\ indexed' = indexed + 1
  /\ UNCHANGED <<feed, blockOf, run, first, cut>>

(* Cross-chain pages are counted by a first request, before they are asked *)
(* for one by one.  That request is not caught.                            *)
CountPages ==
  /\ run.status = "reading" /\ feed.paging = "pages" /\ first = <<>>
  /\ \/ first' = <<Visible>> /\ UNCHANGED run
     \/ run' = [run EXCEPT !.status = "died"] /\ UNCHANGED first
  /\ UNCHANGED <<feed, blockOf, indexed, cut>>

(* A request is answered with a page, of which a feed may drop rows.       *)
ReadPage ==
  /\ run.status = "reading"
  /\ feed.paging = "pages" => first # <<>>
  /\ feed.pinned => indexed >= End
  /\ LET page == Answer IN
     \E lost \in (IF feed.drops THEN SUBSET page ELSE {{}}) :
       /\ run' = [run EXCEPT
            !.status  = IF IsLast(page) THEN "printed" ELSE @,
            !.got     = [r \in Row |-> IF r \in page \ lost THEN @[r] + 1 ELSE @[r]],
            !.skip    = @ + PageSize,
            !.last    = IF page # {} THEN Max(page) ELSE @,
            !.retries = 0,
            !.soured  = FALSE]
       /\ cut' = (cut \/ lost # {})
  /\ first' = IF first = <<>> THEN <<Visible>> ELSE first
  /\ UNCHANGED <<feed, blockOf, indexed>>

(* A request fails.  When the retries are used up the program dies of the  *)
(* missing data, stops with what it has, or leaves the page out.           *)
RequestFails(kind) ==
  LET cost == feed.fetch[kind]
                + (IF feed.fetch.sticky /\ kind = "network" /\ run.soured THEN 1 ELSE 0)
      counted == [run EXCEPT !.retries = @ + cost,
                             !.soured = feed.fetch.sticky /\ (@ \/ kind = "errors")]
  IN
  /\ run.status = "reading" /\ cost > 0
  /\ feed.paging = "pages" => first # <<>>
  /\ IF counted.retries < MaxRetries THEN run' = counted /\ UNCHANGED cut
     ELSE \E end \in feed.gaveUp :
            /\ cut' = (cut \/ end # "throws")
            /\ run' = CASE end = "throws" -> [run EXCEPT !.status = "died"]
                        [] end = "stops"  -> [run EXCEPT !.status = "printed"]
                        [] end = "skips"  -> [run EXCEPT !.skip = @ + PageSize,
                             !.status = IF IsLast({}) THEN "printed" ELSE @]
  /\ UNCHANGED <<feed, blockOf, indexed, first>>

FeedNext ==
  \/ Advance
  \/ CountPages
  \/ ReadPage
  \/ \E kind \in {"network", "http", "errors"} : RequestFails(kind)

FeedSpec == FeedInit /\ [][FeedNext]_feedVars

------------------------------------------------------------------------------
(* Properties. *)

(* A program that prints (or a pass that goes on with what it has read)    *)
(* has printed every row the index had at its first answer, unless it gave *)
(* a page or a row up, or does not page and the server's default page was  *)
(* full, or counted the pages of a range that grew. At a block it has      *)
(* printed every row of the block, even while the index moves on, and each *)
(* once. Only OFFSET paging over a range that grows under it prints a row  *)
(* twice; and only a range that is behind the index lets the program miss  *)
(* a row of which nothing told it.                                         *)
FeedIsComplete ==
  LET printed == {r \in Row : run.got[r] > 0}
      short   == feed.paging = "none" /\ Cardinality(printed) >= DefaultFirst
      grew    == first # <<>> /\ first[1] # Visible
      known   == cut \/ short \/ (feed.paging = "pages" /\ grew)
  IN  run.status = "printed" =>
        /\ printed \subseteq Wanted
        /\ known \/ first[1] \subseteq printed
        /\ feed.pinned => known \/ printed = Wanted
        /\ (\A r \in Row : run.got[r] <= 1) \/ (~feed.pinned /\ feed.paging # "cursor" /\ grew)
==============================================================================
