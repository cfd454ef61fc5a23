----------------------------- MODULE MCBaseData -----------------------------
(* Two blocks: u deposits in both, v in the second.                        *)
EXTENDS BaseData

MCDepositors == [b \in Block |-> IF b = 1 THEN {"u"} ELSE {"u", "v"}]
==============================================================================
