-------------------------- MODULE MCSettlementPass --------------------------
(* Trade a may be delivered under two payloads; b and c share a trade id. *)
EXTENDS SettlementPass
Fill(trade, raw, tid) == [trade |-> trade, raw |-> raw, qty |-> 1, tid |-> tid]
MCPayloads == {Fill("a", 1, 1), Fill("a", 2, 1), Fill("b", 1, 2), Fill("c", 1, 2)}
=============================================================================
