---------------------------- MODULE MCSubscribe -----------------------------
(***************************************************************************)
(* Instance for TLC: no subscription, one of each kind a platform allows,  *)
(* warns of or cannot encode, and two.  Four responses are two updates     *)
(* around a sync_response and one that cannot be read.                     *)
(***************************************************************************)
EXTENDS SubscribeInv

Sub(m, e) == [mode |-> m, encodable |-> e]

MCSubscriptionLists ==
    {<<>>, <<Sub("sample", FALSE)>>, <<Sub("on_change", TRUE), Sub("target_defined", TRUE)>>}
=============================================================================
