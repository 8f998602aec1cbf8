------------------------------ MODULE MCRpcClient ----------------------------
(***************************************************************************)
(* The RPC client with the calls that a behaviour makes: one of every      *)
(* kind, which compete for one slot on connections that come and go, or    *)
(* two reads of one method, whose quota is spent and whose server asks for *)
(* a cooldown.                                                             *)
(***************************************************************************)
EXTENDS RpcClient

MixedRequests == {"send1", "read1", "read2", "stream1"}
MixedMethodOf ==
    [send1 |-> "send", read1 |-> "read", read2 |-> "read", stream1 |-> "stream"]
OnePerWindow == [m \in Methods |-> 1]

VARIABLE inst   \* the calls this behaviour makes

NotMade(r) == pc'[r] = "idle" /\ r \notin aborted'

AnyInit == inst \in {"slots", "reads"} /\ Init

AnyNext ==
    /\ Next
    /\ inst' = inst
    /\ inst = "slots" => NotMade("read2") /\ UNCHANGED cooldowns
    /\ inst = "reads" => NotMade("send1") /\ NotMade("stream1") /\ sstate'[2] = "unused"

AnySpec == AnyInit /\ [][AnyNext]_<<inst, vars>>
=============================================================================
