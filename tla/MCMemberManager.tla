-------------------------- MODULE MCMemberManager --------------------------
(* One member: members share nothing but onlineCount and the lock of the   *)
(* authentications, and the eleven activities that touch this member are   *)
(* interleaved in full.                                                    *)
EXTENDS MemberManager

CONSTANT p1
=============================================================================
