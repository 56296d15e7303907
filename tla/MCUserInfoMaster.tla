-------------------------- MODULE MCUserInfoMaster --------------------------
(***************************************************************************)
(* Small instances of UserInfoMaster for TLC.                              *)
(***************************************************************************)
EXTENDS UserInfoMaster, TLC

\* Every browser stays at one address, the same one; or it may use any.
OneAddress   == [b \in Browsers |-> {CHOOSE ip \in Ips : TRUE}]
AnyAddress   == [b \in Browsers |-> Ips]

\* With mock_ip every uuid has an address of its own, or shares it.
MockAddress  == [u \in Uuids |-> CHOOSE ip \in Ips : TRUE]

\* Requests and uuids are told apart by nothing but their identity.
RequestSymmetry == Permutations(Requests) \cup Permutations(Uuids)
=============================================================================
