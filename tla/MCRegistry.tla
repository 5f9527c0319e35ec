----------------------------- MODULE MCRegistry -----------------------------
(***************************************************************************)
(* Versions and requirements for the runs of RegistryIndex.                *)
(***************************************************************************)
EXTENDS RegistryIndex

\* 1.9.0, 1.10 and 1.10.0, which compare equal,
\* 1.10.0-rc and 1.10.0-rc.2.
Nums(s) == [i \in DOMAIN s |-> <<0, s[i]>>]
Final(s) == [core |-> Nums(s), final |-> TRUE, pre |-> <<>>]
Pre(s, p) == [core |-> Nums(s), final |-> FALSE, pre |-> p]

MCVersions == {Final(<<1, 9, 0>>), Final(<<1, 10>>), Final(<<1, 10, 0>>),
               Pre(<<1, 10, 0>>, << <<1, 2>> >>),
               Pre(<<1, 10, 0>>, << <<1, 2>>, <<0, 2>> >>)}

\* The wildcard, 1, 1.10 and 1.10.0-rc.
MCRequirements == {Final(<<>>), Final(<<1>>), Final(<<1, 10>>),
                   Pre(<<1, 10, 0>>, << <<1, 2>> >>)}
=============================================================================
