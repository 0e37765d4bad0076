-------------------------- MODULE MCTenantRegistry --------------------------
\* Instances of TenantRegistry for TLC.
EXTENDS TenantRegistry, TLC

MCSymmetry ==
    UNION {Permutations(S): S \in {Tenants, Templates, Names, Admins}}
=============================================================================
