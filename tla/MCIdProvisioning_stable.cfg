SPECIFICATION ProvFairSpec
CONSTANTS
  Macs = {m1, m2}
  Teams = {t1}
  Times = {s1}
  MaxId = 2
  TeamOf <- MCTeamOf
INVARIANTS GrantsInjective NoSharedId HeldIdIsKnown
PROPERTIES RefinesAuthority GrantReachesDisk EventuallyProvisioned
