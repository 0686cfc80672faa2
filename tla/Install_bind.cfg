SPECIFICATION MCSpec
CONSTANTS
  i1 = i1
  i2 = i2
  acme = acme
  ann = ann
  Installs = {i1, i2}
  Tenants = {acme, ann}
  NoTenant = NoTenant
  Tokens = 2
  Budgets <- Cases
SYMMETRY Symmetry
CHECK_DEADLOCK FALSE
INVARIANTS
  TokenBindsOnce

  
