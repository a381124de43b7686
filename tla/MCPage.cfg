SPECIFICATION Spec

CONSTANTS
  t1 = t1
  t2 = t2
  s1 = s1
  s2 = s2
  s3 = s3
  n1 = n1
  n2 = n2
  None = None
  Tabs <- TwoTabs
  Variants <- TwoVariants
  Secrets <- ThreeSecrets
  Strings <- FewStrings
  Nodes <- TwoNodes

SYMMETRY Symmetry

INVARIANTS
  TypeOK
  StartsIfServed
  VariantsApart
  CallsArrive
PROPERTIES
  SameIdentity
  TornDown
