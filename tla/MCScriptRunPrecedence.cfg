CONSTANTS
  doc1 = doc1
  doc2 = doc2
  load1 = load1
  chain1 = chain1
  scope1 = scope1
  k1 = k1
  k2 = k2
  v1 = v1
  v2 = v2
  Configured <- MCConfigured
  TypeOf <- MCTypeOf
  AnnotationOf <- MCAnnotationOf
  Conditional = {doc1}
  Keys = {k1, k2}
  Values = {v1, v2}
  NoScript = NoScript
SPECIFICATION Spec
INVARIANT DocumentedPrecedence
