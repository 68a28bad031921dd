\* Two actors share a name, three threads operate on all of them.
CONSTANTS
  a1 = a1  a2 = a2  a3 = a3
  n1 = n1  n2 = n2
  t1 = t1  t2 = t2  t3 = t3
  Ids = {a1, a2, a3}
  Names = {n1, n2}
  Threads = {t1, t2, t3}
  NameOf <- SharedName
  NoActor = NoActor
SPECIFICATION Spec
INVARIANT MapsAgree
