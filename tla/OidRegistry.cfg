\* Two processes competing for the file, two threads each; five objects, which need
\* seven numbers between them, but room for three, so both the sharing of the counter
\* and its exhaustion happen, with one and with two numbers left for a relation.
SPECIFICATION FairSpec
CONSTANTS
  Databases = {d1}
  Schemas = {s1, s2}
  Relations = {r1}
  FirstUserOid = 5
  MaxOid = 8
  Servers = {p1, p2}
  Threads = {t1, t2}
  NoThread = NoThread
INVARIANTS
  TypeOK
  UniqueOids
  AnswersAreDurable
  NoLeakedOids
  OidsInRange
  IInv
PROPERTY ImplementsAllocation
PROPERTY TransactionsEnd
