SPECIFICATION Spec
CONSTANTS
  o1 = o1
  o2 = o2
  t1 = t1
  t2 = t2
  t3 = t3
  Requests = {r1}
  Students = {s1, s2}
  Offerings = {o1, o2}
  Teams = {t1, t3}
  Keys = {k1, k2}
  OfferingOf <- MCOfferingOf
  ActiveFrom <- MCActiveFrom
  ActiveUntil <- MCActiveUntil
  NoPath = NoPath
  NoKey = NoKey
  Nobody = Nobody
  NoContext = NoContext
  MaxTime = 1
INVARIANTS TypeOK KeyWasLive OfferingWasActive ContextOfOnePiece NoFalseRefusal
SYMMETRY Symmetry
PROPERTY DeadKeysStayDead
