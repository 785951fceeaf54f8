CONSTANTS
    get = get  set = set  delete = delete  forged = forged  naked = naked
    sealed = sealed  create = create  search = search  dummy = dummy  wrong = wrong  pass = pass
    i1 = i1  i2 = i2  v1 = v1  v2 = v2  d = d  e = e  p = p  u = u
    Calls = {get, set, delete, forged, naked, sealed, create, search, dummy, wrong, pass}
    Items = {i1, i2}
    Values = {v1, v2}
    NoValue = NoValue
    Garbage = Garbage
    Sessions = {d, e, p, u}
    Algorithm <- MCAlgorithm
    Plain = Plain
    Info <- MCInfo
SPECIFICATION Spec
CHECK_DEADLOCK FALSE
CONSTRAINT OneGroup
INVARIANT StoredAsMeant
INVARIANT SealedForClient
PROPERTY GateSpec
