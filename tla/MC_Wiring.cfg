CONSTANTS
    d1 = d1  d2 = d2  b = b  p = p
    Drops <- MCDrops
    Apps <- MCApps
    Barriers <- MCBarriers
    External <- MCExternal
SPECIFICATION Spec
INVARIANT TypeOK RolesExclusive Idempotent ProducerMirror
