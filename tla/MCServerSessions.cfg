SPECIFICATION Spec
CONSTANTS
    Conns = {c1, c2}
    Fingerprints = {f1, f2}
    UserIds = {u1, u2}
    SessionIds = {s1, s2}
    EnvValues = {e1}
    Adapters = {gemini}
    DefaultTool = claude
    Names = {default, alice}
    DefaultName = default
    MaxCrashes = 1
    NoFp = NoFp
    NoUser = NoUser
    NoSession = NoSession
    NoTool = NoTool
    NoEnv = NoEnv
    Absent = Absent
    Gone = Gone
SYMMETRY Symmetry
INVARIANT EnvIsolation
INVARIANT HeldOrAbandoned
INVARIANT HalfRegistered
PROPERTY OwnerEnds
INVARIANT CertificateIdentifies
