SPECIFICATION Spec
CONSTANTS
    r1 = r1
    r2 = r2
    Requests = {r1, r2}
    MaxChanges = 4
INVARIANT TypeOK
INVARIANT FailuresAreReported
INVARIANT IllnessIsNoticed
INVARIANT LogTellsTheReply
