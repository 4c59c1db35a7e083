SPECIFICATION Spec
CONSTANTS
    Req = {r1, r2}
    Expected = 2
INVARIANTS ZmqTypeOK ForwardedAfterTransfer TablesAgree IdsGivenUp
PROPERTY RequestsSettle
CHECK_DEADLOCK FALSE
