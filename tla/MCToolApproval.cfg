SPECIFICATION ApprovalSpec
CONSTANTS
  Proposals = {t1, t2}
  Requests = {r1, r2, r3}
CHECK_DEADLOCK FALSE
INVARIANTS ClaimIsAnnounced
PROPERTIES OneShot
