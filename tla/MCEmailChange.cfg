SPECIFICATION Spec
CONSTANTS
    Users = {u1, u2}
    Mailboxes = {m1, m2, m3}
    Spellings = {"lower", "mixed"}
    Requests = {r1, r2, r3, r4}
    None = None
CONSTRAINT OneQuestionAtATime
SYMMETRY Symmetry
INVARIANTS
    MailboxSharedByChangesOnly
    CodeProvesAddress
    CodeServesItsPurpose
    SpentCodeIsGone
    PendingHasCode
    VerifiedIsKept
CHECK_DEADLOCK FALSE
