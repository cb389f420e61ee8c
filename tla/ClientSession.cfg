\* Two calls of the page of one user, who logs in again; three token pairs.
\* Liveness, so no symmetry.
CONSTANTS
    UserIds = {u1}
    MaxTokens = 3
    Flows = {f1, f2}
    NoToken = NoToken
    NoCall = NoCall
SPECIFICATION FairSpec
INVARIANTS
    SessionTypeOK
PROPERTIES
    KeepsUsableToken
    SessionsExplained
    OnlyDeadTokensHang
