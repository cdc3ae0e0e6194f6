SPECIFICATION Spec
CONSTANTS
    Users <- MCUsers
    Trusted <- MCTrusted
    RequestNames <- MCRequestNames
    ResponseNames <- MCResponseNames
    Nameable <- MCNameable
INVARIANTS
    PathInv
    OnlyTheUserActs
    OtherSitesNeverAct
    NothingPrivatePassesThrough
PROPERTY
    OwnPagesServed
