\* Groups and channels, three calls after the room was made.
SPECIFICATION Spec
CONSTANTS
    alice = alice  bob = bob  carol = carol
    Handle <- ThreeHandles
    Creator = alice
    Kinds <- BothKinds
    Ops <- MoreOps
    PermissionInputs <- SomeInputs
    GroupRoles <- SomeGroupRoles
    ChannelRoles <- SomeChannelRoles
    DefaultRoles <- SomeDefaults
    Rules <- SomeRules
    Invited <- SomeInvited
    FieldInputs <- SomeFields
    Faults = TRUE
    MaxCalls <- Budget
CHECK_DEADLOCK FALSE
INVARIANTS TypeOK InvitationsReach LateRequests PermissionsTold
PROPERTIES RoleTouchesTargetOnly UpdateKeepsRoles
