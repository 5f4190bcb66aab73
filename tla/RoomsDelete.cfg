\* A group is created, joined and deleted.
SPECIFICATION Spec
CONSTANTS
    alice = alice  bob = bob  carol = carol
    Handle <- ThreeHandles
    Creator = alice
    Kinds <- GroupOnly
    Ops <- DeleteOps
    PermissionInputs <- SomeInputs
    GroupRoles <- SomeGroupRoles
    ChannelRoles <- SomeChannelRoles
    DefaultRoles <- SomeDefaults
    Rules <- SomeRules
    Invited <- SomeInvited
    FieldInputs <- SomeFields
    Faults = FALSE
    MaxCalls <- Budget
CHECK_DEADLOCK FALSE
INVARIANT DeleteEmptiesGroup
