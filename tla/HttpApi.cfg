SPECIFICATION Spec
INVARIANTS HttpInv GatewayAgrees
PROPERTIES EntitledOnly DeactivatedChangesNothing
