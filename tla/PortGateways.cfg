SPECIFICATION Spec
CONSTANTS
    Files <- GatewayFiles
PROPERTY
    GatewaysAreHandled
