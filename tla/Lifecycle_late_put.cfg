CONSTANTS
    Servers = {"cgf", "rf", "abmf"}
    Failures = {}
SPECIFICATION Spec
PROPERTY NothingLandsAfterDeregistration
