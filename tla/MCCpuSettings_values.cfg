SPECIFICATION Spec
CONSTANTS
    Cpus = {"p", "e"}
    Hardware <- MCHardware
    Specs <- MCSpecs
    Governors = {"powersave", "performance"}
    Unit = 10
    MaxProfiles = 2
    MaxFailures = 1
INVARIANTS SettingsMatch InRange AcceptedApplies
PROPERTIES OfferedWhenApplied
