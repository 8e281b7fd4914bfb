SPECIFICATION FairSpec
CONSTANTS
    Configs = {"a", "b", "e"}
    Elsewhere = {"e"}
    Selectors = {"", "x"}
    Nodes = {"n"}
    Profiles = {"p"}
    Images = {0, 1}
    ManifestImage = 2
    Faults = {"none", "requests", "lag", "restarts"}
    MaxEdits = 3
INVARIANTS NeverForgotten TornDown
PROPERTIES Converges
