SPECIFICATION FairSpec
CONSTANTS
    Configs = {"a", "b"}
    Elsewhere = {}
    Selectors = {"x"}
    Nodes = {"n"}
    Profiles = {}
    Images = {1}
    ManifestImage = 2
    Faults = {"none"}
    MaxEdits = 2
PROPERTIES FirstConfigKept
