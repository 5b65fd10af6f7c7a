CONSTANTS
    alpha = alpha
    beta = beta
    Workers = {w1, w2}
    Plugins = {alpha, beta}
    Manifest = Manifest
    Listed = {alpha, beta}
    Include = None
    Exclude = {beta}
    Overlap = TRUE
    Layouts = {"root", "path"}
    MaxVersions = 2
    MaxRetries = 2
    None = None
SPECIFICATION Spec
INVARIANTS TargetWhole
