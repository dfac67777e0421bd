SPECIFICATION Spec
CONSTANTS
    TokenSpace = 16
    Configs <- MCConfigs
    Lengths <- MCLengths
    MaxQuiet = 12
INVARIANTS
    TypeOK
    WithinCeiling
    NeverOverAdmits
    QuietBucketRefills
