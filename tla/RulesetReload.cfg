\* Two workers, edits and signals in the middle of reloads.
SPECIFICATION ReloadSpec
CONSTANTS
    ReloadWorkers = 2
    MaxEdits = 2
INVARIANTS
    OneRuleset
PROPERTIES
    NoOldRuleset
    ReloadTakesEffect
