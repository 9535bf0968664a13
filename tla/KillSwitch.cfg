\* Two toggles that overlap, two firings; crashes, lost answers and failing reads.
SPECIFICATION SwitchSpec
CONSTANTS
    Toggles = {t1, t2}
    Hooks = {h1, h2}
SYMMETRY RequestSymmetry
INVARIANTS PauseHonoured ResumeHonoured CacheMatchesRow
