\* Three handlers, three events or switches, filetypes of up to two keys.
CONSTANTS
    h1 = h1
    h2 = h2
    h3 = h3
    Handlers = {h1, h2, h3}
    MaxKeys = 2
    MaxActs = 3
SPECIFICATION Spec
SYMMETRY Symmetry
INVARIANTS NothingRaised OneAtWork TimesItsOwn NothingKept
