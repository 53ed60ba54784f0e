SPECIFICATION Spec
CONSTANTS
    Reqs = {r1, r2, r3}
    Variants = {v, w}
    Formats = {"png", "avif", "webp", "pdf"}
    Installations = {{"avifenc", "magick"}, {"avifenc"}}
    MaxSize = 2
SYMMETRY RequestSymmetry
INVARIANTS
    CacheCoherent
    ServedAsAsked
    CacheBounded
    TempFilesOwned
