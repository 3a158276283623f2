CONSTANTS
    Groups = {economy}
    Attrs = {fiat, seat}
    Codes = {EDMR, CDMR}
    None = None
    MaxScrapes = 4
SPECIFICATION CatalogSpec
INVARIANTS
    CertainCodeFits
PROPERTY ScrapeKeepsCodes
