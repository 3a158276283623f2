SPECIFICATION Spec
CONSTANTS
  NoValue = NoValue
  MinCards = 2
  Tolerance = 2
  b1 = b1
  t1 = t1
  i1 = i1
  Builders <- MCBuilders
  Tuners <- MCTuners
  Importers <- MCImporters
  Documents <- MCDocuments
  Layouts <- MCLayouts
  Listings <- MCListings
  Structures <- MCStructures
  MaxRedesigns = 2
INVARIANTS
  OneActiveRecipe
  NoPartIsAGuess
