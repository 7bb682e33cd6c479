SPECIFICATION Spec
CONSTANTS
  loc = loc
  cat = cat
  item = item
  copy = copy
  gram = gram
  milk = milk
  drink = drink
  syrup = syrup
  base = base
  anna = anna
  store = store
  bar = bar
  Resource = {loc, cat, item, copy, gram, milk, drink, syrup, anna, bar}
  Kind <- MCKind
  Seed <- MCSeed
  Tab = {t1}
  Nothing = Nothing
  MaxDocuments = 4
  Switched = {syrup}
INVARIANTS
  
  ExpansionCorrect
