\* Samples of every magnitude in two histograms that are merged and reset.
CONSTANTS
  h1 = h1  h2 = h2
  Histograms = {h1, h2}  Shapes <- MCShapes
  Values = {0, 4, 7, 8, 17, 19, 31}
  Percentiles = {0, 1, 25, 50, 75, 99, 100}
  WordBits = 5  MaxSamples = 3
SPECIFICATION Spec
SYMMETRY Symmetry
INVARIANTS SummarisesItsSamples PercentilesErrUpwards
