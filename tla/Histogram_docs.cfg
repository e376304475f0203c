\* Few samples and few bits: neither holds; TLC reports both with -continue.
CONSTANTS
  h1 = h1  h2 = h2
  Histograms = {h1, h2}  Shapes <- MCShapes
  Values = {0, 4, 7, 8, 17, 19, 31}
  Percentiles = {0, 1, 25, 50, 75, 99, 100}
  WordBits = 5  MaxSamples = 2
SPECIFICATION Spec
SYMMETRY Symmetry
INVARIANTS ThreeBitsGiveSixPercent NeverLower
