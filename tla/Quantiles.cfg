SPECIFICATION SamplesSpec
CONSTANTS
  Latencies = {1, 501, 900}
  Runs = 45
INVARIANTS
  FormulasAgree
PROPERTIES
  SlowerRunNeverHelps
