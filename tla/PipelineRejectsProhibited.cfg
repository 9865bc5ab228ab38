SPECIFICATION Spec
CONSTANTS
  MaxIds = 1
  Countries <- MCCountries
PROPERTY PipelineRejectsProhibited
