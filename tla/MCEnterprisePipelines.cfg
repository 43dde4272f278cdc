SPECIFICATION PipelineSpec
CONSTANTS
  ann = ann
  bob = bob
PROPERTY LeadsStayInPipeline
CHECK_DEADLOCK FALSE
