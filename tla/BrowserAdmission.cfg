SPECIFICATION WorkSpec
CONSTANTS
  Jobs = {j1, j2}
  NoJob = NoJob
  Listed = 2
PROPERTIES NoReportWithoutAdmission
