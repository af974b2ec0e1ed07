\* proxprofiler with the default --runs=-1.
SPECIFICATION Spec
CONSTANTS
  VMs = {v1}
  Runs <- DefaultRuns
PROPERTY ProfilesMeasured
