\* The default thresholds, from the first check on.
CONSTANTS
    Zero = FALSE
    ThresholdHealthy = 2
    ThresholdUnhealthy = 2
SPECIFICATION Spec
PROPERTY UnhealthyOnlyAfterCount
