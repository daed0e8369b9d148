CONSTANTS
    minReplicas = 1
    maxReplicas = 6
    itemsPerPod = 2
    cpuThreshold = 4
    memThreshold = 4
    Utilisation = {0, 2, 3, 5, 8}
    QueueDepth = {0, 4}
SPECIFICATION ScalingSpec
PROPERTY ScaleUpNeverShrinks
