CONSTANTS
    Workers = {w1, w2}
    Timers = {t1, t2, t3}
    NoTimer = NoTimer
    Threshold = 2
    Target = 3
SPECIFICATION BreakerFairSpec
PROPERTIES OpenIsRetried
